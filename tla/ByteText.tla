------------------------------- MODULE ByteText -------------------------------
(***************************************************************************)
(* The text algorithms of args.go, bytesconv.go and uri.go: escapes, lists *)
(* of arguments and their query string, the normal form of a path, a URI   *)
(* taken apart and put together.  A text is a sequence of bytes and        *)
(* escapes; an escape is one token, a "%" that begins none is the byte     *)
(* itself.  "k" stands for the bytes that are not special to anything here *)
(* and are no hexadecimal digits, "K" for its upper case, "1" for a digit, *)
(* "http", "https" and "sftp" for these words.                             *)
(* A definition D_Fault just before D is D with a plausible fault; no spec *)
(* uses it.                                                                *)
(***************************************************************************)
EXTENDS Integers, Sequences, SequencesExt, TLC

\* bytesconv: the escape of a byte.
EscapeOf ==
  "=" :> "%3D" @@ "&" :> "%26" @@ "+" :> "%2B" @@ "%" :> "%25" @@ " " :> "%20" @@ "/" :> "%2F"
  @@ "?" :> "%3F" @@ "#" :> "%23" @@ ":" :> "%3A" @@ "@" :> "%40" @@ "*" :> "%2A"
Unescaped(t) == CHOOSE c \in DOMAIN EscapeOf : EscapeOf[c] = t
IsEscape(t) == \E c \in DOMAIN EscapeOf : EscapeOf[c] = t

\* decodeArgAppend; decodeArgAppendNoPlus leaves "+" alone.
DecodeByte(t, plus) ==
  IF IsEscape(t) THEN Unescaped(t) ELSE IF plus /\ t = "+" THEN " " ELSE t
DecodeArg(s) == [i \in DOMAIN s |-> DecodeByte(s[i], TRUE)]
DecodeNoPlus(s) == [i \in DOMAIN s |-> DecodeByte(s[i], FALSE)]

\* AppendQuotedArg: of the bytes here only "k" and "." are not escaped.
QuoteByte_Plus(c) ==
  IF c = " " THEN "+" ELSE IF c \in DOMAIN EscapeOf \ {"+"} THEN EscapeOf[c] ELSE c
QuoteByte(c) ==
  IF c = " " THEN "+" ELSE IF c \in DOMAIN EscapeOf THEN EscapeOf[c] ELSE c
QuotedArg(s) == [i \in DOMAIN s |-> QuoteByte(s[i])]
-----------------------------------------------------------------------------
(* The operations on the list *)

KV(k, v) == [key |-> k, value |-> v, noValue |-> FALSE]
KeyOnly(k) == [key |-> k, value |-> <<>>, noValue |-> TRUE]

\* setArg replaces the first one with the key, or appends.
SetArg(list, kv) ==
  LET same == {i \in DOMAIN list : list[i].key = kv.key} IN
  IF same = {} THEN Append(list, kv)
  ELSE [list EXCEPT ![CHOOSE i \in same : \A j \in same : i <= j] = kv]
DelAllArgs(list, k) == SelectSeq(list, LAMBDA e : e.key # k)
PeekArg(list, k) ==
  LET same == {i \in DOMAIN list : list[i].key = k} IN
  IF same = {} THEN <<>> ELSE list[CHOOSE i \in same : \A j \in same : i <= j].value
-----------------------------------------------------------------------------
(* The text *)

\* The position of the first byte c, 0 without one.
IndexByte(s, c) ==
  IF \E i \in DOMAIN s : s[i] = c
  THEN CHOOSE i \in DOMAIN s : s[i] = c /\ \A j \in 1..i - 1 : s[j] # c ELSE 0

\* argsScanner.next: the argument up to "&", split at its first "=".
ScanArg(s) ==
  LET e == IndexByte(s, "=") IN
  IF e = 0 THEN KeyOnly(DecodeArg(s))
  ELSE KV(DecodeArg(SubSeq(s, 1, e - 1)), DecodeArg(SubSeq(s, e + 1, Len(s))))

\* ParseBytes keeps what has a key or a value.
RECURSIVE ParseArgs(_)
ParseArgs(s) ==
  IF s = <<>> THEN <<>>
  ELSE LET n == IndexByte(s, "&")
           kv == ScanArg(IF n = 0 THEN s ELSE SubSeq(s, 1, n - 1))
           rest == IF n = 0 THEN <<>> ELSE ParseArgs(SubSeq(s, n + 1, Len(s)))
       IN  IF kv.key = <<>> /\ kv.value = <<>> THEN rest ELSE <<kv>> \o rest

\* AppendBytes.
ArgText(kv) == QuotedArg(kv.key) \o IF kv.noValue THEN <<>> ELSE <<"=">> \o QuotedArg(kv.value)
QueryString(list) ==
  FoldLeftDomain(LAMBDA acc, i : acc \o (IF i = 1 THEN <<>> ELSE <<"&">>) \o ArgText(list[i]), <<>>, list)
-----------------------------------------------------------------------------
(* Paths *)

\* bytes.Index and bytes.LastIndex: the position where part begins, 0 without one.
Matches(s, part) == {i \in 1..Len(s) - Len(part) + 1 : SubSeq(s, i, i + Len(part) - 1) = part}
Index(s, part) ==
  LET at == Matches(s, part) IN IF at = {} THEN 0 ELSE CHOOSE i \in at : \A j \in at : i <= j
LastIndex(s, part) ==
  LET at == Matches(s, part) IN IF at = {} THEN 0 ELSE CHOOSE i \in at : \A j \in at : i >= j
Upto(s, n) == SubSeq(s, 1, n)
From(s, n) == SubSeq(s, n, Len(s))
Cut(s, i, j) == Upto(s, i - 1) \o From(s, j + 1)

\* The loops of normalizePath: "//" becomes "/", "/./" becomes "/", "/foo/../" becomes "/".
RECURSIVE DropSlashes(_)
DropSlashes(b) == LET n == Index(b, <<"/", "/">>) IN IF n = 0 THEN b ELSE DropSlashes(Cut(b, n, n))
RECURSIVE DropDots(_)
DropDots(b) == LET n == Index(b, <<"/", ".", "/">>) IN IF n = 0 THEN b ELSE DropDots(Cut(b, n, n + 1))
RECURSIVE DropDotDots(_)
DropDotDots(b) ==
  LET n == Index(b, <<"/", ".", ".", "/">>)
      nn == LastIndex(Upto(b, n - 1), <<"/">>) IN
  IF n = 0 THEN b ELSE DropDotDots(Cut(b, IF nn = 0 THEN 1 ELSE nn, n + 2))

\* A "/foo/.." at the end.
DropLast(b) ==
  LET n == LastIndex(b, <<"/", ".", ".">>)
      nn == LastIndex(Upto(b, n - 1), <<"/">>) IN
  IF n = 0 \/ n + 2 # Len(b) THEN b ELSE IF nn = 0 THEN <<"/">> ELSE Upto(b, nn)

\* addLeadingSlash, decodeArgAppendNoPlus and the loops.
NormalizePath(src) ==
  LET rooted == (IF src = <<>> \/ src[1] # "/" THEN <<"/">> ELSE <<>>) \o DecodeNoPlus(src) IN
  DropLast(DropDotDots(DropDots(DropSlashes(rooted))))

\* appendQuotedPath; a path is never "*" alone.
PathSafe == {"/", ":", "@", "&", "=", "+"}
QuotedPath(s) == [i \in DOMAIN s |->
  IF s[i] \in DOMAIN EscapeOf \ PathSafe THEN EscapeOf[s[i]] ELSE s[i]]
-----------------------------------------------------------------------------
(* URIs *)

EmptyURI == [scheme |-> <<>>, user |-> <<>>, password |-> <<>>, host |-> <<>>, pathOriginal |-> <<>>,
             path |-> <<>>, query |-> <<>>, hash |-> <<>>, args |-> <<>>, parsed |-> FALSE,
             DisablePathNormalizing |-> FALSE]
Scheme(u) == IF u.scheme = <<>> THEN <<"http">> ELSE u.scheme
Path(u) == IF u.path = <<>> THEN <<"/">> ELSE u.path
Lowercase(s) == [i \in DOMAIN s |-> IF s[i] = "K" THEN "k" ELSE s[i]]
WithPath(u, p) == [u EXCEPT !.pathOriginal = p, !.path = NormalizePath(p)]

SplitHostURI(host, uri) ==
  LET n == Index(uri, <<"/", "/">>)
      before == Upto(uri, n - 1)
      scheme == IF before # <<>> /\ Last(before) = ":" THEN Upto(before, Len(before) - 1) ELSE before
      rest == From(uri, n + 2)
      slash == IndexByte(rest, "/")
      nq == IndexByte(rest, "?")
      end == IF nq # 0 /\ (slash = 0 \/ nq < slash) THEN nq ELSE slash IN
  IF n = 0 \/ IndexByte(before, "/") # 0
  THEN [scheme |-> <<"http">>, host |-> host, uri |-> uri]
  ELSE IF end = 0 THEN [scheme |-> scheme, host |-> rest, uri |-> <<"/">>]
  ELSE [scheme |-> scheme, host |-> Upto(rest, end - 1), uri |-> From(rest, end)]

\* parseHost without IP literals: a port of digits, then unescape, which takes "%25" alone.
HostBytes == {"k", "K", "1", ".", ":", "=", "&", "+", "*", "http", "https", "sftp", "%25"}
ParseHost(h) ==
  LET c == LastIndex(h, <<":">>) IN
  [ok |-> /\ c # 0 => \A i \in c + 1..Len(h) : h[i] = "1"
          /\ \A i \in DOMAIN h : h[i] \in HostBytes,
   host |-> Lowercase([i \in DOMAIN h |-> IF h[i] = "%25" THEN "%" ELSE h[i]])]

\* The path up to "?" or "#", the query and the hash; a "?" after "#" is of the hash.
WithRequestURI(u, uri, q0, f) ==
  LET q == IF f # 0 /\ q0 > f THEN 0 ELSE q0
      end == IF f = 0 THEN Len(uri) ELSE f - 1 IN
  WithPath([u EXCEPT !.query = IF q = 0 THEN <<>> ELSE SubSeq(uri, q + 1, end),
                     !.hash = IF f = 0 THEN <<>> ELSE From(uri, f + 1)],
           Upto(uri, IF q = 0 THEN end ELSE q - 1))
WithUser(u, auth, colon) ==
  [u EXCEPT !.user = IF colon = 0 THEN auth ELSE Upto(auth, colon - 1),
            !.password = IF colon = 0 THEN <<>> ELSE From(auth, colon + 1)]

\* URI.parse after the scheme.  An error leaves what was set before it.
ParseHostOf(u, host, h, uri) ==
  IF ~h.ok THEN [ok |-> FALSE, u |-> [u EXCEPT !.host = host]]
  ELSE [ok |-> TRUE,
        u |-> WithRequestURI([u EXCEPT !.host = h.host], uri, IndexByte(uri, "?"), IndexByte(uri, "#"))]
ParseAuthority(u, authority, at, uri) ==
  LET host == From(authority, at + 1)
      auth == Upto(authority, at - 1) IN
  ParseHostOf(WithUser(u, auth, IndexByte(auth, ":")), host, ParseHost(host), uri)
ParseParts(scheme, authority, uri) ==
  ParseAuthority([EmptyURI EXCEPT !.scheme = scheme], authority, IndexByte(authority, "@"), uri)

\* URI.parse.  "^" is a control byte.
ParseURI(host0, uri0, isTLS) ==
  LET split == SplitHostURI(host0, uri0)
      https == <<"https">> IN
  IF IndexByte(uri0, "^") # 0 THEN [ok |-> FALSE, u |-> EmptyURI]
  ELSE IF host0 = <<>> \/ Index(uri0, <<":", "/", "/">>) # 0
  THEN ParseParts(IF isTLS THEN https ELSE Lowercase(split.scheme), split.host, split.uri)
  ELSE ParseParts(IF isTLS THEN https ELSE <<>>, host0, uri0)

\* The query that RequestURI writes: the arguments once they are parsed, unless there are none.
QueryOf(u) == IF u.parsed /\ u.args # <<>> THEN QueryString(u.args) ELSE u.query
SchemeHost(u) == Scheme(u) \o <<":", "/", "/">> \o u.host
RequestURI_Raw(u) ==
  (IF u.DisablePathNormalizing THEN u.pathOriginal ELSE Path(u))
    \o IF QueryOf(u) = <<>> THEN <<>> ELSE <<"?">> \o QueryOf(u)
RequestURI(u) ==
  (IF u.DisablePathNormalizing THEN u.pathOriginal ELSE QuotedPath(Path(u)))
    \o IF QueryOf(u) = <<>> THEN <<>> ELSE <<"?">> \o QueryOf(u)
FullURI(u) == SchemeHost(u) \o RequestURI(u) \o IF u.hash = <<>> THEN <<>> ELSE <<"#">> \o u.hash

\* updateBytes: with "//" anywhere the new URI is absolute.
UpdateURI_WholePath(u, new) ==
  IF new = <<>> THEN [ok |-> TRUE, u |-> u] ELSE ParseURI(<<>>, SchemeHost(u) \o QuotedPath(Path(u)) \o new, FALSE)
UpdateURI(u, new) ==
  LET absolute == ParseURI(<<>>, new, FALSE)
      dir == Upto(Path(u), LastIndex(Path(u), <<"/">>)) IN
  CASE new = <<>> -> [ok |-> TRUE, u |-> u]
    [] Index(new, <<"/", "/">>) # 0 ->
         IF absolute.ok /\ absolute.u.scheme = <<>>
         THEN [absolute EXCEPT !.u.scheme = u.scheme] ELSE absolute
    [] Index(new, <<"/", "/">>) = 0 /\ new # <<>> /\ new[1] = "/" ->
         ParseURI(<<>>, SchemeHost(u) \o new, FALSE)
    [] new # <<>> /\ new[1] = "?" /\ Index(new, <<"/", "/">>) = 0 ->
         [ok |-> TRUE, u |-> [u EXCEPT !.query = Tail(new), !.parsed = FALSE]]
    [] new # <<>> /\ new[1] = "#" /\ Index(new, <<"/", "/">>) = 0 ->
         [ok |-> TRUE, u |-> [u EXCEPT !.hash = Tail(new)]]
    [] OTHER -> ParseURI(<<>>, SchemeHost(u) \o QuotedPath(dir) \o new, FALSE)

\* getRedirectURL.  check: a HostClient that may not leave its host; raw: the new path stays as
\* it was given.  oldScheme is a slice of u.scheme's bytes, which Update writes the new scheme
\* over: what the comparison finds then is whether the two are as long.
SchemeLen(s) == CASE s = <<"https">> -> 5 [] s \in {<<"http">>, <<"sftp">>} -> 4 [] OTHER -> Len(s)
SchemeDiffers(old, new) ==
  IF old.scheme = <<>> \/ new.scheme = <<>> THEN Scheme(new) # Scheme(old)
  ELSE SchemeLen(new.scheme) # SchemeLen(old.scheme)
Redirected(base, old, new, check, raw) ==
  LET after == From(base, Len(Scheme(new)) + 4) IN
  IF check /\ SchemeDiffers(old, new) THEN [err |-> "scheme", url |-> <<>>]
  ELSE IF check /\ ~IsPrefix(new.host, after) THEN [err |-> "host", url |-> <<>>]
  ELSE [err |-> "nil", url |-> FullURI([new EXCEPT !.DisablePathNormalizing = raw])]
RedirectURL(base, location, check, raw) ==
  LET old == UpdateURI(EmptyURI, base).u IN
  Redirected(base, old, UpdateURI(old, location).u, check, raw)
===============================================================================
