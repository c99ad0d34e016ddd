--------------------------------- MODULE URIs ---------------------------------
(***************************************************************************)
(* A URI (uri.go) under Parse, Update, the setters, its query arguments    *)
(* and a redirect of the client; ByteText has what these do.               *)
(***************************************************************************)
EXTENDS Integers, Sequences, SequencesExt, ByteText

CONSTANTS
  Bases,        \* texts that are parsed to begin with
  Updates,      \* texts given to Update
  Locations,    \* of redirects
  Paths,        \* given to SetPath
  MaxURIOps     \* bound: operations after Parse

VARIABLES
  u,
  ok,           \* no error so far
  base,         \* the URI before the last Update
  by,           \* the text of the last Update, <<>> after another operation
  redirect,     \* the last redirect of a HostClient: whether it left the host or the scheme
  uriOps

uriVars == <<u, ok, base, by, redirect, uriOps>>

URITypeOK ==
  /\ ok \in BOOLEAN
  /\ DOMAIN u = DOMAIN EmptyURI
  /\ u.parsed \in BOOLEAN
  /\ redirect \in {"none", "same", "host", "scheme"}
  /\ uriOps \in 0..MaxURIOps

URIInit ==
  /\ \E r \in {ParseURI(<<>>, t, FALSE) : t \in Bases} : u = r.u /\ ok = r.ok
  /\ base = u
  /\ by = <<>>
  /\ redirect = "none"
  /\ uriOps = 0

URIOp == ok /\ uriOps < MaxURIOps /\ uriOps' = uriOps + 1

Update(t) ==
  /\ URIOp
  /\ \E r \in {UpdateURI(u, t)} : u' = r.u /\ ok' = r.ok
  /\ base' = u
  /\ by' = t
  /\ redirect' = "none"

Set(v) ==
  /\ URIOp
  /\ u' = v
  /\ base' = v
  /\ by' = <<>>
  /\ redirect' = "none"
  /\ UNCHANGED ok

SetPath == \E p \in Paths : Set(WithPath(u, p))
SetHash == Set([u EXCEPT !.hash = <<"k", "#">>])
SetQueryString == Set([u EXCEPT !.query = <<"k", "=", "k">>, !.parsed = FALSE])
SetHost == Set([u EXCEPT !.host = Lowercase(<<"K">>)])
SetScheme == Set([u EXCEPT !.scheme = <<"https">>])

\* QueryArgs parses once; the arguments are the caller's to change.
Parsed(v) == IF v.parsed THEN v ELSE [v EXCEPT !.parsed = TRUE, !.args = ParseArgs(v.query)]
AddQueryArg == Set([Parsed(u) EXCEPT !.args = Append(@, KV(<<"&">>, <<"#">>))])
DelQueryArg == Set([Parsed(u) EXCEPT !.args = DelAllArgs(@, <<"k">>)])

\* A request is redirected: the next one is to the URI that the text is parsed to.
Redirect(t, check, raw) ==
  /\ URIOp
  /\ \E r \in {RedirectURL(FullURI(u), t, check, raw)} :
       /\ r.err = "nil"
       /\ \E next \in {ParseURI(<<>>, r.url, FALSE)} :
            /\ u' = next.u /\ base' = next.u
            /\ ok' = next.ok
            /\ redirect' = IF ~check THEN "none"
                           ELSE IF next.u.host # u.host THEN "host"
                           ELSE IF Scheme(next.u) # Scheme(u) THEN "scheme" ELSE "same"
  /\ by' = <<>>

URINext ==
  \/ \E t \in Updates : Update(t)
  \/ \E t \in Locations, check, raw \in BOOLEAN : Redirect(t, check, raw)
  \/ SetPath \/ SetHash \/ SetQueryString \/ SetHost \/ SetScheme \/ AddQueryArg \/ DelQueryArg

URISpec == URIInit /\ [][URINext]_uriVars
-----------------------------------------------------------------------------
(* Properties *)

\* What a normal path is, from its segments: empty ones and "." are left out, ".." takes the
\* one before it away; the last one keeps its "." and its slash.
RECURSIVE Segments(_)
Segments(p) ==
  LET n == IndexByte(p, "/") IN IF n = 0 THEN <<p>> ELSE <<Upto(p, n - 1)>> \o Segments(From(p, n + 1))
Resolved(p) ==
  LET segs == Segments(DecodeNoPlus(p))
      pop(st) == IF st = <<>> THEN <<>> ELSE Upto(st, Len(st) - 1)
      dirs == FoldLeft(LAMBDA st, x : IF x = <<>> \/ x = <<".">> THEN st
                                      ELSE IF x = <<".", ".">> THEN pop(st) ELSE Append(st, x),
                       <<>>, Upto(segs, Len(segs) - 1))
      up == Last(segs) = <<".", ".">>
      text(st) == FoldLeft(LAMBDA acc, x : acc \o <<"/">> \o x, <<>>, st) IN
  text(IF up THEN pop(dirs) ELSE dirs) \o <<"/">> \o IF up THEN <<>> ELSE Last(segs)

View(v) == [scheme |-> Scheme(v), host |-> v.host, path |-> Path(v), query |-> QueryOf(v), hash |-> v.hash]

\* URITypeOK, and: a URI is written as it is.  FullURI is parsed into the same scheme, host,
\* path, query and hash, whatever bytes the path and the arguments have; but a "%" that the
\* host got from "%25" is not escaped again, and Update takes "?a#b" for a query alone.  The
\* path is the normal form of what was set.
WritesItself ==
  LET again == ParseURI(<<>>, FullURI(u), FALSE) IN
  /\ URITypeOK
  /\ ok /\ IndexByte(u.host, "%") = 0 /\ IndexByte(u.query, "#") = 0 => again.ok /\ View(again.u) = View(u)
  /\ ok => Path(u) = Resolved(u.pathOriginal)

\* The parts of a reference without scheme and host.
PathPart(t) ==
  LET ends == {i \in DOMAIN t : t[i] \in {"?", "#"}} IN
  IF ends = {} THEN t ELSE Upto(t, (CHOOSE i \in ends : \A j \in ends : i <= j) - 1)
Dir(v) == Upto(Path(v), LastIndex(Path(v), <<"/">>))

\* Update resolves a reference as its documentation says: one without host leaves scheme and
\* host alone, a relative path is resolved in the directory of the old one.  For the ones
\* with "//" see UpdateKeepsHost.
UpdateResolves ==
  ok /\ by # <<>> /\ Index(by, <<"/", "/">>) = 0 /\ IndexByte(base.host, "%") = 0 =>
    /\ Scheme(u) = Scheme(base) /\ u.host = base.host
    /\ Path(u) = CASE PathPart(by) = <<>> -> Path(base)
                   [] PathPart(by) # <<>> /\ by[1] = "/" -> Resolved(PathPart(by))
                   [] OTHER -> Resolved(QuotedPath(Dir(base)) \o PathPart(by))
-----------------------------------------------------------------------------
(* What the documentation says and the code does not do *)

\* "Missing host, i.e. /aaa/bb?cc . In this case only RequestURI part of the original uri is
\* replaced.": not when "//" is somewhere in it, as in a query with a URL.
UpdateKeepsHost ==
  ok /\ by # <<>> /\ by[1] = "/" /\ Index(by, <<"/", "/">>) # 1 => u.host = base.host

\* "HostClients are only able to follow redirects to the same host." and "[...] to the same
\* protocol." (client.go): to any host that the old one begins with, and to any protocol
\* whose name is as long.
HostClientStays == redirect # "host"
HostClientKeepsScheme == redirect # "scheme"

\* "QueryArgs returns query args.": when all of them are deleted, the URI is written with the
\* old query string.
ArgsAreTheQuery == u.parsed => QueryOf(u) = QueryString(u.args)
===============================================================================
