-------------------------------- MODULE Cookies --------------------------------
(***************************************************************************)
(* Cookie (cookie.go): the setters, AppendBytes and ParseBytes of a        *)
(* Set-Cookie value, and the Cookie line of a request.  A text is a        *)
(* sequence of bytes and words; the name of an attribute, a number and a   *)
(* date are words.                                                         *)
(* A definition D_Fault just before D is D with a plausible fault; no spec *)
(* uses it.                                                                *)
(***************************************************************************)
EXTENDS Integers, Sequences, SequencesExt, ByteText

CONSTANTS
  CookieKeys, CookieValues, CookieTexts,
  MaxCookies    \* bound: the cookies of a request

VARIABLES
  c,            \* the Cookie
  jar           \* the cookies of a RequestHeader: [key, value]

cookieVars == <<c, jar>>

\* expire: an absent one, a date, or one before 1601.
EmptyCookie == [key |-> <<>>, value |-> <<>>, expire |-> "zero", maxAge |-> 0, domain |-> <<>>,
                path |-> <<>>, sameSite |-> "disabled", httpOnly |-> FALSE, secure |-> FALSE,
                partitioned |-> FALSE]

Trim(s) ==
  LET in == {i \in DOMAIN s : s[i] # " "} IN
  IF in = {} THEN <<>>
  ELSE SubSeq(s, CHOOSE i \in in : \A j \in in : i <= j, CHOOSE i \in in : \A j \in in : i >= j)

\* decodeCookieArg.
DecodeCookieArg_KeepsSpaces(s, skipQuotes) ==
  IF skipQuotes /\ Len(s) > 1 /\ s[1] = "dq" /\ Last(s) = "dq" THEN SubSeq(s, 2, Len(s) - 1) ELSE s
DecodeCookieArg(s, skipQuotes) ==
  LET t == Trim(s) IN
  IF skipQuotes /\ Len(t) > 1 /\ t[1] = "dq" /\ Last(t) = "dq" THEN SubSeq(t, 2, Len(t) - 1) ELSE t

\* cookieScanner.next: up to ";", split at its first "=".
ScanCookie(s) ==
  LET e == IndexByte(s, "=") IN
  [key |-> IF e = 0 THEN <<>> ELSE DecodeCookieArg(Upto(s, e - 1), FALSE),
   value |-> DecodeCookieArg(From(s, e + 1), TRUE)]
RECURSIVE ScanCookies(_)
ScanCookies(s) ==
  LET n == IndexByte(s, ";") IN
  IF s = <<>> THEN <<>>
  ELSE IF n = 0 THEN <<ScanCookie(s)>> ELSE <<ScanCookie(Upto(s, n - 1))>> \o ScanCookies(From(s, n + 1))

\* The turns of the loop in ParseBytes: names in any case, unknown ones are skipped, a number
\* or date that cannot be parsed ends it with an error.
SameSites == "Lax" :> "lax" @@ "Strict" :> "strict" @@ "None" :> "none"
Attribute(k, a) ==
  CASE a.key = <<"Max-Age">> ->
         IF a.value \in {<<"0">>, <<"2">>}
         THEN [k EXCEPT !.c.maxAge = IF a.value = <<"2">> THEN 2 ELSE 0] ELSE [k EXCEPT !.ok = FALSE]
    [] a.key = <<"Expires">> ->
         IF a.value = <<"date">> THEN [k EXCEPT !.c.expire = "date"] ELSE [k EXCEPT !.ok = FALSE]
    [] a.key = <<"Domain">> -> [k EXCEPT !.c.domain = @ \o a.value]
    [] a.key = <<"Path">> -> [k EXCEPT !.c.path = @ \o a.value]
    [] a.key = <<"SameSite">> ->
         IF Len(a.value) = 1 /\ a.value[1] \in DOMAIN SameSites
         THEN [k EXCEPT !.c.sameSite = SameSites[a.value[1]]] ELSE k
    [] a.key = <<>> /\ a.value = <<"HttpOnly">> -> [k EXCEPT !.c.httpOnly = TRUE]
    [] a.key = <<>> /\ a.value = <<"Secure">> -> [k EXCEPT !.c.secure = TRUE]
    [] a.key = <<>> /\ a.value = <<"SameSite">> -> [k EXCEPT !.c.sameSite = "default"]
    [] a.key = <<>> /\ a.value = <<"Partitioned">> -> [k EXCEPT !.c.partitioned = TRUE]
    [] OTHER -> k
ParseCookie(s) ==
  LET all == ScanCookies(s)
      first == [ok |-> TRUE, c |-> [EmptyCookie EXCEPT !.key = all[1].key, !.value = all[1].value]] IN
  IF all = <<>> THEN [ok |-> FALSE, c |-> EmptyCookie]        \* errNoCookies
  ELSE FoldLeft(LAMBDA k, a : IF k.ok THEN Attribute(k, a) ELSE k, first, Tail(all))

\* AppendBytes.
Part(b, s) == IF b THEN <<";", " ">> \o s ELSE <<>>
SiteText == "default" :> <<"SameSite">> @@ "lax" :> <<"SameSite", "=", "Lax">>
            @@ "strict" :> <<"SameSite", "=", "Strict">> @@ "none" :> <<"SameSite", "=", "None">>
            @@ "disabled" :> <<>>
CookieText(k) ==
  (IF k.key = <<>> THEN <<>> ELSE k.key \o <<"=">>) \o k.value
    \o Part(k.maxAge > 0, <<"Max-Age", "=", "2">>) \o Part(k.maxAge < 0, <<"Max-Age", "=", "0">>)
    \o Part(k.expire = "date", <<"Expires", "=", "date">>)
    \o Part(k.domain # <<>>, <<"Domain", "=">> \o k.domain)
    \o Part(k.path # <<>>, <<"Path", "=">> \o k.path)
    \o Part(k.httpOnly, <<"HttpOnly">>) \o Part(k.secure, <<"Secure">>)
    \o Part(k.sameSite # "disabled", SiteText[k.sameSite])
    \o Part(k.partitioned, <<"Partitioned">>)

\* appendRequestCookieBytes and parseRequestCookies.
CookieLine(list) ==
  FoldLeftDomain(LAMBDA acc, i : acc \o (IF i = 1 THEN <<>> ELSE <<";", " ">>)
                   \o (IF list[i].key = <<>> THEN <<>> ELSE list[i].key \o <<"=">>) \o list[i].value,
                 <<>>, list)
ParseCookieLine(s) == SelectSeq(ScanCookies(s), LAMBDA kv : kv.key # <<>> \/ kv.value # <<>>)
-----------------------------------------------------------------------------
CookieTypeOK ==
  /\ c \in [key : CookieKeys \cup {<<"k">>}, value : Seq(STRING), expire : {"zero", "old", "date"}, maxAge : -1..2,
             domain : Seq(STRING), path : Seq(STRING),
             sameSite : DOMAIN SiteText, httpOnly : BOOLEAN, secure : BOOLEAN, partitioned : BOOLEAN]
  /\ Len(jar) <= MaxCookies

CookieInit == c = EmptyCookie /\ jar = <<>>

SetCookie(d) == jar = <<>> /\ c' = d /\ UNCHANGED jar

SetKeyValue == \E k \in CookieKeys, v \in CookieValues : SetCookie([c EXCEPT !.key = k, !.value = v])
SetMaxAge == \E n \in -1..2 : n # 1 /\ SetCookie([c EXCEPT !.maxAge = n])
SetExpire == \E d \in {"zero", "old", "date"} : SetCookie([c EXCEPT !.expire = d])
SetDomain == \E d \in {<<>>, <<"k">>} : SetCookie([c EXCEPT !.domain = d])
SetCookiePath == SetCookie([c EXCEPT !.path = NormalizePath(<<"k">>)])
SetHTTPOnly == \E b \in BOOLEAN : SetCookie([c EXCEPT !.httpOnly = b])
SetSecure == \E b \in BOOLEAN : SetCookie([c EXCEPT !.secure = b])
SetSameSite ==
  \E m \in DOMAIN SiteText : SetCookie([c EXCEPT !.sameSite = m, !.secure = @ \/ m = "none"])
SetPartitioned ==
  \E b \in BOOLEAN :
    SetCookie(IF b THEN [c EXCEPT !.partitioned = TRUE, !.secure = TRUE, !.path = <<"/">>]
              ELSE [c EXCEPT !.partitioned = FALSE])
ParseBytes ==
  /\ jar = <<>>
  /\ \E s \in CookieTexts : c' = ParseCookie(s).c
  /\ UNCHANGED jar

\* RequestHeader.SetCookie: setArg on the cookies of a request, which have no Cookie.
AddCookie ==
  /\ c = EmptyCookie /\ Len(jar) < MaxCookies
  /\ \E k \in CookieKeys, v \in CookieValues : jar' = SetArg(jar, [key |-> k, value |-> v])
  /\ UNCHANGED c

CookieNext ==
  \/ SetKeyValue \/ SetMaxAge \/ SetExpire \/ SetDomain \/ SetCookiePath \/ SetHTTPOnly \/ SetSecure
  \/ SetSameSite \/ SetPartitioned \/ ParseBytes \/ AddCookie

CookieSpec == CookieInit /\ [][CookieNext]_cookieVars
-----------------------------------------------------------------------------
(* Properties *)

\* What the text can carry: no byte in key and value that the text uses itself, no spaces or
\* quotes around them.
Carried(kv) ==
  /\ IndexByte(kv.key, "=") = 0 /\ IndexByte(kv.key, ";") = 0 /\ IndexByte(kv.value, ";") = 0
  /\ kv.key = <<>> => IndexByte(kv.value, "=") = 0
  /\ Trim(kv.key) = kv.key /\ DecodeCookieArg(kv.value, TRUE) = kv.value
Present(k) == [k EXCEPT !.maxAge = IF @ < 0 THEN 0 ELSE @, !.expire = IF @ = "old" THEN "zero" ELSE @]

\* CookieTypeOK, and: a cookie is parsed as it was written, with every attribute in every
\* combination, and the cookies of a request one by one, but for the one with neither key nor
\* value.  A negative MaxAge is written as 0, which is parsed as none.
CookieRoundTrip ==
  /\ CookieTypeOK
  /\ Carried(c) /\ (c.key # <<>> \/ c.value # <<>>) =>
       ParseCookie(CookieText(c)) = [ok |-> TRUE, c |-> Present(c)]
  /\ (\A i \in DOMAIN jar : Carried(jar[i])) =>
       ParseCookieLine(CookieLine(jar)) = SelectSeq(jar, LAMBDA kv : kv.key # <<>> \/ kv.value # <<>>)
===============================================================================
