----------------------------- MODULE HeaderFields -----------------------------
(***************************************************************************)
(* The fields of RequestHeader and ResponseHeader: the fields that have a  *)
(* place of their own (one stands for Content-Type, Host, User-Agent,      *)
(* Server and Content-Encoding), Connection, cookies, trailers, and the    *)
(* list h.h of all the others; Set, Add, Del and their variants, CopyTo,   *)
(* Reset, and the lines that AppendBytes and TrailerHeader write.          *)
(* A cookie is a pair of a name and a value.  The keys of h.trailer live in*)
(* byte arrays, which allocArg uses again and CopyTo may share.            *)
(* The length fields are in MessageFraming.                                *)
(* A definition D_Fault just before D is D with a plausible fault; no spec *)
(* uses it.                                                                *)
(***************************************************************************)
EXTENDS Integers, Sequences, SequencesExt, FiniteSets

CONSTANTS
  Headers,      \* the header objects
  Plain,        \* keys without a place of their own
  Values,       \* values of a field or a cookie
  CookieNames,
  MaxOps,       \* bound: operations
  MaxTrailers   \* bound: announced trailers of a header

VARIABLES
  isRequest,    \* RequestHeader, or ResponseHeader
  hdr,          \* the fields of each header
  arrays,       \* the byte arrays of h.trailer's backing array, per header
  content,      \* what each byte array holds
  want,         \* what the operations asked for
  ops           \* how many there were

vars == <<isRequest, hdr, arrays, content, want, ops>>

None == "none"
Special == "Content-Type"
Keys == Plain \cup {Special, "Connection", "Cookie"}
Pairs == [n : CookieNames, v : Values]

EmptyHeader ==
  [special |-> <<>>, close |-> FALSE, h |-> <<>>, cookies |-> <<>>, collected |-> FALSE,
   trailers |-> 0, chunked |-> FALSE]
EmptyWant ==
  [field |-> [k \in Plain \cup {Special, "Connection"} |-> <<>>], cookies |-> <<>>,
   trailer |-> <<>>]

Init ==
  /\ isRequest \in BOOLEAN
  /\ hdr = [m \in Headers |-> EmptyHeader]
  /\ arrays = [m \in Headers |-> <<>>]
  /\ content = <<>>
  /\ want = [m \in Headers |-> EmptyWant]
  /\ ops = 0

\* h.trailer
Trailer(m) == [i \in 1..hdr[m].trailers |-> content[arrays[m][i]]]

TypeOK ==
  /\ isRequest \in BOOLEAN
  /\ \A m \in Headers :
       /\ hdr[m].close \in BOOLEAN
       /\ hdr[m].collected \in BOOLEAN
       /\ hdr[m].trailers \in 0..Len(arrays[m])
       /\ Range(arrays[m]) \subseteq DOMAIN content
  /\ Range(content) \subseteq Plain
  /\ ops \in 0..MaxOps
-----------------------------------------------------------------------------
(* Lists of key-value pairs: args.go *)

Entry(k, v) == [k |-> k, v |-> v]
DelAll(list, ks) == SelectSeq(list, LAMBDA e : e.k \notin ks)

\* The first of the entries with the key gets the value; the others keep theirs.
SetArg(list, e, same) ==
  IF same = {} THEN Append(list, e)
  ELSE [list EXCEPT ![CHOOSE i \in same : \A j \in same : i <= j] = e]

SetField(list, k, v) == SetArg(list, Entry(k, v), {i \in DOMAIN list : list[i].k = k})
SetPair(list, p) == SetArg(list, p, {i \in DOMAIN list : list[i].n = p.n})
DelField(list, k) == DelAll(list, {k})
DelPair(list, n) == SelectSeq(list, LAMBDA q : q.n # n)
PeekAll(list, k) ==
  LET found == SelectSeq(list, LAMBDA e : e.k = k) IN [i \in DOMAIN found |-> found[i].v]
-----------------------------------------------------------------------------
(* One header *)

\* Cookie lines of h.h are moved to h.cookies, once.
CollectCookies_Keeps(x) ==
  IF x.collected THEN x
  ELSE [x EXCEPT !.cookies = @ \o PeekAll(x.h, "Cookie"), !.collected = TRUE]

CollectCookies(x) ==
  IF x.collected THEN x
  ELSE [x EXCEPT !.cookies = @ \o PeekAll(x.h, "Cookie"),
                 !.h = DelField(@, "Cookie"),
                 !.collected = TRUE]
Collected(x) == IF isRequest THEN CollectCookies(x) ELSE x

ResetConnectionClose_KeepsOther(x) == [x EXCEPT !.close = FALSE]

ResetConnectionClose(x) ==
  IF x.close THEN [x EXCEPT !.close = FALSE, !.h = DelField(@, "Connection")] ELSE x

\* setSpecialHeader for Connection, whether it is set or added.
SetConnection(x, v) ==
  IF v = "close" THEN [x EXCEPT !.close = TRUE]
  ELSE LET y == ResetConnectionClose(x) IN [y EXCEPT !.h = SetField(@, "Connection", v)]

Del(x, k) ==
  LET y == CASE k = Special -> [x EXCEPT !.special = <<>>]
             [] k = "Cookie" -> [x EXCEPT !.cookies = <<>>]
             [] k = "Connection" -> [x EXCEPT !.close = FALSE]
             [] OTHER -> x IN
  [y EXCEPT !.h = DelField(@, k)]
-----------------------------------------------------------------------------
(* The operations of a header, and what they ask for *)

Step(m, x, w) ==
  /\ ops < MaxOps
  /\ ops' = ops + 1
  /\ hdr' = [hdr EXCEPT ![m] = x]
  /\ want' = [want EXCEPT ![m] = w]
  /\ UNCHANGED isRequest

Ask(m, k, vs) == [want[m] EXCEPT !.field[k] = vs]

\* Set, SetBytesK, SetCanonical, ...: setSpecialHeader, then setNonSpecial.
Set(m) ==
  /\ \/ \E k \in Plain, v \in Values :
          Step(m, [hdr[m] EXCEPT !.h = SetField(@, k, v)],
               Ask(m, k, <<v>> \o IF want[m].field[k] = <<>> THEN <<>> ELSE Tail(want[m].field[k])))
     \/ \E v \in Values : Step(m, [hdr[m] EXCEPT !.special = <<v>>], Ask(m, Special, <<v>>))
     \/ \E v \in {"close", "other"} : Step(m, SetConnection(hdr[m], v), Ask(m, "Connection", <<v>>))
     \/ \E p \in Pairs : Step(m, [Collected(hdr[m]) EXCEPT !.cookies = <<p>>],
                              [want[m] EXCEPT !.cookies = <<p>>])
  /\ UNCHANGED <<arrays, content>>

\* Add and its variants: only a plain field and a cookie can be there twice (of cookies the
\* comments say otherwise: CookieIsSetOnce).  Of a key with a place of its own it is Set.
Add(m) ==
  /\ \/ \E k \in Plain, v \in Values :
          Step(m, [hdr[m] EXCEPT !.h = Append(@, Entry(k, v))], Ask(m, k, Append(want[m].field[k], v)))
     \/ \E p \in Pairs : Step(m, [Collected(hdr[m]) EXCEPT !.cookies = Append(@, p)],
                              [want[m] EXCEPT !.cookies = Append(@, p)])
  /\ UNCHANGED <<arrays, content>>

DelKey(m) ==
  /\ \E k \in Keys :
       Step(m, Del(hdr[m], k), IF k = "Cookie" THEN [want[m] EXCEPT !.cookies = <<>>]
                               ELSE Ask(m, k, <<>>))
  /\ UNCHANGED <<arrays, content>>

SetConnectionClose(m) ==
  /\ Step(m, [hdr[m] EXCEPT !.close = TRUE], Ask(m, "Connection", <<"close">>))
  /\ UNCHANGED <<arrays, content>>

ClearConnectionClose(m) ==
  /\ Step(m, ResetConnectionClose(hdr[m]),
          IF want[m].field["Connection"] = <<"close">> THEN Ask(m, "Connection", <<>>) ELSE want[m])
  /\ UNCHANGED <<arrays, content>>

\* SetCookie, DelCookie, DelClientCookie, DelAllCookies; Cookie and VisitAllCookie only collect.
SetCookie(m) ==
  /\ \/ \E p \in Pairs : Step(m, [Collected(hdr[m]) EXCEPT !.cookies = SetPair(@, p)],
                              [want[m] EXCEPT !.cookies = SetPair(@, p)])
     \/ \E n \in CookieNames : Step(m, [Collected(hdr[m]) EXCEPT !.cookies = DelPair(@, n)],
                                    [want[m] EXCEPT !.cookies = DelPair(@, n)])
     \/ /\ ~isRequest
        /\ \E n \in CookieNames :
             LET gone == [n |-> n, v |-> "expired"] IN
             Step(m, [hdr[m] EXCEPT !.cookies = Append(DelPair(@, n), gone)],
                  [want[m] EXCEPT !.cookies = Append(DelPair(@, n), gone)])
     \/ isRequest /\ Step(m, CollectCookies(hdr[m]), want[m])
  /\ UNCHANGED <<arrays, content>>

\* SetTrailer and AddTrailer of one key that is not forbidden: appendArg writes the key into
\* the array that allocArg finds in the backing array, or into a new one.
AnnounceTrailer(m) ==
  \E t \in Plain, add \in BOOLEAN :
    LET n == IF add THEN hdr[m].trailers ELSE 0 IN
    /\ n < MaxTrailers
    /\ Step(m, [hdr[m] EXCEPT !.trailers = n + 1],
            [want[m] EXCEPT !.trailer = Append(IF add THEN @ ELSE <<>>, t)])
    /\ IF n < Len(arrays[m])
       THEN /\ content' = [content EXCEPT ![arrays[m][n + 1]] = t]
            /\ UNCHANGED arrays
       ELSE /\ content' = Append(content, t)
            /\ arrays' = [arrays EXCEPT ![m] = Append(@, Len(content) + 1)]

\* SetContentLength(-1) or SetBodyStream(r, -1), and back.
SetChunked(m) ==
  /\ Step(m, [hdr[m] EXCEPT !.chunked = ~@], want[m])
  /\ UNCHANGED <<arrays, content>>

\* A header that was read from a connection: all its lines but the special ones are in h.h.
Read(m) ==
  /\ \E p \in Pairs, k \in Plain, v \in Values :
       Step(m, [EmptyHeader EXCEPT !.h = IF isRequest THEN <<Entry("Cookie", p), Entry(k, v)>>
                                         ELSE <<Entry(k, v)>>,
                                   !.cookies = IF isRequest THEN <<>> ELSE <<p>>],
            [EmptyWant EXCEPT !.cookies = <<p>>, !.field[k] = <<v>>])
  /\ UNCHANGED <<arrays, content>>

Reset(m) == Step(m, EmptyHeader, EmptyWant) /\ UNCHANGED <<arrays, content>>

\* copyArgs: the keys go to arrays of the copy's own.
CopiedTrailer(from, to) ==
  LET n == hdr[from].trailers
      own == Len(arrays[to]) IN
  [arrays |-> [i \in 1..IF n > own THEN n ELSE own |->
                 IF i <= own /\ n <= own THEN arrays[to][i] ELSE Len(content) + i],
   fresh |-> IF n > own THEN n ELSE 0]

\* CopyTo: a ResponseHeader copies the trailer's keys, a RequestHeader the slices that
\* hold them, so that both headers have the same arrays.
CopyTo(from, to) ==
  LET n == hdr[from].trailers
      own == Len(arrays[to])
      copied == CopiedTrailer(from, to) IN
  /\ from # to
  /\ Step(to, hdr[from], want[from])
  /\ IF isRequest
     THEN /\ arrays' = [arrays EXCEPT ![to] = SubSeq(arrays[from], 1, n) \o
                          IF n > own THEN <<>> ELSE SubSeq(@, n + 1, own)]
          /\ UNCHANGED content
     ELSE /\ arrays' = [arrays EXCEPT ![to] = copied.arrays]
          /\ content' = [i \in 1..Len(content) + copied.fresh |->
               IF \E j \in 1..n : copied.arrays[j] = i
               THEN Trailer(from)[CHOOSE j \in 1..n : copied.arrays[j] = i]
               ELSE content[i]]

Next ==
  \E m \in Headers :
    \/ Set(m) \/ Add(m) \/ DelKey(m) \/ SetConnectionClose(m) \/ ClearConnectionClose(m)
    \/ SetCookie(m) \/ AnnounceTrailer(m) \/ SetChunked(m) \/ Read(m) \/ Reset(m)
    \/ \E to \in Headers : CopyTo(m, to)

Spec == Init /\ [][Next]_vars
-----------------------------------------------------------------------------
(* What is written: AppendBytes and TrailerHeader *)

\* The trailers are left out of the header: always in a request, of a response that is chunked.
Excluded(m) == IF isRequest \/ hdr[m].chunked THEN Range(Trailer(m)) ELSE {}

HeaderLines_All(m) ==
  (IF hdr[m].special = <<>> THEN <<>> ELSE <<Entry(Special, hdr[m].special[1])>>)
  \o hdr[m].h
  \o [i \in DOMAIN hdr[m].cookies |-> Entry("Cookie", hdr[m].cookies[i])]
  \o IF hdr[m].close THEN <<Entry("Connection", "close")>> ELSE <<>>

HeaderLines(m) ==
  (IF hdr[m].special = <<>> THEN <<>> ELSE <<Entry(Special, hdr[m].special[1])>>)
  \o DelAll(hdr[m].h, Excluded(m))
  \o [i \in DOMAIN hdr[m].cookies |-> Entry("Cookie", hdr[m].cookies[i])]
  \o IF hdr[m].close THEN <<Entry("Connection", "close")>> ELSE <<>>

\* One line for every announced key, with the first value of the key or an empty one.
TrailerLines(m) ==
  [i \in 1..hdr[m].trailers |->
     LET vs == PeekAll(hdr[m].h, Trailer(m)[i]) IN
     Entry(Trailer(m)[i], IF vs = <<>> THEN None ELSE vs[1])]

\* No array of two headers: nobody else wrote this header's trailer.
Own(m) == \A o \in Headers \ {m} : Range(arrays[m]) \cap Range(arrays[o]) = {}

\* TypeOK, and: through any sequence of Set, Add, Del, the cookie and Connection operations,
\* reading, copying and resetting, AppendBytes and TrailerHeader write exactly what was asked
\* for: every value of a field in order, the cookies however many of them still are lines of
\* h.h, the last word on Connection, and a field that was announced as a trailer not in the
\* header but with its first value after the body.  A header whose trailer keys are in arrays
\* of its own announces what it was told to.  What Add asks for is what the code makes of it:
\* one more cookie, where its comment promises to overwrite the others (CookieIsSetOnce).
WrittenAsSet ==
  /\ TypeOK
  /\ \A m \in Headers :
       /\ \A k \in (Plain \cup {Special}) \ Excluded(m) :
            PeekAll(HeaderLines(m), k) = want[m].field[k]
       /\ PeekAll(HeaderLines(m), "Cookie") = want[m].cookies
       /\ LET lines == PeekAll(HeaderLines(m), "Connection") IN
          IF want[m].field["Connection"] = <<>> THEN lines = <<>>
          ELSE lines # <<>> /\ Last(lines) = Last(want[m].field["Connection"])
       /\ \A k \in Excluded(m) :
            /\ PeekAll(HeaderLines(m), k) = <<>>
            /\ want[m].field[k] # <<>> => Head(want[m].field[k]) \in Range(PeekAll(TrailerLines(m), k))
       /\ Own(m) => Trailer(m) = want[m].trailer
-----------------------------------------------------------------------------
(* What the documentation says and the code does not do *)

\* "Use Set for setting a single header for the given key." (header.go, Add)
SetIsSingle ==
  [][\A m \in Headers, k \in Plain :
       LET old == want[m].field[k]
           new == want'[m].field[k] IN
       /\ old # new
       /\ Len(old) = Len(new)
       /\ \A o \in Headers : want[o].field[k] # new
       => PeekAll(hdr'[m].h, k) = <<new[1]>>]_vars

\* "the [...] Set-Cookie [...] headers can only be set once and will overwrite the previous
\* value" (header.go, ResponseHeader.Add), and Cookie in RequestHeader.Add.
CookieIsSetOnce ==
  [][\A m \in Headers : Add(m) /\ hdr'[m].cookies # hdr[m].cookies => Len(hdr'[m].cookies) = 1]_vars

\* "CopyTo copies all the headers to dst." (header.go, RequestHeader.CopyTo): the copy's
\* trailer is the other header's, and changes with it.
CopyIsIndependent == \A m \in Headers : Trailer(m) = want[m].trailer

\* "If the header is set as a Trailer [...], it will be sent after the chunked response
\* body" and "Multiple headers with the same key may be added" (header.go, Add).
TrailerIsComplete ==
  \A m \in Headers : hdr[m].chunked => \A k \in Excluded(m) :
    Range(want[m].field[k]) \subseteq Range(PeekAll(TrailerLines(m), k))
===============================================================================
