------------------------------ MODULE HeaderRead ------------------------------
(***************************************************************************)
(* Reading a header or a trailer from a connection: Read, readLoop,        *)
(* ReadTrailer, tryRead and the parsers they call again and again on all   *)
(* that is buffered, until the header is complete.  The connection delivers*)
(* its bytes in segments of any size, and may end at any point.            *)
(* A line is the token of its name and value and the token "nl"; a folded  *)
(* value goes on after an "nl" with the token "more".  What follows the    *)
(* header is made of tokens of its own.                                    *)
(* A definition D_Fault just before D is D with a plausible fault; no spec *)
(* uses it.                                                                *)
(***************************************************************************)
EXTENDS Integers, Sequences, SequencesExt

CONSTANTS
  Heads,        \* the headers that are read, each a sequence of tokens without the blank line
  Rests,        \* what follows them on the connection, sequences of tokens
  BufSize       \* r.Size()

VARIABLES
  what,         \* what is read: a "request", a "response", or the trailer of one
  head, rest,   \* what the peer sends
  sent,         \* how much of it was read into the buffer
  buf,          \* what the bufio.Reader has buffered
  need,         \* the argument of the next Peek
  h,            \* the header that is filled
  result        \* "" while it is read, then how it ended

vars == <<what, head, rest, sent, buf, need, h, result>>

Kinds == {"request", "response", "reqtrailer", "resptrailer"}
IsTrailer == what \in {"reqtrailer", "resptrailer"}

Tok(k) == [k |-> k, v |-> 0]
NL == Tok("nl")
Wire == head \o <<NL>> \o rest
Names == {"clen", "te", "badte", "close", "keep", "cookie", "field", "forbidden"}
Colon(t) == t.k \in Names
-----------------------------------------------------------------------------
(* The header *)

\* resetSkipNormalize
EmptyHeader ==
  [firstLineLen |-> 0, http10 |-> FALSE, clen |-> 0, seen |-> FALSE, close |-> FALSE,
   fields |-> <<>>, cookies |-> <<>>]

Init ==
  /\ what \in Kinds
  /\ head \in Heads
  /\ rest \in Rests
  /\ IsTrailer <=> (head = <<>> \/ head[1].k \notin {"first", "badfirst"})
  /\ sent = 0
  /\ buf = <<>>
  /\ need = 1
  /\ h = EmptyHeader
  /\ result = ""

TypeOK ==
  /\ what \in Kinds
  /\ sent \in 0..Len(Wire)
  /\ Len(buf) <= BufSize
  /\ need \in 1..BufSize + 1
  /\ h.clen \in Int
  /\ h.close \in BOOLEAN
  /\ result \in {"", "ok", "invalid", "small", "eof"}

Find(at) == IF at = {} THEN 0 ELSE CHOOSE i \in at : \A j \in at : i <= j
NewLine(b, from, to) == Find({i \in from..to : b[i] = NL})

\* One header line enters the header; "" or the error that ends the parsing.
AddField(x, t) == [x EXCEPT !.fields = Append(@, t)]
ConnectionLine(x, t) ==
  IF t.k = "close" THEN [x EXCEPT !.close = TRUE]
  ELSE [AddField(x, t) EXCEPT !.close = FALSE]

ResponseLine(x, t) ==
  CASE t.k = "clen" -> <<IF x.clen # -1 THEN [x EXCEPT !.clen = t.v] ELSE x, "">>
    [] t.k \in {"close", "keep"} -> <<ConnectionLine(x, t), "">>
    [] t.k = "cookie" -> <<[x EXCEPT !.cookies = Append(@, t)], "">>
    [] t.k = "te" -> <<[x EXCEPT !.clen = -1], "">>
    [] t.k = "badte" -> <<x, "invalid">>
    [] OTHER -> <<AddField(x, t), "">>

\* The length is parsed whatever the encoding said before it.
RequestLine_LengthWins(x, t) ==
  CASE t.k = "clen" -> IF x.seen THEN <<x, "invalid">>
                       ELSE <<[x EXCEPT !.seen = TRUE, !.clen = t.v], "">>
    [] t.k \in {"close", "keep"} -> <<ConnectionLine(x, t), "">>
    [] t.k = "te" -> <<[IF \E i \in DOMAIN x.fields : x.fields[i] = t THEN x
                        ELSE AddField(x, t) EXCEPT !.clen = -1], "">>
    [] t.k = "badte" -> <<x, "invalid">>
    [] OTHER -> <<AddField(x, t), "">>

RequestLine(x, t) ==
  CASE t.k = "clen" -> IF x.seen THEN <<x, "invalid">>      \* MultipleContentLengthErr
                       ELSE <<[x EXCEPT !.seen = TRUE,
                                        !.clen = IF @ # -1 THEN t.v ELSE @], "">>
    [] t.k \in {"close", "keep"} -> <<ConnectionLine(x, t), "">>
    [] t.k = "te" -> <<[IF \E i \in DOMAIN x.fields : x.fields[i] = t THEN x
                        ELSE AddField(x, t) EXCEPT !.clen = -1], "">>
    [] t.k = "badte" -> <<x, "invalid">>
    [] OTHER -> <<AddField(x, t), "">>

\* isBadTrailer is asked of a response's trailer only; it lets the parsing go on.
TrailerLine(x, t) ==
  IF what = "resptrailer" /\ t.k = "forbidden" THEN <<[x EXCEPT !.seen = TRUE], "">>
  ELSE <<AddField(x, t), "">>

HeaderLine(x, t) ==
  CASE what = "request" -> RequestLine(x, t)
    [] what = "response" -> ResponseLine(x, t)
    [] OTHER -> TrailerLine(x, t)
-----------------------------------------------------------------------------
(* headerScanner.next: lines of b from i to lim.  A folded value is        *)
(* unfolded in place (normalizeHeaderValue): what is buffered after it     *)
(* moves to the left and the scanner's slice ends earlier, while the last  *)
(* tokens of the reader's buffer stay behind.                              *)

RECURSIVE FoldEnd(_, _, _)
FoldEnd(b, n, lim) ==
  LET e == IF n < lim /\ b[n + 1].k = "more" THEN NewLine(b, n + 1, lim) ELSE 0 IN
  IF e = 0 THEN n ELSE FoldEnd(b, e, lim)

\* The buffer after the value in b[i..n-1] was unfolded, and the tokens it lost.
Unfold(b, i, n, lim) ==
  LET value == SelectSeq(SubSeq(b, i, n - 1), LAMBDA t : t # NL)
      shrunk == (n - i) - Len(value) IN
  [b |-> SubSeq(b, 1, i - 1) \o value \o SubSeq(b, n, lim) \o SubSeq(b, lim - shrunk + 1, Len(b)),
   n |-> n - shrunk, lim |-> lim - shrunk]

\* The outcome of a scan: the buffer, the scanner's position in it, the end of its slice.
Scan(b, i, lim, x, err) == [b |-> b, i |-> i, lim |-> lim, h |-> x, err |-> err]

RECURSIVE ScanLines(_, _, _, _)
ScanLines(b, i, lim, x) ==
  LET nl == NewLine(b, i, lim)
      colon == Find({j \in i..lim : Colon(b[j])}) IN
  IF i <= lim /\ b[i] = NL THEN Scan(b, i + 1, lim, x, "")
  ELSE IF nl = 0 \/ colon = 0 THEN Scan(b, i, lim, x, "more")
  ELSE IF nl < colon THEN Scan(b, i, lim, x, "invalid")     \* errInvalidName
  ELSE LET end == FoldEnd(b, nl, lim)
           u == IF end = nl THEN [b |-> b, n |-> nl, lim |-> lim] ELSE Unfold(b, i, end, lim)
           y == HeaderLine(x, b[i]) IN
       IF y[2] # "" THEN Scan(u.b, u.n + 1, u.lim, y[1], y[2])
       ELSE ScanLines(u.b, u.n + 1, u.lim, y[1])

\* hasHeaderValue(Connection, keep-alive) decides for HTTP/1.0.
Finish(x) ==
  [x EXCEPT !.close = @ \/ (x.http10 /\ ~(\E i \in DOMAIN x.fields : x.fields[i].k = "keep"))]

\* readRawHeaders: the blank line is there.
RawHeadersComplete(b, m) ==
  \E i \in m + 1..Len(b) : b[i] = NL /\ (i = m + 1 \/ b[i - 1] = NL)

FirstLine(b) ==
  IF NewLine(b, 1, Len(b)) = 0 THEN "more" ELSE IF b[1].k # "first" THEN "invalid" ELSE ""

\* The headers are parsed before they are complete, as those of a response are.
ParseRequest_Partial(b) ==
  LET m == IF h.firstLineLen # 0 THEN h.firstLineLen ELSE 2
      x == [h EXCEPT !.firstLineLen = 2, !.http10 = b[1].v = 10, !.clen = 0, !.seen = FALSE] IN
  IF h.firstLineLen = 0 /\ FirstLine(b) # "" THEN Scan(b, 1, Len(b), h, FirstLine(b))
  ELSE ScanLines(b, m + 1, Len(b), x)

ParseRequest(b) ==
  LET m == IF h.firstLineLen # 0 THEN h.firstLineLen ELSE 2
      x == [h EXCEPT !.firstLineLen = 2, !.http10 = b[1].v = 10] IN
  IF h.firstLineLen = 0 /\ FirstLine(b) # "" THEN Scan(b, 1, Len(b), h, FirstLine(b))
  ELSE IF ~RawHeadersComplete(b, m) THEN Scan(b, 1, Len(b), x, "more")
  ELSE ScanLines(b, m + 1, Len(b), [x EXCEPT !.clen = 0, !.seen = FALSE])

ParseResponse(b) ==
  IF FirstLine(b) # "" THEN Scan(b, 1, Len(b), h, FirstLine(b))
  ELSE ScanLines(b, 3, Len(b), [h EXCEPT !.http10 = b[1].v = 10, !.clen = -2])

\* A forbidden key (kept in seen) is an error once the trailer is complete.
ParseTrailer(b) ==
  LET s == ScanLines(b, 1, Len(b), [h EXCEPT !.seen = FALSE]) IN
  [s EXCEPT !.err = IF @ = "" /\ s.h.seen THEN "invalid" ELSE @]

Parse(b) ==
  CASE what = "request" -> ParseRequest(b)
    [] what = "response" -> ParseResponse(b)
    [] OTHER -> ParseTrailer(b)

\* What is discarded: hLen counts in the shifted buffer; a response header subtracts
\* what is left of the slice from the length before the shift.
HeaderLen(s) == IF what = "response" THEN Len(s.b) - (s.lim - s.i + 1) ELSE s.i - 1
-----------------------------------------------------------------------------
\* bufio.Reader.fill: one Read of the connection, as long as Peek lacks bytes.
Fill ==
  /\ result = ""
  /\ Len(buf) < need
  /\ Len(buf) < BufSize
  /\ \E k \in 1..BufSize - Len(buf) :
       /\ sent + k <= Len(Wire)
       /\ buf' = buf \o SubSeq(Wire, sent + 1, sent + k)
       /\ sent' = sent + k
  /\ UNCHANGED <<what, head, rest, need, h, result>>

\* The Read of the connection fails: it was closed, or its deadline is over.
FillFails ==
  /\ result = ""
  /\ Len(buf) < need
  /\ Len(buf) < BufSize
  /\ result' = "eof"
  /\ UNCHANGED <<what, head, rest, sent, buf, need, h>>

\* Peek asks for more than the buffer holds.
BufferFull ==
  /\ result = ""
  /\ Len(buf) = BufSize
  /\ need > BufSize
  /\ result' = "small"
  /\ UNCHANGED <<what, head, rest, sent, buf, need, h>>

\* tryRead and tryReadTrailer: parse all that is buffered, discard the header.
TryRead ==
  /\ result = ""
  /\ Len(buf) >= need
  /\ \E s \in {Parse(buf)} :
     \/ /\ s.err = "more"
        /\ buf' = s.b
        /\ need' = Len(s.b) + 1
        /\ h' = s.h
        /\ UNCHANGED result
     \/ /\ s.err = "invalid"
        /\ buf' = s.b
        /\ h' = s.h
        /\ result' = "invalid"
        /\ UNCHANGED need
     \/ /\ s.err = ""
        /\ buf' = SubSeq(s.b, HeaderLen(s) + 1, Len(s.b))
        /\ h' = IF IsTrailer THEN s.h ELSE Finish(s.h)
        /\ result' = "ok"
        /\ UNCHANGED need
  /\ UNCHANGED <<what, head, rest, sent>>

Next == Fill \/ FillFails \/ BufferFull \/ TryRead

Spec == Init /\ [][Next]_vars
-----------------------------------------------------------------------------
(* What a whole header says *)

Lines == SelectSeq(head, LAMBDA t : t.k \in Names)
Has(k) == \E i \in DOMAIN head : head[i].k = k
Folded == Has("more")
LastOf(k) == Lines[CHOOSE i \in DOMAIN Lines :
                     Lines[i].k = k /\ \A j \in i + 1..Len(Lines) : Lines[j].k # k]

\* The lengths that the lines declare.
Declared ==
  IF IsTrailer THEN 0
  ELSE IF Has("te") THEN -1
  ELSE IF Has("clen") THEN LastOf("clen").v
  ELSE IF what = "request" THEN 0 ELSE -2

\* The connection ends with the message.
Closing ==
  LET conn == SelectSeq(Lines, LAMBDA t : t.k \in {"close", "keep"}) IN
  IF IsTrailer THEN FALSE
  ELSE IF conn # <<>> /\ Last(conn).k = "close" THEN TRUE
  ELSE head[1].v = 10 /\ ~Has("keep")

\* The lines that are kept in h.h, in order; a request keeps one Transfer-Encoding.
KeptHere(i) ==
  CASE what = "request" -> /\ Lines[i].k \in {"te", "keep", "cookie", "field", "forbidden"}
                           /\ Lines[i].k = "te" => \A j \in 1..i - 1 : Lines[j].k # "te"
    [] what = "response" -> Lines[i].k \in {"keep", "field", "forbidden"}
    [] OTHER -> TRUE
Kept ==
  LET at == SetToSortSeq({i \in DOMAIN Lines : KeptHere(i)}, <) IN
  [n \in DOMAIN at |-> Lines[at[n]]]

\* A line without a name, or one of those that the parsers do not take.
Refused ==
  \/ Has("noname")
  \/ ~IsTrailer /\ (head[1].k # "first" \/ Has("badte"))
  \/ what = "request" /\ Len(SelectSeq(Lines, LAMBDA t : t.k = "clen")) > 1
  \/ what = "resptrailer" /\ Has("forbidden")

\* TypeOK, and: however the bytes of a header are cut into segments, readLoop, Read and
\* ReadTrailer accept it exactly when it is well formed and fits, and then the body's length,
\* the fate of the connection and the lines that were kept are those the whole header gives
\* (a response may keep a line twice); without a folded value the reader stands at the first
\* byte after the header, and nothing that follows was lost, repeated or moved.
HeaderAsSent ==
  /\ TypeOK
  /\ result = "ok" /\ (what = "request" \/ ~Folded) =>
       /\ ~Refused
       /\ h.clen = Declared
       /\ h.close = Closing
       /\ what = "request" => h.fields = Kept
       /\ Range(h.fields) = Range(Kept)
  /\ result = "ok" /\ ~Folded => buf \o SubSeq(Wire, sent + 1, Len(Wire)) = rest
  /\ result = "invalid" => Refused \/ (Folded /\ what # "request")
  /\ result = "small" => Len(head) + 1 > BufSize \/ Refused \/ Folded
-----------------------------------------------------------------------------
(* What the documentation says and the code does not do *)

\* ResponseHeader.Read "reads response header from r"; header_test.go compares what was read
\* with the header, delivered in one piece.  A line of a response or trailer that was
\* buffered before the rest of the header is kept again by every later attempt.
KeptOnce == result = "ok" /\ ~Folded => h.fields = Kept /\ (what = "response" =>
  h.cookies = SelectSeq(Lines, LAMBDA t : t.k = "cookie"))

\* A header with a folded value is read as the same header on one line (header_test.go,
\* TestResponseHeaderMultiLineValue compares the fields): what follows it on the connection
\* has moved under the reader.
RestStays == result = "ok" => buf \o SubSeq(Wire, sent + 1, Len(Wire)) = rest
===============================================================================
