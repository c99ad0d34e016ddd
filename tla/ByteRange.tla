------------------------------- MODULE ByteRange -------------------------------
(***************************************************************************)
(* A part of a file (fs_v3.go): the Range line of a request, which         *)
(* SetByteRange or another client writes, ParseByteRange, the answer of    *)
(* handleRequest and the reader behind its body, which is read in pieces,  *)
(* closed anywhere and used again for the next request of the file.        *)
(* The bytes of a file are its positions.  Who shares readers and files is *)
(* in FSCache.                                                             *)
(* A definition D_Fault just before D is D with a plausible fault; no spec *)
(* uses it.                                                                *)
(***************************************************************************)
EXTENDS Integers, Sequences, FiniteSets, SequencesExt

CONSTANT MaxSize     \* bound: the size of a file

VARIABLES
  opt,      \* acceptByteRange, whether the file is big, and its size
  req,      \* the Range line of the request, and whether it is a HEAD
  pc,       \* of the request: "idle", "asked", "body" (answered, the body is being read)
  r,        \* the reader: its position, whether r.r is &r.lr, and r.lr.N
  hdr,      \* of the answer: StatusCode, Content-Range, Content-Length
  got,      \* what was read of the body
  eof       \* whether the reader has returned io.EOF

rangeVars == <<opt, req, pc, r, hdr, got, eof>>
-----------------------------------------------------------------------------
\* A Range line: its units, whether there is a "-" in it, and what is before and after the first
\* one: nothing, something that is no number, or a number.
Absent == -1
NoNumber == -2
Text(units, dash, first, last) == [units |-> units, dash |-> dash, first |-> first, last |-> last]
NoRange == Text("", FALSE, Absent, Absent)

\* RequestHeader.SetByteRange, for any two numbers.
SetByteRange(startPos, endPos) ==
  IF startPos >= 0 THEN Text("bytes", TRUE, startPos, IF endPos >= 0 THEN endPos ELSE Absent)
  ELSE Text("bytes", TRUE, Absent, -startPos)

Numbers == 0..(MaxSize + 1)
Texts ==
  {NoRange, Text("other", TRUE, 0, 1), Text("bytes", FALSE, 1, Absent),
   Text("bytes", TRUE, NoNumber, 1), Text("bytes", TRUE, 0, NoNumber), Text("bytes", TRUE, Absent, 0)}
  \cup {SetByteRange(s, e) : s \in Numbers \cup {-n : n \in Numbers}, e \in Numbers \cup {-1}}

Fresh == [at |-> 0, limited |-> FALSE, left |-> 0]
NoAnswer == [status |-> 0, range |-> <<>>, length |-> 0]

RangeTypeOK ==
  /\ opt \in [accept : BOOLEAN, big : BOOLEAN, size : 0..MaxSize]
  /\ req \in [range : Texts, head : BOOLEAN]
  /\ pc \in {"idle", "asked", "body"}
  /\ r \in [at : 0..(MaxSize + 1), limited : BOOLEAN, left : 0..MaxSize]
  /\ hdr.status \in {0, 200, 206, 416, 500} /\ hdr.length \in 0..MaxSize
  /\ got \in Seq(0..(MaxSize - 1))
  /\ eof \in BOOLEAN

\* A big file is not empty.
RangeInit ==
  /\ opt \in {o \in [accept : BOOLEAN, big : BOOLEAN, size : 0..MaxSize] : o.big => o.size > 0}
  /\ req = [range |-> NoRange, head |-> FALSE]
  /\ pc = "idle" /\ r = Fresh /\ hdr = NoAnswer /\ got = <<>> /\ eof = FALSE
-----------------------------------------------------------------------------
\* ParseByteRange: both positions are part of the range.
Unparsed == [ok |-> FALSE, start |-> 0, end |-> 0]
Positions(s, e) == [ok |-> TRUE, start |-> s, end |-> e]
Least(a, b) == IF a < b THEN a ELSE b

ParseByteRange_Unclamped(t, len) ==
  LET end == IF t.last = Absent THEN len - 1 ELSE t.last IN
  IF t.units # "bytes" \/ ~t.dash THEN Unparsed
  ELSE IF t.first = Absent THEN
    IF t.last < 0 THEN Unparsed
    ELSE Positions(IF len - t.last < 0 THEN 0 ELSE len - t.last, len - 1)
  ELSE IF t.first < 0 \/ t.first >= len \/ t.last = NoNumber \/ end < t.first THEN Unparsed
  ELSE Positions(t.first, end)

ParseByteRange(t, len) ==
  LET end == IF t.last = Absent THEN len - 1 ELSE Least(t.last, len - 1) IN
  IF t.units # "bytes" \/ ~t.dash THEN Unparsed
  ELSE IF t.first = Absent THEN
    IF t.last < 0 THEN Unparsed
    ELSE Positions(IF len - t.last < 0 THEN 0 ELSE len - t.last, len - 1)
  ELSE IF t.first < 0 \/ t.first >= len \/ t.last = NoNumber \/ end < t.first THEN Unparsed
  ELSE Positions(t.first, end)

\* UpdateByteRange of a big file: Seek, and a LimitedReader for the rest.
UpdateByteRange(p) == [at |-> p.start, limited |-> TRUE, left |-> p.end - p.start + 1]

\* Close of both readers: the big one goes back to the start of its file and to r.r = r.f.
CloseReader_Limited(x) == [x EXCEPT !.at = 0]

CloseReader(x) == [x EXCEPT !.at = 0, !.limited = FALSE]
-----------------------------------------------------------------------------
Ask(t, head) ==
  /\ pc = "idle"
  /\ req' = [range |-> t, head |-> head]
  /\ pc' = "asked"
  /\ got' = <<>> /\ eof' = FALSE /\ hdr' = NoAnswer
  /\ UNCHANGED <<opt, r>>

\* A body, or none and the reader closed, after a HEAD.
Answer(status, range, length, reader) ==
  /\ hdr' = [status |-> status, range |-> range, length |-> length]
  /\ IF req.head THEN r' = CloseReader(reader) /\ pc' = "idle" ELSE r' = reader /\ pc' = "body"

\* handleRequest with a reader of the file.  For a small file and a range that can be parsed it
\* ends in a panic (FSCache, NoReaderIsLost), which is not followed here.
Whole == ~opt.accept \/ req.range = NoRange

AnswerWhole ==
  /\ pc = "asked" /\ Whole
  /\ Answer(200, <<>>, opt.size, r)
  /\ UNCHANGED <<opt, req, got, eof>>

AnswerRange ==
  LET p == ParseByteRange(req.range, opt.size) IN
  /\ pc = "asked" /\ ~Whole /\ opt.big /\ p.ok
  /\ Answer(206, <<p.start, p.end, opt.size>>, p.end - p.start + 1, UpdateByteRange(p))
  /\ UNCHANGED <<opt, req, got, eof>>

\* The line is refused, or the file cannot be positioned.
AnswerError ==
  LET p == ParseByteRange(req.range, opt.size) IN
  /\ pc = "asked" /\ ~Whole /\ (p.ok => opt.big)
  /\ hdr' = [NoAnswer EXCEPT !.status = IF p.ok THEN 500 ELSE 416]
  /\ pc' = "idle"
  /\ r' = CloseReader(r)
  /\ UNCHANGED <<opt, req, got, eof>>

\* Read of both readers, into n bytes.
Read(n) ==
  LET room == IF r.limited THEN Least(n, r.left) ELSE n
      k == IF r.at >= opt.size THEN 0 ELSE Least(room, opt.size - r.at) IN
  /\ pc = "body" /\ ~eof
  /\ got' = got \o [i \in 1..k |-> r.at + i - 1]
  /\ r' = [r EXCEPT !.at = @ + k, !.left = IF r.limited THEN @ - k ELSE @]
  /\ eof' = (k = 0)
  /\ UNCHANGED <<opt, req, pc, hdr>>

\* The body was sent, or the connection failed.
CloseBody ==
  /\ pc = "body"
  /\ r' = CloseReader(r)
  /\ pc' = "idle"
  /\ UNCHANGED <<opt, req, hdr, got, eof>>

RangeNext ==
  \/ \E t \in Texts, head \in BOOLEAN : Ask(t, head)
  \/ AnswerWhole \/ AnswerRange \/ AnswerError
  \/ \E n \in 1..MaxSize : Read(n)
  \/ CloseBody

RangeSpec == RangeInit /\ [][RangeNext]_rangeVars
-----------------------------------------------------------------------------
(* Properties *)

\* The positions that a Range line asks for, by what its numbers mean.
Selected ==
  LET t == req.range
      all == 0..(opt.size - 1) IN
  IF Whole THEN all
  ELSE IF t.units # "bytes" \/ ~t.dash \/ NoNumber \in {t.first, t.last} THEN {}
  ELSE IF t.first = Absent THEN {i \in all : t.last # Absent /\ i + t.last >= opt.size}
  ELSE {i \in all : i >= t.first /\ (t.last = Absent \/ i <= t.last)}

\* "bytes=-0", the last 0 bytes.
LastNone == ~Whole /\ req.range = Text("bytes", TRUE, Absent, 0)

\* RangeTypeOK, and: the body is the part of the file that was asked for, from its first byte and
\* to its end unless the reading stopped before; Content-Length and Content-Range announce it;
\* and a request that asks for nothing in the file is refused.  Whatever part an earlier request
\* asked for with the same reader, and wherever its reading stopped.
RangeAsAsked ==
  LET part == SetToSortSeq(Selected, <) IN
  /\ RangeTypeOK
  /\ hdr.status \in {200, 206} =>
       /\ IsPrefix(got, part) /\ (eof => got = part)
       /\ hdr.length = Len(part)
       /\ hdr.status = 206 /\ ~LastNone => hdr.range = <<part[1], Last(part), opt.size>>
  /\ hdr.status = 206 => part # <<>> \/ LastNone
  /\ hdr.status = 416 => part = <<>>

(* What the documentation says and the code does not do *)

\* "It follows" section 14.35 of RFC 2616 (ParseByteRange), for which the last 0 bytes are no
\* range that can be answered: they are answered as an empty part that ends before it begins.
PartIsThere == hdr.status = 206 => Selected # {}
===============================================================================
