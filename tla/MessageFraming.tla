---------------------------- MODULE MessageFraming ----------------------------
(***************************************************************************)
(* How the end of a body is announced and found: the length fields of a    *)
(* RequestHeader or ResponseHeader and the calls that change them, Write   *)
(* of a Request or a Response with its header (AppendBytes) and its body   *)
(* (fixed, chunked, compressed, until close), what serveConn then does with*)
(* the connection, and the parser and the reader at the other end.         *)
(* The messages are written one after another, from objects that are reset *)
(* or reused as they are.                                                  *)
(* A definition D_Fault just before D is D with a plausible fault; no spec *)
(* uses it.                                                                *)
(***************************************************************************)
EXTENDS Integers, Sequences

CONSTANTS MaxLen     \* bound: the length of a body

VARIABLES
  kind,      \* the messages are requests or responses
  h,         \* contentLength, contentLengthBytes, "Transfer-Encoding" in h.h, connectionClose
  body,      \* chunkedW, bodyStream or body and bodyRaw: where from, how long; a LimitedReader
  opt,       \* the method or status; HEAD; compressPool
  out,       \* what was written
  pc         \* the message is being set up, or was written

vars == <<kind, h, body, opt, out, pc>>

Sizes == 0..MaxLen
Lengths == Sizes \cup {-1, -2}
NoLine == -9                            \* contentLengthBytes is empty

Token(k, n) == [k |-> k, n |-> n]
Raw(n) == [j \in 1..n |-> Token("byte", 0)]
\* writeChunk, chunkedEnd and the trailer: a body that comes in one piece.
Chunked(n) ==
  (IF n = 0 THEN <<>> ELSE <<Token("size", n)>> \o Raw(n) \o <<Token("crlf", 0)>>)
    \o <<Token("size", 0), Token("trailer", 0)>>
Zip(n) == n + 1                         \* compressed data has another length

Fresh == [contentLength |-> 0, bytes |-> NoLine, te |-> FALSE, connectionClose |-> FALSE]
NoBody == [from |-> "bytes", len |-> 0, limited |-> FALSE]
Nothing == [lengths |-> <<>>, te |-> FALSE, close |-> FALSE, payload |-> <<>>, err |-> FALSE,
            connectionClose |-> FALSE]

TypeOK ==
  /\ kind \in {"request", "response"}
  /\ h \in [contentLength : Lengths, bytes : Sizes \cup {NoLine}, te : BOOLEAN,
            connectionClose : BOOLEAN]
  /\ body \in [from : {"chunkedW", "stream", "bytes"}, len : Sizes, limited : BOOLEAN]
  /\ opt \in [ignoreBody : BOOLEAN, bodyNotAllowed : BOOLEAN, head : BOOLEAN,
              compress : BOOLEAN, close : BOOLEAN]
  /\ pc \in {"set", "written"}

Init ==
  /\ kind \in {"request", "response"}
  /\ h = Fresh
  /\ body = NoBody
  /\ opt \in [ignoreBody : BOOLEAN, bodyNotAllowed : BOOLEAN, head : BOOLEAN,
              compress : BOOLEAN, close : BOOLEAN]
  /\ IF kind = "request"
     THEN ~opt.bodyNotAllowed /\ ~opt.head /\ ~opt.compress /\ ~opt.close
     ELSE ~opt.ignoreBody
  /\ out = Nothing
  /\ pc = "set"
-----------------------------------------------------------------------------
(* The header and the body are set up *)

\* SetContentLength; a request keeps its lines by it.
SetContentLength(hd, n) ==
  IF kind = "response" THEN [hd EXCEPT !.contentLength = n]
  ELSE [hd EXCEPT !.contentLength = n, !.bytes = IF n >= 0 THEN n ELSE NoLine, !.te = n < 0]

SetLength == \E n \in Lengths : h' = SetContentLength(h, n) /\ UNCHANGED body

\* Set("Content-Length", n), in setSpecialHeader
SetSpecialLength ==
  /\ \E n \in Sizes : h' = [h EXCEPT !.contentLength = n, !.bytes = n]
  /\ UNCHANGED body

\* Del("Content-Length"), Del("Transfer-Encoding")
DelLength ==
  /\ \/ h' = [h EXCEPT !.contentLength = IF kind = "request" THEN 0 ELSE -2, !.bytes = NoLine]
     \/ h' = [h EXCEPT !.te = FALSE]
  /\ UNCHANGED body

SetConnectionClose == h' = [h EXCEPT !.connectionClose = TRUE] /\ UNCHANGED body

\* SetBodyStream; a stream of a given size must provide it.
SetBodyStream ==
  \E n \in Lengths, len \in Sizes, limited \in BOOLEAN :
    /\ n = 0 => len = 0
    /\ h' = SetContentLength(h, n)
    /\ body' = [from |-> "stream", len |-> len, limited |-> limited]

SetBodyStreamChunkedWriter ==
  /\ kind = "response"
  /\ \E len \in Sizes : body' = [from |-> "chunkedW", len |-> len, limited |-> FALSE]
  /\ h' = SetContentLength(h, -1)

\* SetBody, SetBodyRaw, ResetBody; Body() of a stream
SetBody ==
  /\ \E len \in Sizes : body' = [from |-> "bytes", len |-> len, limited |-> FALSE]
  /\ UNCHANGED h

SetUp ==
  /\ pc = "set"
  /\ \/ SetLength \/ SetSpecialLength \/ DelLength \/ SetConnectionClose
     \/ SetBodyStream \/ SetBodyStreamChunkedWriter \/ SetBody
  /\ UNCHANGED <<kind, opt, out, pc>>
-----------------------------------------------------------------------------
(* Write *)

\* ResponseHeader.AppendBytes: the length lines; the length -2 becomes "Connection: close".
ResponseLines(hd, compressed) ==
  LET n == hd.contentLength IN
  [lengths |-> IF opt.bodyNotAllowed \/ n < 0 \/ (n = 0 /\ opt.head) \/ (n > 0 /\ compressed)
               THEN <<>> ELSE <<n>>,
   te |-> ~opt.bodyNotAllowed /\ n = -1 /\ ~opt.head,
   close |-> hd.connectionClose \/ (~opt.bodyNotAllowed /\ n = -2 /\ ~opt.head)]

\* RequestHeader.AppendBytes
RequestLines(hd) ==
  [lengths |-> IF hd.bytes = NoLine THEN <<>> ELSE <<hd.bytes>>, te |-> hd.te,
   close |-> hd.connectionClose]

\* serveConn asks for "Connection: close" before Write, and looks at it before Write only.
Asked == [h EXCEPT !.connectionClose = @ \/ opt.close]

\* A message as it goes out, and the header as Write leaves it.
Sent(hd, lines, payload, err) ==
  [h |-> [hd EXCEPT !.connectionClose = lines.close],
   out |-> [lengths |-> lines.lengths, te |-> lines.te, close |-> lines.close,
            payload |-> payload, err |-> err, connectionClose |-> Asked.connectionClose]]

SendBody == ~(opt.head \/ opt.bodyNotAllowed)
IfSent(payload) == IF SendBody THEN payload ELSE <<>>

WriteChunkedStream ==
  LET hd == SetContentLength(Asked, -1)
  IN  Sent(hd, ResponseLines(hd, FALSE),
           IfSent(Chunked(IF opt.compress THEN Zip(body.len) ELSE body.len)), FALSE)

\* WriteCompress of a stream is always chunked; of bytes, the header goes out first and the
\* length of the compressed body, with the end of the header, after it.
WriteCompressStream ==
  LET n == h.contentLength
      want == IF n < 0 THEN IF body.limited THEN body.len ELSE -1 ELSE n
      hd == SetContentLength([Asked EXCEPT !.connectionClose = @ \/ n = -2], -1)
  IN  Sent(hd, ResponseLines(hd, FALSE), IfSent(Chunked(Zip(body.len))),
           SendBody /\ want >= 0 /\ want # body.len)

WriteCompressBytes ==
  IF ~SendBody
  THEN LET hd == IF body.len > 0 THEN SetContentLength(Asked, body.len) ELSE Asked
       IN  Sent(hd, ResponseLines(hd, FALSE), <<>>, FALSE)
  ELSE LET lines == ResponseLines(Asked, TRUE)
       IN  Sent(Asked, [lines EXCEPT !.lengths = Append(@, Zip(body.len))],
                Raw(Zip(body.len)), FALSE)

\* writeBodyStream; writeBodyFixedSize copies what there is and then compares the sizes.
WriteStream_KeepsLength ==
  LET hd == Asked
      n == hd.contentLength
      lines == IF kind = "response" THEN ResponseLines(hd, FALSE) ELSE RequestLines(hd)
  IN  Sent(hd, lines, IF n > 0 THEN Raw(body.len) ELSE IF n = 0 THEN <<>> ELSE Chunked(body.len),
           n > 0 /\ n # body.len)
WriteStream ==
  LET n0 == h.contentLength
      hd1 == IF n0 >= 0 \/ ~body.limited THEN Asked
             ELSE SetContentLength([Asked EXCEPT !.connectionClose =
                                      @ \/ (n0 = -2 /\ kind = "response")], body.len)
      hd == IF kind = "request" /\ hd1.contentLength < 0 THEN SetContentLength(hd1, -1) ELSE hd1
      n == hd.contentLength
      lines == IF kind = "response" THEN ResponseLines(hd, FALSE) ELSE RequestLines(hd)
      payload == CASE n = 0 -> <<>>
                   [] n > 0 \/ n = -2 -> Raw(body.len)
                   [] n = -1 -> Chunked(body.len)
  IN  Sent(hd, lines, IfSent(payload), SendBody /\ n > 0 /\ n # body.len)

\* Write of a Response with a body in memory
WriteResponseBytes ==
  LET hd == IF (SendBody \/ body.len > 0) /\ h.contentLength # -2
            THEN SetContentLength(Asked, body.len) ELSE Asked
  IN  Sent(hd, ResponseLines(hd, FALSE), IfSent(Raw(body.len)), FALSE)

\* Write of a Request with a body in memory: GET and HEAD without one leave the header alone.
WriteRequestBytes ==
  LET hd == IF body.len # 0 \/ ~opt.ignoreBody THEN SetContentLength(Asked, body.len) ELSE Asked
  IN  Sent(hd, RequestLines(hd), Raw(body.len), FALSE)

Written ==
  CASE body.from = "chunkedW" -> WriteChunkedStream
    [] body.from = "stream" /\ opt.compress -> WriteCompressStream
    [] body.from = "stream" /\ ~opt.compress -> WriteStream
    [] body.from = "bytes" /\ opt.compress -> WriteCompressBytes
    [] body.from = "bytes" /\ ~opt.compress ->
         IF kind = "response" THEN WriteResponseBytes ELSE WriteRequestBytes

Write ==
  /\ pc = "set"
  /\ h' = Written.h
  /\ out' = Written.out
  /\ pc' = "written"
  /\ UNCHANGED <<kind, body, opt>>

\* The object is reset, or the next message is made of it as it is: a stream is gone.
Again ==
  /\ pc = "written"
  /\ h' \in {h, Fresh}
  /\ body' = IF body.from = "stream" THEN NoBody ELSE body
  /\ out' = Nothing
  /\ pc' = "set"
  /\ UNCHANGED <<kind, opt>>

Next == SetUp \/ Write \/ Again
Spec == Init /\ [][Next]_vars
-----------------------------------------------------------------------------
(* The other end *)

\* parseHeaders: a chunked encoding overrules the lengths, the last length the others.
ParsedLength_First(o) ==
  IF o.lengths # <<>> THEN o.lengths[1] ELSE IF o.te THEN -1
  ELSE IF kind = "request" \/ opt.head THEN 0 ELSE -2
ParsedLength(o) ==
  IF o.te THEN -1
  ELSE IF o.lengths # <<>> THEN o.lengths[Len(o.lengths)]
  ELSE IF kind = "request" \/ opt.head THEN 0 ELSE -2

\* The connection ends after this message: serveConn breaks on an error of Write, or when the
\* close was asked for before Write; a client closes after "Connection: close".
Closes(o) == o.err \/ o.connectionClose

\* ReadLimitIfClose, ReadBody: what is read of the payload, or where the reader stops: "waits"
\* for more, "broken" when it is no chunk.
Got(n, end) == [body |-> n, end |-> end]
DataIn(p) == Len(SelectSeq(p, LAMBDA t : t.k = "byte"))
ReadMessage(o) ==
  LET n == ParsedLength(o)
      p == o.payload
  IN  IF kind = "response" /\ (opt.head \/ opt.bodyNotAllowed) THEN Got(0, Len(p))
      ELSE CASE n >= 0 /\ Len(p) >= n -> Got(DataIn(SubSeq(p, 1, n)), Len(p) - n)
             [] n >= 0 /\ Len(p) < n -> Got(Len(p), -1)                        \* waits
             [] n = -1 -> IF p # <<>> /\ p[1].k = "size" THEN Got(DataIn(p), 0)
                          ELSE Got(0, -1)                                      \* broken
             [] n = -2 -> IF Closes(o) THEN Got(Len(p), 0) ELSE Got(Len(p), -1)

(* Properties *)

\* The body that Write was to send.
Meant ==
  IF ~SendBody THEN 0
  ELSE IF opt.compress THEN Zip(body.len)
  ELSE IF body.from = "stream" /\ h.contentLength = 0 THEN 0
  ELSE body.len

\* The cases that the statements at the end are about: a GET or HEAD without a body and with
\* the lines of an earlier length; a "Transfer-Encoding" line that Set or Del of
\* "Content-Length" left behind; a length that goes out before the length of the compressed
\* body; a body that ends with the connection, which stays open.
EarlierLines == kind = "request" /\ opt.ignoreBody /\ body.from = "bytes" /\ body.len = 0
LeftEncoding == kind = "request" /\ out.te /\ h.contentLength >= 0
TwoLengths == kind = "response" /\ opt.compress /\ body.from = "bytes" /\ out.te
OpenEnded == kind = "response" /\ ParsedLength(out) = -2 /\ ~Closes(out)

\* Unless Write failed, the reader at the other end finds exactly the body that was written
\* and stops at its end, whatever was set, deleted, written and reused before.
ReadAsWritten ==
  /\ TypeOK
  /\ pc = "written" /\ ~out.err
       => \/ ReadMessage(out) = Got(Meant, 0)
          \/ EarlierLines \/ LeftEncoding \/ TwoLengths \/ OpenEnded

(* What comments say and the code does not do *)

\* WriteCompress of the header: "Neither the Content-Length header nor the delimiter ... will
\* be written"; the length of the compressed body follows.
LengthOnce == Len(out.lengths) <= 1

\* "close connection as eof."  serveConn has asked for ConnectionClose before Write sets it.
EndIsSignalled == pc = "written" /\ kind = "response" /\ SendBody /\ ParsedLength(out) = -2
                    => Closes(out)

\* "Transfer-Encoding is managed automatically."  A request goes out with both lines, or with
\* a line that announces a body it does not have.
FramingIsManaged ==
  pc = "written" /\ kind = "request" /\ ~out.err => ReadMessage(out) = Got(Meant, 0)
=============================================================================
