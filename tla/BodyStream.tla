------------------------------ MODULE BodyStream ------------------------------
(***************************************************************************)
(* Reading the bodies of the requests of one keep-alive connection: the    *)
(* body in full (ReadBody) or as a stream (ReadBodyStream, requestStream,  *)
(* TwoBytesReader) which the handler reads in pieces, leaves or closes, and*)
(* what serveConn does with the stream when the handler has returned.      *)
(* The wire is a sequence of tokens: the header of a request, a byte of its*)
(* body, the size line of a chunk, the CRLF of a chunk, the trailer with   *)
(* the final CRLF.  The client sends it token by token and may hang up.    *)
(* A definition D_Fault just before D is D with a plausible fault; no spec *)
(* uses it.                                                                *)
(***************************************************************************)
EXTENDS Integers, Sequences

CONSTANTS
  Shapes,       \* bodies of the first request: [chunked, sizes], a size of each chunk
  Limits,       \* values of MaxRequestBodySize
  BufSize,      \* r.Size(), the size of the connection's bufio.Reader
  PreRead,      \* the 8 KB that readBodyWithStreaming reads ahead at most
  MaxRead       \* bound: the length of the slices the handler reads into

VARIABLES
  opt,          \* the options of the Server, and the shape of the first request
  arrived,      \* the tokens the connection has delivered
  hungUp,       \* the client has closed the connection
  rpos,         \* the next token of the bufio.Reader
  pc,           \* where serveConn is
  cur,          \* the request it works on
  got,          \* the bytes of the body that were read or handed to the handler
  stream,       \* Request.bodyStream
  eof,          \* the handler's last Read returned io.EOF; it read a whole body
  answered      \* the responses that were sent

vars == <<opt, arrived, hungUp, rpos, pc, cur, got, stream, eof, answered>>
-----------------------------------------------------------------------------
(* The wire *)

Token(k, i, n) == [k |-> k, of |-> i, n |-> n]
Data(i, from, len) == [j \in 1..len |-> Token("byte", i, from + j)]

\* The chunks of a body, as writeChunk, chunkedEnd and writeTrailer put them.
Chunk(i, from, size) ==
  <<Token("size", i, size)>> \o Data(i, from, size) \o <<Token("crlf", i, 0)>>
ChunkedBody(i, sizes) ==
  (CASE sizes = <<>> -> <<>>
     [] Len(sizes) = 1 -> Chunk(i, 0, sizes[1])
     [] OTHER -> Chunk(i, 0, sizes[1]) \o Chunk(i, sizes[1], sizes[2]))
  \o <<Token("size", i, 0), Token("trailer", i, 0)>>

BodyLen(shape) ==
  IF shape.sizes = <<>> THEN 0
  ELSE shape.sizes[1] + IF Len(shape.sizes) = 2 THEN shape.sizes[2] ELSE 0
RequestTokens(i, shape) ==
  <<Token("header", i, BodyLen(shape))>>
    \o IF shape.chunked THEN ChunkedBody(i, shape.sizes) ELSE Data(i, 0, BodyLen(shape))

\* A second request follows the first, with a short body.
Second == [chunked |-> FALSE, sizes |-> <<1>>]
Shape(i) == IF i = 1 THEN opt.shape ELSE Second
Wire == RequestTokens(1, opt.shape) \o RequestTokens(2, Second)
EndOf(i) == IF i = 1 THEN Len(RequestTokens(1, opt.shape)) ELSE Len(Wire)
ContentLength == IF Shape(cur).chunked THEN -1 ELSE BodyLen(Shape(cur))

Ready(n) == arrived - rpos + 1 >= n          \* n tokens can be read
Peer(n) == hungUp /\ ~Ready(n)               \* reading n tokens ends in io.EOF
Here == Wire[rpos]
-----------------------------------------------------------------------------
NoStream == [kind |-> "none", pre |-> <<>>, total |-> 0, chunkLeft |-> 0]

TypeOK ==
  /\ opt \in [shape : Shapes, StreamRequestBody : BOOLEAN, Discard : BOOLEAN,
              MaxRequestBodySize : Limits]
  /\ arrived \in 0..Len(Wire)
  /\ hungUp \in BOOLEAN
  /\ rpos \in 1..Len(Wire) + 1
  /\ pc \in {"header", "body", "chunk", "handler", "handlerClose", "close", "respond",
            "closed"}
  /\ cur \in 0..2
  /\ stream.kind \in {"none", "bytes", "request"}
  /\ stream.chunkLeft \in Nat
  /\ eof \in BOOLEAN
  /\ answered \subseteq 1..2

Init ==
  /\ opt \in [shape : Shapes, StreamRequestBody : BOOLEAN, Discard : BOOLEAN,
              MaxRequestBodySize : Limits]
  /\ opt.Discard => opt.StreamRequestBody
  /\ arrived = 0
  /\ hungUp = FALSE
  /\ rpos = 1
  /\ pc = "header"
  /\ cur = 0
  /\ got = <<>>
  /\ stream = NoStream
  /\ eof = FALSE
  /\ answered = {}

\* The client.
Arrive ==
  /\ ~hungUp
  /\ arrived < Len(Wire)
  /\ arrived' = arrived + 1
  /\ UNCHANGED <<opt, hungUp, rpos, pc, cur, got, stream, eof, answered>>

HangUp ==
  /\ ~hungUp
  /\ hungUp' = TRUE
  /\ UNCHANGED <<opt, arrived, rpos, pc, cur, got, stream, eof, answered>>

Break == pc' = "closed" /\ UNCHANGED <<opt, arrived, hungUp, rpos, cur, got, stream, eof, answered>>

\* A stream that was read beyond its end has taken the first bytes of this header.
CutHeader == rpos > 1 /\ Wire[rpos - 1].k = "header" /\ Wire[rpos - 1].of # cur

\* The request header: parsed where the reader stands, an error when that is no header.
\* The rest of a cut one may pass for a header, with another method.
ReadHeader ==
  /\ pc = "header"
  /\ \/ /\ CutHeader
        /\ cur' = Wire[rpos - 1].of
        /\ pc' = "body"
        /\ got' = <<>>
        /\ eof' = FALSE
        /\ UNCHANGED <<opt, arrived, hungUp, rpos, stream, answered>>
     \/ CutHeader /\ Break
     \/ /\ Ready(1)
        /\ Here.k = "header"
        /\ rpos' = rpos + 1
        /\ cur' = Here.of
        /\ pc' = "body"
        /\ got' = <<>>
        /\ eof' = FALSE
        /\ UNCHANGED <<opt, arrived, hungUp, stream, answered>>
     \/ Ready(1) /\ Here.k # "header" /\ Break
     \/ Peer(1) /\ Break

\* n bytes of the body at once, as appendBodyFixedSize, Peek and Discard take them.
Take(n) ==
  /\ Ready(n)
  /\ got' = got \o SubSeq(Wire, rpos, rpos + n - 1)
  /\ rpos' = rpos + n
-----------------------------------------------------------------------------
(* ReadBody: the whole body before the handler *)

ReadBodyFixed ==
  /\ pc = "body"
  /\ ~opt.StreamRequestBody
  /\ ContentLength >= 0
  /\ \/ /\ ContentLength > opt.MaxRequestBodySize         \* ErrBodyTooLarge
        /\ Break
     \/ /\ ContentLength <= opt.MaxRequestBodySize
        /\ Take(ContentLength)
        /\ pc' = "handler"
        /\ UNCHANGED <<opt, arrived, hungUp, cur, stream, eof, answered>>
     \/ /\ ContentLength <= opt.MaxRequestBodySize
        /\ Peer(ContentLength)
        /\ Break

ReadBodyChunkedStart ==
  /\ pc = "body"
  /\ ~opt.StreamRequestBody
  /\ ContentLength = -1
  /\ pc' = "chunk"
  /\ UNCHANGED <<opt, arrived, hungUp, rpos, cur, got, stream, eof, answered>>

\* A turn of readBodyChunked: parseChunkSize, then the chunk with its CRLF, or ReadTrailer.
ReadBodyChunked ==
  /\ pc = "chunk"
  /\ \/ /\ Ready(1)
        /\ Here.k = "size" /\ Here.n > 0
        /\ Len(got) + Here.n <= opt.MaxRequestBodySize
        /\ Ready(2 + Here.n)
        /\ Wire[rpos + Here.n + 1].k = "crlf"
        /\ got' = got \o SubSeq(Wire, rpos + 1, rpos + Here.n)
        /\ rpos' = rpos + Here.n + 2
        /\ UNCHANGED <<opt, arrived, hungUp, pc, cur, stream, eof, answered>>
     \/ /\ Ready(2)
        /\ Here.k = "size" /\ Here.n = 0
        /\ rpos' = rpos + 2
        /\ pc' = "handler"
        /\ UNCHANGED <<opt, arrived, hungUp, cur, got, stream, eof, answered>>
     \/ /\ Ready(1)
        /\ \/ Here.k # "size"                                             \* ErrBrokenChunk
           \/ Len(got) + Here.n > opt.MaxRequestBodySize                  \* ErrBodyTooLarge
           \/ Peer(IF Here.n = 0 THEN 2 ELSE 2 + Here.n)                  \* unexpected EOF
        /\ Break
     \/ Peer(1) /\ Break
-----------------------------------------------------------------------------
(* ReadBodyStream: a part of the body, or nothing of a chunked one, before the handler *)

\* readBodyWithStreaming: how much is read before the handler runs.  A body that fits into
\* the bufio.Reader beside what is read ahead is read in full, into a bytes.Reader or a
\* TwoBytesReader; of a longer one only readN bytes.
ReadN ==
  LET least(a, b) == IF a < b THEN a ELSE b
  IN  least(least(opt.MaxRequestBodySize, ContentLength), PreRead)
InFull == ReadN + BufSize >= ContentLength
ReadAhead == IF InFull THEN ContentLength ELSE ReadN

ReadBodyStream ==
  /\ pc = "body"
  /\ opt.StreamRequestBody
  /\ IF ContentLength = -1
     THEN /\ stream' = [NoStream EXCEPT !.kind = "request"]
          /\ UNCHANGED rpos
          /\ pc' = "handler"
     ELSE IF Ready(ReadAhead)
     THEN /\ stream' = [NoStream EXCEPT !.kind = IF InFull THEN "bytes" ELSE "request",
                                        !.pre = SubSeq(Wire, rpos, rpos + ReadAhead - 1)]
          /\ rpos' = rpos + ReadAhead
          /\ pc' = "handler"
     ELSE /\ Peer(ReadAhead)
          /\ pc' = "closed"
          /\ UNCHANGED <<rpos, stream>>
  /\ UNCHANGED <<opt, arrived, hungUp, cur, got, eof, answered>>

\* Read on the stream into a slice of len bytes.  r: the bytes, the stream, the reader's
\* position and the error ("nil", "eof" or "error") afterwards.
Result(b, s, p, e) == [bytes |-> b, stream |-> s, rpos |-> p, err |-> e]

\* bytes.Reader, TwoBytesReader, emptyRequestBodyStream: they hold the rest of the body.
ReadBytes(len) ==
  LET n == IF Len(stream.pre) < len THEN Len(stream.pre) ELSE len
  IN  {Result(SubSeq(stream.pre, 1, n),
              [stream EXCEPT !.pre = SubSeq(@, n + 1, Len(@))], rpos,
              IF n = 0 THEN "eof" ELSE "nil")}

\* requestStream.Read of a chunk of which left bytes are to come: what is buffered of it, and
\* with its last byte its CRLF, for which io.EOF is passed on as it is.
ReadInChunk(left, at, len) ==
  LET has(k) == arrived - at + 1 >= k
      bytes(n) == SubSeq(Wire, at, at + n - 1)
      rest(n) == [stream EXCEPT !.chunkLeft = left - n]
  IN  {Result(bytes(n), rest(n), at + n, "nil") : n \in {k \in 1..len : k < left /\ has(k)}}
      \cup {Result(bytes(n), rest(n), at + n + 1, "nil")
              : n \in {k \in 1..len : k = left /\ has(k + 1)}}
      \cup {Result(bytes(n), rest(n), at + n, "eof")
              : n \in {k \in 1..len : k = left /\ has(k) /\ ~has(k + 1) /\ hungUp}}
      \cup {Result(<<>>, rest(0), at, "error") : x \in {k \in {1} : ~has(k) /\ hungUp}}

\* parseChunkSize, for which too io.EOF is passed on, and ReadTrailer after the last chunk.
\* After that it meets the next header, an error: no method here begins with a hex digit, so
\* readHexInt takes one byte of it and finds no size.
ReadRequestStreamChunked(len) ==
  IF stream.chunkLeft > 0 THEN ReadInChunk(stream.chunkLeft, rpos, len)
  ELSE IF Ready(1) /\ Here.k = "size" /\ Here.n > 0 THEN ReadInChunk(Here.n, rpos + 1, len)
  ELSE IF Ready(2) /\ Here.k = "size" THEN {Result(<<>>, stream, rpos + 2, "eof")}
  ELSE IF Ready(1) /\ Here.k # "size" THEN {Result(<<>>, stream, rpos + 1, "error")}
  ELSE IF Peer(1) THEN {Result(<<>>, stream, rpos, "eof")}
  ELSE IF Peer(2) THEN {Result(<<>>, stream, rpos + 1, "error")}
  ELSE {}

\* requestStream.Read of a body of known length: the prefetched bytes, then the connection.
ReadRequestStreamFixed_Whole(len) ==
  IF stream.total = ContentLength THEN {Result(<<>>, stream, rpos, "eof")}
  ELSE {Result(SubSeq(Wire, rpos, rpos + n - 1), [stream EXCEPT !.total = @ + n], rpos + n, "nil")
          : n \in {k \in 1..len : Ready(k)}}
ReadRequestStreamFixed(len) ==
  LET least(a, b) == IF a < b THEN a ELSE b
      left == ContentLength - stream.total
  IN  IF left = 0 THEN {Result(<<>>, stream, rpos, "eof")}
      ELSE IF Len(stream.pre) > stream.total
      THEN LET n == least(len, Len(stream.pre) - stream.total)
           IN  {Result(SubSeq(stream.pre, stream.total + 1, stream.total + n),
                       [stream EXCEPT !.total = @ + n], rpos, "nil")}
      ELSE {Result(SubSeq(Wire, rpos, rpos + n - 1), [stream EXCEPT !.total = @ + n], rpos + n, "nil")
              : n \in {k \in 1..least(len, left) : Ready(k)}}
           \cup (IF Peer(1) THEN {Result(<<>>, stream, rpos, "eof")} ELSE {})

ReadStream(len) ==
  CASE stream.kind = "bytes" -> ReadBytes(len)
    [] stream.kind = "request" /\ ContentLength = -1 -> ReadRequestStreamChunked(len)
    [] stream.kind = "request" /\ ContentLength # -1 -> ReadRequestStreamFixed(len)
-----------------------------------------------------------------------------
(* The handler, and serveConn after it *)

\* Body() reads until EOF or MaxRequestBodySize bytes and closes: a sequence of these steps,
\* and HandlerCloses.
HandlerReads ==
  /\ pc = "handler"
  /\ stream.kind # "none"
  /\ ~eof
  /\ \E len \in 1..MaxRead : \E r \in ReadStream(len) :
       /\ got' = got \o r.bytes
       /\ stream' = r.stream
       /\ rpos' = r.rpos
       /\ eof' = (r.err = "eof")
  /\ UNCHANGED <<opt, arrived, hungUp, pc, cur, answered>>

\* Only a requestStream with DiscardUnReadBodyStream is read on when it is closed.
ReadOn == stream.kind = "request" /\ opt.Discard

\* The handler closes the stream: BodyWithError, CloseBodyStream.
HandlerCloses ==
  /\ pc = "handler"
  /\ stream.kind # "none"
  /\ IF ReadOn
     THEN pc' = "handlerClose" /\ UNCHANGED stream
     ELSE stream' = NoStream /\ UNCHANGED pc
  /\ UNCHANGED <<opt, arrived, hungUp, rpos, cur, got, eof, answered>>

\* The handler returns, and serveConn closes the stream if there still is one (needFinish).
HandlerReturns_AlwaysDone ==
  /\ pc = "handler"
  /\ pc' = "respond"
  /\ stream' = NoStream
  /\ UNCHANGED <<opt, arrived, hungUp, rpos, cur, got, eof, answered>>
HandlerReturns ==
  /\ pc = "handler"
  /\ IF ReadOn
     THEN pc' = "close" /\ UNCHANGED stream
     ELSE pc' = "respond" /\ stream' = NoStream
  /\ UNCHANGED <<opt, arrived, hungUp, rpos, cur, got, eof, answered>>

\* closeBodyStream copies the rest to pio.Discard.  An error ends serveConn; a handler that
\* has closed the stream is told of it, and the connection goes on.
CloseDiscards ==
  /\ pc \in {"close", "handlerClose"}
  /\ \E len \in 1..MaxRead : \E r \in ReadStream(len) :
       /\ rpos' = r.rpos
       /\ stream' = IF r.err = "nil" THEN r.stream ELSE NoStream
       /\ pc' = CASE r.err = "nil" -> pc
                  [] r.err # "nil" /\ pc = "handlerClose" -> "handler"
                  [] r.err = "eof" /\ pc = "close" -> "respond"
                  [] r.err = "error" /\ pc = "close" -> "closed"
  /\ UNCHANGED <<opt, arrived, hungUp, cur, got, eof, answered>>

\* The response is written and flushed; the request is reset for the next one.
Respond ==
  /\ pc = "respond"
  /\ answered' = answered \cup {cur}
  /\ pc' = "header"
  /\ UNCHANGED <<opt, arrived, hungUp, rpos, cur, got, stream, eof>>

\* All requests are answered, or the server waits for a client that is silent.
Finished ==
  /\ arrived = Len(Wire)
  /\ UNCHANGED vars

Next ==
  \/ Arrive \/ HangUp \/ ReadHeader
  \/ ReadBodyFixed \/ ReadBodyChunkedStart \/ ReadBodyChunked
  \/ ReadBodyStream \/ HandlerReads \/ HandlerCloses \/ HandlerReturns \/ CloseDiscards
  \/ Respond
  \/ Finished

Spec == Init /\ [][Next]_vars
-----------------------------------------------------------------------------
(* Properties *)

\* The handler gets the bytes of its own request, each once and in order; and all of them
\* when the body was read in full or the stream has ended, if the client did not hang up.
OwnBody ==
  /\ TypeOK
  /\ \A j \in 1..Len(got) : got[j] = Token("byte", cur, j)
  /\ (eof \/ (pc = "handler" /\ ~opt.StreamRequestBody)) /\ ~hungUp
       => Len(got) = BodyLen(Shape(cur))

\* The next request is read from its first byte, whatever the handler did with the stream,
\* but for two cases: a requestStream that is neither read to its end nor discarded leaves a
\* rest behind; and a chunked one that the handler has read to its end and then closed (as
\* Body() does) is discarded beyond it, into the next header.  Body() makes the error of that
\* close its result, and serveConn, which finds no stream left, goes on (server.go, needFinish).
NextAtHeader ==
  pc = "header" /\ rpos <= arrived
    => \/ Here.k = "header"
       \/ opt.StreamRequestBody /\ ~opt.Discard /\ ~eof
          /\ (ContentLength = -1 \/ ~InFull)
       \/ opt.Discard /\ eof /\ ContentLength = -1

(* What the documentation says and the code does not do *)

\* DiscardUnReadBodyStream is there "to avoid ... interfering with the reading of the next
\* request".  A chunked stream that the handler has read to its end is read on when it is
\* closed, from the header of the next request: the connection is then closed, or goes on
\* without the first bytes of that header if it was the handler who closed the stream.
DiscardStaysInBody == pc \in {"handler", "close"} /\ ContentLength = -1 => rpos <= EndOf(cur)

\* A stream that ends in io.EOF is complete; ErrUnexpectedReqBodyEOF is there for the others.
\* When the client hangs up, the stream of a body of known length ends in io.EOF anywhere, a
\* chunked one between its chunks.
EofIsTheEnd == eof => Len(got) = BodyLen(Shape(cur))
=============================================================================
