----------------------------- MODULE MessageBody -----------------------------
(***************************************************************************)
(* The body of a Request or a Response (http.go): the fields it may be in, *)
(* bodyStream, bodyRaw, body, chunkedW, multipartForm and postArgs; the    *)
(* methods that set, read, copy, swap and reset them, called in any order  *)
(* by the one goroutine that owns the messages; the pool of the buffers    *)
(* and the streams and forms that must be closed.                          *)
(* A body is a sequence of pieces; where it comes from is told by them.    *)
(* A definition D_Fault just before D is D with a plausible fault; no spec *)
(* uses it.                                                                *)
(***************************************************************************)
EXTENDS Naturals, Sequences, FiniteSets

CONSTANTS
  Msgs,      \* Request objects, or Response objects
  Bytes,     \* bytebufferpool.ByteBuffer objects
  Streams,   \* body streams of the user; multipart forms with their temporary files
  Forms,
  Nil,
  Pieces,    \* what a body is made of
  MaxPieces  \* bound: the pieces of a body

VARIABLES
  kind,      \* the messages are requests or responses
  msg,
  bytes,     \* what is in a buffer
  pooled,    \* the buffers in requestBodyPool or responseBodyPool
  closes     \* how often a stream was closed, the files of a form were removed, since it was made

vars == <<kind, msg, bytes, pooled, closes>>

Resources == Streams \cup Forms
Bodies == UNION {[1..n -> Pieces] : n \in 0..MaxPieces}

Fields ==
  [bodyStream : Streams \cup {Nil}, bodyRaw : Bodies \cup {Nil}, body : Bytes \cup {Nil},
   chunkedW : BOOLEAN, multipartForm : Forms \cup {Nil}, postArgs : BOOLEAN,
   keepBodyBuffer : BOOLEAN]

TypeOK ==
  /\ kind \in {"request", "response"}
  /\ msg \in [Msgs -> Fields]
  /\ bytes \in [Bytes -> Bodies]
  /\ pooled \subseteq Bytes
  /\ closes \in [Resources -> 0..2]

Init ==
  /\ kind \in {"request", "response"}
  /\ msg = [m \in Msgs |->
              [bodyStream |-> Nil, bodyRaw |-> Nil, body |-> Nil, chunkedW |-> FALSE,
               multipartForm |-> Nil, postArgs |-> FALSE, keepBodyBuffer |-> FALSE]]
  /\ bytes = [b \in Bytes |-> <<>>]
  /\ pooled = {}
  /\ closes = [r \in Resources |-> 1]

\* The fields, the buffers, the pool and the closings: what the methods work on.
World == [msg |-> msg, bytes |-> bytes, pooled |-> pooled, closes |-> closes]
Becomes(w) ==
  /\ msg' = w.msg /\ bytes' = w.bytes /\ pooled' = w.pooled /\ closes' = w.closes
  /\ UNCHANGED kind

Held(w) == {w.msg[m].body : m \in Msgs} \ {Nil}

\* One that was closed and is with no message stands for a new one, made by the user.
Unused(w, Objs) == {o \in Objs : w.closes[o] = 1 /\ \A m \in Msgs : w.msg[m].bodyStream # o
                                                               /\ w.msg[m].multipartForm # o}
-----------------------------------------------------------------------------
(* The steps the methods are made of *)

CloseResource(w, r) == IF r = Nil THEN w ELSE [w EXCEPT !.closes[r] = @ + 1]

\* closeBodyStream
CloseBodyStream_Keeps(w, m) == CloseResource(w, w.msg[m].bodyStream)
CloseBodyStream(w, m) ==
  [CloseResource(w, w.msg[m].bodyStream) EXCEPT !.msg[m].bodyStream = Nil]

\* RemoveMultipartFormFiles
RemoveMultipartFormFiles(w, m) ==
  [CloseResource(w, w.msg[m].multipartForm) EXCEPT !.msg[m].multipartForm = Nil]

\* bodyBuffer: the message's buffer, or one of the pool, or a new one.  Buffers are
\* interchangeable: a pooled one first, as sync.Pool does.
BodyBuffer(w, m) ==
  IF w.msg[m].body # Nil THEN [w EXCEPT !.msg[m].bodyRaw = Nil]
  ELSE LET b == IF w.pooled # {} THEN CHOOSE b \in w.pooled : TRUE
                ELSE CHOOSE b \in Bytes : b \notin Held(w)
       IN  [w EXCEPT !.msg[m].body = b, !.msg[m].bodyRaw = Nil, !.pooled = @ \ {b},
                     !.bytes[b] = <<>>]

Fill(w, m, s) == [w EXCEPT !.bytes[w.msg[m].body] = s]
BodyOf(w, m) == IF w.msg[m].body = Nil THEN <<>> ELSE w.bytes[w.msg[m].body]

\* Put into the pool, which empties the buffer.
PutBody_Held(w, m) == [w EXCEPT !.pooled = @ \cup {w.msg[m].body}]
PutBody(w, m) ==
  [w EXCEPT !.pooled = @ \cup {w.msg[m].body}, !.bytes[w.msg[m].body] = <<>>, !.msg[m].body = Nil]

DropBody(w, m) ==
  IF w.msg[m].body = Nil THEN w
  ELSE IF w.msg[m].keepBodyBuffer THEN Fill(w, m, <<>>) ELSE PutBody(w, m)

\* ResetBody
ResetBody(w, m) ==
  LET clear == [w EXCEPT !.msg[m].bodyRaw = Nil, !.msg[m].chunkedW = FALSE,
                         !.msg[m].postArgs = FALSE]
  IN  DropBody(CloseBodyStream(RemoveMultipartFormFiles(clear, m), m), m)

\* ReleaseBody: a buffer whose capacity exceeds the given size goes to the garbage collector.
ReleaseBody(w, m, big) ==
  LET raw == [w EXCEPT !.msg[m].bodyRaw = Nil]
  IN  IF big /\ w.msg[m].body # Nil THEN [CloseBodyStream(raw, m) EXCEPT !.msg[m].body = Nil]
      ELSE raw

\* Reset, resetForKeepAlive, resetSkipHeader; big: requestBodyPoolSizeLimit or
\* responseBodyPoolSizeLimit is set and the buffer's capacity exceeds it.
ResetMessage(w, m, big) ==
  ResetBody(IF w.msg[m].body # Nil THEN ReleaseBody(w, m, big) ELSE w, m)

\* The fields Write looks at, in its order.
View(w, m) ==
  LET f == w.msg[m]
      bodyBytes == IF f.bodyRaw # Nil THEN f.bodyRaw ELSE BodyOf(w, m)
  IN  IF f.chunkedW THEN <<"chunkedW">>
      ELSE IF f.bodyStream # Nil THEN <<f.bodyStream>>
      ELSE IF f.multipartForm # Nil /\ BodyOf(w, m) = <<>> THEN <<"form">>
      ELSE IF bodyBytes = <<>> /\ f.postArgs THEN <<"args">>
      ELSE bodyBytes
-----------------------------------------------------------------------------
(* The methods *)

\* SetBodyStream, SetBodyStreamWriter, SendFile
SetBodyStream(m) ==
  /\ Unused(World, Streams) # {}
  /\ LET s == CHOOSE s \in Unused(World, Streams) : TRUE
     IN  Becomes([ResetBody(World, m) EXCEPT !.msg[m].bodyStream = s, !.closes[s] = 0])

SetBodyStreamChunkedWriter(m) ==
  /\ kind = "response"
  /\ Becomes([ResetBody(World, m) EXCEPT !.msg[m].chunkedW = TRUE])

\* The head of SetBody and AppendBody: the other sources are dropped.
DropSources(w, m) ==
  [CloseBodyStream(RemoveMultipartFormFiles(w, m), m) EXCEPT !.msg[m].chunkedW = FALSE,
                                                            !.msg[m].bodyRaw = Nil]

SetBody(m, v) == Becomes(Fill(BodyBuffer(DropSources(World, m), m), m, v))

\* AppendBody, AppendBodyString, the BodyWriters
AppendBody(m, p) ==
  LET w == BodyBuffer(DropSources(World, m), m)
  IN  /\ Len(BodyOf(w, m)) < MaxPieces
      /\ Becomes(Fill(w, m, Append(BodyOf(w, m), p)))

SetBodyRaw_Keeps(m, v) == Becomes([World EXCEPT !.msg[m].bodyRaw = v])
SetBodyRaw(m, v) == Becomes([ResetBody(World, m) EXCEPT !.msg[m].bodyRaw = v])

\* BodyWithError, Body: a stream is copied into the buffer and closed; when that fails, Body
\* puts the error there.
StreamBody(m) ==
  /\ msg[m].bodyStream # Nil
  /\ \E read \in Bodies :
       Becomes(CloseBodyStream(Fill(BodyBuffer(World, m), m, read), m))

\* SwapBody: the old content is what the buffer holds once a stream was copied into it.
SwapBody(m, v) == Becomes(CloseBodyStream(Fill(BodyBuffer(World, m), m, v), m))

\* What SwapBody returns when there is no stream.
Swapped(m) == BodyOf(World, m)

\* BodyWriteTo and Write close a stream once it is copied, unless it panics.
WriteBody(m) ==
  /\ msg[m].bodyStream # Nil
  /\ Becomes(CloseBodyStream(World, m))

\* MultipartForm and readMultipartForm parse the body or the stream, which stays as it is.
MultipartForm(m) ==
  /\ kind = "request"
  /\ msg[m].multipartForm = Nil
  /\ Unused(World, Forms) # {}
  /\ LET f == CHOOSE f \in Unused(World, Forms) : TRUE
     IN  Becomes([World EXCEPT !.msg[m].multipartForm = f, !.closes[f] = 0])

\* postArgs are set by the user or parsed from the body.
PostArgs(m) ==
  /\ kind = "request"
  /\ Becomes([World EXCEPT !.msg[m].postArgs = TRUE])

\* CopyTo copies what Reset left of dst from the source: bodyRaw, and then the buffer.
CopyTo(m, dst) ==
  /\ m # dst
  /\ \E big \in BOOLEAN :
       LET reset == ResetMessage(World, dst, big)
           raw == [reset EXCEPT !.msg[dst].bodyRaw =
                                  IF msg[m].bodyRaw = <<>> THEN Nil ELSE msg[m].bodyRaw,
                                !.msg[dst].postArgs = msg[m].postArgs,
                                !.msg[dst].keepBodyBuffer = msg[m].keepBodyBuffer]
       IN  Becomes(IF msg[m].body # Nil THEN Fill(BodyBuffer(raw, dst), dst, bytes[msg[m].body])
                   ELSE IF raw.msg[dst].body # Nil THEN PutBody(raw, dst) ELSE raw)

\* swapRequestBody, swapResponseBody, for the copies a request with a timeout works on.
SwapMessages_Copies(m, o) ==
  /\ m # o
  /\ Becomes([World EXCEPT
       !.msg[m].body = msg[o].body, !.msg[m].bodyRaw = msg[o].bodyRaw,
       !.msg[m].bodyStream = msg[o].bodyStream])
SwapMessages(m, o) ==
  /\ m # o
  /\ Becomes([World EXCEPT
       !.msg[m].body = msg[o].body, !.msg[o].body = msg[m].body,
       !.msg[m].bodyRaw = msg[o].bodyRaw, !.msg[o].bodyRaw = msg[m].bodyRaw,
       !.msg[m].bodyStream = msg[o].bodyStream, !.msg[o].bodyStream = msg[m].bodyStream])

Release(m) == \E big \in BOOLEAN : Becomes(ReleaseBody(World, m, big))
ResetAll(m) == \E big \in BOOLEAN : Becomes(ResetMessage(World, m, big))
ResetOnly(m) == Becomes(ResetBody(World, m))
SetKeepBuffer(m) ==
  \E keep \in BOOLEAN : Becomes([World EXCEPT !.msg[m].keepBodyBuffer = keep])

Next ==
  \E m \in Msgs :
    \/ SetBodyStream(m) \/ SetBodyStreamChunkedWriter(m) \/ StreamBody(m) \/ WriteBody(m)
    \/ \E v \in Bodies : SetBody(m, v) \/ SetBodyRaw(m, v) \/ SwapBody(m, v)
    \/ \E p \in Pieces : AppendBody(m, p)
    \/ MultipartForm(m) \/ PostArgs(m)
    \/ Release(m) \/ ResetAll(m) \/ ResetOnly(m) \/ SetKeepBuffer(m)
    \/ \E o \in Msgs : CopyTo(m, o) \/ SwapMessages(m, o)

Spec == Init /\ [][Next]_vars
-----------------------------------------------------------------------------
(* Properties *)

\* A buffer belongs to one message or to the pool.  A stream or a form that was given to a
\* message is with one message and open, or with none and closed, once.
OnePlace ==
  /\ TypeOK
  /\ Held(World) \cap pooled = {}
  /\ \A m, o \in Msgs :
       m # o => /\ msg[m].body = Nil \/ msg[m].body # msg[o].body
                /\ msg[m].bodyStream = Nil \/ msg[m].bodyStream # msg[o].bodyStream
  /\ \A r \in Resources :
       closes[r] = IF \E m \in Msgs : r \in {msg[m].bodyStream, msg[m].multipartForm} THEN 0 ELSE 1

\* No source of the body hides the content of another one: whatever was set before, a
\* message with a stream has no raw body and an empty buffer, and one with a raw body has an
\* empty buffer.
NothingHidden ==
  \A m \in Msgs :
    /\ msg[m].bodyStream # Nil => msg[m].bodyRaw = Nil
    /\ msg[m].bodyStream # Nil \/ msg[m].bodyRaw # Nil => BodyOf(World, m) = <<>>

(* What the documentation says and the code does not do *)

\* CopyTo: "copies resp contents to dst except of body stream and chunkedW".  The buffer a
\* message keeps, even an empty one, makes the copy forget bodyRaw.
CopyIsTheSame ==
  [][\A m, o \in Msgs : CopyTo(m, o) /\ msg[m].bodyStream = Nil /\ ~msg[m].chunkedW
                                      /\ msg[m].multipartForm = Nil
                          => View(World, o)' = View(World, m)]_vars

\* SwapBody: "returns the previous response body".  A raw body is not returned.
SwapReturnsTheBody ==
  [][\A m \in Msgs, v \in Bodies : SwapBody(m, v) /\ msg[m].bodyStream = Nil /\ ~msg[m].chunkedW
                                    /\ kind = "response"
                          => Swapped(m) = View(World, m)]_vars

\* Write sends the body that was set last.  SwapBody leaves chunkedW.
SwapIsSent ==
  [][\A m \in Msgs, v \in Bodies : SwapBody(m, v) /\ v # <<>> => View(World, m)' = v]_vars
=============================================================================
