------------------------------ MODULE PipeConns ------------------------------
(***************************************************************************)
(* One direction of a pipe (fasthttputil/pipeconns.go): the end that       *)
(* writes, the end that reads, and their pooled byteBuffers; either end    *)
(* may close the pipe between two calls, and may set its deadline.  With   *)
(* NewStreamReader (stream.go) the writing end is the goroutine of the     *)
(* StreamWriter, which closes the pipe when it is done.                    *)
(* Bytes are numbered in the order in which they are written; those of a   *)
(* Write that fails are written again by the next one.                     *)
(* A definition D_Fault just before D is D with a plausible fault; no spec *)
(* uses it.                                                                *)
(***************************************************************************)
EXTENDS Integers, Sequences, FiniteSets

CONSTANTS
  Buffers,    \* bound: byteBuffer objects
  Nil,
  Capacity,   \* of the channel: 4
  MaxBytes,   \* bound: bytes written
  MaxLen      \* bound: of a Write, of a Read

VARIABLES
  pool,       \* byteBufferPool: how often each buffer was put
  content,    \* the bytes of each buffer
  ch,         \* the channel: wCh of one end, rCh of the other
  stopped,    \* pc.stopCh is closed, and by whom
  w,          \* the writing end
  r           \* the reading end

vars == <<pool, content, ch, stopped, w, r>>

\* A deadline is ahead (and if none is set will not pass) or past, and then stays so until
\* another is set.
Deadlines == {"ahead", "past"}
\* The writer: its buffer, the length of the Write, and the bytes written so far.
WriterType ==
  [at : {"out", "check", "send", "block"}, b : Buffers \cup {Nil}, len : 0..MaxLen,
   written : 0..MaxBytes, deadline : Deadlines]
\* The reader: c.b, how much of it is left in c.bb, the room left in p, mayBlock, the
\* bytes read so far, whether they came in order, and whether it has seen the end.
ReaderType ==
  [at : {"out", "read", "copy", "next", "block", "drain"}, b : Buffers \cup {Nil}, bb : Nat,
   room : 0..MaxLen, mayBlock : BOOLEAN, why : {"none", "timeout", "eof"}, count : 0..MaxBytes,
   inOrder : BOOLEAN, eof : BOOLEAN, deadline : Deadlines]

TypeOK ==
  /\ pool \in [Buffers -> Nat]
  /\ content \in [Buffers -> Seq(1..MaxBytes)]
  /\ ch \in Seq(Buffers) /\ Len(ch) <= Capacity
  /\ stopped \in {"no", "writer", "reader"}
  /\ w \in WriterType /\ r \in ReaderType

Init ==
  /\ pool = [b \in Buffers |-> 1]
  /\ content = [b \in Buffers |-> <<>>]
  /\ ch = <<>> /\ stopped = "no"
  /\ w = [at |-> "out", b |-> Nil, len |-> 0, written |-> 0, deadline |-> "ahead"]
  /\ r = [at |-> "out", b |-> Nil, bb |-> 0, room |-> 0, mayBlock |-> FALSE, why |-> "none",
          count |-> 0, inOrder |-> TRUE, eof |-> FALSE, deadline |-> "ahead"]

\* releaseByteBuffer.  What a buffer in the pool contains no longer matters.
Put(b) ==
  IF b = Nil THEN UNCHANGED <<pool, content>>
  ELSE /\ pool' = [pool EXCEPT ![b] = @ + 1]
       /\ content' = [content EXCEPT ![b] = <<>>]
----------------------------------------------------------------------------
(* Write *)

\* acquireByteBuffer, and the bytes are copied into it.  Buffers in the pool are all alike.
Write(n) ==
  /\ w.at = "out" /\ w.written + n <= MaxBytes
  /\ \E b \in Buffers : pool[b] > 0
  /\ LET b == CHOOSE b \in Buffers : pool[b] > 0 IN
       /\ pool' = [pool EXCEPT ![b] = @ - 1]
       /\ content' = [content EXCEPT ![b] = [i \in 1..n |-> w.written + i]]
       /\ w' = [w EXCEPT !.at = "check", !.b = b, !.len = n]
  /\ UNCHANGED <<ch, stopped, r>>

\* The buffer of a Write that fails goes back, but not after a timeout, when it is left to
\* the garbage collector (a fresh one takes its place in the pool).
WriteFails == w' = [w EXCEPT !.at = "out", !.b = Nil, !.len = 0] /\ Put(w.b)

CheckStop ==
  /\ w.at = "check"
  /\ IF stopped # "no" THEN WriteFails ELSE w' = [w EXCEPT !.at = "send"] /\ UNCHANGED <<pool, content>>
  /\ UNCHANGED <<ch, stopped, r>>

Sent ==
  /\ Len(ch) < Capacity
  /\ ch' = Append(ch, w.b)
  /\ w' = [w EXCEPT !.at = "out", !.b = Nil, !.len = 0, !.written = @ + w.len]
  /\ UNCHANGED <<pool, content>>

\* The first select: send or go on to block.
Send ==
  /\ w.at = "send"
  /\ Sent \/ (Len(ch) = Capacity /\ w' = [w EXCEPT !.at = "block"] /\ UNCHANGED <<ch, pool, content>>)
  /\ UNCHANGED <<stopped, r>>

\* The second select: room, the deadline or the stop, whichever is chosen.
BlockedSend ==
  /\ w.at = "block"
  /\ \/ Sent
     \/ (w.deadline = "past" \/ stopped # "no") /\ WriteFails /\ UNCHANGED ch
  /\ UNCHANGED <<stopped, r>>
----------------------------------------------------------------------------
(* Read *)

Read(n) ==
  /\ r.at = "out"
  /\ r' = [r EXCEPT !.at = "read", !.room = n, !.mayBlock = TRUE]
  /\ UNCHANGED <<pool, content, ch, stopped, w>>

ReadReturns ==
  r' = [r EXCEPT !.at = "out", !.room = 0, !.mayBlock = FALSE, !.why = "none",
                 !.eof = @ \/ r.why = "eof"]

\* p is full: Read returns.  c.bb is empty: the buffer is put back and another one needed.
Loop ==
  /\ r.at = "read"
  /\ \/ r.room = 0 /\ ReadReturns /\ UNCHANGED <<pool, content>>
     \/ r.room > 0 /\ r.bb > 0 /\ r' = [r EXCEPT !.at = "copy"] /\ UNCHANGED <<pool, content>>
     \/ r.room > 0 /\ r.bb = 0 /\ r' = [r EXCEPT !.at = "next", !.b = Nil] /\ Put(r.b)
  /\ UNCHANGED <<ch, stopped, w>>

\* copy(p, c.bb), of no bytes if an empty Write was sent; from now on Read does not block.
Copied == IF r.bb < r.room THEN r.bb ELSE r.room
Copy ==
  /\ r.at = "copy"
  /\ LET from == Len(content[r.b]) - r.bb
     IN r' = [r EXCEPT !.at = "read", !.mayBlock = FALSE,
                !.bb = @ - Copied, !.room = @ - Copied, !.count = @ + Copied,
                !.inOrder = @ /\ \A i \in 1..Copied : content[r.b][from + i] = r.count + i]
  /\ UNCHANGED <<pool, content, ch, stopped, w>>

\* c.b = <-c.rCh
Receive ==
  /\ ch # <<>>
  /\ ch' = Tail(ch)
  /\ r' = [r EXCEPT !.at = "copy", !.why = "none", !.b = Head(ch), !.bb = Len(content[Head(ch)])]

\* The first select of readNextByteBuffer.
NextBuffer ==
  /\ r.at = "next"
  /\ \/ Receive
     \/ ch = <<>> /\ ~r.mayBlock /\ ReadReturns /\ UNCHANGED ch
     \/ ch = <<>> /\ r.mayBlock /\ r' = [r EXCEPT !.at = "block"] /\ UNCHANGED ch
  /\ UNCHANGED <<pool, content, stopped, w>>

\* The second: a buffer, the deadline or the stop, whichever is chosen.
BlockedReceive ==
  /\ r.at = "block"
  /\ \/ Receive
     \/ r.deadline = "past" /\ r' = [r EXCEPT !.at = "drain", !.why = "timeout"] /\ UNCHANGED ch
     \/ stopped # "no" /\ r' = [r EXCEPT !.at = "drain", !.why = "eof"] /\ UNCHANGED ch
  /\ UNCHANGED <<pool, content, stopped, w>>

\* "rCh may contain data when stopCh is closed.  Read the data before returning EOF."
Drain_Not == r.at = "drain" /\ ReadReturns /\ UNCHANGED <<pool, content, ch, stopped, w>>
Drain ==
  /\ r.at = "drain"
  /\ Receive \/ (ch = <<>> /\ ReadReturns /\ UNCHANGED ch)
  /\ UNCHANGED <<pool, content, stopped, w>>
----------------------------------------------------------------------------
(* Close and deadlines, between the calls of an end *)

Close(who) ==
  /\ IF who = "writer" THEN w.at = "out" ELSE r.at = "out"
  /\ stopped' = IF stopped = "no" THEN who ELSE stopped
  /\ UNCHANGED <<pool, content, ch, w, r>>

SetDeadline(d) ==
  /\ \/ w.at = "out" /\ w' = [w EXCEPT !.deadline = d] /\ UNCHANGED r
     \/ r.at = "out" /\ r' = [r EXCEPT !.deadline = d] /\ UNCHANGED w
  /\ UNCHANGED <<pool, content, ch, stopped>>

DeadlinePasses ==
  /\ \/ w.deadline = "ahead" /\ w' = [w EXCEPT !.deadline = "past"] /\ UNCHANGED r
     \/ r.deadline = "ahead" /\ r' = [r EXCEPT !.deadline = "past"] /\ UNCHANGED w
  /\ UNCHANGED <<pool, content, ch, stopped>>

Next ==
  \/ \E n \in 0..MaxLen : Write(n) \/ Read(n)
  \/ CheckStop \/ Send \/ BlockedSend
  \/ Loop \/ Copy \/ NextBuffer \/ BlockedReceive \/ Drain
  \/ Close("writer") \/ Close("reader")
  \/ \E d \in Deadlines : SetDeadline(d)
  \/ DeadlinePasses

Spec == Init /\ [][Next]_vars
----------------------------------------------------------------------------
(* What is to be checked *)

\* What is read is what was written, in order, although buffers are pooled and read in
\* pieces: each buffer is with the pool, the channel, the writer or the reader.  And a reader
\* is told of the end only when it has read all that was written before the writing end
\* closed the pipe, although data and the stop come through different channels.
ReadAsWritten ==
  /\ TypeOK
  /\ r.inOrder
  /\ r.eof /\ stopped = "writer" => r.count = w.written
  /\ \A b \in Buffers :
       pool[b] + Cardinality({i \in DOMAIN ch : ch[i] = b})
         + Cardinality({x \in {"w", "r"} : b = IF x = "w" THEN w.b ELSE r.b}) = 1
=============================================================================
