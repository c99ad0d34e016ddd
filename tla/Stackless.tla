------------------------------- MODULE Stackless -------------------------------
(***************************************************************************)
(* Compression through stackless functions: stackless.NewFunc, a bounded   *)
(* channel of pooled work items with its workers (stackless/func.go); the  *)
(* stackless writer, whose operations are such calls                       *)
(* (stackless/writer.go); and the functions of compress.go that compress a *)
(* text into a buffer, or into any writer through a pooled stackless       *)
(* writer.  Gzip and deflate are the same code.                            *)
(* A definition D_Fault just before D is D with a plausible fault; no spec *)
(* uses it.                                                                *)
(***************************************************************************)
EXTENDS Integers, Sequences, SequencesExt, FiniteSets

CONSTANTS
  Callers,
  Works,              \* funcWork items: one for each caller is enough
  Writers,            \* stackless writers: one for each caller is enough
  Nil,
  End,                \* the end of a compressed stream, which Close writes
  ChanSize,           \* the size of a channel
  MaxCompressions     \* bound: the texts that are compressed

\* The wrapped functions: nonblockingWriteGzip and writerFunc, with one worker each.
Funcs == {"buffer", "writer"}

VARIABLES
  funcWorkCh,         \* the channel of each function
  running,            \* the item the worker of each function runs, or Nil
  fw,                 \* the items: [ctx, done]
  funcWorkPool,
  call,               \* each caller: [pc, func, op, fw, w, err]
  wr,                 \* the writers: [dstW, p, held, closed, xw, err]
  writerPool,
  out,                \* what was written for a caller since its call began
  bad,                \* what was refused, or failed, in the caller's call
  ran,                \* how often f ran for the caller's operation
  jobs

stacklessVars == <<funcWorkCh, running, fw, funcWorkPool, call, wr, writerPool, out, bad, ran, jobs>>

NoCall == [pc |-> "new", func |-> "buffer", op |-> "write", fw |-> Nil, w |-> Nil, err |-> FALSE]

\* The compressor inside a writer holds what was written (each text by the caller whose it
\* is) until it decides to emit it to xw, the buffer of the writer.
NewWriter(c) == [dstW |-> c, p |-> Nil, held |-> <<>>, closed |-> FALSE, xw |-> <<>>, err |-> FALSE]

StacklessInit ==
  /\ funcWorkCh = [f \in Funcs |-> <<>>]
  /\ running = [f \in Funcs |-> Nil]
  /\ fw = [x \in Works |-> [ctx |-> Nil, done |-> FALSE]]
  /\ funcWorkPool = Works
  /\ call = [c \in Callers |-> NoCall]
  /\ wr = [w \in Writers |-> NewWriter(Nil)]
  /\ writerPool = {}
  /\ out = [c \in Callers |-> <<>>]
  /\ bad = [c \in Callers |-> {}]
  /\ ran = [c \in Callers |-> 0]
  /\ jobs = 0

UsedWriters == writerPool \cup {call[c].w : c \in {d \in Callers : call[d].pc \in {"call", "wait"}}}

\* WriteGzipLevel begins: a buffer is compressed by one call; another writer needs a stackless
\* writer, a new one or a pooled one, which is reset.
WriteLevel(c, f) ==
  /\ call[c].pc \in {"new", "returned"}
  /\ call[c].pc = "new" => c = CHOOSE d \in Callers : call[d].pc = "new"   \* these are interchangeable
  /\ jobs < MaxCompressions
  /\ jobs' = jobs + 1
  /\ out' = [out EXCEPT ![c] = <<>>]
  /\ bad' = [bad EXCEPT ![c] = {}]
  /\ ran' = [ran EXCEPT ![c] = 0]
  /\ UNCHANGED <<funcWorkCh, running, fw, funcWorkPool>>
  /\ \/ /\ f = "buffer"
        /\ call' = [call EXCEPT ![c] = [NoCall EXCEPT !.pc = "call"]]
        /\ UNCHANGED <<wr, writerPool>>
     \/ /\ f = "writer"
        /\ \E w \in writerPool :
             /\ writerPool' = writerPool \ {w}
             /\ wr' = [wr EXCEPT ![w].xw = <<>>]
             /\ call' = [call EXCEPT ![c] =
                  [NoCall EXCEPT !.pc = "call", !.func = f, !.op = "reset", !.w = w]]
     \/ /\ f = "writer"
        /\ writerPool = {}
        /\ LET w == CHOOSE w \in Writers \ UsedWriters : TRUE IN
             /\ wr' = [wr EXCEPT ![w] = [NewWriter(c) EXCEPT !.p = c]]
             /\ call' = [call EXCEPT ![c] = [NoCall EXCEPT !.pc = "call", !.func = f, !.w = w]]
        /\ UNCHANGED writerPool

\* What a caller does when its operation has ended, with or without an error: after the reset
\* it writes its text, after that it releases the writer, which closes it and puts it into the
\* pool whatever the result.  WriteGzipLevel returns the error of the write only.
Ended(c, w, err) ==
  LET op == call[c].op
      next == IF call[c].func = "buffer" \/ op = "close" THEN "returned" ELSE "call" IN
  /\ call' = [call EXCEPT ![c].pc = next,
                          ![c].fw = Nil,
                          ![c].op = IF next = "returned" THEN op ELSE IF op = "reset" THEN "write" ELSE "close",
                          ![c].err = IF op = "write" /\ call[c].func = "writer" THEN err ELSE @]
  /\ ran' = [ran EXCEPT ![c] = 0]
  /\ IF call[c].func = "buffer" THEN UNCHANGED <<wr, writerPool>>
     ELSE /\ wr' = [wr EXCEPT ![call[c].w] =
               CASE op = "reset" -> [w EXCEPT !.dstW = c, !.p = c]
                 [] op = "write" -> [w EXCEPT !.p = Nil]
                 [] op = "close" -> w]
          /\ writerPool' = IF op = "close" THEN writerPool \cup {call[c].w} ELSE writerPool

\* A call of a wrapped function: the item is sent to the workers, or the channel is full and
\* the operation is refused.
Call_Blindly(c) ==
  LET f == call[c].func
      x == CHOOSE x \in funcWorkPool : TRUE IN
  /\ call[c].pc = "call"
  /\ fw' = [fw EXCEPT ![x].ctx = IF f = "buffer" THEN c ELSE call[c].w]
  /\ funcWorkCh' = [funcWorkCh EXCEPT ![f] = Append(@, x)]
  /\ call' = [call EXCEPT ![c].pc = "wait", ![c].fw = x]
  /\ UNCHANGED <<running, funcWorkPool, wr, writerPool, out, bad, ran, jobs>>
Call(c) ==
  LET f == call[c].func
      x == CHOOSE x \in funcWorkPool : TRUE IN
  /\ call[c].pc = "call"
  /\ UNCHANGED <<running, out, jobs>>
  /\ \/ /\ Len(funcWorkCh[f]) < ChanSize
        /\ funcWorkPool' = funcWorkPool \ {x}
        /\ fw' = [fw EXCEPT ![x].ctx = IF f = "buffer" THEN c ELSE call[c].w]
        /\ funcWorkCh' = [funcWorkCh EXCEPT ![f] = Append(@, x)]
        /\ call' = [call EXCEPT ![c].pc = "wait", ![c].fw = x]
        /\ UNCHANGED <<wr, writerPool, bad, ran>>
     \/ /\ Len(funcWorkCh[f]) = ChanSize
        /\ bad' = [bad EXCEPT ![c] = @ \cup {call[c].op}]
        /\ Ended(c, IF f = "buffer" THEN Nil ELSE wr[call[c].w], TRUE)
        /\ UNCHANGED <<funcWorkCh, fw, funcWorkPool>>

\* funcWorker takes an item ...
Take(f) ==
  /\ running[f] = Nil
  /\ funcWorkCh[f] # <<>>
  /\ running' = [running EXCEPT ![f] = Head(funcWorkCh[f])]
  /\ funcWorkCh' = [funcWorkCh EXCEPT ![f] = Tail(@)]
  /\ UNCHANGED <<fw, funcWorkPool, call, wr, writerPool, out, bad, ran, jobs>>

\* writerFunc: the operation on the compressor (external), which may emit what it holds with
\* every write, emits it with a close, fails when it is closed and forgets it with a reset.
WriterFunc_KeepsHeld(w, op) ==
  CASE op = "write" /\ w.closed -> {[w EXCEPT !.err = TRUE]}
    [] op = "write" /\ ~w.closed -> {[w EXCEPT !.held = Append(@, w.p), !.err = FALSE],
                                     [w EXCEPT !.xw = @ \o Append(w.held, w.p), !.held = <<>>, !.err = FALSE]}
    [] op = "close" -> {IF w.closed THEN [w EXCEPT !.err = FALSE]
                        ELSE [w EXCEPT !.xw = Append(@ \o w.held, End), !.closed = TRUE, !.err = FALSE]}
    [] op = "reset" -> {[w EXCEPT !.closed = FALSE, !.err = FALSE]}
WriterFunc(w, op) ==
  CASE op = "write" /\ w.closed -> {[w EXCEPT !.err = TRUE]}
    [] op = "write" /\ ~w.closed -> {[w EXCEPT !.held = Append(@, w.p), !.err = FALSE],
                                     [w EXCEPT !.xw = @ \o Append(w.held, w.p), !.held = <<>>, !.err = FALSE]}
    [] op = "close" -> {IF w.closed THEN [w EXCEPT !.err = FALSE]
                        ELSE [w EXCEPT !.xw = Append(@ \o w.held, End), !.held = <<>>, !.closed = TRUE, !.err = FALSE]}
    [] op = "reset" -> {[w EXCEPT !.held = <<>>, !.closed = FALSE, !.err = FALSE]}

\* ... runs f and tells the caller.
Run(f) ==
  LET x == running[f]
      ctx == fw[x].ctx
      c == IF f = "buffer" THEN ctx ELSE CHOOSE d \in Callers : call[d].fw = x IN
  /\ x # Nil
  /\ running' = [running EXCEPT ![f] = Nil]
  /\ fw' = [fw EXCEPT ![x].done = TRUE]
  /\ ran' = [ran EXCEPT ![c] = @ + 1]
  /\ \/ /\ f = "buffer"
        /\ out' = [out EXCEPT ![ctx] = @ \o <<ctx, End>>]
        /\ UNCHANGED wr
     \/ /\ f = "writer"
        /\ \E w \in WriterFunc(wr[ctx], call[c].op) : wr' = [wr EXCEPT ![ctx] = w]
        /\ UNCHANGED out
  /\ UNCHANGED <<funcWorkCh, funcWorkPool, call, writerPool, bad, jobs>>

\* The caller goes on: the item is put back; a writer without an error writes what the
\* compressor has emitted, which may fail.
Done(c) ==
  LET x == call[c].fw
      w == wr[call[c].w]
      writes == w.xw # <<>> IN
  /\ call[c].pc = "wait"
  /\ fw[x].done
  /\ fw' = [fw EXCEPT ![x] = [ctx |-> Nil, done |-> FALSE]]
  /\ funcWorkPool' = funcWorkPool \cup {x}
  /\ UNCHANGED <<funcWorkCh, running, jobs>>
  /\ \/ /\ call[c].func = "buffer"
        /\ Ended(c, Nil, FALSE)
        /\ UNCHANGED <<out, bad>>
     \/ /\ call[c].func = "writer"
        /\ w.err
        /\ Ended(c, w, TRUE)
        /\ bad' = [bad EXCEPT ![c] = @ \cup {call[c].op}]
        /\ UNCHANGED out
     \/ /\ call[c].func = "writer"
        /\ ~w.err
        /\ out' = IF writes THEN [out EXCEPT ![w.dstW] = @ \o w.xw] ELSE out
        /\ Ended(c, [w EXCEPT !.xw = <<>>], FALSE)
        /\ UNCHANGED bad
     \/ /\ call[c].func = "writer"
        /\ ~w.err
        /\ writes
        /\ Ended(c, [w EXCEPT !.xw = <<>>], TRUE)
        /\ bad' = [bad EXCEPT ![c] = @ \cup {"dstW"}]
        /\ UNCHANGED out

StacklessNext ==
  \/ \E f \in Funcs : Take(f) \/ Run(f) \/ \E c \in Callers : WriteLevel(c, f)
  \/ \E c \in Callers : Call(c) \/ Done(c)

StacklessSpec == StacklessInit /\ [][StacklessNext]_stacklessVars
-----------------------------------------------------------------------------
(* Properties *)

\* The work items are where the code thinks: one that is in the pool, in a channel, run by a
\* worker or done is nowhere else, and a caller that waits has one of its own.
ItemsSound ==
  /\ \A x \in Works :
       Cardinality({f \in Funcs : running[f] = x}) + Cardinality({f \in Funcs : Contains(funcWorkCh[f], x)})
       + (IF x \in funcWorkPool THEN 1 ELSE 0) + (IF fw[x].done THEN 1 ELSE 0) = 1
  /\ \A c \in Callers : call[c].pc = "wait" =>
       /\ fw[call[c].fw].ctx = IF call[c].func = "buffer" THEN c ELSE call[c].w
       /\ \A d \in Callers \ {c} : call[d].fw # call[c].fw
       /\ ran[c] = IF fw[call[c].fw].done THEN 1 ELSE 0

\* ItemsSound, and: a caller gets the compressed form of its own text and nothing else, though
\* the items, the writers and the compressors are used by one after another.  A call whose
\* operations were refused or failed gets a part of it; only the reset of a pooled writer that
\* was refused for load leaves in it what its last user had.
OwnOutput ==
  /\ ItemsSound
  /\ \A c \in Callers :
       /\ "reset" \notin bad[c] => IsPrefix(out[c], <<c, End>>) \/ (bad[c] # {} /\ out[c] = <<End>>)
       /\ call[c].pc = "returned" /\ bad[c] = {} => out[c] = <<c, End>>
-----------------------------------------------------------------------------
(* What the documentation says and the code does not do *)

\* "WriteGzipLevel writes gzipped p to w using the given compression level and returns the
\* number of compressed bytes written to w": a refused call of a buffer, and a close that was
\* refused or whose write failed, are reported as success.
SuccessIsWritten == \A c \in Callers :
  call[c].pc = "returned" /\ ~call[c].err /\ bad[c] # {} => out[c] = <<c, End>>

\* The same of the text of another, after a refused reset.
NoOneElses == \A c \in Callers : ToSet(out[c]) \subseteq {c, End}
===============================================================================
