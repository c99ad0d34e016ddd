---------------------------- MODULE PipelineClient ----------------------------
(***************************************************************************)
(* pipelineConnClient (client.go), the connection of a PipelineClient      *)
(* (which has one by default): callers of Do and DoDeadline put works into  *)
(* chW; a goroutine started by init runs worker, which dials and runs a    *)
(* writer, which sends requests and passes works on to chR, and a reader,  *)
(* which reads the response of each.                                       *)
(* init makes both channels and the goroutine together, so channels and    *)
(* goroutines have the same numbers; c.chR and c.chW are nil or set at the *)
(* same time.  Only init and the decision to stop take chLock; the others  *)
(* read c.chR and c.chW when they need them.                               *)
(* A request is named by its caller and the number of calls it has left;   *)
(* bufio.Writer is taken to be large enough to send nothing before Flush.  *)
(* A definition D_Fault just before D is D with a plausible fault; no spec *)
(* uses it.                                                                *)
(***************************************************************************)
EXTENDS Integers, Sequences, FiniteSets, DistinctSeq

CONSTANTS
  Callers, Works, Nil, Error,
  MaxPendingRequests,
  MaxLoops,   \* bound: goroutines started by init
  MaxCalls,   \* bound: calls of one caller
  Scenes      \* the settings to be checked

Loops == 1..MaxLoops
Requests == Callers \X (0..MaxCalls)

\* The calls each caller makes, those who call DoDeadline (the others call Do),
\* whether MaxIdleConnDuration may pass, and a bound on failed dials and connections.
SceneType ==
  [calls : [Callers -> 0..MaxCalls], deadline : SUBSET Callers, idle : BOOLEAN, fails : Nat]

ASSUME PipelineClientAssumption ==
  /\ MaxPendingRequests \in Nat \ {0}
  /\ Nil \notin Callers \cup Works
  /\ Scenes \subseteq SceneType

VARIABLES
  scene,        \* the setting; never changes
  ch,           \* the number of c.chR and c.chW; 0 if they are nil
  chW, chR,     \* the contents of the channels of each number
  started,      \* goroutines started
  fails,        \* failures so far
  lpc, lerr,    \* the goroutine: where it is, whether worker returns an error
  conn,         \* its connection
  writer,       \* its writer: where it is, its channels, the work in its hands
  reader,       \* its reader, likewise
  cpc, left,    \* a caller: where it is, the calls it has left
  work,         \* the work it has acquired
  cch,          \* the channels it blocks on
  pool,         \* workPool
  req, res,     \* of a work: its request, the response (or error) it got
  done,         \* the number of values in w.done
  deadline,     \* "none", "ahead" or "past"
  tick          \* a value is in w.t.C

chanVars == <<ch, chW, chR, started>>
loopVars == <<lpc, lerr>>
callVars == <<cpc, left, work, cch>>
workVars == <<pool, req, res, done, deadline, tick>>
vars == <<scene, chanVars, fails, loopVars, conn, writer, reader, callVars, workVars>>

ConnType == [closed : BOOLEAN, stopW : BOOLEAN, stopR : BOOLEAN, flush : BOOLEAN,
             buf : Seq(Requests), wire : Seq(Requests)]
NewConn == [closed |-> FALSE, stopW |-> FALSE, stopR |-> FALSE, flush |-> FALSE,
            buf |-> <<>>, wire |-> <<>>]
EndType == [pc : {"start", "take", "slow", "write", "send", "slowSend", "read", "done"},
            ch : 0..MaxLoops, w : Works \cup {Nil}, err : BOOLEAN]
NewEnd == [pc |-> "start", ch |-> 0, w |-> Nil, err |-> FALSE]

TypeOK ==
  /\ scene \in Scenes
  /\ ch \in 0..MaxLoops /\ started \in 0..MaxLoops /\ fails \in 0..scene.fails
  /\ chW \in [Loops -> Seq(Works)] /\ chR \in [Loops -> Seq(Works)]
  /\ \A l \in Loops : Len(chW[l]) <= MaxPendingRequests /\ Len(chR[l]) <= MaxPendingRequests
  /\ lpc \in [Loops -> {"none", "dial", "run", "waitW", "waitR", "drain", "receive",
                        "decide", "end"}]
  /\ lerr \in [Loops -> BOOLEAN]
  /\ conn \in [Loops -> ConnType]
  /\ writer \in [Loops -> EndType] /\ reader \in [Loops -> EndType]
  /\ cpc \in [Callers -> {"none", "put", "overflow", "retry", "block", "wait"}]
  /\ left \in [Callers -> 0..MaxCalls]
  /\ work \in [Callers -> Works \cup {Nil}]
  /\ cch \in [Callers -> 0..MaxLoops]
  /\ pool \subseteq Works
  /\ req \in [Works -> Requests \cup {Nil}]
  /\ res \in [Works -> Requests \cup {Nil, Error}]
  /\ done \in [Works -> 0..2]
  /\ deadline \in [Works -> {"none", "ahead", "past"}]
  /\ tick \in [Works -> BOOLEAN]

Init ==
  /\ scene \in Scenes
  /\ ch = 0 /\ started = 0 /\ fails = 0
  /\ chW = [l \in Loops |-> <<>>] /\ chR = [l \in Loops |-> <<>>]
  /\ lpc = [l \in Loops |-> "none"]
  /\ lerr = [l \in Loops |-> FALSE]
  /\ conn = [l \in Loops |-> NewConn]
  /\ writer = [l \in Loops |-> NewEnd] /\ reader = [l \in Loops |-> NewEnd]
  /\ cpc = [g \in Callers |-> "none"]
  /\ left = scene.calls
  /\ work = [g \in Callers |-> Nil]
  /\ cch = [g \in Callers |-> 0]
  /\ pool = {}
  /\ req = [w \in Works |-> Nil]
  /\ res = [w \in Works |-> Nil]
  /\ done = [w \in Works |-> 0]
  /\ deadline = [w \in Works |-> "none"]
  /\ tick = [w \in Works |-> FALSE]

\* Where a work is, besides in the hands of its caller.
InWriter == {writer[l].w : l \in Loops}
InReader == {reader[l].w : l \in Loops}
InChannels == UNION {Elems(chW[l]) \cup Elems(chR[l]) : l \in Loops}
InUse == InWriter \cup InReader \cup InChannels \cup {work[g] : g \in Callers}

\* A nil channel has no room and no value.
HasRoom(c, l) == l # 0 /\ Len(c[l]) < MaxPendingRequests
HasWork(c, l) == l # 0 /\ c[l] # <<>>
Put(c, l, w) == [c EXCEPT ![l] = Append(@, w)]
Drop(c, l) == [c EXCEPT ![l] = Tail(@)]

\* w.err is set, or w.resp read, and w.done <- struct{}{}.
Answer(w, r) ==
  /\ res' = [res EXCEPT ![w] = r]
  /\ done' = [done EXCEPT ![w] = @ + 1]
NoAnswer == UNCHANGED <<res, done>>
AnswerVars == <<pool, req, deadline, tick>>  \* what it leaves alone

Failing(l) == conn[l].closed \/ fails < scene.fails
\* What a failure costs of the bound; a closed connection fails anyway.
CountFail(l) == fails' = IF conn[l].closed THEN fails ELSE fails + 1
-----------------------------------------------------------------------------
(* Do and DoDeadline *)

\* init: new channels and the goroutine that serves them, if c.chR is nil.
InitChannels ==
  \/ /\ ch = 0
     /\ started < MaxLoops
     /\ started' = started + 1
     /\ ch' = started + 1
     /\ lpc' = [lpc EXCEPT ![started + 1] = "dial"]
  \/ ch # 0 /\ UNCHANGED <<ch, started, lpc>>

\* DoDeadline after the deadline.
CallLate(g) ==
  /\ cpc[g] = "none" /\ left[g] > 0 /\ g \in scene.deadline
  /\ InitChannels
  /\ left' = [left EXCEPT ![g] = @ - 1]
  /\ UNCHANGED <<chW, chR, fails, lerr, conn, writer, reader, cpc, work, cch, workVars>>

\* init and acquirePipelineWork: a work from the pool or a new one.
Call(g, w) ==
  /\ cpc[g] = "none" /\ left[g] > 0
  /\ InitChannels
  /\ w \in pool \/ w = CHOOSE v \in Works : v \notin pool \cup InUse
  /\ pool' = pool \ {w}
  /\ req' = [req EXCEPT ![w] = <<g, left[g]>>]
  /\ res' = [res EXCEPT ![w] = Nil]
  /\ done' = [done EXCEPT ![w] = IF w \in pool THEN @ ELSE 0]
  /\ tick' = [tick EXCEPT ![w] = @ /\ w \in pool]
  /\ deadline' = [deadline EXCEPT ![w] = IF g \in scene.deadline THEN "ahead" ELSE "none"]
  /\ work' = [work EXCEPT ![g] = w]
  /\ left' = [left EXCEPT ![g] = @ - 1]
  /\ cpc' = [cpc EXCEPT ![g] = "put"]
  /\ UNCHANGED <<chW, chR, fails, lerr, conn, writer, reader, cch>>

\* case c.chW <- w; if it is full, Do makes room and DoDeadline blocks.
PutWork(g) ==
  /\ cpc[g] = "put"
  /\ \/ /\ HasRoom(chW, ch)
        /\ chW' = Put(chW, ch, work[g])
        /\ cpc' = [cpc EXCEPT ![g] = "wait"]
        /\ UNCHANGED cch
     \/ /\ ~HasRoom(chW, ch)
        /\ cpc' = [cpc EXCEPT ![g] = IF g \in scene.deadline THEN "block" ELSE "overflow"]
        /\ cch' = [cch EXCEPT ![g] = IF g \in scene.deadline THEN ch ELSE 0]
        /\ UNCHANGED chW
  /\ UNCHANGED <<ch, chR, started, fails, loopVars, conn, writer, reader, left, work, workVars>>

Substituted == Drop(chW, ch)

\* case wOld := <-c.chW
Overflow(g) ==
  /\ cpc[g] = "overflow"
  /\ cpc' = [cpc EXCEPT ![g] = "retry"]
  /\ \/ /\ HasWork(chW, ch)
        /\ Answer(Head(chW[ch]), Error)
        /\ chW' = Substituted
     \/ /\ ~HasWork(chW, ch)
        /\ NoAnswer
        /\ UNCHANGED chW
  /\ UNCHANGED <<ch, chR, started, fails, loopVars, conn, writer, reader, left, work, cch,
                 AnswerVars>>

\* releasePipelineWork, and the call returns.  Stop leaves a value in w.t.C.
ReleaseAndReturn(g) ==
  LET w == work[g] IN
  /\ pool' = pool \cup {w}
  /\ deadline' = [deadline EXCEPT ![w] = "none"]
  /\ req' = [req EXCEPT ![w] = Nil]
  /\ res' = [res EXCEPT ![w] = Nil]
  /\ work' = [work EXCEPT ![g] = Nil]
  /\ cpc' = [cpc EXCEPT ![g] = "none"]

\* The second try, or ErrPipelineOverflow.
Retry(g) ==
  /\ cpc[g] = "retry"
  /\ \/ /\ HasRoom(chW, ch)
        /\ chW' = Put(chW, ch, work[g])
        /\ cpc' = [cpc EXCEPT ![g] = "wait"]
        /\ UNCHANGED <<work, workVars>>
     \/ /\ ~HasRoom(chW, ch)
        /\ ReleaseAndReturn(g)
        /\ UNCHANGED <<chW, done, tick>>
  /\ UNCHANGED <<ch, chR, started, fails, loopVars, conn, writer, reader, left, cch>>

\* The slow path of DoDeadline: there is room, or ErrTimeout.
Unblock(g) ==
  /\ cpc[g] = "block"
  /\ cch' = [cch EXCEPT ![g] = 0]
  /\ \/ /\ HasRoom(chW, cch[g])
        /\ chW' = Put(chW, cch[g], work[g])
        /\ cpc' = [cpc EXCEPT ![g] = "wait"]
        /\ UNCHANGED <<work, workVars>>
     \/ /\ tick[work[g]]
        /\ tick' = [tick EXCEPT ![work[g]] = FALSE]
        /\ ReleaseAndReturn(g)
        /\ UNCHANGED <<chW, done>>
  /\ UNCHANGED <<ch, chR, started, fails, loopVars, conn, writer, reader, left>>

\* <-w.done
Receive(g) ==
  /\ cpc[g] = "wait"
  /\ done[work[g]] > 0
  /\ done' = [done EXCEPT ![work[g]] = @ - 1]
  /\ ReleaseAndReturn(g)
  /\ UNCHANGED <<chanVars, fails, loopVars, conn, writer, reader, left, cch, tick>>

PoolAfterTimeout_Put(w) == pool \cup {w}
PoolAfterTimeout(w) == pool

\* <-w.t.C in DoDeadline: the work is left to the writer and the reader.
Timeout(g) ==
  LET w == work[g] IN
  /\ cpc[g] = "wait" /\ g \in scene.deadline
  /\ tick[w]
  /\ tick' = [tick EXCEPT ![w] = FALSE]
  /\ pool' = PoolAfterTimeout(w)
  /\ work' = [work EXCEPT ![g] = Nil]
  /\ cpc' = [cpc EXCEPT ![g] = "none"]
  /\ UNCHANGED <<chanVars, fails, loopVars, conn, writer, reader, left, cch, req, res, done,
                 deadline>>

\* The deadline of a work passes and its timer fires.
Expire(w) ==
  /\ deadline[w] = "ahead"
  /\ deadline' = [deadline EXCEPT ![w] = "past"]
  /\ tick' = [tick EXCEPT ![w] = TRUE]
  /\ UNCHANGED <<chanVars, fails, loopVars, conn, writer, reader, callVars, pool, req, res, done>>
-----------------------------------------------------------------------------
(* The goroutine of init and worker *)

\* dialAddr; worker is run again after an error.
Dial(l) ==
  /\ lpc[l] = "dial"
  /\ \/ /\ conn' = [conn EXCEPT ![l] = NewConn]
        /\ writer' = [writer EXCEPT ![l] = NewEnd]
        /\ reader' = [reader EXCEPT ![l] = NewEnd]
        /\ lpc' = [lpc EXCEPT ![l] = "run"]
        /\ UNCHANGED fails
     \/ /\ fails < scene.fails
        /\ fails' = fails + 1
        /\ UNCHANGED <<conn, writer, reader, lpc>>
  /\ UNCHANGED <<chanVars, lerr, callVars, workVars>>

\* One of the two has ended: the connection is closed and the other one stopped.
Stop(l) ==
  /\ lpc[l] = "run"
  /\ \/ /\ writer[l].pc = "done"
        /\ lerr' = [lerr EXCEPT ![l] = writer[l].err]
        /\ conn' = [conn EXCEPT ![l].closed = TRUE, ![l].stopR = TRUE]
        /\ lpc' = [lpc EXCEPT ![l] = "waitR"]
     \/ /\ reader[l].pc = "done"
        /\ lerr' = [lerr EXCEPT ![l] = reader[l].err]
        /\ conn' = [conn EXCEPT ![l].closed = TRUE, ![l].stopW = TRUE]
        /\ lpc' = [lpc EXCEPT ![l] = "waitW"]
  /\ UNCHANGED <<chanVars, fails, writer, reader, callVars, workVars>>

BothDone(l) ==
  /\ \/ lpc[l] = "waitR" /\ reader[l].pc = "done"
     \/ lpc[l] = "waitW" /\ writer[l].pc = "done"
  /\ lpc' = [lpc EXCEPT ![l] = "drain"]
  /\ UNCHANGED <<chanVars, fails, lerr, conn, writer, reader, callVars, workVars>>

\* for len(c.chR) > 0, and what follows: worker is run again, or the goroutine
\* considers to end.
Drain(l) ==
  /\ lpc[l] = "drain"
  /\ lpc' = [lpc EXCEPT ![l] = IF HasWork(chR, ch) THEN "receive"
                               ELSE IF lerr[l] THEN "dial" ELSE "decide"]
  /\ UNCHANGED <<chanVars, fails, lerr, conn, writer, reader, callVars, workVars>>

\* w := <-c.chR
DrainOne(l) ==
  /\ lpc[l] = "receive"
  /\ HasWork(chR, ch)
  /\ Answer(Head(chR[ch]), Error)
  /\ chR' = Drop(chR, ch)
  /\ lpc' = [lpc EXCEPT ![l] = "drain"]
  /\ UNCHANGED <<ch, chW, started, fails, lerr, conn, writer, reader, callVars, AnswerVars>>

\* With both channels empty the goroutine ends; otherwise it forgets them.
Decide(l) ==
  /\ lpc[l] = "decide"
  /\ \/ /\ ~HasWork(chR, ch) /\ ~HasWork(chW, ch)
        /\ lpc' = [lpc EXCEPT ![l] = "end"]
        /\ UNCHANGED ch
     \/ /\ HasWork(chR, ch) \/ HasWork(chW, ch)
        /\ ch' = 0
        /\ lpc' = [lpc EXCEPT ![l] = "dial"]
  /\ UNCHANGED <<chW, chR, started, fails, lerr, conn, writer, reader, callVars, workVars>>

LoopStep(l) ==
  \/ Dial(l) \/ Stop(l) \/ BothDone(l) \/ Drain(l) \/ DrainOne(l) \/ Decide(l)
-----------------------------------------------------------------------------
(* writer *)

WriterGoes(l, pc, w) == writer' = [writer EXCEPT ![l].pc = pc, ![l].w = w]

\* Flush: what was written is on the way.
Flushed(l, c) == [c EXCEPT ![l].wire = @ \o conn[l].buf, ![l].buf = <<>>]

\* The writer returns; the deferred Flush fails on a closed connection.
WriterReturns(l, err) ==
  /\ writer' = [writer EXCEPT ![l].pc = "done", ![l].w = Nil, ![l].err = err]
  /\ conn' = IF conn[l].closed THEN conn ELSE Flushed(l, conn)

WriterStart(l) ==
  /\ lpc[l] \in {"run", "waitR", "waitW"} /\ writer[l].pc = "start"
  /\ writer' = [writer EXCEPT ![l].pc = "take", ![l].ch = ch]
  /\ UNCHANGED <<chanVars, fails, loopVars, conn, reader, callVars, workVars>>

BufAfterExpired_Written(l, w) == Append(conn[l].buf, req[w])
BufAfterExpired(l, w) == conn[l].buf

\* w = <-chW; a work whose deadline has passed goes no further.
WriterTake(l) ==
  LET c == writer[l].ch
      w == Head(chW[c])
  IN
  /\ writer[l].pc \in {"take", "slow"}
  /\ HasWork(chW, c)
  /\ chW' = Drop(chW, c)
  /\ \/ /\ deadline[w] = "past"
        /\ Answer(w, Error)
        /\ conn' = [conn EXCEPT ![l].buf = BufAfterExpired(l, w)]
        /\ WriterGoes(l, "take", Nil)
     \/ /\ deadline[w] # "past"
        /\ WriterGoes(l, "write", w)
        /\ NoAnswer
        /\ UNCHANGED conn
  /\ UNCHANGED <<ch, chR, started, fails, loopVars, reader, callVars, AnswerVars>>

\* The default cases of the two fast paths.
WriterSlow(l) ==
  /\ \/ /\ writer[l].pc = "take" /\ ~HasWork(chW, writer[l].ch)
        /\ WriterGoes(l, "slow", Nil)
     \/ /\ writer[l].pc = "send" /\ ~HasRoom(chR, writer[l].ch)
        /\ WriterGoes(l, "slowSend", writer[l].w)
  /\ UNCHANGED <<chanVars, fails, loopVars, conn, reader, callVars, workVars>>

\* <-stopTimer.C
WriterIdle(l) ==
  /\ scene.idle
  /\ writer[l].pc = "slow"
  /\ WriterReturns(l, FALSE)
  /\ UNCHANGED <<chanVars, fails, loopVars, reader, callVars, workVars>>

\* <-stopCh, also with a work in hand.
WriterStop(l) ==
  /\ conn[l].stopW
  /\ \/ writer[l].pc = "slow" /\ NoAnswer
     \/ writer[l].pc = "slowSend" /\ Answer(writer[l].w, Error)
  /\ WriterReturns(l, FALSE)
  /\ UNCHANGED <<chanVars, fails, loopVars, reader, callVars, AnswerVars>>

\* <-flushTimerCh
WriterFlush(l) ==
  /\ writer[l].pc \in {"slow", "slowSend"}
  /\ conn[l].flush
  /\ \/ /\ ~conn[l].closed
        /\ conn' = [Flushed(l, conn) EXCEPT ![l].flush = FALSE]
        /\ WriterGoes(l, IF writer[l].pc = "slow" THEN "take" ELSE "send", writer[l].w)
        /\ NoAnswer
        /\ UNCHANGED fails
     \/ /\ Failing(l)
        /\ CountFail(l)
        /\ \/ writer[l].w = Nil /\ NoAnswer
           \/ writer[l].w # Nil /\ Answer(writer[l].w, Error)
        /\ WriterReturns(l, TRUE)
  /\ UNCHANGED <<chanVars, loopVars, reader, callVars, AnswerVars>>

FlushNow_OnlyFull(c) == chW[c] = <<>> /\ ~HasRoom(chR, c)
FlushNow(c) == chW[c] = <<>> \/ ~HasRoom(chR, c)

\* w.req.Write(bw), after SetWriteDeadline: into the buffer, or an error.
WriterWrite(l) ==
  /\ writer[l].pc = "write"
  /\ \/ /\ conn' = [conn EXCEPT ![l].buf = Append(@, req[writer[l].w]),
                                ![l].flush = @ \/ FlushNow(writer[l].ch)]
        /\ WriterGoes(l, "send", writer[l].w)
        /\ NoAnswer
        /\ UNCHANGED fails
     \/ /\ Failing(l)
        /\ CountFail(l)
        /\ Answer(writer[l].w, Error)
        /\ WriterReturns(l, TRUE)
  /\ UNCHANGED <<chanVars, loopVars, reader, callVars, AnswerVars>>

\* case chR <- w
WriterSend(l) ==
  /\ writer[l].pc \in {"send", "slowSend"}
  /\ HasRoom(chR, writer[l].ch)
  /\ chR' = Put(chR, writer[l].ch, writer[l].w)
  /\ WriterGoes(l, "take", Nil)
  /\ UNCHANGED <<ch, chW, started, fails, loopVars, conn, reader, callVars, workVars>>

\* All but an idle connection's end, which may come or not.
WriterStep(l) ==
  \/ WriterStart(l) \/ WriterTake(l) \/ WriterSlow(l) \/ WriterStop(l) \/ WriterFlush(l)
  \/ WriterWrite(l) \/ WriterSend(l)
-----------------------------------------------------------------------------
(* reader *)

ReaderGoes(l, pc, w) == reader' = [reader EXCEPT ![l].pc = pc, ![l].w = w]

ReaderStart(l) ==
  /\ lpc[l] \in {"run", "waitR", "waitW"} /\ reader[l].pc = "start"
  /\ reader' = [reader EXCEPT ![l].pc = "take", ![l].ch = ch]
  /\ UNCHANGED <<chanVars, fails, loopVars, conn, writer, callVars, workVars>>

\* w = <-chR
ReaderTake(l) ==
  LET c == reader[l].ch IN
  /\ reader[l].pc \in {"take", "slow"}
  /\ HasWork(chR, c)
  /\ chR' = Drop(chR, c)
  /\ ReaderGoes(l, "read", Head(chR[c]))
  /\ UNCHANGED <<ch, chW, started, fails, loopVars, conn, writer, callVars, workVars>>

ReaderSlow(l) ==
  /\ reader[l].pc = "take" /\ ~HasWork(chR, reader[l].ch)
  /\ ReaderGoes(l, "slow", Nil)
  /\ UNCHANGED <<chanVars, fails, loopVars, conn, writer, callVars, workVars>>

\* <-stopCh
ReaderStop(l) ==
  /\ reader[l].pc = "slow" /\ conn[l].stopR
  /\ ReaderGoes(l, "done", Nil)
  /\ UNCHANGED <<chanVars, fails, loopVars, conn, writer, callVars, workVars>>

\* w.resp.Read(br): the server answers requests in the order it got them.
ReaderRead(l) ==
  /\ reader[l].pc = "read"
  /\ conn[l].wire # <<>>
  /\ Answer(reader[l].w, Head(conn[l].wire))
  /\ conn' = [conn EXCEPT ![l].wire = Tail(@)]
  /\ ReaderGoes(l, "take", Nil)
  /\ UNCHANGED <<chanVars, fails, loopVars, writer, callVars, AnswerVars>>

\* SetReadDeadline or Read fails, for the connection, its peer or ReadTimeout.
ReaderFails(l) ==
  /\ reader[l].pc = "read"
  /\ Failing(l)
  /\ CountFail(l)
  /\ Answer(reader[l].w, Error)
  /\ reader' = [reader EXCEPT ![l].pc = "done", ![l].w = Nil, ![l].err = TRUE]
  /\ UNCHANGED <<chanVars, loopVars, conn, writer, callVars, AnswerVars>>

ReaderStep(l) ==
  \/ ReaderStart(l) \/ ReaderTake(l) \/ ReaderSlow(l) \/ ReaderStop(l) \/ ReaderRead(l)
  \/ conn[l].closed /\ ReaderFails(l)
-----------------------------------------------------------------------------
CallStep(g) ==
  PutWork(g) \/ Overflow(g) \/ Retry(g) \/ Unblock(g) \/ Receive(g) \/ Timeout(g)

\* Nothing happens any more; callers may wait for ever.
Finished ==
  /\ \A g \in Callers : \/ cpc[g] = "none" /\ (left[g] = 0 \/ Works \subseteq pool \cup InUse \/ ch = 0)
                        \/ cpc[g] = "wait"
  /\ \A l \in Loops : /\ lpc[l] \in {"none", "run", "receive", "end"}
                      /\ writer[l].pc \in {"start", "slow", "done"}
  /\ UNCHANGED vars

Next ==
  /\ \/ \E g \in Callers : CallStep(g) \/ CallLate(g) \/ \E w \in Works : Call(g, w)
     \/ \E w \in Works : Expire(w)
     \/ \E l \in Loops : \/ LoopStep(l) \/ WriterStep(l) \/ WriterIdle(l)
                         \/ ReaderStep(l) \/ ReaderFails(l)
     \/ Finished
  /\ UNCHANGED scene

Spec == Init /\ [][Next]_vars

\* Goroutines that can run do run, timers fire and the server answers what it has
\* got.  Nobody need call, and neither failures nor the end of idle connections need
\* come.
Fairness ==
  /\ \A g \in Callers : WF_vars(UNCHANGED scene /\ CallStep(g))
  /\ \A w \in Works : WF_vars(UNCHANGED scene /\ Expire(w))
  /\ \A l \in Loops :
       /\ WF_vars(UNCHANGED scene /\ LoopStep(l))
       /\ WF_vars(UNCHANGED scene /\ WriterStep(l))
       /\ WF_vars(UNCHANGED scene /\ ReaderStep(l))

FairSpec == Spec /\ Fairness
-----------------------------------------------------------------------------
(* Properties *)

Held(h, w) == Cardinality({l \in Loops : h[l].w = w})
Queued(c, w) == Cardinality({l \in Loops : w \in Elems(c[l])})

\* A work is in one place: in one channel once, or with one writer or reader; and
\* what the writer and the reader may still touch is not in workPool, where the next
\* call would take it from: timeouts, overflows and ends of the connection included.
\* It is answered once, by the reader, the writer, the goroutine that drains chR or a
\* caller that needs its place, and nobody has it after that but its caller: so w.done,
\* of capacity one, never blocks them.
OnePlace ==
  /\ TypeOK
  /\ \A l \in Loops : Distinct(chW[l]) /\ Distinct(chR[l])
  /\ \A w \in Works :
       LET n == Held(writer, w) + Held(reader, w) + Queued(chW, w) + Queued(chR, w)
       IN  n <= 1 /\ (w \in pool => n = 0) /\ done[w] <= 1 /\ (done[w] = 1 => n = 0)

\* "Do performs the given http request and sets the corresponding response": the
\* response a caller gets is the one to its request, however requests time out, are
\* pushed out of the queue or fail in between; as long as init has started one
\* goroutine only.
OwnResponse ==
  started <= 1 => \A w \in Works : res[w] \in Requests /\ w \notin pool => res[w] = req[w]

\* A work is in one place, and comes back with the response to its request.
WorksSound == OnePlace /\ OwnResponse

\* DoDeadline returns; and Do returns, if everybody calls Do and no connection is
\* closed for being idle.
CallsReturn ==
  \A g \in Callers :
    (/\ cpc[g] # "none"
     /\ g \in scene.deadline \/ (scene.deadline = {} /\ ~scene.idle)) ~> (cpc[g] = "none")
-----------------------------------------------------------------------------
(* What the documentation says and the code does not do *)

\* "Keep restarting the worker if it fails": every Do returns.
DoReturns == \A g \in Callers : (cpc[g] # "none") ~> (cpc[g] = "none")

\* "sets the corresponding response", whatever init has done.
AlwaysOwnResponse == \A w \in Works : res[w] \in Requests /\ w \notin pool => res[w] = req[w]

\* "ErrTimeout is returned if the response wasn't returned until the given deadline."
NoEarlyTimeout == \A w \in Works : tick[w] => deadline[w] # "ahead"
=============================================================================
