------------------------------ MODULE WorkerPool ------------------------------
(***************************************************************************)
(* workerPool (workerpool.go) together with the accept loop of             *)
(* Server.Serve (server.go), its only caller.  Goroutines:                 *)
(*   - the acceptor: accepts, calls wp.Serve, and calls wp.Stop when the   *)
(*     listener fails;                                                     *)
(*   - one worker per live workerChan, running workerFunc;                 *)
(*   - the cleaner started by wp.Start.                                    *)
(* A worker is named by its workerChan, since workerFunc and its channel   *)
(* share a lifetime.  wp.lock is explicit because Stop sends on channels   *)
(* while it holds it; every other critical section is one step.            *)
(* A definition D_Fault just before D is D with a plausible fault; no spec *)
(* uses it.                                                                *)
(***************************************************************************)
EXTENDS Integers, Sequences, FiniteSets, DistinctSeq

CONSTANTS
  Conns,                  \* connections the listener may return
  Chans,                  \* the workerChan objects
  NilConn,                \* the nil sent to a worker to stop it
  MaxWorkersCount,
  MaxIdleWorkerDuration,
  MaxClock                \* bound: the clock stops here

ASSUME WorkerPoolAssumption ==
  /\ IsFiniteSet(Chans)
  /\ NilConn \notin Conns
  /\ MaxWorkersCount \in Nat
  /\ MaxIdleWorkerDuration \in Nat
  /\ MaxClock \in Nat

VARIABLES
  workerChanCap, \* 0 if GOMAXPROCS=1, else 1; never changes
  lockHeld,      \* wp.lock is held across steps (only Stop does that)
  ready,         \* wp.ready: idle workers, oldest first
  workersCount,  \* wp.workersCount
  mustStop,      \* wp.mustStop
  stopClosed,    \* the channel wp.stopCh is closed
  pool,          \* wp.workerChanPool
  buf,           \* contents of each workerChan.ch
  lastUseTime,   \* workerChan.lastUseTime
  wpc,           \* where each worker is
  wconn,         \* the connection each worker holds
  apc,           \* where the acceptor is
  aconn,         \* the connection in the acceptor's hands
  ach,           \* the workerChan getCh returned to it
  cpc,           \* where the cleaner is
  scratch,       \* workers the cleaner has still to stop
  stat,          \* what has become of each connection
  open,          \* *wp.open, less the listener's own count
  concurrency,   \* *wp.concurrency
  now

poolVars   == <<ready, workersCount, mustStop>>
workerVars == <<buf, wpc, wconn>>
accVars    == <<apc, aconn, ach>>
cleanVars  == <<cpc, scratch>>
connVars   == <<stat, open, concurrency>>
vars == <<workerChanCap, lockHeld, poolVars, stopClosed, pool, workerVars, lastUseTime,
          accVars, cleanVars, connVars, now>>

WorkerPCs == {"none", "recv", "serve", "uncount", "close", "stamp",
              "release", "exit", "put"}
AcceptorPCs == {"accept", "getCh", "spawn", "send", "reject",
                "stopLock", "stopSend", "returned"}
CleanerPCs == {"clean", "notify", "poll", "sleep", "returned"}
ConnStats == {"new", "accepted", "serving", "closed", "hijacked", "rejected"}

TypeOK ==
  /\ workerChanCap \in {0, 1}
  /\ lockHeld \in BOOLEAN
  /\ ready \in Seq(Chans)
  /\ workersCount \in Int
  /\ mustStop \in BOOLEAN
  /\ stopClosed \in BOOLEAN
  /\ pool \subseteq Chans
  /\ buf \in [Chans -> Seq(Conns \cup {NilConn})]
  /\ lastUseTime \in [Chans -> Nat]
  /\ wpc \in [Chans -> WorkerPCs]
  /\ wconn \in [Chans -> Conns \cup {NilConn}]
  /\ apc \in AcceptorPCs
  /\ aconn \in Conns \cup {NilConn}
  /\ ach \in Chans \cup {NilConn}
  /\ cpc \in CleanerPCs
  /\ scratch \in Seq(Chans)
  /\ stat \in [Conns -> ConnStats]
  /\ open \in Int
  /\ concurrency \in Int
  /\ now \in Nat

Init ==
  /\ workerChanCap \in {0, 1}
  /\ lockHeld = FALSE
  /\ ready = <<>>
  /\ workersCount = 0
  /\ mustStop = FALSE
  /\ stopClosed = FALSE
  /\ pool = {}
  /\ buf = [ch \in Chans |-> <<>>]
  /\ lastUseTime = [ch \in Chans |-> 0]
  /\ wpc = [ch \in Chans |-> "none"]
  /\ wconn = [ch \in Chans |-> NilConn]
  /\ apc = "accept"
  /\ aconn = NilConn
  /\ ach = NilConn
  /\ cpc = "clean"
  /\ scratch = <<>>
  /\ stat = [c \in Conns |-> "new"]
  /\ open = 0
  /\ concurrency = 0
  /\ now = 0
-----------------------------------------------------------------------------
(* Channels *)

\* What a worker does with what it receives: nil ends its loop; for a
\* connection it counts itself in wp.concurrency, reports StateNew and calls
\* WorkerFunc.
Receive(ch, c) ==
  /\ wpc[ch] = "recv"
  /\ wpc' = [wpc EXCEPT ![ch] = IF c = NilConn THEN "exit" ELSE "serve"]
  /\ wconn' = [wconn EXCEPT ![ch] = c]
  /\ IF c = NilConn
     THEN UNCHANGED <<stat, concurrency>>
     ELSE /\ stat' = [stat EXCEPT ![c] = "serving"]
          /\ concurrency' = concurrency + 1

\* ch.ch <- c.  With capacity 0 the send is a rendezvous with the worker.
ChanSend(ch, c) ==
  \/ /\ workerChanCap = 0
     /\ Receive(ch, c)
     /\ UNCHANGED buf
  \/ /\ Len(buf[ch]) < workerChanCap
     /\ buf' = [buf EXCEPT ![ch] = Append(@, c)]
     /\ UNCHANGED <<wpc, wconn, stat, concurrency>>
-----------------------------------------------------------------------------
(* The acceptor: Server.Serve and workerPool.Serve / getCh / Stop *)

\* ln.Accept returned a connection; it is counted before anything else.
Accept(c) ==
  /\ apc = "accept"
  /\ stat[c] = "new"
  /\ stat' = [stat EXCEPT ![c] = "accepted"]
  /\ open' = open + 1
  /\ aconn' = c
  /\ apc' = "getCh"
  /\ UNCHANGED <<lockHeld, poolVars, stopClosed, pool, workerVars, lastUseTime,
                 ach, cleanVars, concurrency, now>>

\* ready = ready[:n]: the newest worker leaves the list.
ReadyButNewest_Kept == ready
ReadyButNewest == SubSeq(ready, 1, Len(ready) - 1)

\* Whether getCh may start one more worker.
HasRoom_OffByOne == workersCount <= MaxWorkersCount
HasRoom == workersCount < MaxWorkersCount

\* The critical section of getCh: the newest idle worker, or a new one if
\* there is room, or none.
GetCh ==
  /\ apc = "getCh"
  /\ ~lockHeld
  /\ \/ /\ ready # <<>>
        /\ ach' = ready[Len(ready)]
        /\ ready' = ReadyButNewest
        /\ apc' = "send"
        /\ UNCHANGED workersCount
     \/ /\ ready = <<>>
        /\ HasRoom
        /\ workersCount' = workersCount + 1
        /\ apc' = "spawn"
        /\ UNCHANGED <<ready, ach>>
     \/ /\ ready = <<>>
        /\ ~HasRoom
        /\ apc' = "reject"
        /\ UNCHANGED <<ready, workersCount, ach>>
  /\ UNCHANGED <<lockHeld, mustStop, stopClosed, pool, workerVars, lastUseTime,
                 aconn, cleanVars, connVars, now>>

\* workerChanPool.Get, which returns a pooled workerChan as it was put or
\* makes a new one, and the start of the worker's goroutine.
Spawn(ch) ==
  /\ apc = "spawn"
  /\ wpc[ch] = "none"
  /\ pool' = pool \ {ch}
  /\ wpc' = [wpc EXCEPT ![ch] = "recv"]
  /\ ach' = ch
  /\ apc' = "send"
  /\ UNCHANGED <<lockHeld, poolVars, stopClosed, buf, wconn, lastUseTime,
                 aconn, cleanVars, connVars, now>>

\* The send at the end of workerPool.Serve.
ServeSend ==
  /\ apc = "send"
  /\ ChanSend(ach, aconn)
  /\ apc' = "accept"
  /\ aconn' = NilConn
  /\ ach' = NilConn
  /\ UNCHANGED <<lockHeld, poolVars, stopClosed, pool, lastUseTime,
                 cleanVars, open, now>>

\* workerPool.Serve returned false: answer, close, uncount.
Reject ==
  /\ apc = "reject"
  /\ stat' = [stat EXCEPT ![aconn] = "rejected"]
  /\ open' = open - 1
  /\ apc' = "accept"
  /\ aconn' = NilConn
  /\ UNCHANGED <<lockHeld, poolVars, stopClosed, pool, workerVars, lastUseTime,
                 ach, cleanVars, concurrency, now>>

\* ln.Accept failed for good: Stop closes stopCh ...
StopClose ==
  /\ apc = "accept"
  /\ stopClosed' = TRUE
  /\ apc' = "stopLock"
  /\ UNCHANGED <<lockHeld, poolVars, pool, workerVars, lastUseTime,
                 aconn, ach, cleanVars, connVars, now>>

\* ... takes the lock ...
StopLock ==
  /\ apc = "stopLock"
  /\ ~lockHeld
  /\ lockHeld' = TRUE
  /\ apc' = "stopSend"
  /\ UNCHANGED <<poolVars, stopClosed, pool, workerVars, lastUseTime,
                 aconn, ach, cleanVars, connVars, now>>

\* ... stops the idle workers one by one, oldest first, keeping the lock ...
StopSend ==
  /\ apc = "stopSend"
  /\ ready # <<>>
  /\ ChanSend(Head(ready), NilConn)
  /\ ready' = Tail(ready)
  /\ UNCHANGED <<lockHeld, workersCount, mustStop, stopClosed, pool,
                 lastUseTime, accVars, cleanVars, open, now>>

\* ... and tells the busy ones to stop by themselves.
StopUnlock ==
  /\ apc = "stopSend"
  /\ ready = <<>>
  /\ mustStop' = TRUE
  /\ lockHeld' = FALSE
  /\ apc' = "returned"
  /\ UNCHANGED <<ready, workersCount, stopClosed, pool, workerVars,
                 lastUseTime, aconn, ach, cleanVars, connVars, now>>
-----------------------------------------------------------------------------
(* A worker: workerFunc and the goroutine getCh starts *)

\* for c = range ch.ch, with a buffered channel.
WorkerRecv(ch) ==
  /\ buf[ch] # <<>>
  /\ Receive(ch, Head(buf[ch]))
  /\ buf' = [buf EXCEPT ![ch] = Tail(@)]
  /\ UNCHANGED <<lockHeld, poolVars, stopClosed, pool, lastUseTime,
                 accVars, cleanVars, open, now>>

WorkerStep(ch, from, to) ==
  /\ wpc[ch] = from
  /\ wpc' = [wpc EXCEPT ![ch] = to]
  /\ UNCHANGED <<lockHeld, stopClosed, buf, accVars, cleanVars, now>>

\* WorkerFunc returned; the connection leaves the open count ...
WorkerFuncReturn(ch) ==
  /\ WorkerStep(ch, "serve", "uncount")
  /\ open' = open - 1
  /\ UNCHANGED <<poolVars, pool, wconn, lastUseTime, stat, concurrency>>

\* ... and the concurrency count ...
Uncount(ch) ==
  /\ WorkerStep(ch, "uncount", "close")
  /\ concurrency' = concurrency - 1
  /\ UNCHANGED <<poolVars, pool, wconn, lastUseTime, stat, open>>

\* ... and only then is closed, unless it was hijacked.
CloseConn(ch, how) ==
  /\ WorkerStep(ch, "close", "stamp")
  /\ stat' = [stat EXCEPT ![wconn[ch]] = how]
  /\ wconn' = [wconn EXCEPT ![ch] = NilConn]
  /\ UNCHANGED <<poolVars, pool, lastUseTime, open, concurrency>>

\* release reads the clock before it takes the lock ...
ReleaseStamp(ch) ==
  /\ WorkerStep(ch, "stamp", "release")
  /\ lastUseTime' = [lastUseTime EXCEPT ![ch] = now]
  /\ UNCHANGED <<poolVars, pool, wconn, connVars>>

\* Fault: mustStop is not looked at.
Release_IgnoreStop(ch) ==
  /\ ~lockHeld
  /\ WorkerStep(ch, "release", "recv")
  /\ ready' = Append(ready, ch)
  /\ UNCHANGED <<workersCount, mustStop, pool, wconn, lastUseTime, connVars>>

\* ... and then puts the worker back unless the pool was stopped.
Release(ch) ==
  /\ ~lockHeld
  /\ \/ /\ mustStop
        /\ WorkerStep(ch, "release", "exit")
        /\ UNCHANGED ready
     \/ /\ ~mustStop
        /\ WorkerStep(ch, "release", "recv")
        /\ ready' = Append(ready, ch)
  /\ UNCHANGED <<workersCount, mustStop, pool, wconn, lastUseTime, connVars>>

\* The end of workerFunc.
WorkerExit(ch) ==
  /\ ~lockHeld
  /\ WorkerStep(ch, "exit", "put")
  /\ workersCount' = workersCount - 1
  /\ UNCHANGED <<ready, mustStop, pool, wconn, lastUseTime, connVars>>

\* Fault: the connection is put where the workerChan belongs.
PoolPut_Conn(ch) ==
  /\ WorkerStep(ch, "put", "none")
  /\ pool' = pool \cup {wconn[ch]}
  /\ UNCHANGED <<poolVars, wconn, lastUseTime, connVars>>

\* workerChanPool.Put(vch)
PoolPut(ch) ==
  /\ WorkerStep(ch, "put", "none")
  /\ pool' = pool \cup {ch}
  /\ UNCHANGED <<poolVars, wconn, lastUseTime, connVars>>

Worker(ch) ==
  \/ WorkerRecv(ch) \/ WorkerFuncReturn(ch) \/ Uncount(ch)
  \/ \E how \in {"closed", "hijacked"} : CloseConn(ch, how)
  \/ ReleaseStamp(ch) \/ Release(ch) \/ WorkerExit(ch) \/ PoolPut(ch)
-----------------------------------------------------------------------------
(* The cleaner: the goroutine of Start *)

\* DefaultCleanThresholdFunc at time t; t2, t3, t4 are the stamps at 1/4, 1/2
\* and 3/4 of ready (t1 is not used by the code).  Its first test compares
\* readyLen with 2>>10, which is 0, and never holds.
DefaultCleanThresholdFunc(t2, t3, t4, readyLen, t) ==
  LET old(s) == t - s > MaxIdleWorkerDuration IN
  IF readyLen <= MaxWorkersCount \div 4
  THEN IF old(t3) THEN readyLen \div 4 ELSE IF old(t4) THEN readyLen \div 2 ELSE 0
  ELSE IF readyLen <= MaxWorkersCount \div 2
  THEN IF old(t2) THEN readyLen \div 4 ELSE IF old(t3) THEN readyLen \div 2 ELSE 0
  ELSE IF readyLen <= MaxWorkersCount /\ old(t3) THEN readyLen \div 2 ELSE 0

\* The number of workers clean takes off ready (indices are one-based here).
CleanNum ==
  LET n == Len(ready)
      stamp(i) == lastUseTime[ready[i + 1]]
  IN  IF n = 0 THEN 0
      ELSE DefaultCleanThresholdFunc(stamp(n \div 4), stamp(n \div 2),
                                     stamp((n * 3) \div 4), n, now)

CleanerStep(from, to) ==
  /\ cpc = from
  /\ cpc' = to
  /\ UNCHANGED <<lockHeld, workersCount, mustStop, stopClosed, pool,
                 lastUseTime, accVars, open, now>>

\* The workers clean leaves in ready.
ReadyButCleaned_Kept == ready
ReadyButCleaned == SubSeq(ready, CleanNum + 1, Len(ready))

\* The critical section of clean: it moves the oldest workers to scratch.
Clean ==
  /\ ~lockHeld
  /\ CleanerStep("clean", IF CleanNum = 0 THEN "poll" ELSE "notify")
  /\ scratch' = SubSeq(ready, 1, CleanNum)
  /\ ready' = ReadyButCleaned
  /\ UNCHANGED <<workerVars, stat, concurrency>>

\* After the critical section, each of them is sent nil.
CleanNotify ==
  /\ scratch # <<>>
  /\ CleanerStep("notify", IF Len(scratch) = 1 THEN "poll" ELSE "notify")
  /\ ChanSend(Head(scratch), NilConn)
  /\ scratch' = Tail(scratch)
  /\ UNCHANGED ready

\* select on stopCh, or sleep.
CleanPoll ==
  /\ CleanerStep("poll", IF stopClosed THEN "returned" ELSE "sleep")
  /\ UNCHANGED <<ready, scratch, workerVars, stat, concurrency>>

\* The sleep takes an arbitrary time.
CleanWake ==
  /\ CleanerStep("sleep", "clean")
  /\ UNCHANGED <<ready, scratch, workerVars, stat, concurrency>>

Cleaner == Clean \/ CleanNotify \/ CleanPoll \/ CleanWake
-----------------------------------------------------------------------------
Tick ==
  /\ now < MaxClock
  /\ now' = now + 1
  /\ UNCHANGED <<lockHeld, poolVars, stopClosed, pool, workerVars, lastUseTime,
                 accVars, cleanVars, connVars>>

Acceptor ==
  \/ GetCh \/ (\E ch \in Chans : Spawn(ch)) \/ ServeSend \/ Reject
  \/ StopLock \/ StopSend \/ StopUnlock

\* Everything has returned: the only state in which nothing more happens.
Finished ==
  /\ apc = "returned" /\ cpc = "returned"
  /\ \A ch \in Chans : wpc[ch] = "none"
  /\ UNCHANGED vars

Next ==
  /\ \/ \E c \in Conns : Accept(c)
     \/ StopClose
     \/ Acceptor
     \/ \E ch \in Chans : Worker(ch)
     \/ Cleaner
     \/ Tick
     \/ Finished
  /\ UNCHANGED workerChanCap

\* Goroutines are scheduled fairly and handlers return.  The listener may
\* stay open for ever and need not produce connections.
Fairness ==
  /\ WF_vars(Acceptor /\ UNCHANGED workerChanCap)
  /\ \A ch \in Chans : WF_vars(Worker(ch) /\ UNCHANGED workerChanCap)
  /\ WF_vars(Cleaner /\ UNCHANGED workerChanCap)
  /\ WF_vars(Tick /\ UNCHANGED workerChanCap)

Spec == Init /\ [][Next]_vars

FairSpec == Spec /\ Fairness
-----------------------------------------------------------------------------
(* Properties *)

\* A worker that waits for work with nothing in its channel.
Idle(ch) == wpc[ch] = "recv" /\ buf[ch] = <<>>

\* Workers counted by workersCount: from the increment in getCh to the
\* decrement at the end of workerFunc.
Live == {ch \in Chans : wpc[ch] \notin {"none", "put"}}

\* Every idle worker is in exactly one of the three places a message to it
\* can come from (wp.ready, the cleaner's scratch, the acceptor about to
\* send), and a busy or dead worker is in none: no worker is forgotten, none
\* is handed out twice by getCh, clean and Stop.
OneHolder ==
  /\ Distinct(ready)
  /\ Distinct(scratch)
  /\ Elems(ready) \cap Elems(scratch) = {}
  /\ apc = "send" => ach \notin Elems(ready) \cup Elems(scratch)
  /\ {ch \in Chans : Idle(ch)} =
       Elems(ready) \cup Elems(scratch) \cup (IF apc = "send" THEN {ach} ELSE {})

\* workersCount is the number of live workers, plus the one getCh has
\* reserved and not yet started, and never exceeds MaxWorkersCount.
WorkersCountExact ==
  /\ workersCount = Cardinality(Live) + (IF apc = "spawn" THEN 1 ELSE 0)
  /\ workersCount <= MaxWorkersCount

\* A workerChan outside a worker's life (pooled, or about to be put into the
\* pool) holds no message, so the next worker that gets it from
\* workerChanPool does not receive somebody else's connection or nil.
PooledChanEmpty ==
  \A ch \in Chans : wpc[ch] \in {"none", "exit", "put"} => buf[ch] = <<>>

\* With a buffered workerChan neither Serve nor Stop, which holds the lock,
\* nor clean ever blocks in a send: the channel has room.
SendNeverBlocks ==
  workerChanCap = 1 =>
    /\ apc = "send" => buf[ach] = <<>>
    /\ apc = "stopSend" => \A ch \in Elems(ready) : buf[ch] = <<>>
    /\ \A ch \in Elems(scratch) : buf[ch] = <<>>

\* The types, and: a workerChan never holds a message it should not, and has room for the one
\* it is sent.
ChannelsSound == TypeOK /\ PooledChanEmpty /\ SendNeverBlocks

AtMostOneMessage(b) == b # <<>> => \E c \in Conns \cup {NilConn} : b = <<c>>

\* The lock is held across steps exactly while Stop empties ready; a message
\* is only ever pending for a worker on its way to the receive, one at a time;
\* scratch is in use only while the cleaner notifies.  With TypeOK and
\* OneHolder this is inductive.
PoolShape ==
  /\ lockHeld <=> apc = "stopSend"
  /\ \A ch \in Chans : wpc[ch] # "recv" => buf[ch] = <<>>
  /\ \A ch \in Chans : AtMostOneMessage(buf[ch])
  /\ cpc # "notify" => scratch = <<>>
  /\ apc = "send" => ach \in Chans

\* The pool does what ConnService promises: every connection is rejected or
\* served exactly once, by one worker, and served ones do not exceed
\* MaxWorkersCount; none is left waiting.
Service == INSTANCE ConnService
ConnServiceSpec == Service!Spec

\* Once Stop has been called every worker and the cleaner end, including a
\* worker that clean took off ready just before and one that was busy.
StopEndsWorkers ==
  stopClosed ~> ( /\ workersCount = 0
                  /\ \A ch \in Chans : wpc[ch] = "none"
                  /\ cpc = "returned" )

\* server.go documents MaxIdleWorkerDuration: idle workers beyond this time
\* will be cleared.
IdleWorkersCleared ==
  \A ch \in Chans :
    (ch \in Elems(ready) /\ now - lastUseTime[ch] > MaxIdleWorkerDuration)
      ~> ch \notin Elems(ready)
=============================================================================
