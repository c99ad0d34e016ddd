---------------------------- MODULE HostClientPool ----------------------------
(***************************************************************************)
(* The connection pool of HostClient (client.go): acquireConn, releaseConn, *)
(* closeConn, the queue of wantConns, dialConnFor, Clean and               *)
(* CloseIdleConnections.  Agents:                                          *)
(*   - callers of HostClient.Do, which acquire a connection, use it, and   *)
(*     release or close it;                                                *)
(*   - one goroutine dialConnFor(w) per wantConn w it was started for,     *)
(*     named by w;                                                         *)
(*   - sweepers: the cleaner running Clean and callers of                  *)
(*     CloseIdleConnections.                                               *)
(* A critical section of connsLock is one step, except where it meets the  *)
(* waiters, who time out and cancel without that lock: there lock is held  *)
(* across steps.                                                           *)
(* A definition D_Fault just before D is D with a plausible fault; no spec *)
(* uses it.                                                                *)
(***************************************************************************)
EXTENDS Integers, Sequences, FiniteSets, FiniteSetsExt, DistinctSeq

CONSTANTS
  Callers,
  Wants,             \* bound: the wantConn objects
  Cleaner,           \* the goroutine that runs HostClient.Clean
  Closer,            \* a caller of CloseIdleConnections
  Conns,             \* bound: the clientConn objects
  Nil,
  MaxRounds,         \* bound: connections a caller asks for
  Scenes             \* the settings to be checked

Sweepers == {Cleaner, Closer}
Agents == Callers \cup Wants \cup Sweepers

\* The limits SetMaxConns may set (a negative one, which means no limit, is left
\* out), waitFreeConnTimeout (0, negative or positive), the sweepers that are there
\* and the connections each caller asks for.
SceneType ==
  [MaxConns : SUBSET Nat \ {{}}, ConnPoolStrategy : {"LIFO", "FIFO"},
   WaitFreeConn : {"none", "forever", "timeout"},
   sweepers : SUBSET Sweepers, rounds : [Callers -> 0..MaxRounds]]

ASSUME HostClientPoolAssumption ==
  /\ IsFiniteSet(Agents) /\ IsFiniteSet(Conns)
  /\ Cleaner # Closer
  /\ Callers \cap Wants = {} /\ (Callers \cup Wants) \cap Sweepers = {}
  /\ Nil \notin Conns \cup Agents
  /\ MaxRounds \in Nat
  /\ Scenes \subseteq SceneType

VARIABLES
  scene,            \* the setting; never changes
  conns,            \* c.conns: the idle connections, least recently used first
  connsCount,       \* c.connsCount
  maxConns,         \* c.maxConns
  connsCleanerRun,  \* c.connsCleanerRun
  queue,            \* c.connsWait, both stages, front first
  failedWaiters,    \* c.connsWait.failedWaiters
  lock,             \* who holds connsLock across steps, or Nil
  pc,               \* where each agent is
  cc,               \* the connection in its hands
  pop,              \* the wantConn it has popped from the queue
  scratch,          \* the connections a sweeper has still to close
  want,             \* the wantConn a caller waits on
  ready,            \* wantConn.ready is closed: its conn or its err is set
  wconn,            \* wantConn.conn, until the caller takes it
  rounds            \* connections each caller has still to ask for

poolVars == <<conns, connsCount, connsCleanerRun>>
waitVars == <<queue, failedWaiters>>
wantVars == <<want, ready, wconn>>
agentVars == <<pc, cc, pop, scratch>>
vars == <<scene, poolVars, maxConns, waitVars, lock, agentVars, wantVars, rounds>>

PCs == {"none", "acquire", "dial", "queue", "wait", "cancel", "use", "deliver",
        "release", "relLoop", "relTry", "dec", "decLoop", "sweep", "stop"}

TypeOK ==
  /\ scene \in Scenes
  /\ conns \in Seq(Conns)
  /\ connsCount \in Nat
  /\ maxConns \in scene.MaxConns
  /\ connsCleanerRun \in BOOLEAN
  /\ queue \in Seq(Wants)
  /\ failedWaiters \in Nat
  /\ lock \in Agents \cup {Nil}
  /\ pc \in [Agents -> PCs]
  /\ cc \in [Agents -> Conns \cup {Nil}]
  /\ pop \in [Agents -> Wants \cup {Nil}]
  /\ scratch \in [Sweepers -> SUBSET Conns]
  /\ want \in [Callers -> Wants \cup {Nil}]
  /\ ready \in [Wants -> BOOLEAN]
  /\ wconn \in [Wants -> Conns \cup {Nil}]
  /\ rounds \in [Callers -> 0..MaxRounds]

Init ==
  /\ scene \in Scenes
  /\ conns = <<>>
  /\ connsCount = 0
  /\ maxConns \in scene.MaxConns
  /\ connsCleanerRun = FALSE
  /\ queue = <<>>
  /\ failedWaiters = 0
  /\ lock = Nil
  /\ pc = [a \in Agents |-> "none"]
  /\ cc = [a \in Agents |-> Nil]
  /\ pop = [a \in Agents |-> Nil]
  /\ scratch = [s \in Sweepers |-> {}]
  /\ want = [g \in Callers |-> Nil]
  /\ ready = [w \in Wants |-> FALSE]
  /\ wconn = [w \in Wants |-> Nil]
  /\ rounds = scene.rounds

GoTo(a, l) == pc' = [pc EXCEPT ![a] = l]

\* The connections in somebody's hands; the others are not dialled yet, or
\* their clientConn is back in clientConnPool.
InHands == Elems(conns) \cup {cc[a] : a \in Agents} \cup {wconn[w] : w \in Wants}
           \cup UNION {scratch[s] : s \in Sweepers}
-----------------------------------------------------------------------------
(* acquireConn *)

SetMaxConns(n) ==
  /\ lock = Nil
  /\ maxConns' = n
  /\ n # maxConns
  /\ UNCHANGED <<poolVars, waitVars, lock, agentVars, wantVars, rounds>>

HasRoom == connsCount < maxConns

\* The connection acquireConn takes from a non-empty pool, and what is left.
Taken == IF scene.ConnPoolStrategy = "LIFO" THEN conns[Len(conns)] ELSE conns[1]
Left_Kept == conns
Left ==
  IF scene.ConnPoolStrategy = "LIFO" THEN SubSeq(conns, 1, Len(conns) - 1) ELSE Tail(conns)

\* The first critical section: an idle connection, or room for a new one, or
\* neither.  The cleaner is registered with a new connection unless the
\* request asks to close it.
AcquireConn(g) ==
  /\ pc[g] = "none"
  /\ lock = Nil
  /\ rounds[g] > 0
  /\ rounds' = [rounds EXCEPT ![g] = @ - 1]
  /\ \/ /\ conns # <<>>
        /\ cc' = [cc EXCEPT ![g] = Taken]
        /\ conns' = Left
        /\ GoTo(g, "use")
        /\ UNCHANGED <<connsCount, connsCleanerRun>>
     \/ /\ conns = <<>>
        /\ HasRoom
        /\ connsCount' = connsCount + 1
        /\ connsCleanerRun' \in {connsCleanerRun, TRUE}
        /\ GoTo(g, "dial")
        /\ UNCHANGED <<conns, cc>>
     \/ /\ conns = <<>>
        /\ ~HasRoom
        /\ GoTo(g, IF scene.WaitFreeConn = "none" THEN "none" ELSE "queue")
        /\ UNCHANGED <<conns, connsCount, connsCleanerRun, cc>>
  /\ UNCHANGED <<maxConns, waitVars, lock, pop, scratch, wantVars>>

\* acquireClientConn: one of those in nobody's hands.
NewConn == CHOOSE c \in Conns : c \notin InHands

\* dialHostHard, for the caller itself or in dialConnFor, which reports an
\* error to its wantConn before it gives the slot back.
Dial(a) ==
  /\ pc[a] = "dial"
  /\ \/ /\ ~(Conns \subseteq InHands)
        /\ cc' = [cc EXCEPT ![a] = NewConn]
        /\ GoTo(a, IF a \in Callers THEN "use" ELSE "deliver")
        /\ UNCHANGED ready
     \/ /\ GoTo(a, "dec")
        /\ ready' = [w \in Wants |-> ready[w] \/ w = a]
        /\ UNCHANGED cc
  /\ UNCHANGED <<poolVars, maxConns, waitVars, lock, pop, scratch, want, wconn, rounds>>

\* A wantConn nobody refers to any more stands for a new one.
Fresh(w) ==
  /\ \A g \in Callers : want[g] # w
  /\ \A a \in Agents : pop[a] # w
  /\ w \notin Elems(queue)
  /\ pc[w] = "none"

\* clearFront: how many at the front of the queue have stopped waiting.
DeadFront ==
  Max({n \in 0..Len(queue) : \A i \in 1..n : ready[queue[i]]})

\* queueForIdle: a critical section of its own, after the one that found
\* nothing.
QueueForIdle(g, w) ==
  /\ pc[g] = "queue"
  /\ lock = Nil
  /\ w = CHOOSE v \in Wants : Fresh(v)
  /\ queue' = Append(SubSeq(queue, DeadFront + 1, Len(queue)), w)
  /\ failedWaiters' = failedWaiters - DeadFront
  /\ want' = [want EXCEPT ![g] = w]
  /\ ready' = [ready EXCEPT ![w] = FALSE]
  /\ wconn' = [wconn EXCEPT ![w] = Nil]
  /\ GoTo(g, "wait")
  /\ UNCHANGED <<poolVars, maxConns, lock, cc, pop, scratch, rounds>>

\* <-w.ready: a connection, or the error of dialConnFor.
WaitReady(g) ==
  LET w == want[g] IN
  /\ pc[g] = "wait"
  /\ ready[w]
  /\ cc' = [cc EXCEPT ![g] = wconn[w]]
  /\ wconn' = [wconn EXCEPT ![w] = Nil]
  /\ want' = [want EXCEPT ![g] = Nil]
  /\ GoTo(g, IF wconn[w] # Nil THEN "use" ELSE "none")
  /\ UNCHANGED <<poolVars, maxConns, waitVars, lock, pop, scratch, ready, rounds>>

TimerArmed_Swapped == scene.WaitFreeConn = "forever"
TimerArmed == scene.WaitFreeConn = "timeout"

FailedAfterTimeout_NotCounted == failedWaiters
FailedAfterTimeout == failedWaiters + 1

\* <-tc.C, whether or not the wantConn is ready as well.
WaitTimeout(g) ==
  /\ TimerArmed
  /\ pc[g] = "wait"
  /\ failedWaiters' = FailedAfterTimeout
  /\ GoTo(g, "cancel")
  /\ UNCHANGED <<poolVars, maxConns, queue, lock, cc, pop, scratch, wantVars, rounds>>

AfterCancel(c) == IF c # Nil THEN "release" ELSE "none"

\* wantConn.cancel: a connection that came in the meantime is released.
Cancel(g) ==
  LET w == want[g] IN
  /\ pc[g] = "cancel"
  /\ ready' = [ready EXCEPT ![w] = TRUE]
  /\ cc' = [cc EXCEPT ![g] = wconn[w]]
  /\ wconn' = [wconn EXCEPT ![w] = Nil]
  /\ want' = [want EXCEPT ![g] = Nil]
  /\ GoTo(g, AfterCancel(wconn[w]))
  /\ UNCHANGED <<poolVars, maxConns, waitVars, lock, pop, scratch, rounds>>

\* The caller has had its response: the connection is kept or closed.
UseConn(g) ==
  /\ pc[g] = "use"
  /\ GoTo(g, "release") \/ GoTo(g, "dec")
  /\ UNCHANGED <<poolVars, maxConns, waitVars, lock, cc, pop, scratch, wantVars, rounds>>

(* dialConnFor, releaseConn, decConnsCount, closeConn *)

\* tryDeliver in dialConnFor: a wantConn that was cancelled while the dial went
\* on takes nothing, and the connection goes to the pool.
Deliver(w) ==
  /\ pc[w] = "deliver"
  /\ \/ /\ ~ready[w]
        /\ ready' = [ready EXCEPT ![w] = TRUE]
        /\ wconn' = [wconn EXCEPT ![w] = cc[w]]
        /\ cc' = [cc EXCEPT ![w] = Nil]
        /\ GoTo(w, "none")
     \/ /\ ready[w]
        /\ GoTo(w, "release")
        /\ UNCHANGED <<ready, wconn, cc>>
  /\ UNCHANGED <<poolVars, maxConns, waitVars, lock, pop, scratch, want, rounds>>

\* wantConnQueue.len
QLen == Len(queue) - failedWaiters

\* Where a goes after releaseConn or decConnsCount.
Resume(a) == IF a \in Sweepers THEN "sweep" ELSE "none"

LockedLoop(a, from, to) ==
  /\ pc[a] = from
  /\ lock = Nil
  /\ lock' = a
  /\ GoTo(a, to)
  /\ UNCHANGED <<poolVars, maxConns, waitVars, cc, pop, scratch, wantVars, rounds>>

ReleaseLock(a) == LockedLoop(a, "release", "relLoop")
DecLock(a) == LockedLoop(a, "dec", "decLoop")

Popped == Tail(queue)

\* One iteration of a loop that looks for a waiter: the front of the queue is
\* popped, and skipped if it has stopped waiting.
PopDead(a, loop) ==
  /\ pc[a] = loop
  /\ QLen > 0
  /\ queue # <<>>
  /\ ready[Head(queue)]
  /\ queue' = Popped
  /\ failedWaiters' = failedWaiters - 1
  /\ UNCHANGED <<poolVars, maxConns, lock, agentVars, wantVars, rounds>>

\* releaseConn: w.waiting() holds.
ReleasePop(a) ==
  /\ pc[a] = "relLoop"
  /\ QLen > 0
  /\ queue # <<>>
  /\ ~ready[Head(queue)]
  /\ pop' = [pop EXCEPT ![a] = Head(queue)]
  /\ queue' = Popped
  /\ GoTo(a, "relTry")
  /\ UNCHANGED <<poolVars, maxConns, failedWaiters, lock, cc, scratch, wantVars, rounds>>

\* releaseConn: tryDeliver, which fails if the waiter was cancelled since.
ReleaseTry(a) ==
  LET w == pop[a] IN
  /\ pc[a] = "relTry"
  /\ pop' = [pop EXCEPT ![a] = Nil]
  /\ \/ /\ ~ready[w]
        /\ ready' = [ready EXCEPT ![w] = TRUE]
        /\ wconn' = [wconn EXCEPT ![w] = cc[a]]
        /\ cc' = [cc EXCEPT ![a] = Nil]
        /\ lock' = Nil
        /\ GoTo(a, Resume(a))
        /\ UNCHANGED failedWaiters
     \/ /\ ready[w]
        /\ failedWaiters' = failedWaiters - 1
        /\ GoTo(a, "relLoop")
        /\ UNCHANGED <<ready, wconn, cc, lock>>
  /\ UNCHANGED <<poolVars, maxConns, queue, scratch, want, rounds>>

\* releaseConn: nobody waits, by len(); the connection becomes idle.
ReleaseIdle(a) ==
  /\ pc[a] = "relLoop"
  /\ QLen <= 0
  /\ conns' = Append(conns, cc[a])
  /\ cc' = [cc EXCEPT ![a] = Nil]
  /\ lock' = Nil
  /\ GoTo(a, Resume(a))
  /\ UNCHANGED <<connsCount, maxConns, connsCleanerRun, waitVars, pop, scratch,
                 wantVars, rounds>>

CountHandedOver_Decremented == connsCount - 1
CountHandedOver == connsCount

\* decConnsCount: the slot passes to a dial for the first waiter (and closeConn
\* has then only its own connection to close).
DecDial(a) ==
  /\ pc[a] = "decLoop"
  /\ QLen > 0
  /\ queue # <<>>
  /\ ~ready[Head(queue)]
  /\ queue' = Popped
  /\ connsCount' = CountHandedOver
  /\ cc' = [cc EXCEPT ![a] = Nil]
  /\ lock' = Nil
  /\ pc' = [pc EXCEPT ![a] = Resume(a), ![Head(queue)] = "dial"]
  /\ UNCHANGED <<conns, maxConns, connsCleanerRun, failedWaiters, pop, scratch,
                 wantVars, rounds>>

CountFreed == connsCount - 1

\* decConnsCount: nobody waits, by len(); the slot is free again.
DecFree(a) ==
  /\ pc[a] = "decLoop"
  /\ QLen <= 0
  /\ connsCount' = CountFreed
  /\ cc' = [cc EXCEPT ![a] = Nil]
  /\ lock' = Nil
  /\ GoTo(a, Resume(a))
  /\ UNCHANGED <<conns, maxConns, connsCleanerRun, waitVars, pop, scratch,
                 wantVars, rounds>>
-----------------------------------------------------------------------------
(* Clean and CloseIdleConnections *)

\* Clean takes the connections idle for too long, a prefix of c.conns;
\* CloseIdleConnections takes all of them.
Sweep(s, n) ==
  /\ pc[s] = "none"
  /\ s \in scene.sweepers
  /\ lock = Nil
  /\ s = Cleaner => connsCleanerRun
  /\ s = Closer => n = Len(conns)
  /\ scratch' = [scratch EXCEPT ![s] = Elems(SubSeq(conns, 1, n))]
  /\ conns' = SubSeq(conns, n + 1, Len(conns))
  /\ GoTo(s, "sweep")
  /\ UNCHANGED <<connsCount, maxConns, connsCleanerRun, waitVars, lock, cc, pop,
                 wantVars, rounds>>

\* closeConn of one of them.
SweepOne(s, c) ==
  /\ pc[s] = "sweep"
  /\ c \in scratch[s]
  /\ scratch' = [scratch EXCEPT ![s] = @ \ {c}]
  /\ cc' = [cc EXCEPT ![s] = c]
  /\ GoTo(s, "dec")
  /\ UNCHANGED <<poolVars, maxConns, waitVars, lock, pop, wantVars, rounds>>

\* The end: Clean stops the cleaner when the client has no connection left.
SweepEnd(s) ==
  /\ pc[s] = "sweep"
  /\ lock = Nil
  /\ scratch[s] = {}
  /\ GoTo(s, "none")
  /\ connsCleanerRun' = (connsCleanerRun /\ ~(s = Cleaner /\ connsCount = 0))
  /\ UNCHANGED <<conns, connsCount, maxConns, waitVars, lock, cc, pop, scratch,
                 wantVars, rounds>>
-----------------------------------------------------------------------------
\* Nothing is left to do, or no wantConn for another waiter; waiters may be
\* there, for ever.
Finished ==
  /\ \A g \in Callers : \/ pc[g] = "wait"
                        \/ pc[g] = "none" /\ rounds[g] = 0
                        \/ pc[g] = "queue" /\ \A w \in Wants : ~Fresh(w)
  /\ \A w \in Wants : pc[w] = "none"
  /\ \A s \in Sweepers : pc[s] = "none"
  /\ UNCHANGED vars

CallerStep(g) ==
  \/ AcquireConn(g) \/ WaitReady(g) \/ WaitTimeout(g) \/ Cancel(g) \/ UseConn(g)
  \/ \E w \in {v \in Wants : Fresh(v)} : QueueForIdle(g, w)

SlotStep(a) ==
  \/ Dial(a) \/ ReleaseLock(a) \/ DecLock(a) \/ PopDead(a, "relLoop") \/ PopDead(a, "decLoop")
  \/ ReleasePop(a) \/ ReleaseTry(a) \/ ReleaseIdle(a) \/ DecDial(a) \/ DecFree(a)

SweeperStep(s) ==
  \/ \E n \in 1..Len(conns) : Sweep(s, n)
  \/ \E c \in Conns : SweepOne(s, c)
  \/ SweepEnd(s)

AgentStep(a) ==
  \/ a \in Callers /\ CallerStep(a)
  \/ a \in Wants /\ Deliver(a)
  \/ SlotStep(a)

Next ==
  /\ \/ \E n \in scene.MaxConns : SetMaxConns(n)
     \/ \E a \in Agents : AgentStep(a)
     \/ \E s \in Sweepers : SweeperStep(s)
     \/ Finished
  /\ UNCHANGED scene

Spec == Init /\ [][Next]_vars

\* Goroutines that can run do run, a mutex is given to those who wait for it,
\* and a request or a dial ends; sweepers need not come.
FairSpec == Spec /\ \A a \in Agents : SF_vars(UNCHANGED scene /\ AgentStep(a))
-----------------------------------------------------------------------------
(* Properties *)

\* The agents that hold one of the connsCount slots: they dial, or hold a
\* connection, or have a slot to give back.
Dialing == {a \in Agents : pc[a] = "dial"}
GivingBack == {a \in Agents : pc[a] \in {"dec", "decLoop"} /\ cc[a] = Nil}
Held == InHands \ {Nil}

\* connsCount is the number of slots in use at every moment: idle connections,
\* those in the hands of a caller, a dialler, a sweeper or an undelivered
\* wantConn, dials going on, and failed dials whose slot is not given back yet.
\* Every acquire, hand-over, failed dial, cancel, close and sweep keeps it so, and
\* below the largest limit SetMaxConns has set.
ConnsCountExact ==
  /\ TypeOK
  /\ connsCount = Cardinality(Held) + Cardinality(Dialing) + Cardinality(GivingBack)
  /\ connsCount <= Max(scene.MaxConns)

\* A connection has one holder: it is never idle twice, never idle and in use,
\* never delivered to a wantConn and kept.  And the holder will pass it on: a
\* connection in a wantConn has a caller that will take it, by <-w.ready or by cancel,
\* and an agent that returns has none, so that the race of a delivery with a timeout
\* loses no connection.
OneHolder ==
  /\ Distinct(conns)
  /\ \A a \in Agents : cc[a] # Nil =>
       /\ pc[a] # "none"
       /\ cc[a] \notin Elems(conns)
       /\ \A b \in Agents : cc[b] = cc[a] => b = a
       /\ \A w \in Wants : wconn[w] # cc[a]
       /\ \A s \in Sweepers : cc[a] \notin scratch[s]
  /\ \A w \in Wants : wconn[w] # Nil =>
       /\ \E g \in Callers : want[g] = w /\ pc[g] \in {"wait", "cancel"}
       /\ wconn[w] \notin Elems(conns)
       /\ \A v \in Wants : wconn[v] = wconn[w] => v = w
       /\ \A s \in Sweepers : wconn[w] \notin scratch[s]
  /\ \A s \in Sweepers :
       /\ scratch[s] \cap Elems(conns) = {}
       /\ \A t \in Sweepers : t # s => scratch[s] \cap scratch[t] = {}

\* wantConnQueue.len never counts more than the waiters that are there, whatever
\* timeouts happen between the test of len() and popFront: so popFront returns no
\* nil, which the loops of releaseConn and decConnsCount would dereference.  And two
\* goroutines never work for the same wantConn: one that is queued or popped is not
\* being dialled for.
QueueSound ==
  /\ Cardinality({i \in 1..Len(queue) : ~ready[queue[i]]}) >= QLen
  /\ Distinct(queue)
  /\ \A w \in Elems(queue) : pc[w] = "none" /\ \A a \in Agents : pop[a] # w
  /\ \A a, b \in Agents : pop[a] # Nil /\ pop[a] = pop[b] => a = b

\* Slots, connections and waiters of the pool are all accounted for.
PoolSound == ConnsCountExact /\ OneHolder /\ QueueSound

\* If waiters time out, or none may wait, no caller is in acquireConn, releaseConn or closeConn for ever,
\* however waiters, dialConnFor, cancels and the loops of the pool meet.
CallersReturn ==
  scene.WaitFreeConn # "forever" =>
    \A g \in Callers : (pc[g] # "none") ~> (pc[g] = "none")
-----------------------------------------------------------------------------
(* What the comments say and the code does not do *)

\* releaseConn: "or connsWait may have some unwakened waiter forever": a waiter
\* is served once callers release what they hold.
NoForeverWaiter ==
  \A g \in Callers : (pc[g] = "wait") ~> (pc[g] # "wait")

\* wantConnQueue: "failedWaiters is the number of waiters in the head or tail
\* queue, but is invalid": those in the queue whose caller gave up, at most.
FailedAreQueued ==
  failedWaiters <= Cardinality({i \in 1..Len(queue) :
    \A g \in Callers : want[g] = queue[i] => pc[g] # "wait"})
=============================================================================
