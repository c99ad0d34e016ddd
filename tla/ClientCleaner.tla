---------------------------- MODULE ClientCleaner ----------------------------
(***************************************************************************)
(* DurationCleaner (client_cleaner.go), the goroutine that runs Clean of    *)
(* the clients registered with it, together with those who register:       *)
(* HostClient.acquireConn, under connsLock, and Client.createHostClient,   *)
(* under mLock.                                                            *)
(* Time is relative: wait, due and zeroWhen count down to the past.  The   *)
(* heap is the set of its entries, the head one with the least wait        *)
(* (CleanerHeap checks the array).  A HostClient has a limit of one        *)
(* connection, which callers may wait for (HostClientPool has more of      *)
(* them).  The lookup of a host in the Client's map and acquireConn are    *)
(* one step.                                                               *)
(* A definition D_Fault just before D is D with a plausible fault; no spec *)
(* uses it.                                                                *)
(***************************************************************************)
EXTENDS Integers, FiniteSets, FiniteSetsExt

CONSTANTS
  Users,        \* goroutines that use the clients
  HostClients,
  Client,       \* the Client, an item of the cleaner too
  Scenes,       \* the settings to be checked
  Entries,      \* bound: CleanItem objects
  Cleaner,      \* the cleaner's goroutine
  Nil,
  MaxWait,      \* bound: the longest idle duration (minDuration is 1)
  MaxLate       \* bound: how long a pass of checkItems takes

Items == HostClients \cup {Client}

\* Whether users go through the Client, whether they wait for a connection, and who
\* takes part.
SceneType == [client : BOOLEAN, waits : BOOLEAN, here : SUBSET (Users \cup HostClients)]

ASSUME ClientCleanerAssumption ==
  /\ MaxWait \in Nat \ {0} /\ MaxLate \in Nat
  /\ Scenes \subseteq SceneType
  /\ Client \notin HostClients /\ Nil \notin Items \cup Users \cup Entries
  /\ Cleaner \notin Users

VARIABLES
  scene,     \* the setting; never changes
  client,    \* cc.items: the item of each entry, Nil if it is not in the heap
  wait,      \* when of each entry
  zeroWhen,  \* cc.zeroWhen, Nil for 0
  late,      \* the time since startClen read now, in a pass of checkItems
  due, tick, \* the timer: Nil if it is not armed; a value in its channel
  mu,        \* who holds cc.mu
  cpc,       \* the cleaner goroutine
  cur,       \* the entry it runs
  todo,      \* Client.Clean: the host clients still to look at
  ilock,     \* connsLock of each HostClient, mLock of the Client
  run,       \* connsCleanerRun, cleanStart
  conn,      \* the connection of each HostClient: "none", "idle", "busy",
             \* "closing": in use and not to be kept, or "dial": its slot is being
             \* dialed anew for a waiter
  quiet,     \* the slot was taken by a call with Connection: close and no cleaner running
  hosts,     \* the host clients in the maps of the Client
  upc,       \* each user: "idle", "register" (item locked), "registered", "full"
             \* (has found no room), "wait" (queued), "dialFor" (off the queue)
  item       \* the item a user registers, or waits for

timeVars == <<wait, zeroWhen, late, due, tick>>
clientVars == <<ilock, run, conn, quiet, hosts, upc, item>>
vars == <<scene, client, timeVars, mu, cpc, cur, todo, clientVars>>

InHeap == {e \in Entries : client[e] # Nil}
Heads == {e \in InHeap : \A f \in InHeap : wait[e] <= wait[f]}
HeadWait == Min({wait[e] : e \in InHeap})

TypeOK ==
  /\ scene \in Scenes
  /\ client \in [Entries -> Items \cup {Nil}]
  /\ wait \in [Entries -> -MaxLate..MaxWait]
  /\ zeroWhen \in (0..MaxWait) \cup {Nil}
  /\ late \in 0..MaxLate
  /\ due \in (0..MaxWait + MaxLate) \cup {Nil}
  /\ tick \in BOOLEAN
  /\ mu \in Users \cup {Cleaner, Nil}
  /\ cpc \in {"off", "select", "lock", "check", "clean", "stop", "visit"}
  /\ cur \in Entries \cup {Nil}
  /\ todo \subseteq HostClients
  /\ ilock \in [Items -> Users \cup {Cleaner, Nil}]
  /\ run \in [Items -> BOOLEAN]
  /\ conn \in [HostClients -> {"none", "busy", "closing", "idle", "dial"}]
  /\ quiet \in [HostClients -> BOOLEAN]
  /\ hosts \subseteq HostClients
  /\ upc \in [Users -> {"idle", "register", "registered", "full", "wait", "dialFor"}]
  /\ item \in [Users -> Items \cup {Nil}]

Init ==
  /\ scene \in Scenes
  /\ client = [e \in Entries |-> Nil]
  /\ wait = [e \in Entries |-> 0]
  /\ zeroWhen = Nil
  /\ late = 0
  /\ due = Nil
  /\ tick = FALSE
  /\ mu = Nil
  /\ cpc = "off"
  /\ cur = Nil
  /\ todo = {}
  /\ ilock = [i \in Items |-> Nil]
  /\ run = [i \in Items |-> FALSE]
  /\ conn = [h \in HostClients |-> "none"]
  /\ quiet = [h \in HostClients |-> FALSE]
  /\ hosts = {}
  /\ upc = [u \in Users |-> "idle"]
  /\ item = [u \in Users |-> Nil]
-----------------------------------------------------------------------------
(* Time, and the timer (as before Go 1.23: Reset leaves a value in the channel) *)

Floor(x) == Max({x, 0})
Less(x) == IF x = Nil THEN Nil ELSE Floor(x - 1)
InPass == mu = Cleaner

Tick ==
  /\ InPass => late < MaxLate
  /\ wait' = [e \in Entries |-> Max({wait[e] - 1, -MaxLate})]
  /\ due' = Less(due)
  /\ zeroWhen' = Less(zeroWhen)
  /\ late' = IF InPass THEN late + 1 ELSE late
  /\ UNCHANGED <<client, tick, mu, cpc, cur, todo, clientVars>>

Fire ==
  /\ due = 0
  /\ due' = Nil
  /\ tick' = TRUE
  /\ UNCHANGED <<client, wait, zeroWhen, late, mu, cpc, cur, todo, clientVars>>

\* update0When, w the whens in the heap: the timer is set to the head unless
\* zeroWhen was the same (two times in the past may or may not be the same).
Update0When(w) ==
  \/ w = {} /\ zeroWhen' = Nil /\ UNCHANGED due
  \/ /\ w # {}
     /\ zeroWhen' = Floor(Min(w))
     /\ \/ due' = Floor(Min(w)) /\ (zeroWhen # Floor(Min(w)) \/ Min(w) <= 0)
        \/ UNCHANGED due /\ zeroWhen = Floor(Min(w))
-----------------------------------------------------------------------------
(* Those who register *)

NeedsRegistration_Always(i) == TRUE
NeedsRegistration(i) == ~run[i]

\* acquireConn: the idle connection, or a new one, to be closed after the request or
\* kept; the first one to be kept registers the HostClient, under connsLock.
AcquireConn(u, h) ==
  /\ upc[u] = "idle"
  /\ {u, h} \subseteq scene.here
  /\ scene.client => h \in hosts /\ ilock[Client] = Nil
  /\ ilock[h] = Nil
  /\ conn[h] \in {"none", "idle"}
  /\ \E c \in {"busy", "closing"} : conn' = [conn EXCEPT ![h] = c]
  /\ quiet' = IF conn[h] = "none" THEN [quiet EXCEPT ![h] = conn'[h] = "closing" /\ ~run[h]]
                                  ELSE quiet
  /\ \/ /\ conn[h] = "none" /\ conn'[h] = "busy" /\ NeedsRegistration(h)
        /\ ilock' = [ilock EXCEPT ![h] = u]
        /\ upc' = [upc EXCEPT ![u] = "register"]
        /\ item' = [item EXCEPT ![u] = h]
     \/ /\ ~(conn[h] = "none" /\ conn'[h] = "busy" /\ NeedsRegistration(h))
        /\ UNCHANGED <<ilock, upc, item>>
  /\ UNCHANGED <<client, timeVars, mu, cpc, cur, todo, run, hosts>>

\* It finds the connection in use, and queues after it has given up connsLock.
FindFull(u, h) ==
  /\ scene.waits
  /\ upc[u] = "idle"
  /\ {u, h} \subseteq scene.here
  /\ ilock[h] = Nil
  /\ conn[h] \notin {"none", "idle"}
  /\ upc' = [upc EXCEPT ![u] = "full"]
  /\ item' = [item EXCEPT ![u] = h]
  /\ UNCHANGED <<client, timeVars, mu, cpc, cur, todo, ilock, run, conn, quiet, hosts>>

QueueForIdle(u) ==
  /\ upc[u] = "full"
  /\ ilock[item[u]] = Nil
  /\ upc' = [upc EXCEPT ![u] = "wait"]
  /\ UNCHANGED <<client, timeVars, mu, cpc, cur, todo, ilock, run, conn, quiet, hosts, item>>

\* Its time is over, or the dial for it has failed.
WaitEnds(u) ==
  /\ upc[u] \in {"wait", "dialFor"}
  /\ upc' = [upc EXCEPT ![u] = "idle"]
  /\ item' = [item EXCEPT ![u] = Nil]
  /\ UNCHANGED <<client, timeVars, mu, cpc, cur, todo, ilock, run, conn, quiet, hosts>>

Those(h, pc) == {u \in Users : upc[u] = pc /\ item[u] = h}

\* tryDeliver: the waiter has the connection, to be kept or not.
Deliver(u, h) ==
  /\ \E c \in {"busy", "closing"} : conn' = [conn EXCEPT ![h] = c]
  /\ upc' = [upc EXCEPT ![u] = "idle"]
  /\ item' = [item EXCEPT ![u] = Nil]
  /\ UNCHANGED quiet

\* releaseConn: to a waiter, or to the idle ones.
HandOn(h) ==
  \/ \E u \in Those(h, "wait") : Deliver(u, h)
  \/ /\ Those(h, "wait") = {}
     /\ conn' = [conn EXCEPT ![h] = "idle"]
     /\ UNCHANGED <<quiet, upc, item>>

\* decConnsCount: the slot goes to a waiter, for whom dialConnFor is started, or is free.
FreeSlot(h) ==
  \/ \E u \in Those(h, "wait") :
       /\ conn' = [conn EXCEPT ![h] = "dial"]
       /\ upc' = [upc EXCEPT ![u] = "dialFor"]
       /\ UNCHANGED <<quiet, item>>
  \/ /\ Those(h, "wait") = {}
     /\ conn' = [conn EXCEPT ![h] = "none"]
     /\ quiet' = [quiet EXCEPT ![h] = FALSE]
     /\ UNCHANGED <<upc, item>>

\* releaseConn or closeConn.
ReleaseConn(h) ==
  /\ ilock[h] = Nil
  /\ \/ conn[h] = "busy" /\ HandOn(h)
     \/ conn[h] \in {"busy", "closing"} /\ FreeSlot(h)
  /\ UNCHANGED <<client, timeVars, mu, cpc, cur, todo, ilock, run, hosts>>

\* dialConnFor: the connection is for the waiter; if that is gone it is released, or if
\* the dial has failed the slot is.
DialConnFor(h) ==
  /\ conn[h] = "dial"
  /\ \/ \E u \in Those(h, "dialFor") : Deliver(u, h)
     \/ Those(h, "dialFor") = {} /\ ilock[h] = Nil /\ (HandOn(h) \/ FreeSlot(h))
  /\ UNCHANGED <<client, timeVars, mu, cpc, cur, todo, ilock, run, hosts>>

\* createHostClient for a host that is not in the map, or AddHostClient.
CreateHostClient(u, h) ==
  /\ scene.client
  /\ upc[u] = "idle"
  /\ {u, h} \subseteq scene.here
  /\ ilock[Client] = Nil
  /\ hosts' = hosts \cup {h}
  /\ \/ /\ NeedsRegistration(Client)
        /\ ilock' = [ilock EXCEPT ![Client] = u]
        /\ upc' = [upc EXCEPT ![u] = "register"]
        /\ item' = [item EXCEPT ![u] = Client]
     \/ /\ ~NeedsRegistration(Client)
        /\ UNCHANGED <<ilock, upc, item>>
  /\ UNCHANGED <<client, timeVars, mu, cpc, cur, todo, run, conn, quiet>>

\* Register: cc.mu is taken while the item's lock is held; when was computed
\* before, and is not past yet.  The first registration starts the cleaner.
Register(u, e, w) ==
  /\ upc[u] = "register"
  /\ mu = Nil
  /\ client[e] = Nil
  /\ client' = [client EXCEPT ![e] = item[u]]
  /\ wait' = [wait EXCEPT ![e] = w]
  /\ IF \A f \in InHeap : w < wait[f]
     THEN Update0When({wait'[f] : f \in InHeap \cup {e}})
     ELSE UNCHANGED <<zeroWhen, due>>
  /\ cpc' = IF cpc = "off" THEN "select" ELSE cpc
  /\ upc' = [upc EXCEPT ![u] = "registered"]
  /\ UNCHANGED <<late, tick, mu, cur, todo, ilock, run, conn, quiet, hosts, item>>

\* The flag is set and the item's lock released.
Registered(u) ==
  /\ upc[u] = "registered"
  /\ run' = [run EXCEPT ![item[u]] = TRUE]
  /\ ilock' = [ilock EXCEPT ![item[u]] = Nil]
  /\ upc' = [upc EXCEPT ![u] = "idle"]
  /\ item' = [item EXCEPT ![u] = Nil]
  /\ UNCHANGED <<client, timeVars, mu, cpc, cur, todo, conn, quiet, hosts>>
-----------------------------------------------------------------------------
(* startClen *)

ReceiveTick ==
  /\ cpc = "select"
  /\ tick
  /\ tick' = FALSE
  /\ cpc' = "lock"
  /\ UNCHANGED <<client, wait, zeroWhen, late, due, mu, cur, todo, clientVars>>

\* cc.mu is taken; checkItems returns at once before zeroWhen.
LockMu ==
  /\ cpc = "lock"
  /\ mu = Nil
  /\ \/ /\ zeroWhen \notin {Nil, 0}
        /\ due' = zeroWhen
        /\ cpc' = "select"
        /\ UNCHANGED mu
     \/ /\ zeroWhen \in {Nil, 0}
        /\ mu' = Cleaner
        /\ cpc' = "check"
        /\ UNCHANGED due
  /\ UNCHANGED <<client, wait, zeroWhen, late, tick, cur, todo, clientVars>>

NextPoll_Lost == due
\* The timer is set for the head that was not due when the pass began, counted from
\* then.
NextPoll == IF InHeap = {} THEN due ELSE HeadWait + late

IsDue(e) == wait[e] + late <= 0

\* checkItems leaves its loop.
EndCheck ==
  /\ cpc = "check"
  /\ \A e \in Heads : ~IsDue(e)
  /\ due' = NextPoll
  /\ late' = 0
  /\ mu' = Nil
  /\ cpc' = "select"
  /\ UNCHANGED <<client, wait, zeroWhen, tick, cur, todo, clientVars>>

\* run: the head is due.
RunOne(e) ==
  /\ cpc = "check"
  /\ e \in Heads
  /\ IsDue(e)
  /\ cur' = e
  /\ cpc' = "clean"
  /\ UNCHANGED <<client, timeVars, mu, todo, clientVars>>

\* runOne after Clean returned: the entry is due again later, or it is deleted.
Rerun(d) ==
  /\ wait' = [wait EXCEPT ![cur] = d]
  /\ UNCHANGED <<client, zeroWhen, due>>

Delete ==
  /\ client' = [client EXCEPT ![cur] = Nil]
  /\ wait' = [wait EXCEPT ![cur] = 0]
  /\ Update0When({wait[f] : f \in InHeap \ {cur}})

Return ==
  /\ cur' = Nil
  /\ cpc' = "check"
  /\ UNCHANGED <<late, tick, mu>>

\* HostClient.Clean, first critical section: with no connection idle for too long
\* it returns, to be run again after minDuration.
CleanHost ==
  LET h == client[cur] IN
  /\ cpc = "clean"
  /\ h # Client
  /\ ilock[h] = Nil
  /\ \/ Rerun(1) /\ Return /\ UNCHANGED <<conn, quiet, upc, item>>
     \/ /\ conn[h] = "idle"
        /\ FreeSlot(h)
        /\ cpc' = "stop"
        /\ UNCHANGED <<client, timeVars, mu, cur>>
  /\ UNCHANGED <<todo, ilock, run, hosts>>

StopsCleaner_Always(h) == TRUE
StopsCleaner(h) == conn[h] = "none"

\* HostClient.Clean, second critical section: it stops if there is no connection.
CleanHostStop ==
  LET h == client[cur] IN
  /\ cpc = "stop"
  /\ ilock[h] = Nil
  /\ \/ /\ StopsCleaner(h)
        /\ run' = [run EXCEPT ![h] = FALSE]
        /\ Delete
     \/ /\ ~StopsCleaner(h)
        /\ \E d \in 1..MaxWait : Rerun(d)
        /\ UNCHANGED run
  /\ Return
  /\ UNCHANGED <<todo, ilock, conn, quiet, hosts, upc, item>>

\* Client.Clean: mLock, then connsLock of every host client; those without
\* connections leave the map.
CleanClient ==
  /\ cpc = "clean"
  /\ client[cur] = Client
  /\ ilock[Client] = Nil
  /\ ilock' = [ilock EXCEPT ![Client] = Cleaner]
  /\ todo' = hosts
  /\ cpc' = "visit"
  /\ UNCHANGED <<client, timeVars, mu, cur, run, conn, quiet, hosts, upc, item>>

CleanClientVisit(h) ==
  /\ cpc = "visit"
  /\ h \in todo
  /\ ilock[h] = Nil
  /\ todo' = todo \ {h}
  /\ hosts' = IF conn[h] = "none" THEN hosts \ {h} ELSE hosts
  /\ UNCHANGED <<client, timeVars, mu, cpc, cur, ilock, run, conn, quiet, upc, item>>

\* cleanStart is reset whether or not the Client stays registered.
CleanClientEnd ==
  /\ cpc = "visit"
  /\ todo = {}
  /\ run' = [run EXCEPT ![Client] = FALSE]
  /\ ilock' = [ilock EXCEPT ![Client] = Nil]
  /\ IF hosts = {} THEN Delete ELSE Rerun(MaxWait)
  /\ Return
  /\ UNCHANGED <<todo, conn, quiet, hosts, upc, item>>
-----------------------------------------------------------------------------
UserStep(u) ==
  \/ \E h \in HostClients : AcquireConn(u, h) \/ FindFull(u, h) \/ CreateHostClient(u, h)
  \/ \E e \in Entries, w \in 1..MaxWait : Register(u, e, w)
  \/ Registered(u) \/ QueueForIdle(u) \/ WaitEnds(u)

CleanerStep ==
  \/ ReceiveTick \/ LockMu \/ EndCheck \/ (\E e \in Entries : RunOne(e))
  \/ CleanHost \/ CleanHostStop
  \/ CleanClient \/ (\E h \in HostClients : CleanClientVisit(h)) \/ CleanClientEnd

Next ==
  /\ \/ Tick \/ Fire
     \/ \E u \in Users : UserStep(u)
     \/ \E h \in HostClients : ReleaseConn(h) \/ DialConnFor(h)
     \/ CleanerStep
  /\ UNCHANGED scene

Spec == Init /\ [][Next]_vars

\* Time passes, an armed timer fires, the cleaner and a user that holds a lock run
\* on, and a mutex is given to those who wait for it; users need not come.
Fairness ==
  /\ WF_vars(UNCHANGED scene /\ Tick) /\ WF_vars(UNCHANGED scene /\ Fire)
  /\ SF_vars(UNCHANGED scene /\ CleanerStep)
  /\ \A u \in Users :
       /\ SF_vars(UNCHANGED scene /\ \E e \in Entries, w \in 1..MaxWait : Register(u, e, w))
       /\ WF_vars(UNCHANGED scene /\ Registered(u))

FairSpec == Spec /\ Fairness
-----------------------------------------------------------------------------
(* Properties *)

\* The cleaner cannot sleep past the first entry: whenever cc.mu is free and the
\* heap is not empty, a value is in the timer's channel, or was taken from it and
\* the heap will be checked, or the timer is armed for the head, late by the length
\* of a pass at most.  Registrations, deletions and reruns leave it so, although
\* reruns leave zeroWhen stale.
TimerCoversHead ==
  mu = Nil /\ InHeap # {} =>
    \/ tick \/ cpc = "lock"
    \/ due # Nil /\ due <= HeadWait + MaxLate

HostEntry(h) == {e \in InHeap : client[e] = h}

\* An idle connection is watched: its HostClient is registered, so a Clean will see
\* it, although Clean stops the cleaner in a second critical section, after
\* connections may have been opened.  The exception is a slot that a call with
\* Connection: close opened and passed to a waiter when it closed its connection: who
\* opened it did not register, and dialConnFor does not.  A HostClient is in the heap once at most, and
\* connsCleanerRun agrees with the heap outside the critical sections of acquireConn
\* and of Clean.
IdleIsWatched ==
  /\ TypeOK
  /\ \A h \in HostClients :
       /\ conn[h] = "idle" /\ ilock[h] = Nil => run[h] \/ quiet[h]
       /\ Cardinality(HostEntry(h)) <= 1
       /\ ilock[h] = Nil /\ mu = Nil => (run[h] <=> HostEntry(h) # {})

\* The cleaner, which holds cc.mu, waits for the lock of an item whose holder waits
\* for cc.mu.
CircularWait ==
  /\ mu = Cleaner
  /\ \E u \in Users :
       /\ upc[u] = "register"
       /\ \/ cpc \in {"clean", "stop"} /\ client[cur] = item[u]
          \/ cpc = "visit" /\ item[u] \in todo

\* HostClients alone never get there: a HostClient in the heap does not register.
HostsNeverDeadlock == ~scene.client => ~CircularWait

\* What has to be cleaned is in the heap, the timer is armed for it, and the cleaner and the
\* HostClients never wait for each other.
ItemsWatched == TimerCoversHead /\ IdleIsWatched /\ HostsNeverDeadlock

\* An entry that is due is run: Clean of every registered HostClient is called again
\* and again, as long as no Client is there.
DueIsRun ==
  \A e \in Entries :
    (~scene.client /\ e \in InHeap /\ wait[e] <= 0) ~> (cur = e \/ e \notin InHeap)
-----------------------------------------------------------------------------
(* What the documentation and the tests say and the code does not do *)

\* "It is safe calling Client methods from concurrently running goroutines."
NoDeadlock == ~CircularWait

\* minDuration: "The minimum runtime interval for the same CleanableItem": an item
\* has one entry.
ItemOnce ==
  \A e, f \in InHeap : client[e] = client[f] => e = f

\* "the default duration before idle keep-alive connection is closed"
\* (DefaultMaxIdleConnDuration): IdleIsWatched without its exception.
EveryIdleIsWatched ==
  \A h \in HostClients : conn[h] = "idle" /\ ilock[h] = Nil => run[h]

\* A client without connections is dropped by the cleaner in the end.
UnusedIsDropped ==
  \A h \in HostClients : <>[](conn[h] = "none") => <>[](HostEntry(h) = {})
=============================================================================
