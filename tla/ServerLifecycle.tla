--------------------------- MODULE ServerLifecycle ---------------------------
(***************************************************************************)
(* The life of a Server (server.go): Serve and its listeners, ServeConn,   *)
(* the connection states that closeIdleConns looks at, and                 *)
(* ShutdownWithContext.  Goroutines: one per Serve call, one per connection *)
(* being served (a pool worker running workerFunc, or the caller of        *)
(* ServeConn), one per Shutdown call.                                      *)
(*                                                                         *)
(* The request loop of serveConn is cut down to what Shutdown can see of   *)
(* it: where it stores the status, reads s.stop, reads and writes the      *)
(* connection.  The worker pool of a Serve call is a goroutine for every   *)
(* connection it accepted as long as fewer than Concurrency are taken      *)
(* (WorkerPool).                                                           *)
(* A definition D_Fault just before D is D with a plausible fault; no spec *)
(* uses it.                                                                *)
(***************************************************************************)
EXTENDS Integers, FiniteSets

CONSTANTS
  Listeners,
  Shutdowns,          \* calls of Shutdown or ShutdownWithContext
  AcceptedConns,      \* connections the listeners may return
  CalledConns,        \* connections the program passes to ServeConn
  Concurrency,        \* getConcurrency()
  Scenes,             \* the settings to be checked
  MaxRequests         \* bound: requests a client sends on a connection

Conns == AcceptedConns \cup CalledConns
NoOne == "none"

\* The fields of Server that matter here (of MaxConnsPerIP whether it is set), whether the contexts given to Shutdown
\* may end, whether Accept or a Close may fail for other reasons, and who takes
\* part.
SceneType ==
  [ReduceMemoryUsage : BOOLEAN, CloseOnShutdown : BOOLEAN, MaxConnsPerIP : BOOLEAN,
   CtxMayEnd : BOOLEAN,
   ListenerMayFail : BOOLEAN, here : SUBSET (Listeners \cup Shutdowns \cup Conns)]

ASSUME ServerLifecycleAssumption ==
  /\ IsFiniteSet(Conns) /\ IsFiniteSet(Listeners)
  /\ AcceptedConns \cap CalledConns = {}
  /\ NoOne \notin Shutdowns \cup Listeners
  /\ Concurrency \in Nat \ {0}
  /\ MaxRequests \in Nat \ {0}
  /\ Scenes \subseteq SceneType

VARIABLES
  scene,        \* the setting; never changes
  mu,           \* the Shutdown call holding s.mu, or NoOne
  stop,         \* s.stop = 1
  done,         \* s.done: "nil", "open" or "closed"
  ln,           \* s.ln
  lnClosed,     \* listeners that have been closed
  lpc,          \* where each Serve call is
  lconn,        \* the connection in its hands
  pool,         \* the Serve call whose worker pool took each connection
  open,         \* s.open
  concurrency,  \* s.concurrency
  tracked,      \* the keys of s.conns
  status,       \* ConnStatus.status of each connection
  grace,        \* its lastActive is in the future: the 5 seconds after accept
  cpc,          \* where the goroutine serving each connection is
  sock,         \* the connections that are closed
  begun,        \* requests begun on each connection
  shouldStop,   \* the local of serveConn
  late,         \* responses written since stop was set (history)
  shpc,         \* where each Shutdown call is
  todo,         \* what its current loop has still to look at
  target        \* the connection closeIdleConns found idle, until it closes it

serverVars == <<mu, stop, done, ln>>
listenVars == <<lnClosed, lpc, lconn, pool>>
countVars  == <<open, concurrency>>
stateVars  == <<tracked, status, grace>>
loopVars   == <<cpc, begun, shouldStop, late>>
shutVars   == <<shpc, todo, target>>
vars == <<scene, serverVars, listenVars, countVars, stateVars, loopVars, sock, shutVars>>

InServeConn == {"load", "handshake", "first", "peek", "begin", "stamped", "read",
                "handler", "activeW", "write"}
\* Where the goroutine of a connection is while s.open counts it.
Counted == InServeConn \cup {"counted", "handed", "admit", "refuse", "ret", "hijacked"}
ConnPCs == Counted \cup {"new", "accepted", "drop", "close", "keep", "untrack", "end"}

TypeOK ==
  /\ scene \in Scenes
  /\ mu \in Shutdowns \cup {NoOne}
  /\ stop \in BOOLEAN
  /\ done \in {"nil", "open", "closed"}
  /\ ln \subseteq Listeners /\ lnClosed \subseteq Listeners
  /\ lpc \in [Listeners -> {"new", "accept", "busy", "returned"}]
  /\ lconn \in [Listeners -> AcceptedConns \cup {NoOne}]
  /\ pool \in [Conns -> Listeners \cup {NoOne}]
  /\ open \in Int /\ concurrency \in Int
  /\ tracked \subseteq Conns /\ sock \subseteq Conns
  /\ status \in [Conns -> {"idle", "activeR", "activeW"}]
  /\ grace \in [Conns -> BOOLEAN]
  /\ cpc \in [Conns -> ConnPCs]
  /\ begun \in [Conns -> 0..MaxRequests]
  /\ shouldStop \in [Conns -> BOOLEAN]
  /\ late \in [Conns -> Nat]
  /\ shpc \in [Shutdowns -> {"new", "listeners", "scan", "wait", "drained",
                             "closeErr", "canceled", "returned", "gaveUp"}]
  /\ todo \in [Shutdowns -> SUBSET (Listeners \cup Conns)]
  /\ target \in [Shutdowns -> SUBSET Conns]

Init ==
  /\ scene \in Scenes
  /\ mu = NoOne
  /\ stop = FALSE
  /\ done = "nil"
  /\ ln = {} /\ lnClosed = {}
  /\ lpc = [l \in Listeners |-> "new"]
  /\ lconn = [l \in Listeners |-> NoOne]
  /\ pool = [c \in Conns |-> NoOne]
  /\ open = 0 /\ concurrency = 0
  /\ tracked = {} /\ sock = {}
  /\ status = [c \in Conns |-> "idle"]
  /\ grace = [c \in Conns |-> FALSE]
  /\ cpc = [c \in Conns |-> "new"]
  /\ begun = [c \in Conns |-> 0]
  /\ shouldStop = [c \in Conns |-> FALSE]
  /\ late = [c \in Conns |-> 0]
  /\ shpc = [s \in Shutdowns |-> "new"]
  /\ todo = [s \in Shutdowns |-> {}]
  /\ target = [s \in Shutdowns |-> {}]

GoTo(c, pc) == cpc' = [cpc EXCEPT ![c] = pc]
-----------------------------------------------------------------------------
(* Serve *)

\* The critical section at the top of Serve.  A Serve that comes during a
\* Shutdown waits for it.
OpenForListener_Missing == open
OpenForListener == open + 1

Serve(l) ==
  /\ lpc[l] = "new"
  /\ l \in scene.here
  /\ mu = NoOne
  /\ ln' = ln \cup {l}
  /\ done' = IF done = "nil" THEN "open" ELSE done
  /\ open' = OpenForListener
  /\ lpc' = [lpc EXCEPT ![l] = "accept"]
  /\ UNCHANGED <<mu, stop, lnClosed, lconn, pool, concurrency, stateVars, loopVars, sock, shutVars>>

\* The next connection of a set; those the server has not seen yet are alike.
IsNext(c, S) ==
  LET unseen == {d \in S \cap scene.here : cpc[d] = "new"} IN
  unseen # {} /\ c = CHOOSE d \in unseen : TRUE

\* ln.Accept returns a connection.
Accept(l, c) ==
  /\ lpc[l] = "accept"
  /\ l \notin lnClosed
  /\ IsNext(c, AcceptedConns)
  /\ GoTo(c, "accepted")
  /\ lpc' = [lpc EXCEPT ![l] = "busy"]
  /\ lconn' = [lconn EXCEPT ![l] = c]
  /\ UNCHANGED <<serverVars, lnClosed, pool, countVars, stateVars, begun, shouldStop, late,
                 sock, shutVars>>

\* atomic.AddInt32(&s.open, 1)
CountConn(l) ==
  /\ lpc[l] = "busy"
  /\ cpc[lconn[l]] = "accepted"
  /\ GoTo(lconn[l], "counted")
  /\ open' = open + 1
  /\ UNCHANGED <<serverVars, listenVars, concurrency, stateVars, begun, shouldStop, late,
                 sock, shutVars>>

\* wrapPerIPConn finds too many connections from the address (PerIPConn counts them),
\* answers and closes this one; Serve uncounts it and goes on.
OpenAfterIPRefusal_Kept == open
OpenAfterIPRefusal == open - 1

OverPerIPLimit(l) ==
  LET c == lconn[l] IN
  /\ scene.MaxConnsPerIP
  /\ lpc[l] = "busy"
  /\ cpc[c] = "counted"
  /\ GoTo(c, "end")
  /\ sock' = sock \cup {c}
  /\ open' = OpenAfterIPRefusal
  /\ lpc' = [lpc EXCEPT ![l] = "accept"]
  /\ lconn' = [lconn EXCEPT ![l] = NoOne]
  /\ UNCHANGED <<serverVars, lnClosed, pool, concurrency, stateVars, begun, shouldStop,
                 late, shutVars>>

\* The connections that the worker pool of a Serve call took, and those of them
\* whose goroutine is not done.  When it is, its worker goes back to the pool, or
\* ends, a little later: until then it is still counted in workersCount.
TakenBy(l) == {c \in Conns : pool[c] = l}
InPool(l) == {c \in TakenBy(l) : cpc[c] # "end"}

\* wp.Serve: a worker takes the connection, or it is answered, closed and
\* uncounted.
HandOver(l) ==
  LET c == lconn[l] IN
  /\ lpc[l] = "busy"
  /\ cpc[c] = "counted"
  /\ \/ /\ Cardinality(InPool(l)) < Concurrency
        /\ GoTo(c, "handed")
        /\ pool' = [pool EXCEPT ![c] = l]
        /\ UNCHANGED <<open, sock>>
     \/ /\ Cardinality(TakenBy(l)) >= Concurrency
        /\ GoTo(c, "end")
        /\ sock' = sock \cup {c}
        /\ open' = open - 1
        /\ UNCHANGED pool
  /\ lpc' = [lpc EXCEPT ![l] = "accept"]
  /\ lconn' = [lconn EXCEPT ![l] = NoOne]
  /\ UNCHANGED <<serverVars, lnClosed, concurrency, stateVars, begun, shouldStop, late,
                 shutVars>>

\* Accept fails for good: the pool is stopped and Serve returns, its
\* listener still in s.ln.
ServeReturn(l) ==
  /\ lpc[l] = "accept"
  /\ l \in lnClosed \/ scene.ListenerMayFail
  /\ lpc' = [lpc EXCEPT ![l] = "returned"]
  /\ open' = open - 1
  /\ UNCHANGED <<serverVars, lnClosed, lconn, pool, concurrency, stateVars, loopVars, sock, shutVars>>

\* The program closes a listener it passed to Serve.
ProgramCloses(l) ==
  /\ scene.ListenerMayFail
  /\ lpc[l] # "new"
  /\ l \notin lnClosed
  /\ lnClosed' = lnClosed \cup {l}
  /\ UNCHANGED <<serverVars, lpc, lconn, pool, countVars, stateVars, loopVars, sock, shutVars>>
-----------------------------------------------------------------------------
(* The goroutine of a connection: workerFunc or ServeConn, and serveConn *)

\* trackConn(c, StateNew): idle, but not for closeIdleConns until 5 seconds
\* from now.
TrackNew(c) ==
  /\ tracked' = tracked \cup {c}
  /\ status' = [status EXCEPT ![c] = "idle"]
  /\ grace' = [grace EXCEPT ![c] = TRUE]

\* The head of workerFunc.
WorkerStart(c) ==
  /\ cpc[c] = "handed"
  /\ concurrency' = concurrency + 1
  /\ TrackNew(c)
  /\ GoTo(c, "load")
  /\ UNCHANGED <<serverVars, listenVars, open, begun, shouldStop, late, sock, shutVars>>

\* The program calls ServeConn.
ServeConn(c) ==
  /\ IsNext(c, CalledConns)
  /\ open' = open + 1
  /\ GoTo(c, "admit")
  /\ UNCHANGED <<serverVars, listenVars, concurrency, stateVars, begun, shouldStop, late,
                 sock, shutVars>>

\* The same limit in ServeConn, which returns ErrPerIPConnLimit.
ServeConnOverPerIPLimit(c) ==
  /\ scene.MaxConnsPerIP
  /\ cpc[c] = "admit"
  /\ GoTo(c, "end")
  /\ sock' = sock \cup {c}
  /\ open' = OpenAfterIPRefusal
  /\ UNCHANGED <<serverVars, listenVars, concurrency, stateVars, begun, shouldStop, late,
                 shutVars>>

Admits_Before(n) == n - 1 <= Concurrency
Admits(n) == n <= Concurrency

\* ServeConn counts the connection in s.concurrency and looks at the sum.
Admit(c) ==
  /\ cpc[c] = "admit"
  /\ concurrency' = concurrency + 1
  /\ \/ /\ Admits(concurrency + 1)
        /\ TrackNew(c)
        /\ GoTo(c, "load")
     \/ /\ ~Admits(concurrency + 1)
        /\ GoTo(c, "refuse")
        /\ UNCHANGED stateVars
  /\ UNCHANGED <<serverVars, listenVars, open, begun, shouldStop, late, sock, shutVars>>

Refuse(c) ==
  /\ cpc[c] = "refuse"
  /\ concurrency' = concurrency - 1
  /\ open' = open - 1
  /\ GoTo(c, "drop")
  /\ UNCHANGED <<serverVars, listenVars, stateVars, begun, shouldStop, late, sock, shutVars>>

\* The c.Close() after it.
Drop(c) ==
  /\ cpc[c] = "drop"
  /\ sock' = sock \cup {c}
  /\ GoTo(c, "end")
  /\ UNCHANGED <<serverVars, listenVars, countVars, stateVars, begun, shouldStop, late,
                 shutVars>>

\* s.conns.Load(c)
LoadStatus(c) ==
  /\ cpc[c] = "load"
  /\ c \in tracked
  /\ GoTo(c, "handshake")
  /\ UNCHANGED <<serverVars, listenVars, countVars, stateVars, begun, shouldStop, late,
                 sock, shutVars>>

\* getNextProto.  The first request is not waited for, unless memory is to be
\* saved: then the first byte is read as that of any other request.
Handshake(c) ==
  /\ cpc[c] = "handshake"
  /\ \/ /\ c \notin sock
        /\ GoTo(c, IF scene.ReduceMemoryUsage THEN "peek" ELSE "first")
     \/ GoTo(c, "ret")
  /\ UNCHANGED <<serverVars, listenVars, countVars, stateVars, begun, shouldStop, late,
                 sock, shutVars>>

\* The wait for the first byte of a request: br.Peek(1) or acquireByteReader.
Peek(c) ==
  /\ cpc[c] = "peek"
  /\ c \notin sock
  /\ begun[c] < MaxRequests
  /\ begun' = [begun EXCEPT ![c] = @ + 1]
  /\ GoTo(c, "begin")
  /\ UNCHANGED <<serverVars, listenVars, countVars, stateVars, shouldStop, late, sock,
                 shutVars>>

\* It ends with an error: the client or Shutdown closed the connection, or
\* the idle timeout passed.
PeekFail(c) ==
  /\ cpc[c] = "peek"
  /\ GoTo(c, "ret")
  /\ UNCHANGED <<serverVars, listenVars, countVars, stateVars, begun, shouldStop, late,
                 sock, shutVars>>

\* lastActive.Store(absoluteNano()): later than the "now" of any running
\* closeIdleConns, which so passes the connection over.
Stamp(c) ==
  /\ grace' = [grace EXCEPT ![c] = FALSE]
  /\ todo' = [s \in Shutdowns |-> todo[s] \ {c}]

StampActive(c) ==
  /\ cpc[c] \in {"first", "begin"}
  /\ Stamp(c)
  /\ begun' = IF cpc[c] = "first" THEN [begun EXCEPT ![c] = @ + 1] ELSE begun
  /\ GoTo(c, "stamped")
  /\ UNCHANGED <<serverVars, listenVars, countVars, tracked, status, shouldStop, late,
                 sock, shpc, target>>

StoreActiveR(c) ==
  /\ cpc[c] = "stamped"
  /\ status' = [status EXCEPT ![c] = "activeR"]
  /\ GoTo(c, "read")
  /\ UNCHANGED <<serverVars, listenVars, countVars, tracked, grace, begun, shouldStop,
                 late, sock, shutVars>>

\* Header and body are read, or an error or the read timeout ends the loop.
ReadRequest(c) ==
  /\ cpc[c] = "read"
  /\ \/ /\ c \notin sock
        /\ GoTo(c, "handler")
     \/ GoTo(c, "ret")
  /\ UNCHANGED <<serverVars, listenVars, countVars, stateVars, begun, shouldStop, late,
                 sock, shutVars>>

\* s.Handler returns, having taken the connection (HijackConn) or not.
HandlerReturn(c) ==
  /\ cpc[c] = "handler"
  /\ \/ /\ GoTo(c, "hijacked")
        /\ UNCHANGED <<status, grace, todo>>
     \/ /\ Stamp(c)
        /\ status' = [status EXCEPT ![c] = "activeW"]
        /\ GoTo(c, "activeW")
  /\ UNCHANGED <<serverVars, listenVars, countVars, tracked, begun, shouldStop, late,
                 sock, shpc, target>>

\* What serveConn reads in s.stop.
StopSeen_Never == FALSE
StopSeen == stop

\* shouldStop := atomic.LoadInt32(&s.stop) == 1, before the response is
\* written.
LoadStop(c) ==
  /\ cpc[c] = "activeW"
  /\ shouldStop' = [shouldStop EXCEPT ![c] = StopSeen]
  /\ GoTo(c, "write")
  /\ UNCHANGED <<serverVars, listenVars, countVars, stateVars, begun, late, sock, shutVars>>

\* The response is written.  The loop ends if either side wants the
\* connection closed or the server is stopping; a HijackHandler takes the
\* connection; else it is idle again.
WriteResponse(c) ==
  /\ cpc[c] = "write"
  /\ c \notin sock
  /\ late' = IF stop THEN [late EXCEPT ![c] = @ + 1] ELSE late
  /\ \/ /\ GoTo(c, "ret")
        /\ UNCHANGED status
     \/ /\ ~(scene.CloseOnShutdown /\ shouldStop[c])
        /\ GoTo(c, "hijacked")
        /\ UNCHANGED status
     \/ /\ ~shouldStop[c]
        /\ status' = [status EXCEPT ![c] = "idle"]
        /\ GoTo(c, "peek")
  /\ UNCHANGED <<serverVars, listenVars, countVars, tracked, grace, begun, shouldStop,
                 sock, shutVars>>

WriteFail(c) ==
  /\ cpc[c] = "write"
  /\ GoTo(c, "ret")
  /\ UNCHANGED <<serverVars, listenVars, countVars, stateVars, begun, shouldStop, late,
                 sock, shutVars>>

\* serveConn has returned: s.open no longer counts the connection, which is
\* still to be closed.
Uncount(c) ==
  /\ cpc[c] \in {"ret", "hijacked"}
  /\ open' = open - 1
  /\ GoTo(c, IF cpc[c] = "ret" THEN "close" ELSE "keep")
  /\ UNCHANGED <<serverVars, listenVars, concurrency, stateVars, begun, shouldStop, late,
                 sock, shutVars>>

\* s.concurrency after the release.
Released_Never == concurrency
Released == concurrency - 1

CloseConn(c) ==
  /\ cpc[c] \in {"close", "keep"}
  /\ concurrency' = Released
  /\ sock' = IF cpc[c] = "close" THEN sock \cup {c} ELSE sock
  /\ GoTo(c, "untrack")
  /\ UNCHANGED <<serverVars, listenVars, open, stateVars, begun, shouldStop, late, shutVars>>

\* s.conns.Delete(c)
Untracked(c) == tracked \ {c}

\* setState(c, StateClosed) or setState(c, StateHijacked).
Untrack(c) ==
  /\ cpc[c] = "untrack"
  /\ tracked' = Untracked(c)
  /\ GoTo(c, "end")
  /\ UNCHANGED <<serverVars, listenVars, countVars, status, grace, begun, shouldStop, late,
                 sock, shutVars>>

\* The 5 seconds are over.  The goroutine has run far enough by then to have
\* loaded its ConnStatus.
GraceEnds(c) ==
  /\ grace[c]
  /\ cpc[c] \in InServeConn \ {"load"}
  /\ grace' = [grace EXCEPT ![c] = FALSE]
  /\ UNCHANGED <<serverVars, listenVars, countVars, tracked, status, loopVars, sock, shutVars>>
-----------------------------------------------------------------------------
(* ShutdownWithContext *)

ShutGoTo(s, pc) == shpc' = [shpc EXCEPT ![s] = pc]

\* Shutdown holds s.mu until it returns.
ShutdownBegin(s) ==
  /\ shpc[s] = "new"
  /\ s \in scene.here
  /\ mu = NoOne
  /\ mu' = s
  /\ stop' = TRUE
  /\ late' = [c \in Conns |-> 0]
  /\ todo' = [todo EXCEPT ![s] = ln]
  /\ ShutGoTo(s, "listeners")
  /\ UNCHANGED <<done, ln, listenVars, countVars, stateVars, cpc, begun, shouldStop, sock,
                 target>>

\* The deferred calls.
Deferred ==
  /\ stop' = FALSE
  /\ mu' = NoOne

\* No listener was ever served: nothing to do.
NoListeners(s) ==
  /\ shpc[s] = "listeners"
  /\ ln = {}
  /\ Deferred
  /\ ShutGoTo(s, "returned")
  /\ UNCHANGED <<done, ln, listenVars, countVars, stateVars, loopVars, sock, todo, target>>

CloseListener(s, l) ==
  /\ shpc[s] = "listeners"
  /\ l \in todo[s] \ lnClosed
  /\ lnClosed' = lnClosed \cup {l}
  /\ todo' = [todo EXCEPT ![s] = @ \ {l}]
  /\ UNCHANGED <<serverVars, lpc, lconn, pool, countVars, stateVars, loopVars, sock, shpc, target>>

\* ln.Close returns an error, as it does on a closed listener: Shutdown
\* returns it at once, leaving s.ln and s.done as they are.
CloseListenerFails(s, l) ==
  /\ shpc[s] = "listeners"
  /\ l \in todo[s] \cap lnClosed
  /\ ShutGoTo(s, "closeErr")
  /\ UNCHANGED <<serverVars, listenVars, countVars, stateVars, loopVars, sock, todo, target>>

ReturnCloseErr(s) ==
  /\ shpc[s] = "closeErr"
  /\ Deferred
  /\ ShutGoTo(s, "gaveUp")
  /\ UNCHANGED <<done, ln, listenVars, countVars, stateVars, loopVars, sock, todo, target>>

\* The connections closeIdleConns may close if they are idle when it gets to
\* them: those whose lastActive has passed when it takes the time.
ScanFrom(s) == todo' = [todo EXCEPT ![s] = {c \in tracked : ~grace[c]}]

CloseDone(s) ==
  /\ shpc[s] = "listeners"
  /\ ln # {}
  /\ todo[s] = {}
  /\ done' = IF done = "nil" THEN done ELSE "closed"
  /\ ScanFrom(s)
  /\ ShutGoTo(s, "scan")
  /\ UNCHANGED <<mu, stop, ln, listenVars, countVars, stateVars, loopVars, sock, target>>

\* closeIdleConns looks at the status of a connection ...
LooksIdle_Never(c) == FALSE
LooksIdle(c) == status[c] = "idle"

ScanIdle(s, c) ==
  /\ shpc[s] = "scan"
  /\ target[s] = {}
  /\ c \in todo[s]
  /\ todo' = [todo EXCEPT ![s] = @ \ {c}]
  /\ target' = IF c \in tracked /\ LooksIdle(c) THEN [target EXCEPT ![s] = {c}] ELSE target
  /\ UNCHANGED <<serverVars, listenVars, countVars, stateVars, loopVars, sock, shpc>>

\* ... and then closes it, whatever it is by now.
CloseIdle(s) ==
  /\ target[s] # {}
  /\ sock' = sock \cup target[s]
  /\ tracked' = tracked \ target[s]
  /\ target' = [target EXCEPT ![s] = {}]
  /\ UNCHANGED <<serverVars, listenVars, countVars, status, grace, loopVars, shpc, todo>>

CheckOpen(s) ==
  /\ shpc[s] = "scan"
  /\ todo[s] = {} /\ target[s] = {}
  /\ ShutGoTo(s, IF open = 0 THEN "drained" ELSE "wait")
  /\ UNCHANGED <<serverVars, listenVars, countVars, stateVars, loopVars, sock, todo, target>>

\* The ticker fires.
TickerFires(s) ==
  /\ shpc[s] = "wait"
  /\ ScanFrom(s)
  /\ ShutGoTo(s, "scan")
  /\ UNCHANGED <<serverVars, listenVars, countVars, stateVars, loopVars, sock, target>>

CtxDone(s) ==
  /\ shpc[s] = "wait"
  /\ scene.CtxMayEnd
  /\ ShutGoTo(s, "canceled")
  /\ UNCHANGED <<serverVars, listenVars, countVars, stateVars, loopVars, sock, todo, target>>

\* s.done at the end of Shutdown.
DoneAfter == "nil"

ShutdownReturn(s) ==
  /\ shpc[s] \in {"drained", "canceled"}
  /\ done' = DoneAfter
  /\ ln' = {}
  /\ Deferred
  /\ ShutGoTo(s, IF shpc[s] = "drained" THEN "returned" ELSE "gaveUp")
  /\ UNCHANGED <<listenVars, countVars, stateVars, loopVars, sock, todo, target>>
-----------------------------------------------------------------------------
ListenerStep(l) ==
  \/ Serve(l) \/ CountConn(l) \/ OverPerIPLimit(l) \/ HandOver(l) \/ ServeReturn(l)
  \/ \E c \in AcceptedConns : Accept(l, c)

ConnStep(c) ==
  \/ WorkerStart(c) \/ ServeConnOverPerIPLimit(c) \/ Admit(c) \/ Refuse(c) \/ Drop(c) \/ LoadStatus(c)
  \/ Handshake(c) \/ StampActive(c) \/ StoreActiveR(c) \/ ReadRequest(c)
  \/ HandlerReturn(c) \/ LoadStop(c) \/ WriteResponse(c) \/ WriteFail(c)
  \/ Uncount(c) \/ CloseConn(c) \/ Untrack(c)

ShutdownStep(s) ==
  \/ NoListeners(s) \/ ReturnCloseErr(s) \/ CloseDone(s) \/ CloseIdle(s) \/ CheckOpen(s)
  \/ TickerFires(s) \/ ShutdownReturn(s)
  \/ \E l \in Listeners : CloseListener(s, l) \/ CloseListenerFails(s, l)
  \/ \E c \in Conns : ScanIdle(s, c)

\* Every Shutdown has returned and the clients have gone.
Finished ==
  /\ \A l \in Listeners \cap scene.here : lpc[l] \in {"accept", "returned"}
  /\ \A s \in Shutdowns \cap scene.here : shpc[s] \in {"returned", "gaveUp"}
  /\ \A c \in Conns : cpc[c] \in {"end", "new"}
  /\ UNCHANGED vars

Next ==
  /\ \/ \E l \in Listeners : ListenerStep(l) \/ ProgramCloses(l)
     \/ \E c \in Conns : ConnStep(c) \/ ServeConn(c) \/ Peek(c) \/ PeekFail(c) \/ GraceEnds(c)
     \/ \E s \in Shutdowns : ShutdownStep(s) \/ ShutdownBegin(s) \/ CtxDone(s)
     \/ Finished
  /\ UNCHANGED scene

Spec == Init /\ [][Next]_vars
-----------------------------------------------------------------------------
(* Properties *)

\* What the server counts is what there is, on every return path of Serve,
\* ServeConn and workerFunc: s.open, which Shutdown waits on, the listeners and
\* connections being served; s.concurrency, the connections between admission and
\* release; and s.conns keeps no connection whose goroutine is done, whichever of
\* the goroutine and Shutdown removed it first.  And the worker pool
\* of one Serve call serves no more than Concurrency connections at a time, nor do
\* the calls of ServeConn.  (All of them together may: "Concurrency only works if
\* you either call Serve once, or only ServeConn multiple times".)
Accounted ==
  /\ TypeOK
  /\ open = Cardinality({l \in Listeners : lpc[l] \in {"accept", "busy"}})
             + Cardinality({c \in Conns : cpc[c] \in Counted})
  /\ concurrency = Cardinality({c \in Conns : cpc[c] \in
                      InServeConn \cup {"refuse", "ret", "hijacked", "close", "keep"}})
  /\ \A c \in Conns : cpc[c] = "end" => c \notin tracked
  /\ \A l \in Listeners : Cardinality({c \in TakenBy(l) : cpc[c] \in InServeConn}) <= Concurrency
  /\ Cardinality({c \in CalledConns : cpc[c] \in InServeConn}) <= Concurrency

\* When Shutdown has seen open = 0, no connection a listener accepted is
\* still to be served or in the middle of a request.
Drained ==
  \A s \in Shutdowns : shpc[s] = "drained" =>
    \A c \in AcceptedConns : cpc[c] \notin InServeConn \cup {"accepted", "counted", "handed"}

\* The counters are exact, so that a Shutdown that trusts them finds the server drained.
AccountedAndDrained == Accounted /\ Drained

\* Once stop is set a connection writes the response of the request in hand,
\* and of at most one more: the one begun after it read the old stop.
AtMostTwoLate == stop => \A c \in Conns : late[c] <= 2

\* Every goroutine of the server that can take a step takes one in the end;
\* clients need not send requests, and contexts need not end.  A read from a
\* connection returns, with an error at the latest when ReadTimeout is over.
Fairness ==
  /\ \A l \in Listeners :
       WF_vars(UNCHANGED scene /\ (CountConn(l) \/ OverPerIPLimit(l) \/ HandOver(l)
                                 \/ (l \in lnClosed /\ ServeReturn(l))))
  /\ \A c \in Conns : /\ WF_vars(UNCHANGED scene /\ ConnStep(c))
                      /\ WF_vars(UNCHANGED scene /\ c \in sock /\ PeekFail(c))
                      /\ WF_vars(UNCHANGED scene /\ GraceEnds(c))
  /\ \A s \in Shutdowns : WF_vars(UNCHANGED scene /\ ShutdownStep(s))

FairSpec == Spec /\ Fairness

\* A Shutdown that has begun returns.
ShutdownReturns ==
  \A s \in Shutdowns : shpc[s] = "listeners" ~> shpc[s] \in {"returned", "gaveUp"}
-----------------------------------------------------------------------------
(* What the documentation says and the code does not do *)

\* "Shutdown gracefully shuts down the server without interrupting any active
\* connections": no connection with a request in hand has been closed.
NotInterrupted ==
  \A c \in Conns : cpc[c] \in {"begin", "handler", "activeW", "write"} => c \notin sock

\* "connections being served will not continue to handle the next connection
\* after completing the current request": of stop, after which a connection
\* writes at most one more response.
OneLate == stop => \A c \in Conns : late[c] <= 1

\* "Now, wait for all existing connections to be closed": a Shutdown that
\* was not cut short returns when the accepted connections are closed.
ClosedOnReturn ==
  \A s \in Shutdowns : shpc[s] = "drained" =>
    \A c \in AcceptedConns : cpc[c] = "close" => c \in sock

\* "Shutdown works by first closing all open listeners": when it is about to
\* return, whatever it is to return, all the listeners it knows are closed.
ListenersClosed ==
  \A s \in Shutdowns : shpc[s] \in {"drained", "closeErr"} => ln \subseteq lnClosed
=============================================================================
