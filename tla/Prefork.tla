-------------------------------- MODULE Prefork --------------------------------
(***************************************************************************)
(* The master process of prefork (prefork/prefork.go): it starts a child   *)
(* for every processor, restarts the ones that exit until there were too   *)
(* many, and kills the rest when it returns.  A goroutine for each child   *)
(* waits for its end and sends its pid.  The system may give the pid of a  *)
(* child that was waited for to a new one.                                 *)
(* A definition D_Fault just before D is D with a plausible fault; no spec *)
(* uses it.                                                                *)
(***************************************************************************)
EXTENDS Integers, Sequences, FiniteSets, SequencesExt

CONSTANTS
  Children,           \* bound: the processes that can be started
  Pids,
  Nil,
  goMaxProcs,
  RecoverThreshold

VARIABLES
  mpc,                \* the master: "starting", "loop", "returned"
  pid,                \* the pid of each child, Nil before it is started
  state,              \* each child: "new", "running", "exited", "waited", "sent" (its pid)
  childProcs,         \* the map: the child of each pid, or Nil
  sigCh,              \* the pids in the channel
  exitedProcs,
  stale               \* a pid was given to a new child before the master had read it

preforkVars == <<mpc, pid, state, childProcs, sigCh, exitedProcs, stale>>

Started == {c \in Children : state[c] # "new"}
Alive == {c \in Children : state[c] = "running"}

PreforkTypeOK ==
  /\ mpc \in {"starting", "loop", "returned"}
  /\ pid \in [Children -> Pids \cup {Nil}]
  /\ state \in [Children -> {"new", "running", "exited", "waited", "sent"}]
  /\ childProcs \in [Pids -> Children \cup {Nil}]
  /\ Len(sigCh) <= goMaxProcs
  /\ exitedProcs \in 0..RecoverThreshold + 1
  /\ stale \in BOOLEAN

PreforkInit ==
  /\ mpc = "starting"
  /\ pid = [c \in Children |-> Nil]
  /\ state = [c \in Children |-> "new"]
  /\ childProcs = [p \in Pids |-> Nil]
  /\ sigCh = <<>>
  /\ exitedProcs = 0
  /\ stale = FALSE

\* The return, with the deferred calls: every child in the map is killed.
KillAll(procs) == [c \in Children |->
  IF (\E p \in Pids : procs[p] = c) /\ state[c] = "running" THEN "exited" ELSE state[c]]

\* doCommand, which may fail; the kernel chooses a pid that no process has.  The goroutine
\* that waits for the child is started with it.
InUse == {pid[c] : c \in {d \in Children : state[d] \in {"running", "exited"}}}
DoCommand(procs) ==
  \E p \in Pids \ InUse : LET c == CHOOSE d \in Children : state[d] = "new" IN
    /\ pid' = [pid EXCEPT ![c] = p]
    /\ state' = [state EXCEPT ![c] = "running"]
    /\ childProcs' = [procs EXCEPT ![p] = c]
    /\ stale' = (stale \/ p \in Range(sigCh') \/ \E d \in Children : state[d] = "waited" /\ pid[d] = p)

Start ==
  /\ mpc = "starting"
  /\ Cardinality(Started) < goMaxProcs
  /\ UNCHANGED <<sigCh, exitedProcs>>
  /\ \/ DoCommand(childProcs) /\ UNCHANGED mpc
     \/ /\ mpc' = "returned"
        /\ state' = KillAll(childProcs)
        /\ UNCHANGED <<pid, childProcs, stale>>

AllStarted ==
  /\ mpc = "starting"
  /\ Cardinality(Started) = goMaxProcs
  /\ mpc' = "loop"
  /\ UNCHANGED <<pid, state, childProcs, sigCh, exitedProcs, stale>>

\* A turn of the loop over sigCh.
Recover_NoKill ==
  /\ mpc = "loop"
  /\ sigCh # <<>>
  /\ sigCh' = Tail(sigCh)
  /\ exitedProcs' = exitedProcs + 1
  /\ \/ /\ exitedProcs' <= RecoverThreshold
        /\ DoCommand([childProcs EXCEPT ![Head(sigCh)] = Nil])
        /\ UNCHANGED mpc
     \/ /\ mpc' = "returned"
        /\ UNCHANGED <<pid, state, childProcs, stale>>
Recover ==
  LET procs == [childProcs EXCEPT ![Head(sigCh)] = Nil] IN
  /\ mpc = "loop"
  /\ sigCh # <<>>
  /\ sigCh' = Tail(sigCh)
  /\ exitedProcs' = exitedProcs + 1
  /\ \/ /\ exitedProcs' <= RecoverThreshold
        /\ DoCommand(procs)
        /\ UNCHANGED mpc
     \/ /\ mpc' = "returned"              \* ErrOverRecovery, or doCommand fails
        /\ childProcs' = procs
        /\ state' = KillAll(procs)
        /\ UNCHANGED <<pid, stale>>

\* A child ends; its goroutine waits for it, which frees the pid, and sends the pid.
Exit(c) ==
  /\ state[c] = "running"
  /\ state' = [state EXCEPT ![c] = "exited"]
  /\ UNCHANGED <<mpc, pid, childProcs, sigCh, exitedProcs, stale>>

Wait(c) ==
  /\ mpc # "returned"
  /\ state[c] = "exited"
  /\ state' = [state EXCEPT ![c] = "waited"]
  /\ UNCHANGED <<mpc, pid, childProcs, sigCh, exitedProcs, stale>>

Send(c) ==
  /\ mpc # "returned"
  /\ state[c] = "waited"
  /\ Len(sigCh) < goMaxProcs
  /\ state' = [state EXCEPT ![c] = "sent"]
  /\ sigCh' = Append(sigCh, pid[c])
  /\ UNCHANGED <<mpc, pid, childProcs, exitedProcs, stale>>

PreforkNext == Start \/ AllStarted \/ Recover \/ \E c \in Children : Exit(c) \/ Wait(c) \/ Send(c)

PreforkSpec == PreforkInit /\ [][PreforkNext]_preforkVars
-----------------------------------------------------------------------------
(* Properties *)

\* PreforkTypeOK, and: the master knows every child that runs, so that none is left when it
\* returns, and restarts each that exits until there were too many: as many run, or have
\* exited without the master knowing, as there are processors.  Unless a new child gets a pid
\* that still waits in sigCh.
ChildrenKnown ==
  /\ PreforkTypeOK
  /\ ~stale =>
     /\ \A c \in Alive : mpc # "returned" /\ childProcs[pid[c]] = c
     /\ mpc = "loop" => Cardinality({p \in Pids : childProcs[p] # Nil}) = goMaxProcs
-----------------------------------------------------------------------------
(* What the documentation says and the code does not do *)

\* "then it will return and terminate the server" (RecoverThreshold): a child whose pid was in
\* sigCh when it was started is dropped from the map, and goes on.
Terminated == mpc = "returned" => Alive = {}
===============================================================================
