------------------------------- MODULE LBClient -------------------------------
(***************************************************************************)
(* LBClient (lbclient.go): callers pick the least loaded client, use it,   *)
(* and penalise it for three seconds if it fails; others add and remove    *)
(* clients.  get reads the load of one client at a time, with the lock     *)
(* held for reading, while requests begin and end; AddClient and           *)
(* RemoveClients are one step each.  A client is named by its lbClient.    *)
(* A definition D_Fault just before D is D with a plausible fault; no spec *)
(* uses it.                                                                *)
(***************************************************************************)
EXTENDS Naturals, Sequences, FiniteSets

CONSTANTS
  Callers, Clients, Nil,
  maxPenalty,
  MaxCalls      \* bound: calls made

VARIABLES
  cs,         \* cc.cs
  penalty,    \* of each client
  total,      \* likewise
  pending,    \* the requests it is serving
  timers,     \* the calls of decPenalty that AfterFunc has still to make
  calls,      \* calls made so far
  caller      \* where each caller is, and what get has found so far

vars == <<cs, penalty, total, pending, timers, calls, caller>>
loadVars == <<penalty, total, pending, timers>>

\* "get" holds cc.mu for reading; i is the index of the client it looks at next.
CallerType ==
  [at : {"out", "get", "do", "undo", "panic"}, i : Nat, min : Clients \cup {Nil},
   minN : Nat, minT : Nat]

TypeOK ==
  /\ cs \in Seq(Clients)
  /\ penalty \in [Clients -> Nat] /\ total \in [Clients -> Nat]
  /\ pending \in [Clients -> Nat] /\ timers \in [Clients -> Nat]
  /\ calls \in 0..MaxCalls
  /\ caller \in [Callers -> CallerType]

Out == [at |-> "out", i |-> 0, min |-> Nil, minN |-> 0, minT |-> 0]
None == [c \in Clients |-> 0]

Init ==
  /\ \E c \in Clients : cs = <<c>>
  /\ penalty = None /\ total = None /\ pending = None /\ timers = None
  /\ calls = 0
  /\ caller = [g \in Callers |-> Out]

Load(c) == pending[c] + penalty[c]

\* get takes the read lock and looks at cs[0], which is not there if all clients have been
\* removed: it panics and keeps the lock.
Get(g) ==
  /\ caller[g].at = "out" /\ calls < MaxCalls
  /\ calls' = calls + 1
  /\ caller' = [caller EXCEPT ![g] =
       IF cs = <<>> THEN [Out EXCEPT !.at = "panic"]
       ELSE [at |-> "get", i |-> 2, min |-> cs[1], minN |-> Load(cs[1]), minT |-> total[cs[1]]]]
  /\ UNCHANGED <<cs, loadVars>>

Less(n, t, minN, minT) == n < minN \/ (n = minN /\ t < minT)

Look(g) ==
  LET me == caller[g]
      c == cs[me.i]
  IN /\ me.at = "get" /\ me.i <= Len(cs)
     /\ caller' = [caller EXCEPT ![g] =
          IF Less(Load(c), total[c], me.minN, me.minT)
          THEN [me EXCEPT !.i = @ + 1, !.min = c, !.minN = Load(c), !.minT = total[c]]
          ELSE [me EXCEPT !.i = @ + 1]]
     /\ UNCHANGED <<cs, loadVars, calls>>

\* The lock is given back and the request begins.
Begin(g) ==
  /\ caller[g].at = "get" /\ caller[g].i > Len(cs)
  /\ pending' = [pending EXCEPT ![caller[g].min] = @ + 1]
  /\ caller' = [caller EXCEPT ![g] = [Out EXCEPT !.at = "do", !.min = caller[g].min]]
  /\ UNCHANGED <<cs, penalty, total, timers, calls>>

End(g) == pending' = [pending EXCEPT ![caller[g].min] = @ - 1]

Healthy(g) ==
  /\ caller[g].at = "do"
  /\ End(g)
  /\ total' = [total EXCEPT ![caller[g].min] = @ + 1]
  /\ caller' = [caller EXCEPT ![g] = Out]
  /\ UNCHANGED <<cs, penalty, timers, calls>>

\* incPenalty: one more, unless that is too much.
Unhealthy(g) ==
  LET c == caller[g].min
  IN /\ caller[g].at = "do"
     /\ End(g)
     /\ penalty' = [penalty EXCEPT ![c] = @ + 1]
     /\ IF penalty[c] + 1 > maxPenalty
        THEN caller' = [caller EXCEPT ![g].at = "undo"] /\ UNCHANGED timers
        ELSE /\ caller' = [caller EXCEPT ![g] = Out]
             /\ timers' = [timers EXCEPT ![c] = @ + 1]
     /\ UNCHANGED <<cs, total, calls>>

\* decPenalty by incPenalty itself; the request counts as if it had been healthy.
Undo_Kept(g) ==
  /\ caller[g].at = "undo"
  /\ total' = [total EXCEPT ![caller[g].min] = @ + 1]
  /\ caller' = [caller EXCEPT ![g] = Out]
  /\ UNCHANGED <<cs, penalty, pending, timers, calls>>
Undo(g) ==
  LET c == caller[g].min
  IN /\ caller[g].at = "undo"
     /\ penalty' = [penalty EXCEPT ![c] = @ - 1]
     /\ total' = [total EXCEPT ![c] = @ + 1]
     /\ caller' = [caller EXCEPT ![g] = Out]
     /\ UNCHANGED <<cs, pending, timers, calls>>

\* decPenalty, when penaltyDuration is over, also of a client that was removed.
Forgive(c) ==
  /\ timers[c] > 0
  /\ timers' = [timers EXCEPT ![c] = @ - 1]
  /\ penalty' = [penalty EXCEPT ![c] = @ - 1]
  /\ UNCHANGED <<cs, total, pending, calls, caller>>

Unlocked == \A g \in Callers : caller[g].at \notin {"get", "panic"}

AddClient(c) ==
  /\ Unlocked /\ \A i \in DOMAIN cs : cs[i] # c
  /\ cs' = Append(cs, c)
  /\ UNCHANGED <<loadVars, calls, caller>>

RemoveClients(C) ==
  /\ Unlocked
  /\ cs' = SelectSeq(cs, LAMBDA c : c \notin C)
  /\ UNCHANGED <<loadVars, calls, caller>>

\* The calls that are to be made have been made, or can no longer be made.
Finished ==
  /\ \A g \in Callers : caller[g].at = "panic" \/ (caller[g].at = "out" /\ calls = MaxCalls)
  /\ UNCHANGED vars

Next ==
  \/ Finished
  \/ \E g \in Callers :
       Get(g) \/ Look(g) \/ Begin(g) \/ Healthy(g) \/ Unhealthy(g) \/ Undo(g)
  \/ \E c \in Clients : Forgive(c) \/ AddClient(c)
  \/ \E C \in SUBSET Clients : RemoveClients(C)

Spec == Init /\ [][Next]_vars
----------------------------------------------------------------------------
(* What is to be checked *)

\* A client's penalty is the number of timers that will take it back, and one more for each
\* call that is about to take its own back: it returns to zero and never below, and a client
\* is never penalised by more than maxPenalty for long, whatever is added and removed
\* meanwhile.
PenaltyExact ==
  /\ TypeOK
  /\ \A c \in Clients :
       /\ timers[c] <= maxPenalty
       /\ penalty[c] = timers[c]
            + Cardinality({g \in Callers : caller[g].at = "undo" /\ caller[g].min = c})
----------------------------------------------------------------------------
(* What the documentation says and the code does not do *)

\* "It is safe calling LBClient methods from concurrently running goroutines.": a call of Do
\* that comes after RemoveClients has removed the last client and before AddClient has added
\* another does not panic.
NoPanic == \A g \in Callers : caller[g].at # "panic"
=============================================================================
