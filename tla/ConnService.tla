----------------------------- MODULE ConnService -----------------------------
(***************************************************************************)
(* What Server.Serve promises about a connection, without saying how the   *)
(* worker pool keeps the promise: an accepted connection is either turned  *)
(* away because of the concurrency limit or handed to exactly one worker,  *)
(* which serves it once and then closes it or gives it up as hijacked.     *)
(* Never more than MaxWorkersCount connections are being served.           *)
(***************************************************************************)
EXTENDS Naturals, FiniteSets

CONSTANTS
  Conns,            \* the connections the listener may return
  MaxWorkersCount   \* Server.Concurrency

VARIABLE stat       \* what has become of each connection

ConnStats == {"new", "accepted", "serving", "closed", "hijacked", "rejected"}

Serving == {c \in Conns : stat[c] = "serving"}

Init == stat = [c \in Conns |-> "new"]

Move(c, from, to) ==
  /\ stat[c] = from
  /\ stat' = [stat EXCEPT ![c] = to]

Accept(c) == Move(c, "new", "accepted")

Reject(c) == Move(c, "accepted", "rejected")

Begin(c) ==
  /\ Cardinality(Serving) < MaxWorkersCount
  /\ Move(c, "accepted", "serving")

End(c) == \E how \in {"closed", "hijacked"} : Move(c, "serving", how)

Next == \E c \in Conns : Accept(c) \/ Reject(c) \/ Begin(c) \/ End(c)

\* An accepted connection does not wait for ever, and a handler ends.
Fairness ==
  \A c \in Conns : WF_stat(Reject(c) \/ Begin(c)) /\ WF_stat(End(c))

Spec == Init /\ [][Next]_stat /\ Fairness
=============================================================================
