-------------------------- MODULE MCHostClientPool --------------------------
(* A small instance of HostClientPool for TLC. *)
EXTENDS HostClientPool, TLC

CONSTANTS g1, g2, g3  \* callers

Scene(limits, strategy, wait, sweepers, n1, n2, n3) ==
  [MaxConns |-> limits, ConnPoolStrategy |-> strategy, WaitFreeConn |-> wait,
   sweepers |-> sweepers, rounds |-> g1 :> n1 @@ g2 :> n2 @@ g3 :> n3]

Several ==
  {Scene({1}, "LIFO", "timeout", {}, 2, 2, 0), Scene({1}, "FIFO", "timeout", {}, 1, 1, 1),
   Scene({1, 2}, "LIFO", "none", Sweepers, 2, 2, 0),
   Scene({1, 2}, "FIFO", "forever", {Closer}, 1, 1, 1),
   Scene({2}, "FIFO", "forever", Sweepers, 2, 1, 0)}
=============================================================================
