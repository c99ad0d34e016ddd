----------------------------- MODULE MCPerIPConn -----------------------------
(* PerIPConn for TLC. *)
EXTENDS PerIPConn, TLC

Symmetry == Permutations(Conns)
=============================================================================
