----------------------------- MODULE DistinctSeq -----------------------------
(* Sequences used as ordered sets: wp.ready, the cleaner's scratch list. *)
EXTENDS Integers, Sequences

Elems(s) == {s[i] : i \in 1..Len(s)}

Distinct(s) == \A i, j \in 1..Len(s) : s[i] = s[j] => i = j
=============================================================================
