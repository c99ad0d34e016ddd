-------------------------- MODULE MCPipelineClient --------------------------
(* A small instance of PipelineClient for TLC. *)
EXTENDS PipelineClient, TLC

CONSTANTS g1, g2  \* callers

Scene(n1, n2, dl, idle, n) ==
  [calls |-> g1 :> n1 @@ g2 :> n2, deadline |-> dl, idle |-> idle, fails |-> n]

Several ==
  {Scene(2, 1, {}, FALSE, 1), Scene(1, 1, {g1}, FALSE, 1), Scene(2, 1, {g1}, FALSE, 0),
   Scene(1, 1, {}, TRUE, 0)}
JustDo == {Scene(2, 0, {}, TRUE, 0)}
=============================================================================
