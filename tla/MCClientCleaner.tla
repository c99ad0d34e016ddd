--------------------------- MODULE MCClientCleaner ---------------------------
(***************************************************************************)
(* ClientCleaner and CleanerHeap for TLC.  The two are checked side by     *)
(* side: part tells which of them moves in a behaviour.                    *)
(***************************************************************************)
EXTENDS ClientCleaner, TLC

CONSTANTS u1, u2, h1, h2  \* users, HostClients
CONSTANTS MaxItems, MaxWhen
VARIABLES items, bag, part

Heap == INSTANCE CleanerHeap

Scene(c, w, here) == [client |-> c, waits |-> w, here |-> here]

\* Two users of two HostClients, of one that they wait for, and of one behind a Client.
Several == {Scene(FALSE, FALSE, {u1, u2, h1, h2}), Scene(FALSE, TRUE, {u1, u2, h1}),
            Scene(TRUE, FALSE, {u1, u2, h1})}
WithClient == {Scene(TRUE, FALSE, {u1, u2, h1})}

PartsInit == Init /\ Heap!Init /\ part \in {"cleaner", "heap"}

PartsNext ==
  \/ part = "cleaner" /\ Next /\ UNCHANGED <<items, bag, part>>
  \/ part = "heap" /\ Heap!Next /\ UNCHANGED <<vars, part>>

PartsSpec ==
  /\ PartsInit /\ [][PartsNext]_<<vars, items, bag, part>>
  /\ part = "cleaner" => Fairness

\* The heap of the cleaner is ordered, so that items[0], which checkItems looks at
\* alone, is the first that is due; siftUp, siftDown and doDel0 lose and duplicate no
\* item.
HeapOrder == Heap!HeapOrder
=============================================================================
