---------------------------- MODULE CleanerHeap ------------------------------
(***************************************************************************)
(* The 4-ary heap of DurationCleaner (client_cleaner.go): siftUp and       *)
(* siftDown, on the whens of the items, with the operations that call      *)
(* them: doAdd, runOne with a rerun, and doDel0.  An array is a function   *)
(* on 0..n-1.                                                              *)
(* A definition D_Fault just before D is D with a plausible fault; no spec *)
(* uses it.                                                                *)
(***************************************************************************)
EXTENDS Integers, FiniteSets, FiniteSetsExt

CONSTANTS
  MaxItems,  \* bound: the length of the heap
  MaxWhen    \* bound: the last when

Whens == 1..MaxWhen
Size(a) == Cardinality(DOMAIN a)

VARIABLES
  items,  \* the whens of cc.items
  bag     \* how many items of each when were added and not deleted
vars == <<items, bag>>

Parent(i) == (i - 1) \div 4

\* siftUp moves parents with a later when down, then stores the item.
RECURSIVE SiftUpFrom(_, _, _)
SiftUpFrom(a, i, when) ==
  IF i = 0 \/ when >= a[Parent(i)] THEN [a EXCEPT ![i] = when]
  ELSE SiftUpFrom([a EXCEPT ![i] = a[Parent(i)]], Parent(i), when)
SiftUp(a, i) == SiftUpFrom(a, i, a[i])

LeastChild_ThreeOnly(a, i) ==
  LET c == {j \in DOMAIN a : j \in 4 * i + 1 .. 4 * i + 3}
  IN  Min({j \in c : \A k \in c : a[j] <= a[k]})
\* The child with the least when, the first one of several: siftDown compares the
\* children in two pairs.
LeastChild(a, i) ==
  LET n == Size(a)
      c == 4 * i + 1
      c3 == c + 2
      left == IF c + 1 < n /\ a[c + 1] < a[c] THEN c + 1 ELSE c
      right == IF c3 + 1 < n /\ a[c3 + 1] < a[c3] THEN c3 + 1 ELSE c3
  IN  IF c3 < n /\ a[right] < a[left] THEN right ELSE left

\* siftDown moves least children with an earlier when up, then stores the item.
RECURSIVE SiftDownFrom(_, _, _)
SiftDownFrom(a, i, when) ==
  IF 4 * i + 1 >= Size(a) \/ a[LeastChild(a, i)] >= when THEN [a EXCEPT ![i] = when]
  ELSE SiftDownFrom([a EXCEPT ![i] = a[LeastChild(a, i)]], LeastChild(a, i), when)
SiftDown(a, i) == SiftDownFrom(a, i, a[i])

Init ==
  /\ items = [i \in {} |-> 0]
  /\ bag = [w \in Whens |-> 0]

\* Register and doAdd: the item is appended and sifted up.
DoAdd(w) ==
  LET n == Size(items) IN
  /\ n < MaxItems
  /\ items' = SiftUp([i \in 0..n |-> IF i = n THEN w ELSE items[i]], n)
  /\ bag' = [bag EXCEPT ![w] = @ + 1]

\* runOne of an item that stays: its when moves on and it is sifted down.
Rerun(w) ==
  /\ Size(items) > 0
  /\ w > items[0]
  /\ items' = SiftDown([items EXCEPT ![0] = w], 0)
  /\ bag' = [bag EXCEPT ![items[0]] = @ - 1, ![w] = @ + 1]

\* The array after doDel0: the last item takes the place of the first.
DoDel0(last) ==
  LET a == [i \in 0..last - 1 |-> IF i = 0 THEN items[last] ELSE items[i]]
  IN  IF last > 0 THEN SiftDown(a, 0) ELSE a

\* runOne of an item that stops.
Delete ==
  /\ Size(items) > 0
  /\ items' = DoDel0(Size(items) - 1)
  /\ bag' = [bag EXCEPT ![items[0]] = @ - 1]

Next == Delete \/ \E w \in Whens : DoAdd(w) \/ Rerun(w)

Spec == Init /\ [][Next]_vars
-----------------------------------------------------------------------------
(* Properties *)

\* Every item is due no earlier than its parent, so items[0], which checkItems looks
\* at alone, is the first that is due; and the sifts lose and duplicate no item: the
\* array holds the items added and not deleted.
HeapOrder ==
  /\ \A i \in DOMAIN items \ {0} : items[(i - 1) \div 4] <= items[i]
  /\ DOMAIN items = 0 .. Size(items) - 1
  /\ bag = [w \in Whens |-> Cardinality({i \in DOMAIN items : items[i] = w})]
=============================================================================
