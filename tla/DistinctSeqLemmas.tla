-------------------------- MODULE DistinctSeqLemmas --------------------------
(* What the operations on a list without repetitions do to its elements. *)
EXTENDS DistinctSeq, SequenceTheorems, TLAPS

\* A queue with at most one element is empty after a pop.
LEMMA TailOfOne ==
  ASSUME NEW S, NEW s \in Seq(S), s # <<>>, Len(s) <= 1
  PROVE  Len(s) = 1 /\ Tail(s) = <<>>
<1>1. Len(s) \in Nat /\ Len(s) # 0
  BY EmptySeq
<1>2. Len(s) = 1
  BY <1>1
<1>3. Tail(s) \in Seq(S) /\ Len(Tail(s)) = 0
  BY <1>2, HeadTailProperties
<1> QED
  BY <1>2, <1>3, EmptySeq

\* Taking the last element off (a stack's pop).
LEMMA FrontElems ==
  ASSUME NEW S, NEW s \in Seq(S), s # <<>>, Distinct(s)
  PROVE  LET f == SubSeq(s, 1, Len(s) - 1)
         IN  /\ f \in Seq(S)
             /\ Distinct(f)
             /\ s[Len(s)] \in S
             /\ s[Len(s)] \notin Elems(f)
             /\ Elems(s) = Elems(f) \cup {s[Len(s)]}
<1> DEFINE f == SubSeq(s, 1, Len(s) - 1)
<1>1. Len(s) \in Nat /\ Len(s) > 0 /\ \A i \in 1..Len(s) : s[i] \in S
  OBVIOUS
<1>2. f \in Seq(S) /\ Len(f) = Len(s) - 1 /\ \A i \in 1..Len(s) - 1 : f[i] = s[i]
  <2>1. ASSUME NEW k \in 0..Len(s)
        PROVE  LET a == SubSeq(s, 1, k)
               IN  a \in Seq(S) /\ Len(a) = k /\ \A i \in 1..k : a[i] = s[i]
    BY <1>1
  <2>2. Len(s) - 1 \in 0..Len(s)
    BY <1>1
  <2> QED
    BY <2>1, <2>2
<1> HIDE DEF f
<1>3. Distinct(f)
  BY <1>1, <1>2 DEF Distinct
<1>4. s[Len(s)] \notin Elems(f)
  <2>1. ASSUME NEW i \in 1..Len(f) PROVE f[i] # s[Len(s)]
    BY <1>1, <1>2 DEF Distinct
  <2> QED
    BY <2>1 DEF Elems
<1>5. Elems(s) = Elems(f) \cup {s[Len(s)]}
  <2>1. ASSUME NEW i \in 1..Len(s) PROVE s[i] \in Elems(f) \cup {s[Len(s)]}
    <3>1. CASE i = Len(s)
      BY <3>1
    <3>2. CASE i # Len(s)
      <4>1. i \in 1..Len(s) - 1
        BY <1>1, <3>2
      <4>2. i \in 1..Len(f) /\ f[i] = s[i]
        BY <1>2, <4>1
      <4> QED
        BY <4>2 DEF Elems
    <3> QED
      BY <3>1, <3>2
  <2>2. ASSUME NEW i \in 1..Len(f) PROVE f[i] \in Elems(s)
    <3>1. i \in 1..Len(s) /\ f[i] = s[i]
      BY <1>1, <1>2
    <3> QED
      BY <3>1 DEF Elems
  <2>3. s[Len(s)] \in Elems(s)
    BY <1>1 DEF Elems
  <2> QED
    BY <2>1, <2>2, <2>3 DEF Elems
<1> QED
  BY <1>1, <1>2, <1>3, <1>4, <1>5 DEF f

\* Taking the first element off (a queue's pop).
LEMMA TailElems ==
  ASSUME NEW S, NEW s \in Seq(S), s # <<>>, Distinct(s)
  PROVE  /\ Tail(s) \in Seq(S)
         /\ Distinct(Tail(s))
         /\ Head(s) \in S
         /\ Head(s) \notin Elems(Tail(s))
         /\ Elems(s) = Elems(Tail(s)) \cup {Head(s)}
<1>1. Len(s) \in Nat /\ Len(s) > 0 /\ Head(s) = s[1] /\ \A i \in 1..Len(s) : s[i] \in S
  OBVIOUS
<1>2. /\ Tail(s) \in Seq(S) /\ Len(Tail(s)) = Len(s) - 1
      /\ \A i \in 1..Len(s) - 1 : Tail(s)[i] = s[i + 1]
  BY <1>1
<1>3. Distinct(Tail(s))
  BY <1>1, <1>2 DEF Distinct
<1>4. Head(s) \notin Elems(Tail(s))
  BY <1>1, <1>2 DEF Distinct, Elems
<1>5. Elems(s) = Elems(Tail(s)) \cup {Head(s)}
  <2>1. ASSUME NEW i \in 1..Len(s) PROVE s[i] \in Elems(Tail(s)) \cup {Head(s)}
    <3>1. CASE i = 1
      BY <1>1, <3>1
    <3>2. CASE i # 1
      <4>1. i - 1 \in 1..Len(s) - 1 /\ Tail(s)[i - 1] = s[i]
        BY <1>1, <1>2, <3>2
      <4> QED
        BY <4>1, <1>2 DEF Elems
    <3> QED
      BY <3>1, <3>2
  <2>2. ASSUME NEW i \in 1..Len(Tail(s)) PROVE Tail(s)[i] \in Elems(s)
    <3>1. i + 1 \in 1..Len(s) /\ Tail(s)[i] = s[i + 1]
      BY <1>1, <1>2
    <3> QED
      BY <3>1 DEF Elems
  <2>3. Head(s) \in Elems(s)
    BY <1>1 DEF Elems
  <2> QED
    BY <2>1, <2>2, <2>3 DEF Elems
<1> QED
  BY <1>1, <1>2, <1>3, <1>4, <1>5

\* Adding an element that is not there yet.
LEMMA AppendElems ==
  ASSUME NEW S, NEW s \in Seq(S), Distinct(s), NEW x \in S, x \notin Elems(s)
  PROVE  /\ Append(s, x) \in Seq(S)
         /\ Distinct(Append(s, x))
         /\ Elems(Append(s, x)) = Elems(s) \cup {x}
<1>1. /\ Append(s, x) \in Seq(S) /\ Len(Append(s, x)) = Len(s) + 1 /\ Len(s) \in Nat
      /\ \A i \in 1..Len(s) : Append(s, x)[i] = s[i]
      /\ Append(s, x)[Len(s) + 1] = x
  OBVIOUS
<1>2. Distinct(Append(s, x))
  BY <1>1 DEF Distinct, Elems
<1>3. Elems(Append(s, x)) = Elems(s) \cup {x}
  BY <1>1 DEF Elems
<1> QED
  BY <1>1, <1>2, <1>3

\* Cutting a sequence in two.
LEMMA SplitElems ==
  ASSUME NEW S, NEW s \in Seq(S), Distinct(s), NEW k \in 0..Len(s)
  PROVE  LET a == SubSeq(s, 1, k)
             b == SubSeq(s, k + 1, Len(s))
         IN  /\ a \in Seq(S) /\ b \in Seq(S)
             /\ Distinct(a) /\ Distinct(b)
             /\ Elems(a) \cap Elems(b) = {}
             /\ Elems(s) = Elems(a) \cup Elems(b)
<1> DEFINE a == SubSeq(s, 1, k)
           b == SubSeq(s, k + 1, Len(s))
<1>1. Len(s) \in Nat /\ k \in Nat /\ k <= Len(s) /\ \A i \in 1..Len(s) : s[i] \in S
  OBVIOUS
<1>2. a \in Seq(S) /\ Len(a) = k /\ \A i \in 1..k : a[i] = s[i]
  BY <1>1
<1>3. b \in Seq(S) /\ Len(b) = Len(s) - k /\ \A i \in 1..Len(s) - k : b[i] = s[k + i]
  BY <1>1
<1> HIDE DEF a, b
<1>4. Distinct(a) /\ Distinct(b)
  <2>1. Distinct(a)
    BY <1>1, <1>2 DEF Distinct
  <2>2. ASSUME NEW i \in 1..Len(b), NEW j \in 1..Len(b), b[i] = b[j]
        PROVE  i = j
    <3>1. k + i \in 1..Len(s) /\ k + j \in 1..Len(s) /\ s[k + i] = s[k + j]
      BY <1>1, <1>3, <2>2
    <3>2. k + i = k + j
      BY <3>1 DEF Distinct
    <3> QED
      BY <3>2, <1>1, <1>3
  <2> QED
    BY <2>1, <2>2 DEF Distinct
<1>5. Elems(a) \cap Elems(b) = {}
  BY <1>1, <1>2, <1>3 DEF Distinct, Elems
<1>6. Elems(s) = Elems(a) \cup Elems(b)
  <2>1. ASSUME NEW i \in 1..Len(s) PROVE s[i] \in Elems(a) \cup Elems(b)
    <3>1. CASE i <= k
      <4>1. i \in 1..k /\ a[i] = s[i]
        BY <1>1, <1>2, <3>1
      <4> QED
        BY <4>1, <1>2 DEF Elems
    <3>2. CASE ~(i <= k)
      <4>1. i - k \in 1..Len(s) - k /\ b[i - k] = s[i]
        BY <1>1, <1>3, <3>2
      <4> QED
        BY <4>1, <1>3 DEF Elems
    <3> QED
      BY <3>1, <3>2
  <2>2. ASSUME NEW i \in 1..Len(a) PROVE a[i] \in Elems(s)
    BY <1>1, <1>2 DEF Elems
  <2>3. ASSUME NEW i \in 1..Len(b) PROVE b[i] \in Elems(s)
    BY <1>1, <1>3 DEF Elems
  <2> QED
    BY <2>1, <2>2, <2>3 DEF Elems
<1> QED
  BY <1>2, <1>3, <1>4, <1>5, <1>6 DEF a, b
=============================================================================
