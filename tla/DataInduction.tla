---------------------------- MODULE DataInduction ----------------------------
(***************************************************************************)
(* Induction over the natural numbers and recursion up to one of them, in  *)
(* a form that speaks of sets and functions only.  The library's theorems  *)
(* take the predicate as an operator, which first-order provers cannot     *)
(* instantiate; here it is the set of the numbers that have it.  All of it *)
(* follows from the finite sets 1..n being ordered well by inclusion.      *)
(***************************************************************************)
EXTENDS FiniteSetTheorems, SequenceTheorems, TLAPS

\* A set of natural numbers has a least one.
LEMMA LeastNatural ==
    ASSUME NEW B \in SUBSET Nat, B # {}
    PROVE  \E n \in B : \A m \in B : n <= m
<1> DEFINE T == {1..n : n \in B}
<1>1. \A n \in Nat : 1..n \in FiniteSubsetsOf(Nat)
  BY FS_Interval DEF FiniteSubsetsOf
<1>2. T \subseteq FiniteSubsetsOf(Nat) /\ T # {}
  BY <1>1
<1>3. PICK x \in T : \A y \in T : <<y, x>> \notin StrictSubsetOrdering(Nat)
  <2> HIDE DEF T
  <2> QED BY <1>2, WFMin, FS_StrictSubsetOrderingWellFounded, Zenon
<1>4. PICK n \in B : x = 1..n
  BY <1>3
<1>5. ASSUME NEW m \in B, m < n
      PROVE  FALSE
  <2>1. 1..m \subseteq 1..n /\ n \in 1..n /\ n \notin 1..m
    BY <1>5
  <2>2. <<1..m, 1..n>> \in StrictSubsetOrdering(Nat)
    BY <2>1 DEF StrictSubsetOrdering
  <2> QED BY <1>3, <1>4, <2>2
<1> QED BY <1>5

\* What holds of 0, and of each i up to n if it holds of i - 1, holds up to n.
LEMMA InductionUpTo ==
    ASSUME NEW n \in Nat, NEW A, 0 \in A,
           \A i \in 1..n : i - 1 \in A => i \in A
    PROVE  0..n \subseteq A
<1> DEFINE B == (0..n) \ A
<1> SUFFICES ASSUME B # {} PROVE FALSE
  OBVIOUS
<1>1. PICK k \in B : \A m \in B : k <= m
  <2>1. B \in SUBSET Nat
    OBVIOUS
  <2> HIDE DEF B
  <2> QED BY <2>1, LeastNatural
<1>2. k \in 1..n /\ k - 1 \in 0..n /\ ~(k <= k - 1)
  BY <1>1
<1>3. k - 1 \in A
  BY <1>1, <1>2
<1> QED BY <1>1, <1>2, <1>3

\* f begins with base and goes on by the steps 1..n.
Iterates(f, S, n, base, step) ==
    /\ f \in [0..n -> S]
    /\ f[0] = base
    /\ \A i \in 1..n : f[i] = step[i][f[i - 1]]

\* A function can be defined on 0..n by its first value and its steps.
LEMMA RecursionUpTo ==
    ASSUME NEW S, NEW n \in Nat, NEW base \in S, NEW step \in [1..n -> [S -> S]]
    PROVE  \E f : Iterates(f, S, n, base, step)
<1> DEFINE A == {k \in 0..n : \E f : Iterates(f, S, k, base, step)}
<1>1. 0 \in A
  <2>1. Iterates([i \in 0..0 |-> base], S, 0, base, step)
    BY DEF Iterates
  <2>2. 0 \in 0..n
    OBVIOUS
  <2> QED BY <2>1, <2>2
<1>2. ASSUME NEW i \in 1..n, i - 1 \in A
      PROVE  i \in A
  <2>1. PICK f : Iterates(f, S, i - 1, base, step)
    BY <1>2
  <2> DEFINE g == [j \in 0..i |-> IF j = i THEN step[i][f[i - 1]] ELSE f[j]]
  <2>2. step[i][f[i - 1]] \in S
    BY <2>1 DEF Iterates
  <2>3. g \in [0..i -> S]
    BY <2>1, <2>2 DEF Iterates
  <2>4. g[0] = base
    BY <2>1 DEF Iterates
  <2>5. ASSUME NEW j \in 1..i
        PROVE  g[j] = step[j][g[j - 1]]
    <3>1. g[j - 1] = f[j - 1]
      OBVIOUS
    <3>2. CASE j = i
      BY <3>1, <3>2
    <3>3. CASE j # i
      BY <2>1, <3>1, <3>3 DEF Iterates
    <3> QED BY <3>2, <3>3
  <2>6. Iterates(g, S, i, base, step)
    <3> HIDE DEF g
    <3> QED BY <2>3, <2>4, <2>5 DEF Iterates
  <2>7. i \in 0..n
    OBVIOUS
  <2> QED BY <2>6, <2>7
<1>3. n \in A
  <2>1. \A i \in 1..n : i - 1 \in A => i \in A
    BY <1>2
  <2>2. n \in 0..n
    OBVIOUS
  <2> HIDE DEF A
  <2>3. 0..n \subseteq A
    BY <1>1, <2>1, InductionUpTo
  <2> QED BY <2>2, <2>3
<1> QED BY <1>3

\* Whatever satisfies the equations of such a function on 0..n is one; the values
\* need not be known to stay in S.
LEMMA IteratesTyped ==
    ASSUME NEW S, NEW n \in Nat, NEW base \in S, NEW step \in [1..n -> [S -> S]], NEW f,
           f = [i \in 0..n |-> f[i]], f[0] = base,
           \A i \in 1..n : f[i - 1] \in S => f[i] = step[i][f[i - 1]]
    PROVE  Iterates(f, S, n, base, step)
<1> DEFINE A == {i \in 0..n : f[i] \in S}
<1>1. 0 \in A
  OBVIOUS
<1>2. \A i \in 1..n : i - 1 \in A => i \in A
  <2> SUFFICES ASSUME NEW i \in 1..n, f[i - 1] \in S PROVE i \in 0..n /\ f[i] \in S
    BY DEF A
  <2>1. f[i] = step[i][f[i - 1]]
    OBVIOUS
  <2>2. step[i] \in [S -> S]
    OBVIOUS
  <2>3. f[i] \in S
    BY <2>1, <2>2
  <2> QED BY <2>3
<1>3. 0..n \subseteq A
  <2> HIDE DEF A
  <2> QED BY <1>1, <1>2, InductionUpTo
<1>4. \A i \in 0..n : f[i] \in S
  BY <1>3
<1>5. f \in [0..n -> S]
  BY <1>4, Zenon
<1>6. \A i \in 1..n : i - 1 \in 0..n
  OBVIOUS
<1> QED BY <1>4, <1>5, <1>6 DEF Iterates

-----------------------------------------------------------------------------
(* A sequence built by a walk over 1..n that appends the record of each i of *)
(* the set keep: SelectSeq and a map in one, as a recursive function.        *)

\* f[i] is what the walk has appended once it has passed i.
Collects(f, T, n, rec, keep) ==
    /\ f \in [0..n -> Seq(T)]
    /\ f[0] = <<>>
    /\ \A i \in 1..n : f[i] = IF i \in keep THEN Append(f[i - 1], rec[i]) ELSE f[i - 1]

\* s consists of the records of those members of I that are in keep.
Selected(s, T, I, rec, keep) ==
    /\ s \in Seq(T)
    /\ \A k \in 1..Len(s) : \E j \in I : j \in keep /\ s[k] = rec[j]
    /\ \A j \in I : j \in keep => \E k \in 1..Len(s) : s[k] = rec[j]

\* There is such a walk.
LEMMA CollectsExists ==
    ASSUME NEW T, NEW n \in Nat, NEW rec \in [1..n -> T], NEW keep
    PROVE  \E f : Collects(f, T, n, rec, keep)
<1> DEFINE S == Seq(T)
           step == [i \in 1..n |-> [s \in S |-> IF i \in keep THEN Append(s, rec[i]) ELSE s]]
           base == <<>>
<1>1. base \in S /\ step \in [1..n -> [S -> S]]
  OBVIOUS
<1>2. \A i \in 1..n, s \in S : step[i][s] = IF i \in keep THEN Append(s, rec[i]) ELSE s
  OBVIOUS
<1>3. PICK f : Iterates(f, S, n, base, step)
  <2> HIDE DEF S, step, base
  <2> QED BY <1>1, RecursionUpTo, Zenon
<1>4. \A i \in 1..n : f[i - 1] \in S
  BY <1>3 DEF Iterates
<1>5. \A i \in 1..n : f[i] = IF i \in keep THEN Append(f[i - 1], rec[i]) ELSE f[i - 1]
  <2> HIDE DEF S, step
  <2> QED BY <1>2, <1>3, <1>4 DEF Iterates
<1> QED BY <1>3, <1>5 DEF Iterates, Collects

\* Whatever satisfies its equations on 0..n is one.
LEMMA CollectsTyped ==
    ASSUME NEW T, NEW n \in Nat, NEW rec \in [1..n -> T], NEW keep, NEW f,
           f = [i \in 0..n |-> f[i]], f[0] = <<>>,
           \A i \in 1..n : f[i] = IF i \in keep THEN Append(f[i - 1], rec[i]) ELSE f[i - 1]
    PROVE  Collects(f, T, n, rec, keep)
<1> DEFINE A == {i \in 0..n : f[i] \in Seq(T)}
<1>1. 0 \in A
  OBVIOUS
<1>2. ASSUME NEW i \in 1..n, i - 1 \in A
      PROVE  i \in A
  BY <1>2
<1>3. \A i \in 1..n : i - 1 \in A => i \in A
  BY <1>2
<1>4. 0..n \subseteq A
  <2> HIDE DEF A
  <2> QED BY <1>1, <1>3, InductionUpTo
<1>5. f \in [0..n -> Seq(T)]
  BY <1>4, Zenon
<1> QED BY <1>5 DEF Collects

\* One more element of the walk is one more member of I.
LEMMA SelectedNext ==
    ASSUME NEW T, NEW i \in Nat \ {0}, NEW rec, NEW keep, NEW s,
           Selected(s, T, 1..(i - 1), rec, keep), rec[i] \in T
    PROVE  Selected(IF i \in keep THEN Append(s, rec[i]) ELSE s, T, 1..i, rec, keep)
<1>1. \A j \in 1..i : j \in 1..(i - 1) \/ j = i
  OBVIOUS
<1>2. \A j \in 1..(i - 1) : j \in 1..i
  OBVIOUS
<1>3. CASE i \notin keep
  BY <1>1, <1>2, <1>3 DEF Selected
<1>4. CASE i \in keep
  <2> DEFINE t == Append(s, rec[i])
  <2>1. /\ t \in Seq(T) /\ Len(t) = Len(s) + 1 /\ Len(s) \in Nat
        /\ \A k \in 1..Len(s) : t[k] = s[k]
        /\ t[Len(s) + 1] = rec[i]
    BY AppendProperties DEF Selected
  <2> HIDE DEF t
  <2>2. \A k \in 1..Len(t) : k \in 1..Len(s) \/ k = Len(s) + 1
    BY <2>1
  <2>3. \A k \in 1..Len(s) : k \in 1..Len(t)
    BY <2>1
  <2>4. Len(s) + 1 \in 1..Len(t)
    BY <2>1
  <2>5. ASSUME NEW k \in 1..Len(t)
        PROVE  \E j \in 1..i : j \in keep /\ t[k] = rec[j]
    <3>1. CASE k \in 1..Len(s)
      <4>1. PICK j \in 1..(i - 1) : j \in keep /\ s[k] = rec[j]
        BY <3>1 DEF Selected
      <4> QED BY <1>2, <2>1, <3>1, <4>1
    <3>2. CASE k = Len(s) + 1
      BY <1>4, <2>1, <3>2
    <3> QED BY <2>2, <3>1, <3>2
  <2>6. ASSUME NEW j \in 1..i, j \in keep
        PROVE  \E k \in 1..Len(t) : t[k] = rec[j]
    BY <1>1, <2>1, <2>3, <2>4, <2>6 DEF Selected
  <2>7. Selected(t, T, 1..i, rec, keep)
    BY <2>1, <2>5, <2>6 DEF Selected
  <2> QED BY <1>4, <2>7 DEF t
<1> QED BY <1>3, <1>4

\* At its end the walk has collected the records of keep and no others.
LEMMA CollectsSelects ==
    ASSUME NEW T, NEW n \in Nat, NEW rec \in [1..n -> T], NEW keep, NEW f,
           Collects(f, T, n, rec, keep)
    PROVE  Selected(f[n], T, 1..n, rec, keep)
<1> DEFINE A == {i \in 0..n : Selected(f[i], T, 1..i, rec, keep)}
<1>1. 0 \in A
  BY DEF Collects, Selected
<1>2. ASSUME NEW i \in 1..n, i - 1 \in A
      PROVE  i \in A
  BY <1>2, SelectedNext DEF Collects
<1>3. n \in 0..n /\ \A i \in 1..n : i - 1 \in A => i \in A
  BY <1>2
<1>4. 0..n \subseteq A
  <2> HIDE DEF A
  <2> QED BY <1>1, <1>3, InductionUpTo
<1> QED BY <1>3, <1>4

=============================================================================
