-------------------------- MODULE RecursionLemmas --------------------------
(***************************************************************************)
(* Facts about recursive functions over an interval of natural numbers,    *)
(* stated with sets and functions as parameters: the least-number          *)
(* principle, and the existence of the function an iteration defines.      *)
(***************************************************************************)
EXTENDS Naturals, WellFoundedInduction, TLAPS

\* A set of natural numbers that is not empty has a least element.
LEMMA LeastNatural ==
  ASSUME NEW T \in SUBSET Nat, T # {}
  PROVE  \E m \in T : \A k \in T : m <= k
<1> DEFINE R == OpToRel(<, Nat)
<1>1. \A x, y \in Nat : x < y => <<x, y>> \in R
  BY DEF OpToRel
<1>2. IsWellFoundedOn(R, Nat)
  BY NatLessThanWellFounded
<1> HIDE DEF R
<1>3. PICK m \in T : \A k \in T : <<k, m>> \notin R
  BY <1>2, WFMin
<1>4. ASSUME NEW k \in T PROVE m <= k
  <2>1. m \in Nat /\ k \in Nat
    OBVIOUS
  <2>2. ~(k < m)
    BY <1>1, <1>3, <2>1, Zenon
  <2> QED BY <2>1, <2>2
<1> QED BY <1>4

\* Induction over 0..bound, for a property given as the set of its instances.
LEMMA IntervalInduction ==
  ASSUME NEW bound \in Nat, NEW T, 0 \in T,
         \A n \in 1..bound : n - 1 \in T => n \in T
  PROVE  0..bound \subseteq T
<1> SUFFICES ASSUME (0..bound) \ T # {} PROVE FALSE
  OBVIOUS
<1>1. PICK m \in (0..bound) \ T : \A k \in (0..bound) \ T : m <= k
  <2> DEFINE U == (0..bound) \ T
  <2>1. U \in SUBSET Nat /\ U # {}
    OBVIOUS
  <2> HIDE DEF U
  <2>2. \E m \in U : \A k \in U : m <= k
    BY <2>1, LeastNatural
  <2> QED BY <2>2 DEF U
<1>2. m # 0 /\ m \in 1..bound
  BY <1>1
<1>3. m - 1 \in T
  <2>1. m - 1 \in 0..bound /\ ~(m <= m - 1)
    BY <1>2
  <2> QED BY <1>1, <2>1
<1> QED BY <1>1, <1>2, <1>3

\* What starts at base and takes one step of a function at a time exists.
Iterates(f, bound, base, step) ==
  f[0] = base /\ \A n \in 1..bound : f[n] = step[f[n - 1]]

LEMMA IterationExists ==
  ASSUME NEW D, NEW base \in D, NEW step \in [D -> D], NEW bound \in Nat
  PROVE  \E f \in [0..bound -> D] : Iterates(f, bound, base, step)
<1> DEFINE T == {n \in 0..bound : \E f \in [0..n -> D] : Iterates(f, n, base, step)}
<1>1. 0 \in T
  <2> DEFINE f == [n \in 0..0 |-> base]
  <2>1. f \in [0..0 -> D] /\ f[0] = base
    OBVIOUS
  <2>2. Iterates(f, 0, base, step)
    BY <2>1 DEF Iterates
  <2> QED BY <2>1, <2>2
<1>2. ASSUME NEW n \in 1..bound, n - 1 \in T
      PROVE  n \in T
  <2>1. PICK f \in [0..(n-1) -> D] : Iterates(f, n - 1, base, step)
    BY <1>2
  <2> DEFINE g == [i \in 0..n |-> IF i = n THEN step[f[n - 1]] ELSE f[i]]
  <2>2. g \in [0..n -> D]
    OBVIOUS
  <2>3. g[0] = base
    BY <2>1 DEF Iterates
  <2>4. ASSUME NEW i \in 1..n PROVE g[i] = step[g[i - 1]]
    <3>1. CASE i = n
      BY <3>1
    <3>2. CASE i # n
      BY <2>1, <3>2 DEF Iterates
    <3> QED BY <3>1, <3>2
  <2>5. Iterates(g, n, base, step)
    BY <2>3, <2>4 DEF Iterates
  <2> QED BY <2>2, <2>5
<1> HIDE DEF T
<1>3. bound \in T
  BY <1>1, <1>2, IntervalInduction
<1> QED BY <1>3 DEF T
=============================================================================
