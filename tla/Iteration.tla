----------------------------- MODULE Iteration -----------------------------
(***************************************************************************)
(* Functions defined by recursion on Nat, as this project writes the       *)
(* recursions through fields and through values: n is how many levels of   *)
(* nesting are looked at.  A module with such a function                   *)
(*    It[n \in Nat] == IF n = 0 THEN Base ELSE Step(It[n - 1], n)          *)
(* instantiates this one and cites Unfold.  Natural induction is stated    *)
(* with the set of the numbers that have the property.                     *)
(***************************************************************************)
EXTENDS WellFoundedInduction, TLAPS

CONSTANTS Base, Step(_, _)

Iter[n \in Nat] == IF n = 0 THEN Base ELSE Step(Iter[n - 1], n)

-----------------------------------------------------------------------------
(* Every set of naturals that is not empty has a least element. *)
LEMMA LeastNat ==
  ASSUME NEW T \in SUBSET Nat, T # {}
  PROVE  \E n \in T : \A m \in T : n <= m
<1> DEFINE R == OpToRel(<, Nat)
<1>1. \A m, n \in Nat : m < n => <<m, n>> \in R
  BY DEF OpToRel
<1>2. IsWellFoundedOn(R, Nat)
  BY NatLessThanWellFounded
<1> HIDE DEF R
<1>3. PICK x \in T : \A y \in T : ~(<<y, x>> \in R)
  BY <1>2, WFMin
<1>4. \A y \in T : ~(y < x)
  BY <1>1, <1>3
<1> QED
  BY <1>3, <1>4

(* A set that has 0 and with every number the next has all of them. *)
THEOREM SetInduction ==
  \A S : 0 \in S /\ (\A n \in Nat : n \in S => n + 1 \in S) => Nat \subseteq S
<1> SUFFICES ASSUME NEW S, 0 \in S, \A n \in Nat : n \in S => n + 1 \in S, Nat \ S # {}
             PROVE  FALSE
  OBVIOUS
<1>1. PICK n \in Nat \ S : \A m \in Nat \ S : n <= m
  BY LeastNat
<1>2. n # 0 /\ n - 1 \in Nat /\ ~(n <= n - 1)
  BY <1>1
<1>3. n - 1 \in S
  BY <1>1, <1>2
<1>4. (n - 1) + 1 \in S
  BY <1>2, <1>3
<1> QED
  BY <1>1, <1>2, <1>4

-----------------------------------------------------------------------------
(* What the function is up to a level. *)
UpTo(g, n) == g = [k \in 0..n |-> IF k = 0 THEN Base ELSE Step(g[k - 1], k)]

(* The function exists up to every level. *)
LEMMA UpToExists ==
  ASSUME NEW n \in Nat
  PROVE  \E g : UpTo(g, n)
<1> DEFINE S == {m \in Nat : \E g : UpTo(g, m)}
<1>1. 0 \in S
  <2>1. UpTo([k \in 0..0 |-> Base], 0)
    BY DEF UpTo
  <2> QED
    BY <2>1
<1>2. ASSUME NEW m \in Nat, m \in S  PROVE m + 1 \in S
  <2>1. PICK g : UpTo(g, m)
    BY <1>2
  <2> DEFINE h == [k \in 0..m + 1 |-> IF k = m + 1 THEN Step(g[m], m + 1) ELSE g[k]]
  <2>2. ASSUME NEW k \in 0..m + 1
        PROVE  h[k] = IF k = 0 THEN Base ELSE Step(h[k - 1], k)
    <3>1. CASE k = m + 1
      BY <3>1, k # 0 /\ m \in 0..m + 1 /\ k - 1 = m
    <3>2. CASE k # m + 1
      <4>1. k \in 0..m /\ h[k] = g[k]
        BY <3>2
      <4>2. g[k] = IF k = 0 THEN Base ELSE Step(g[k - 1], k)
        BY <2>1, <4>1 DEF UpTo
      <4>3. k # 0 => k - 1 \in 0..m + 1 /\ h[k - 1] = g[k - 1]
        BY <4>1
      <4> QED
        BY <4>1, <4>2, <4>3
    <3> QED
      BY <3>1, <3>2
  <2> HIDE DEF h
  <2>3. h = [k \in 0..m + 1 |-> h[k]]
    BY DEF h
  <2>4. UpTo(h, m + 1)
    BY <2>2, <2>3 DEF UpTo
  <2> QED
    BY <2>4
<1> HIDE DEF S
<1>3. Nat \subseteq S
  BY <1>1, <1>2, SetInduction
<1> QED
  BY <1>3 DEF S

(* Two such functions agree where both are. *)
LEMMA UpToAgree ==
  ASSUME NEW k \in Nat
  PROVE  \A n, m \in Nat : \A g, h :
           k <= n /\ k <= m /\ UpTo(g, n) /\ UpTo(h, m) => g[k] = h[k]
<1> DEFINE Agree(j) == \A n, m \in Nat : \A g, h :
             j <= n /\ j <= m /\ UpTo(g, n) /\ UpTo(h, m) => g[j] = h[j]
           S == {j \in Nat : Agree(j)}
<1>1. \A g : \A n \in Nat : \A j \in 0..n : UpTo(g, n) => g[j] = IF j = 0 THEN Base ELSE Step(g[j - 1], j)
  BY DEF UpTo
<1>2. 0 \in S
  BY <1>1
<1>3. ASSUME NEW j \in Nat, j \in S  PROVE j + 1 \in S
  <2> SUFFICES ASSUME NEW n \in Nat, NEW m \in Nat, NEW g, NEW h,
                      j + 1 <= n, j + 1 <= m, UpTo(g, n), UpTo(h, m)
               PROVE  g[j + 1] = h[j + 1]
    OBVIOUS
  <2>1. g[j] = h[j]
    BY <1>3
  <2>2. g[j + 1] = Step(g[j], j + 1) /\ h[j + 1] = Step(h[j], j + 1)
    BY <1>1, j + 1 \in 0..n /\ j + 1 \in 0..m /\ j + 1 # 0 /\ (j + 1) - 1 = j
  <2> QED
    BY <2>1, <2>2
<1> HIDE DEF S
<1>4. Nat \subseteq S
  BY <1>2, <1>3, SetInduction
<1> QED
  BY <1>4 DEF S

(* The recursive definition defines what it says. *)
THEOREM Unfold ==
  /\ Iter[0] = Base
  /\ \A n \in Nat : Iter[n + 1] = Step(Iter[n], n + 1)
<1> DEFINE Body(g) == [n \in Nat |-> IF n = 0 THEN Base ELSE Step(g[n - 1], n)]
           Part(n) == CHOOSE g : UpTo(g, n)
           F == [n \in Nat |-> Part(n)[n]]
<1>1. \A n \in Nat : UpTo(Part(n), n)
  BY UpToExists
<1>2. ASSUME NEW n \in Nat  PROVE F[n] = IF n = 0 THEN Base ELSE Step(F[n - 1], n)
  <2>1. Part(n)[n] = IF n = 0 THEN Base ELSE Step(Part(n)[n - 1], n)
    BY <1>1, n \in 0..n DEF UpTo
  <2>2. n # 0 => n - 1 \in Nat /\ n - 1 <= n
    OBVIOUS
  <2>3. n # 0 => Part(n)[n - 1] = Part(n - 1)[n - 1]
    BY <1>1, <2>2, UpToAgree
  <2> QED
    BY <2>1, <2>2, <2>3
<1>3. F = [n \in Nat |-> F[n]]
  OBVIOUS
<1>4. Iter = CHOOSE g : g = Body(g)
  BY DEF Iter
<1> HIDE DEF F
<1>5. Iter = Body(Iter)
  <2>1. F = Body(F)
    BY <1>2, <1>3
  <2> QED
    BY <1>4, <2>1
<1>6. Iter[0] = Base
  BY <1>5
<1>7. \A n \in Nat : Iter[n + 1] = Step(Iter[n], n + 1)
  BY <1>5, \A n \in Nat : n + 1 \in Nat /\ n + 1 # 0 /\ (n + 1) - 1 = n
<1> QED
  BY <1>6, <1>7
=============================================================================
