----------------------------- MODULE SumsProofs -----------------------------
(***************************************************************************)
(* What the sums of Sums are worth when numbers are appended to a sequence  *)
(* and taken from its front.  Everything rests on the defining equation of  *)
(* the recursive function, which holds because the function exists          *)
(* (RecursionExists, for any recursion on 0..n over the naturals); that     *)
(* takes an induction on its domain, and induction is had here from the     *)
(* least element of a nonempty set of numbers (NatInductionOnSet).          *)
(***************************************************************************)
EXTENDS Sums, Integers, FiniteSetTheorems, WellFoundedInduction, TLAPS

(***************************************************************************)
(* Induction on the natural numbers, stated with sets.                     *)
(***************************************************************************)
Less == {p \in Nat \X Nat : p[1] < p[2]}

\* No infinite descent: it would give one in the finite sets 1..n under strict
\* inclusion.
LEMMA LessWellFounded == IsWellFoundedOn(Less, Nat)
<1> SUFFICES ASSUME NEW f \in [Nat -> Nat], \A n \in Nat : <<f[n + 1], f[n]>> \in Less
             PROVE  FALSE
    BY DEF IsWellFoundedOn
<1> DEFINE g == [n \in Nat |-> 1..f[n]]
<1>1. \A n \in Nat : f[n] \in Nat /\ f[n + 1] \in Nat /\ f[n + 1] < f[n]
    BY DEF Less
<1>2. \A n \in Nat : g[n] = 1..f[n] /\ g[n + 1] = 1..f[n + 1]
    OBVIOUS
<1>3. g \in [Nat -> FiniteSubsetsOf(Nat)]
  <2>1. \A n \in Nat : 1..f[n] \in FiniteSubsetsOf(Nat)
    <3> TAKE n \in Nat
    <3>1. IsFiniteSet(1..f[n])
        BY <1>1, FS_Interval
    <3>2. 1..f[n] \subseteq Nat
        BY <1>1
    <3> QED
        BY <3>1, <3>2 DEF FiniteSubsetsOf
  <2> QED
      BY <2>1
<1>4. \A n \in Nat : <<g[n + 1], g[n]>> \in StrictSubsetOrdering(Nat)
  <2> TAKE n \in Nat
  <2> DEFINE A == 1..f[n + 1]
             B == 1..f[n]
  <2>1. A \subseteq B
      BY <1>1
  <2>2. f[n] \in B /\ f[n] \notin A
      BY <1>1
  <2>3. A \in SUBSET Nat /\ B \in SUBSET Nat
      BY <1>1
  <2>4. g[n + 1] = A /\ g[n] = B
      BY <1>2
  <2> HIDE DEF A, B, g
  <2>5. A # B
      BY <2>2
  <2>6. <<A, B>> \in StrictSubsetOrdering(Nat)
      BY <2>1, <2>3, <2>5 DEF StrictSubsetOrdering
  <2> QED
      BY <2>4, <2>6
<1>5. IsWellFoundedOn(StrictSubsetOrdering(Nat), FiniteSubsetsOf(Nat))
    BY FS_StrictSubsetOrderingWellFounded
<1> QED
    BY <1>3, <1>4, <1>5 DEF IsWellFoundedOn

\* A set that has 0 and, with each number, the next one has them all.
LEMMA NatInductionOnSet ==
    ASSUME NEW S, 0 \in S, \A n \in Nat : n \in S => n + 1 \in S
    PROVE  Nat \subseteq S
<1> SUFFICES ASSUME Nat \ S # {} PROVE FALSE
    OBVIOUS
<1>1. PICK x \in Nat \ S : \A y \in Nat \ S : ~ (<<y, x>> \in Less)
    BY LessWellFounded, WFMin
<1>2. x # 0 /\ x - 1 \in Nat /\ (x - 1) + 1 = x
    OBVIOUS
<1>3. x - 1 \notin S
    BY <1>2
<1>4. <<x - 1, x>> \in Less
    BY <1>2 DEF Less
<1> QED
    BY <1>1, <1>2, <1>3, <1>4

\* What a recursion on 0..n describes exists: base, and a step that G gives.
LEMMA RecursionExists ==
    ASSUME NEW n \in Nat, NEW base \in Nat, NEW G \in [1..n -> [Nat -> Nat]]
    PROVE  \E f \in [0..n -> Nat] : f[0] = base /\ \A k \in 1..n : f[k] = G[k][f[k - 1]]
<1> DEFINE Describes(f, m) == \A k \in 0..m : f[k] = IF k = 0 THEN base ELSE G[k][f[k - 1]]
           Exists(m) == \E f \in [0..m -> Nat] : Describes(f, m)
           S == {m \in Nat : m <= n => Exists(m)}
<1>1. 0 \in S
  <2>1. [k \in 0..0 |-> base] \in [0..0 -> Nat] /\ Describes([k \in 0..0 |-> base], 0)
      OBVIOUS
  <2> QED
      BY <2>1
<1> HIDE DEF Describes, Exists
<1>2. ASSUME NEW m \in Nat, m \in S PROVE m + 1 \in S
  <2> SUFFICES ASSUME m + 1 <= n PROVE Exists(m + 1)
      OBVIOUS
  <2>1. m <= n
      OBVIOUS
  <2>2. PICK f \in [0..m -> Nat] : Describes(f, m)
      BY <1>2, <2>1 DEF Exists
  <2> DEFINE g == [k \in 0..(m + 1) |-> IF k = m + 1 THEN G[m + 1][f[m]] ELSE f[k]]
  <2>3. f[m] \in Nat /\ m + 1 \in 1..n
      OBVIOUS
  <2>4. G[m + 1][f[m]] \in Nat
      BY <2>3
  <2>5. g \in [0..(m + 1) -> Nat]
    <3>1. \A k \in 0..(m + 1) : (IF k = m + 1 THEN G[m + 1][f[m]] ELSE f[k]) \in Nat
      <4> TAKE k \in 0..(m + 1)
      <4>1. k = m + 1 \/ k \in 0..m
          OBVIOUS
      <4> QED
          BY <2>4, <4>1
    <3> QED
        BY <3>1
  <2>6. Describes(g, m + 1)
    <3> SUFFICES ASSUME NEW k \in 0..(m + 1)
                 PROVE  g[k] = IF k = 0 THEN base ELSE G[k][g[k - 1]]
        BY DEF Describes
    <3>1. CASE k = m + 1
      <4>1. k # 0 /\ k - 1 = m /\ m \in 0..(m + 1) /\ m # m + 1
          BY <3>1
      <4>2. g[k] = G[m + 1][f[m]] /\ g[k - 1] = f[m]
          BY <3>1, <4>1
      <4> QED
          BY <3>1, <4>1, <4>2
    <3>2. CASE k # m + 1
      <4>1. k \in 0..m /\ (k # 0 => k - 1 \in 0..m)
          BY <3>2
      <4>2. g[k] = f[k] /\ (k # 0 => g[k - 1] = f[k - 1])
          BY <4>1
      <4>3. f[k] = IF k = 0 THEN base ELSE G[k][f[k - 1]]
          BY <2>2, <4>1 DEF Describes
      <4> QED
          BY <4>2, <4>3
    <3> QED
        BY <3>1, <3>2
  <2> QED
      BY <2>5, <2>6 DEF Exists
<1>3. Nat \subseteq S
  <2> HIDE DEF S
  <2> QED
      BY <1>1, <1>2, NatInductionOnSet
<1>4. PICK f \in [0..n -> Nat] : Describes(f, n)
  <2>1. n \in S /\ n <= n
      BY <1>3
  <2> QED
      BY <2>1 DEF Exists
<1>5. f[0] = base /\ \A k \in 1..n : f[k] = G[k][f[k - 1]]
  <2>1. \A k \in 1..n : k \in 0..n /\ k # 0
      OBVIOUS
  <2>2. 0 \in 0..n
      OBVIOUS
  <2> QED
      BY <1>4, <2>1, <2>2, Zenon DEF Describes
<1> QED
    BY <1>5

(***************************************************************************)
(* The partial sums of a sequence of numbers.                              *)
(***************************************************************************)
\* PartialSums(s) is the function its recursive definition describes.
LEMMA PartialSumsDef ==
    ASSUME NEW s \in Seq(Nat)
    PROVE  PartialSums(s) =
               [k \in 0..Len(s) |-> IF k = 0 THEN 0 ELSE PartialSums(s)[k - 1] + s[k]]
<1> DEFINE n == Len(s)
           G == [k \in 1..n |-> [x \in Nat |-> x + s[k]]]
           IsSum(f) == f = [k \in 0..n |-> IF k = 0 THEN 0 ELSE f[k - 1] + s[k]]
<1>1. n \in Nat /\ \A k \in 1..n : s[k] \in Nat
    OBVIOUS
<1>2. G \in [1..n -> [Nat -> Nat]]
    BY <1>1
<1> HIDE DEF G, n
<1>3. PICK f \in [0..n -> Nat] : f[0] = 0 /\ \A k \in 1..n : f[k] = G[k][f[k - 1]]
  <2>1. 0 \in Nat
      OBVIOUS
  <2> QED
      BY <1>1, <1>2, <2>1, RecursionExists
<1>4. \A k \in 0..n : f[k] = IF k = 0 THEN 0 ELSE f[k - 1] + s[k]
  <2> TAKE k \in 0..n
  <2>1. k # 0 => k \in 1..n /\ f[k - 1] \in Nat
      BY <1>1
  <2>2. k # 0 => G[k][f[k - 1]] = f[k - 1] + s[k]
      BY <2>1 DEF G
  <2> QED
      BY <1>3, <2>1, <2>2
<1>5. IsSum(f)
    BY <1>4
<1>6. PartialSums(s) = CHOOSE g : IsSum(g)
    BY DEF PartialSums, n
<1>7. IsSum(PartialSums(s))
  <2> HIDE DEF IsSum
  <2> QED
      BY <1>5, <1>6
<1> QED
    BY <1>7 DEF n

\* Its values, as equations.
LEMMA PartialSumsSteps ==
    ASSUME NEW s \in Seq(Nat)
    PROVE  /\ PartialSums(s)[0] = 0
           /\ \A k \in 1..Len(s) : PartialSums(s)[k] = PartialSums(s)[k - 1] + s[k]
<1>1. Len(s) \in Nat
    OBVIOUS
<1> DEFINE P == PartialSums(s)
<1>2. P = [k \in 0..Len(s) |-> IF k = 0 THEN 0 ELSE P[k - 1] + s[k]]
    BY PartialSumsDef
<1> HIDE DEF P
<1>3. \A k \in 0..Len(s) : P[k] = IF k = 0 THEN 0 ELSE P[k - 1] + s[k]
    BY <1>2
<1>4. P[0] = 0
    BY <1>1, <1>3
<1>5. \A k \in 1..Len(s) : P[k] = P[k - 1] + s[k]
    BY <1>1, <1>3
<1> QED
    BY <1>4, <1>5 DEF P

\* They are numbers and they grow.
LEMMA PartialSumsNat ==
    ASSUME NEW s \in Seq(Nat)
    PROVE  \A k \in 0..Len(s) : PartialSums(s)[k] \in Nat
<1> DEFINE P == PartialSums(s)
           S == {n \in Nat : n <= Len(s) => P[n] \in Nat}
<1>1. P[0] = 0 /\ \A k \in 1..Len(s) : P[k] = P[k - 1] + s[k]
    BY PartialSumsSteps
<1>2. Len(s) \in Nat /\ \A k \in 1..Len(s) : s[k] \in Nat
    OBVIOUS
<1> HIDE DEF P
<1>3. 0 \in S
    BY <1>1
<1>4. ASSUME NEW n \in Nat, n \in S PROVE n + 1 \in S
  <2> SUFFICES ASSUME n + 1 <= Len(s) PROVE P[n + 1] \in Nat
      OBVIOUS
  <2>1. P[n] \in Nat /\ n + 1 \in 1..Len(s) /\ (n + 1) - 1 = n
      BY <1>4, <1>2
  <2>2. P[n + 1] = P[n] + s[n + 1]
      BY <2>1, <1>1
  <2> QED
      BY <2>1, <2>2, <1>2
<1>5. Nat \subseteq S
  <2> HIDE DEF S
  <2> QED
      BY <1>3, <1>4, NatInductionOnSet
<1> QED
    BY <1>2, <1>5 DEF P

\* Sequences that agree on their first n entries have the same sums up to n.
LEMMA PartialSumsAgree ==
    ASSUME NEW s \in Seq(Nat), NEW t \in Seq(Nat), NEW n \in Nat,
           n <= Len(s), n <= Len(t), \A i \in 1..n : s[i] = t[i]
    PROVE  \A k \in 0..n : PartialSums(s)[k] = PartialSums(t)[k]
<1> DEFINE P == PartialSums(s)
           Q == PartialSums(t)
           S == {k \in Nat : k <= n => P[k] = Q[k]}
<1>1. P[0] = 0 /\ \A k \in 1..Len(s) : P[k] = P[k - 1] + s[k]
    BY PartialSumsSteps
<1>2. Q[0] = 0 /\ \A k \in 1..Len(t) : Q[k] = Q[k - 1] + t[k]
    BY PartialSumsSteps
<1> HIDE DEF P, Q
<1>3. 0 \in S
    BY <1>1, <1>2
<1>4. ASSUME NEW k \in Nat, k \in S PROVE k + 1 \in S
  <2> SUFFICES ASSUME k + 1 <= n PROVE P[k + 1] = Q[k + 1]
      OBVIOUS
  <2>1. k + 1 \in 1..Len(s) /\ k + 1 \in 1..Len(t) /\ k + 1 \in 1..n /\ (k + 1) - 1 = k
      OBVIOUS
  <2>2. P[k] = Q[k]
      BY <1>4
  <2>3. P[k + 1] = P[k] + s[k + 1] /\ Q[k + 1] = Q[k] + t[k + 1]
      BY <2>1, <1>1, <1>2
  <2>4. s[k + 1] = t[k + 1]
      BY <2>1
  <2> QED
      BY <2>2, <2>3, <2>4
<1>5. Nat \subseteq S
  <2> HIDE DEF S
  <2> QED
      BY <1>3, <1>4, NatInductionOnSet
<1> QED
    BY <1>5 DEF P, Q

\* Taking the first n entries away takes their sum away from every later sum.
LEMMA PartialSumsSuffix ==
    ASSUME NEW s \in Seq(Nat), NEW t \in Seq(Nat), NEW n \in 0..Len(s),
           Len(t) = Len(s) - n, \A i \in 1..Len(t) : t[i] = s[n + i]
    PROVE  \A k \in 0..Len(t) : PartialSums(s)[n + k] = PartialSums(s)[n] + PartialSums(t)[k]
<1> DEFINE P == PartialSums(s)
           Q == PartialSums(t)
           S == {k \in Nat : k <= Len(t) => P[n + k] = P[n] + Q[k]}
<1>1. \A k \in 1..Len(s) : P[k] = P[k - 1] + s[k]
    BY PartialSumsSteps
<1>2. Q[0] = 0 /\ \A k \in 1..Len(t) : Q[k] = Q[k - 1] + t[k]
    BY PartialSumsSteps
<1>3. \A k \in 0..Len(s) : P[k] \in Nat
    BY PartialSumsNat
<1>4. \A k \in 0..Len(t) : Q[k] \in Nat
    BY PartialSumsNat
<1>5. Len(s) \in Nat /\ Len(t) \in Nat /\ \A i \in 1..Len(s) : s[i] \in Nat
    OBVIOUS
<1> HIDE DEF P, Q
<1>6. 0 \in S
    BY <1>2, <1>3, <1>5
<1>7. ASSUME NEW k \in Nat, k \in S PROVE k + 1 \in S
  <2> SUFFICES ASSUME k + 1 <= Len(t) PROVE P[n + (k + 1)] = P[n] + Q[k + 1]
      OBVIOUS
  <2>1. /\ n + (k + 1) \in 1..Len(s) /\ (n + (k + 1)) - 1 = n + k
        /\ k + 1 \in 1..Len(t) /\ (k + 1) - 1 = k
        /\ n + k \in 0..Len(s) /\ k \in 0..Len(t)
      BY <1>5
  <2>2. P[n + k] = P[n] + Q[k]
      BY <1>7, <2>1
  <2>3. P[n + (k + 1)] = P[n + k] + s[n + (k + 1)]
      BY <2>1, <1>1
  <2>4. Q[k + 1] = Q[k] + t[k + 1]
      BY <2>1, <1>2
  <2>5. t[k + 1] = s[n + (k + 1)] /\ t[k + 1] \in Nat
      BY <2>1, <1>5
  <2>6. P[n] \in Nat /\ Q[k] \in Nat
      BY <2>1, <1>3, <1>4
  <2>7. P[n + (k + 1)] = (P[n] + Q[k]) + t[k + 1]
      BY <2>2, <2>3, <2>5
  <2>8. (P[n] + Q[k]) + t[k + 1] = P[n] + (Q[k] + t[k + 1])
    <3>1. \A a, b, c \in Nat : (a + b) + c = a + (b + c)
        OBVIOUS
    <3> QED
        BY <3>1, <2>5, <2>6, Zenon
  <2> QED
      BY <2>4, <2>7, <2>8, Zenon
<1>8. Nat \subseteq S
  <2> HIDE DEF S
  <2> QED
      BY <1>6, <1>7, NatInductionOnSet
<1> QED
    BY <1>8, <1>5 DEF P, Q

\* The sum of a whole sequence, and what one more number does to it.
LEMMA TotalSteps ==
    ASSUME NEW s \in Seq(Nat)
    PROVE  /\ Total(s) \in Nat
           /\ Len(s) = 0 => Total(s) = 0
           /\ Len(s) > 0 => Total(s) >= s[Len(s)]
<1>1. Len(s) \in Nat
    OBVIOUS
<1>2. \A k \in 0..Len(s) : PartialSums(s)[k] \in Nat
    BY PartialSumsNat
<1>3. /\ PartialSums(s)[0] = 0
      /\ \A k \in 1..Len(s) : PartialSums(s)[k] = PartialSums(s)[k - 1] + s[k]
    BY PartialSumsSteps
<1>4. Len(s) > 0 => /\ Len(s) \in 1..Len(s) /\ Len(s) - 1 \in 0..Len(s)
                    /\ s[Len(s)] \in Nat
    BY <1>1
<1>5. Len(s) \in 0..Len(s)
    BY <1>1
<1> HIDE DEF PartialSums
<1> QED
    BY <1>1, <1>2, <1>3, <1>4, <1>5 DEF Total

LEMMA TotalOneMore ==
    ASSUME NEW s \in Seq(Nat), NEW t \in Seq(Nat), Len(t) = Len(s) + 1,
           \A i \in 1..Len(s) : t[i] = s[i]
    PROVE  Total(t) = Total(s) + t[Len(s) + 1]
<1>1. Len(s) \in Nat /\ Len(s) + 1 \in 1..Len(t) /\ (Len(s) + 1) - 1 = Len(s)
    OBVIOUS
<1>2. PartialSums(t)[Len(s) + 1] = PartialSums(t)[Len(s)] + t[Len(s) + 1]
    BY <1>1, PartialSumsSteps
<1>3. \A k \in 0..Len(s) : PartialSums(s)[k] = PartialSums(t)[k]
  <2>1. Len(s) <= Len(s) /\ Len(s) <= Len(t)
      BY <1>1
  <2>2. \A i \in 1..Len(s) : s[i] = t[i]
      BY Zenon
  <2> QED
      BY <1>1, <2>1, <2>2, PartialSumsAgree, Zenon
<1>4. Len(s) \in 0..Len(s)
    BY <1>1
<1> QED
    BY <1>2, <1>3, <1>4 DEF Total

\* A prefix has no larger sum.
LEMMA TotalPrefix ==
    ASSUME NEW s \in Seq(Nat), NEW t \in Seq(Nat), Len(t) <= Len(s),
           \A i \in 1..Len(t) : t[i] = s[i]
    PROVE  Total(t) <= Total(s)
<1> DEFINE n == Len(t)
           u == [i \in 1..(Len(s) - n) |-> s[n + i]]
<1>1. n \in Nat /\ Len(s) \in Nat /\ n \in 0..Len(s) /\ Len(s) - n \in Nat
    OBVIOUS
<1>2. \A i \in 1..(Len(s) - n) : s[n + i] \in Nat
    BY <1>1
<1>3. u \in Seq(Nat) /\ Len(u) = Len(s) - n /\ \A i \in 1..Len(u) : u[i] = s[n + i]
    BY <1>1, <1>2
<1> HIDE DEF n, u
<1>4. PartialSums(s)[n + (Len(s) - n)] = PartialSums(s)[n] + PartialSums(u)[Len(s) - n]
  <2>1. \A k \in 0..Len(u) : PartialSums(s)[n + k] = PartialSums(s)[n] + PartialSums(u)[k]
      BY <1>1, <1>3, PartialSumsSuffix
  <2>2. Len(s) - n \in 0..Len(u)
      BY <1>1, <1>3
  <2> QED
      BY <2>1, <2>2
<1>5. PartialSums(u)[Len(s) - n] \in Nat /\ PartialSums(s)[n] \in Nat
    BY <1>1, <1>3, PartialSumsNat
<1>6. n + (Len(s) - n) = Len(s)
    BY <1>1
<1>7. PartialSums(t)[n] = PartialSums(s)[n]
    BY <1>1, PartialSumsAgree DEF n
<1> QED
    BY <1>4, <1>5, <1>6, <1>7 DEF Total, n
=============================================================================
