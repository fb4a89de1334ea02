---------------------------- MODULE CountingLemmas ----------------------------
(***************************************************************************)
(* Facts about natural numbers and sequences that the proofs of several    *)
(* components need: least and greatest numbers, induction over a set of    *)
(* numbers, remainders, and what appending does.                           *)
(***************************************************************************)
EXTENDS Integers, Sequences, Functions, FiniteSetTheorems, SequenceTheorems,
        TLAPS

(* A nonempty set of natural numbers has a least element: the intervals    *)
(* below its elements are finite, and have a smallest one.                 *)
LEMMA LeastNumber ==
  ASSUME NEW S \in SUBSET Nat, S # {}
  PROVE  \E m \in S : \A k \in S : m <= k
<1> DEFINE R == StrictSubsetOrdering(Nat)
           T == {0..(k - 1) : k \in S}
<1>1. IsWellFoundedOn(R, FiniteSubsetsOf(Nat))
  BY FS_StrictSubsetOrderingWellFounded
<1>2. T \subseteq FiniteSubsetsOf(Nat) /\ T # {}
  <2>1. \A k \in S : 0..(k - 1) \in SUBSET Nat /\ IsFiniteSet(0..(k - 1))
    BY FS_Interval
  <2>2. QED
    BY <2>1 DEF FiniteSubsetsOf
<1>3. PICK x \in T : \A y \in T : ~ (<<y, x>> \in R)
  <2> HIDE DEF R, T
  <2> QED BY <1>1, <1>2, WFMin
<1>4. PICK m \in S : x = 0..(m - 1)
  OBVIOUS
<1>5. ASSUME NEW k \in S, k < m PROVE FALSE
  <2>1. k \in x /\ k \notin 0..(k - 1)
    BY <1>4, <1>5
  <2>2. 0..(k - 1) \in T /\ 0..(k - 1) \subseteq x /\ 0..(k - 1) # x
    BY <1>4, <1>5, <2>1
  <2>3. <<0..(k - 1), x>> \in R
    BY <2>2, <1>4 DEF StrictSubsetOrdering
  <2>4. QED BY <2>2, <2>3, <1>3
<1>6. QED
  BY <1>5

(* A nonempty set of natural numbers with a bound has a greatest element.  *)
LEMMA GreatestNumber ==
  ASSUME NEW S \in SUBSET Nat, S # {}, NEW b \in Nat, \A k \in S : k <= b
  PROVE  \E m \in S : \A k \in S : m >= k
<1> DEFINE T == {b - k : k \in S}
<1>1. T \in SUBSET Nat /\ T # {}
  <2>1. \A k \in S : b - k \in Nat
    OBVIOUS
  <2>2. QED
    BY <2>1
<1>2. PICK d \in T : \A e \in T : d <= e
  <2> HIDE DEF T
  <2> QED BY <1>1, LeastNumber
<1>3. PICK m \in S : d = b - m
  OBVIOUS
<1>4. ASSUME NEW k \in S PROVE m >= k
  <2>1. b - k \in T
    OBVIOUS
  <2>2. QED
    BY <1>2, <1>3, <2>1
<1>5. QED
  BY <1>4

(* Induction: a set of numbers that holds 0, and with each number the one  *)
(* after it up to n, holds all numbers up to n.                            *)
LEMMA UpTo ==
  ASSUME NEW n \in Nat, NEW S, 0 \in S,
         \A k \in 0..(n - 1) : k \in S => k + 1 \in S
  PROVE  \A k \in 0..n : k \in S
<1> DEFINE T == (0..n) \ S
<1>1. SUFFICES ASSUME T # {} PROVE FALSE
  OBVIOUS
<1>2. PICK m \in T : \A k \in T : m <= k
  <2>1. T \in SUBSET Nat
    OBVIOUS
  <2> HIDE DEF T
  <2>2. QED
    BY <1>1, <2>1, LeastNumber
<1>3. m \in 1..n
  BY <1>2
<1>4. m - 1 \in S
  BY <1>2, <1>3
<1>5. QED
  BY <1>2, <1>3, <1>4

(* Remainders, for divisors that are not literals. *)
LEMMA Remainder ==
  ASSUME NEW a \in Int, NEW n \in Nat \ {0}
  PROVE  /\ a % n \in 0..(n - 1)
         /\ a \div n \in Int
         /\ a = n * (a \div n) + (a % n)
OBVIOUS

(* A number below the divisor is its own remainder.                        *)
LEMMA RemainderSmall ==
  ASSUME NEW n \in Nat \ {0}, NEW a \in 0..(n - 1)
  PROVE  a % n = a
OBVIOUS

(* From one to two times the divisor, the divisor is taken off.            *)
LEMMA RemainderOver ==
  ASSUME NEW n \in Nat \ {0}, NEW a \in n..(2 * n - 1)
  PROVE  a % n = a - n
OBVIOUS

(* Numbers that lie closer than the divisor have different remainders.     *)
LEMMA RemaindersDiffer ==
  ASSUME NEW n \in Nat \ {0}, NEW a \in Int, NEW b \in Int,
         a < b, b - a < n
  PROVE  a % n # b % n
<1> SUFFICES ASSUME a % n = b % n PROVE FALSE
  OBVIOUS
<1> DEFINE qa == a \div n
           qb == b \div n
<1>1. a = n * qa + (a % n) /\ b = n * qb + (b % n)
  BY Remainder
<1>2. qa \in Int /\ qb \in Int /\ a % n \in Int
  BY Remainder
<1> HIDE DEF qa, qb
<1>3. PICK d \in Int : d = qb - qa
  BY <1>2
<1>4. b - a = n * d
  BY <1>1, <1>2, <1>3
<1>5. d >= 1
  <2>1. d <= 0 => n * d <= 0
    OBVIOUS
  <2>2. QED
    BY <2>1, <1>3, <1>4
<1>6. n * d >= n
  BY <1>5
<1>7. QED
  BY <1>4, <1>6

-----------------------------------------------------------------------------
(* A function defined by recursion on its argument exists: its value at 0  *)
(* is d, and T[k] makes the value at k of the one before.                  *)
Steps(n, S, d, T) == n \in Nat /\ d \in S /\ T \in [1..n -> [S -> S]]

(* By induction on how far the function is defined.                        *)
LEMMA RecursionExists ==
  ASSUME NEW n, NEW S, NEW d, NEW T, Steps(n, S, d, T)
  PROVE  \E g \in [0..n -> S] : g[0] = d /\ \A k \in 1..n : g[k] = T[k][g[k - 1]]
<1> DEFINE Run(g, m) == g[0] = d /\ \A k \in 1..m : g[k] = T[k][g[k - 1]]
           Ms == {m \in 0..n : \E g \in [0..m -> S] : Run(g, m)}
<1>0. n \in Nat /\ d \in S /\ T \in [1..n -> [S -> S]]
  BY DEF Steps
<1>1. 0 \in Ms
  <2> DEFINE g == [k \in 0..0 |-> d]
  <2>1. g \in [0..0 -> S] /\ g[0] = d /\ 1..0 = {}
    BY <1>0
  <2> HIDE DEF g
  <2>2. Run(g, 0)
    BY <2>1
  <2>3. QED
    BY <1>0, <2>1, <2>2
<1>2. ASSUME NEW m \in 0..(n - 1), m \in Ms PROVE m + 1 \in Ms
  <2>1. PICK g \in [0..m -> S] : Run(g, m)
    BY <1>2
  <2> DEFINE h == [k \in 0..(m + 1) |-> IF k = m + 1 THEN T[m + 1][g[m]] ELSE g[k]]
  <2>2. T[m + 1][g[m]] \in S
    <3>1. g[m] \in S /\ m + 1 \in 1..n
      BY <1>0, <2>1
    <3>2. QED
      BY <1>0, <3>1
  <2>3. h \in [0..(m + 1) -> S]
    BY <2>1, <2>2
  <2>4. h[0] = d /\ \A k \in 1..(m + 1) : h[k] = T[k][h[k - 1]]
    <3>1. h[0] = d
      BY <2>1
    <3>2. ASSUME NEW k \in 1..m PROVE h[k] = T[k][h[k - 1]]
      BY <2>1
    <3>3. h[m + 1] = T[m + 1][h[(m + 1) - 1]]
      BY <2>1
    <3>4. (m + 1) - 1 = m /\ \A k \in 1..(m + 1) : k \in 1..m \/ k = m + 1
      BY <1>0
    <3> HIDE DEF h
    <3>5. QED
      BY <3>1, <3>2, <3>3, <3>4
  <2> HIDE DEF h
  <2>5. QED
    BY <1>0, <2>3, <2>4
<1> HIDE DEF Ms
<1>3. n \in Ms
  <2>1. \A k \in 0..(n - 1) : k \in Ms => k + 1 \in Ms
    BY <1>2
  <2>2. \A k \in 0..n : k \in Ms
    BY <1>0, <1>1, <2>1, UpTo
  <2>3. QED
    BY <1>0, <2>2
<1>4. QED
  BY <1>3 DEF Ms

(* A finite set of natural numbers has a bound: by induction on how many   *)
(* of its elements are bounded.                                            *)
LEMMA FiniteBound ==
  ASSUME NEW S \in SUBSET Nat, IsFiniteSet(S)
  PROVE  \E b \in Nat : \A k \in S : k <= b
<1>1. PICK n \in Nat : \E f : f \in Surjection(1..n, S)
  BY FS_NatSurjection DEF ExistsSurjection
<1>2. PICK f : f \in Surjection(1..n, S)
  BY <1>1
<1>3. f \in [1..n -> S] /\ \A k \in S : \E i \in 1..n : f[i] = k
  BY <1>2 DEF Surjection
<1> DEFINE Js == {j \in 0..n : \E b \in Nat : \A i \in 1..j : f[i] <= b}
<1>4. 0 \in Js
  OBVIOUS
<1>5. ASSUME NEW j \in 0..(n - 1), j \in Js PROVE j + 1 \in Js
  <2>1. PICK b \in Nat : \A i \in 1..j : f[i] <= b
    BY <1>5
  <2>2. j + 1 \in 1..n /\ f[j + 1] \in Nat /\ j \in Nat
    <3>1. j + 1 \in 1..n /\ j \in Nat
      OBVIOUS
    <3>2. QED
      BY <1>3, <3>1
  <2>3. PICK c \in Nat : b <= c /\ f[j + 1] <= c
    BY <2>2
  <2>4. \A i \in 1..(j + 1) : i \in 1..j \/ i = j + 1
    BY <2>2
  <2>5. \A i \in 1..j : f[i] \in Nat
    <3>1. \A i \in 1..j : i \in 1..n
      BY <2>2
    <3>2. QED
      BY <1>3, <3>1
  <2>6. \A i \in 1..(j + 1) : f[i] <= c
    BY <2>1, <2>2, <2>3, <2>4, <2>5
  <2>7. QED
    BY <2>6
<1> HIDE DEF Js
<1>6. n \in Js
  <2>1. \A j \in 0..(n - 1) : j \in Js => j + 1 \in Js
    BY <1>5
  <2>2. QED
    BY <1>4, <2>1, UpTo
<1>7. PICK b \in Nat : \A i \in 1..n : f[i] <= b
  BY <1>6 DEF Js
<1>8. QED
  BY <1>3, <1>7

=============================================================================
