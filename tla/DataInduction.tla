--------------------------- MODULE DataInduction ---------------------------
(***************************************************************************)
(* Induction and primitive recursion over the natural numbers, stated with *)
(* sets and functions instead of operators.  The code's loops over lists   *)
(* are modelled by functions f[i \in 0..n]; these lemmas say that such a   *)
(* function exists and give what is true after each turn of the loop.      *)
(***************************************************************************)
EXTENDS Integers, Sequences, WellFoundedInduction, TLAPS

LessThan == {pair \in Nat \X Nat : pair[1] < pair[2]}

(* A set of natural numbers that is not empty has a smallest element. *)
LEMMA SmallestElement ==
  ASSUME NEW S \in SUBSET Nat, S # {}
  PROVE  \E m \in S : \A k \in S : m <= k
<1>1. IsWellFoundedOn(LessThan, Nat)
  BY NatLessThanWellFounded DEF OpToRel, LessThan
<1>2. PICK m \in S : \A k \in S : ~(<<k, m>> \in LessThan)
  BY <1>1, WFMin
<1>3. \A k \in S : m <= k
  <2> SUFFICES ASSUME NEW k \in S PROVE m <= k
    OBVIOUS
  <2>1. ~(<<k, m>> \in LessThan)
    BY <1>2
  <2> QED BY <2>1 DEF LessThan
<1> QED BY <1>3

(* A set of integers within bounds that is not empty has a greatest element. *)
LEMMA GreatestElement ==
  ASSUME NEW a \in Int, NEW b \in Int, NEW S \in SUBSET (a..b), S # {}
  PROVE  \E m \in S : \A n \in S : n <= m
<1> DEFINE T == {b - m : m \in S}
<1>1. \A m \in S : m \in Int /\ m <= b /\ b - m \in Nat
  OBVIOUS
<1>2. T \in SUBSET Nat
  BY <1>1
<1>3. T # {}
  OBVIOUS
<1>4. PICK k \in T : \A j \in T : k <= j
  BY <1>2, <1>3, SmallestElement
<1>5. PICK m \in S : k = b - m
  BY <1>4
<1>6. ASSUME NEW n \in S PROVE n <= m
  <2>1. b - m <= b - n
    BY <1>4, <1>5
  <2>2. n \in Int /\ m \in Int
    BY <1>1
  <2> QED BY <2>1, <2>2
<1> QED BY <1>6

(* Induction up to n: a set with 0 that has i + 1 with each i < n has all. *)
LEMMA SetInduction ==
  ASSUME NEW n \in Nat, NEW S, 0 \in S, \A i \in 0..(n - 1) : i \in S => i + 1 \in S
  PROVE  0..n \subseteq S
<1> SUFFICES ASSUME (0..n) \ S # {} PROVE FALSE
  OBVIOUS
<1>0. (0..n) \ S \in SUBSET Nat
  OBVIOUS
<1>1. PICK m \in (0..n) \ S : \A k \in (0..n) \ S : m <= k
  BY <1>0, SmallestElement
<1>2. m # 0 /\ m - 1 \in 0..(n - 1) /\ ~(m <= m - 1)
  BY <1>1
<1>3. m - 1 \in S
  BY <1>1, <1>2
<1>4. m - 1 + 1 = m
  BY <1>2
<1> QED BY <1>1, <1>2, <1>3, <1>4

(* A loop of n turns that starts from a value of T and whose turns lead    *)
(* from T to T has a value after each turn.                                *)
Turns(n, T) == [T \X (1..n) -> T]

LoopRuns(f, n, T, start, turn) ==
  f \in [0..n -> T] /\ f[0] = start /\ \A i \in 1..n : f[i] = turn[<<f[i - 1], i>>]

LEMMA LoopExists ==
  ASSUME NEW n \in Nat, NEW T, NEW start \in T, NEW turn \in Turns(n, T)
  PROVE  \E f : LoopRuns(f, n, T, start, turn)
<1> USE DEF Turns, LoopRuns
<1> DEFINE Runs(m, f) == f[0] = start /\ \A i \in 1..m : f[i] = turn[<<f[i - 1], i>>]
           S == {m \in 0..n : \E f \in [0..m -> T] : Runs(m, f)}
<1>1. 0 \in S
  <2> DEFINE f == [i \in 0..0 |-> start]
  <2>1. f \in [0..0 -> T] /\ Runs(0, f)
    OBVIOUS
  <2> HIDE DEF f
  <2>2. 0 \in 0..n
    OBVIOUS
  <2> QED BY <2>1, <2>2
<1>2. ASSUME NEW m \in 0..(n - 1), m \in S PROVE m + 1 \in S
  <2>1. PICK f \in [0..m -> T] : Runs(m, f)
    BY <1>2
  <2> DEFINE g == [i \in 0..(m + 1) |-> IF i = m + 1 THEN turn[<<f[m], m + 1>>] ELSE f[i]]
  <2>2. m + 1 \in 1..n /\ f[m] \in T
    OBVIOUS
  <2>3. turn[<<f[m], m + 1>>] \in T
    BY <2>2
  <2>4. g \in [0..(m + 1) -> T]
    BY <2>3
  <2>5. Runs(m + 1, g)
    <3>1. g[0] = start
      BY <2>1
    <3>2. ASSUME NEW i \in 1..(m + 1) PROVE g[i] = turn[<<g[i - 1], i>>]
      <4>1. CASE i = m + 1
        <5>1. g[i - 1] = f[m] /\ g[i] = turn[<<f[m], m + 1>>]
          BY <4>1
        <5> QED BY <4>1, <5>1
      <4>2. CASE i # m + 1
        <5>1. i \in 1..m /\ g[i] = f[i] /\ g[i - 1] = f[i - 1]
          BY <4>2
        <5> QED BY <2>1, <5>1
      <4> QED BY <4>1, <4>2
    <3> QED BY <3>1, <3>2
  <2> HIDE DEF g
  <2> QED BY <2>4, <2>5
<1> HIDE DEF S
<1>3. n \in S
  BY <1>1, <1>2, SetInduction
<1> QED BY <1>3 DEF S
=============================================================================
