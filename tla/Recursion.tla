-------------------------------- MODULE Recursion --------------------------------
(***************************************************************************)
(* Induction over the naturals, and functions defined by recursion over     *)
(* them, with sets and functions where the usual theorems have operators:   *)
(* what is replayed record by record is such a function.                    *)
(***************************************************************************)
EXTENDS Integers, WellFoundedInduction, TLAPS

(* A set of naturals that is not empty has a least element.                 *)
LEMMA LeastNatural ==
  ASSUME NEW T, T \subseteq Nat, T # {}
  PROVE  \E x \in T : \A y \in T : x <= y
<1>1. PICK x \in T : \A y \in T : ~(<<y, x>> \in OpToRel(<, Nat))
  BY NatLessThanWellFounded, WFMin
<1>2. \A y \in T : ~(y < x)
  BY <1>1 DEF OpToRel
<1> QED
  BY <1>2

(* One that is bounded has a greatest.                                      *)
LEMMA GreatestNatural ==
  ASSUME NEW k \in Nat, NEW T, T \subseteq 0 .. k, T # {}
  PROVE  \E x \in T : \A y \in T : x >= y
<1> DEFINE U == {n \in Nat : \A y \in T : y <= n}
<1>1. U \subseteq Nat /\ U # {}
  <2>1. k \in U
    OBVIOUS
  <2> QED
    BY <2>1
<1>2. PICK n \in U : \A m \in U : n <= m
  <2> HIDE DEF U
  <2> QED
    BY <1>1, LeastNatural
<1>3. n \in T
  <2> SUFFICES ASSUME n \notin T PROVE FALSE
    OBVIOUS
  <2>1. PICK y \in T : TRUE
    OBVIOUS
  <2>2. n > 0 /\ \A z \in T : z <= n - 1
    BY <2>1
  <2>3. n - 1 \in U
    BY <2>2
  <2> QED
    BY <1>2, <2>3
<1> QED
  BY <1>2, <1>3

(* What holds of 0, and of each number after one it holds of, holds of all. *)
LEMMA EveryNumber ==
  ASSUME NEW T, 0 \in T, NEW k \in Nat, \A n \in 1 .. k : n - 1 \in T => n \in T
  PROVE  \A n \in 0 .. k : n \in T
<1> DEFINE U == {n \in 0 .. k : n \notin T}
<1> SUFFICES ASSUME U # {} PROVE FALSE
  OBVIOUS
<1>1. U \subseteq Nat
  OBVIOUS
<1>2. PICK x \in U : \A y \in U : x <= y
  <2> HIDE DEF U
  <2> QED
    BY <1>1, LeastNatural
<1>3. x \in 1 .. k /\ x - 1 \in 0 .. k
  BY <1>2
<1>4. x - 1 \in T
  BY <1>2, <1>3
<1> QED
  BY <1>2, <1>3, <1>4

(* A recursion of k steps from a start, within a set.                       *)
StepsWithin(step, k, S) == step \in [1 .. k -> [S -> S]]
IsRun(f, start, step, k, S) ==
  /\ f \in [0 .. k -> S]
  /\ f[0] = start
  /\ \A n \in 1 .. k : f[n] = step[n][f[n - 1]]

(* A recursion that stays within a set goes through.                        *)
LEMMA RunExists ==
  ASSUME NEW S, NEW start, start \in S, NEW k, k \in Nat, NEW step, StepsWithin(step, k, S)
  PROVE  \E f : IsRun(f, start, step, k, S)
<1> DEFINE Runs(n) ==
      {f \in [0 .. n -> S] : f[0] = start /\ \A i \in 1 .. n : f[i] = step[i][f[i - 1]]}
    T == {n \in 0 .. k : Runs(n) # {}}
<1> USE DEF StepsWithin
<1>1. 0 \in T
  <2>1. [i \in 0 .. 0 |-> start] \in Runs(0)
    OBVIOUS
  <2> QED
    BY <2>1
<1>2. ASSUME NEW n \in 1 .. k, n - 1 \in T PROVE n \in T
  <2>1. PICK f \in [0 .. n - 1 -> S] :
          f[0] = start /\ \A i \in 1 .. n - 1 : f[i] = step[i][f[i - 1]]
    BY <1>2
  <2> DEFINE g == [i \in 0 .. n |-> IF i < n THEN f[i] ELSE step[n][f[n - 1]]]
  <2>2. f[n - 1] \in S /\ step[n] \in [S -> S]
    BY <2>1
  <2>3. step[n][f[n - 1]] \in S
    BY <2>2
  <2>4. g \in [0 .. n -> S] /\ g[0] = start
    BY <2>1, <2>3
  <2>5. \A i \in 1 .. n : g[i] = step[i][g[i - 1]]
    <3> SUFFICES ASSUME NEW i \in 1 .. n PROVE g[i] = step[i][g[i - 1]]
      OBVIOUS
    <3>1. g[i - 1] = f[i - 1]
      OBVIOUS
    <3>2. CASE i = n
      <4>1. g[i] = step[n][f[n - 1]]
        BY <3>2
      <4> QED
        BY <3>1, <3>2, <4>1
    <3>3. CASE i # n
      <4>1. g[i] = f[i] /\ i \in 1 .. n - 1
        BY <3>3
      <4> QED
        BY <2>1, <3>1, <4>1
    <3> QED
      BY <3>2, <3>3
  <2>6. g \in Runs(n)
    <3> HIDE DEF g
    <3> QED
      BY <2>4, <2>5
  <2> HIDE DEF g, Runs
  <2> QED
    BY <2>6
<1>3. \A n \in 0 .. k : n \in T
  <2> HIDE DEF T
  <2> QED
    BY <1>1, <1>2, EveryNumber
<1>4. Runs(k) # {}
  BY <1>3
<1> QED
  BY <1>4 DEF IsRun
=============================================================================
