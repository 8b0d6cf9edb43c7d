------------------------------ MODULE Counting ------------------------------
(***************************************************************************)
(* Counting up. What is computed step by step, by a loop over a list, is known *)
(* step by step: what the other proofs need of it, whatever they count. The   *)
(* induction theorems of the library take an operator as a parameter, which  *)
(* the provers cannot instantiate; a set they can, and that an interval has   *)
(* a least element of a set follows from its being finite.                   *)
(***************************************************************************)
EXTENDS Integers, FiniteSets, FiniteSetTheorems, TLAPS

\* What holds of 0, and of the next number with each, holds of all: else there is one with
\* the fewest below it of those of which it does not hold.
LEMMA CountingUp ==
    ASSUME NEW N \in Nat, NEW G, 0 \in G, \A n \in 0..(N - 1) : n \in G => n + 1 \in G
    PROVE  \A n \in 0..N : n \in G
<1> DEFINE Bad == {n \in 0..N : n \notin G}
           Below(x) == {y \in Bad : y < x}
           T == {Below(x) : x \in Bad}
<1> SUFFICES ASSUME Bad # {} PROVE FALSE
  OBVIOUS
<1>1. IsFiniteSet(0..N)
  BY FS_Interval
<1>2. IsFiniteSet(Bad)
  BY <1>1, FS_Subset
<1>3. IsWellFoundedOn(StrictSubsetOrdering(Bad), SUBSET Bad)
  <2> HIDE DEF Bad
  <2> QED BY <1>2, FS_StrictSubsetOrderingWellFounded, FS_FiniteSubsetsOfFinite
<1>4. T \subseteq SUBSET Bad /\ T # {}
  <2> HIDE DEF Bad
  <2> QED OBVIOUS
<1>5. PICK U \in T : \A V \in T : <<V, U>> \notin StrictSubsetOrdering(Bad)
  <2> HIDE DEF T, Bad
  <2> QED BY <1>3, <1>4, WFMin
<1>6. PICK x \in Bad : U = Below(x)
  OBVIOUS
<1>7. x # 0 /\ x \in 0..N /\ x \notin G
  OBVIOUS
<1>8. x - 1 \in Bad
  BY <1>7
<1>9. Below(x - 1) \subseteq U /\ x - 1 \in U /\ x - 1 \notin Below(x - 1)
  <2>1. x - 1 < x /\ ~ (x - 1 < x - 1) /\ \A z \in Bad : z < x - 1 => z < x
    BY <1>7
  <2> HIDE DEF Bad
  <2> QED BY <1>6, <1>8, <2>1
<1>10. <<Below(x - 1), U>> \in StrictSubsetOrdering(Bad)
  <2> HIDE DEF Bad
  <2> QED BY <1>6, <1>9 DEF StrictSubsetOrdering
<1> QED BY <1>5, <1>8, <1>10

\* The least of some numbers up to a bound.
LEMMA LeastUpTo ==
    ASSUME NEW N \in Nat, NEW S, \E n \in 0..N : n \in S
    PROVE  \E n \in 0..N : n \in S /\ \A m \in 0..(n - 1) : m \notin S
<1> SUFFICES ASSUME \A n \in 0..N : n \in S => \E m \in 0..(n - 1) : m \in S PROVE FALSE
  OBVIOUS
<1> DEFINE G == {n \in Nat : \A m \in 0..n : m \notin S}
<1>1. 0 \in G
  OBVIOUS
<1>2. \A n \in 0..(N - 1) : n \in G => n + 1 \in G
  <2> TAKE n \in 0..(N - 1)
  <2> HAVE n \in G
  <2>1. \A m \in 0..n : m \notin S
    OBVIOUS
  <2>2. n + 1 \notin S
    BY <2>1
  <2>3. \A m \in 0..(n + 1) : m = n + 1 \/ m \in 0..n
    OBVIOUS
  <2> QED BY <2>1, <2>2, <2>3
<1> HIDE DEF G
<1>3. \A n \in 0..N : n \in G
  BY <1>1, <1>2, CountingUp
<1> QED BY <1>3 DEF G

\* There is a function that starts from a value and goes on from each by a step.
Steps(N, V) == [1..N -> [V -> V]]

Follows(f, N, V, first, step) ==
    f \in [0..N -> V] /\ f[0] = first /\ \A i \in 1..N : f[i] = step[i][f[i - 1]]

LEMMA StepByStep ==
    ASSUME NEW N, NEW V, NEW first, NEW step, N \in Nat, first \in V, step \in Steps(N, V)
    PROVE  \E f : Follows(f, N, V, first, step)
<1> USE DEF Steps, Follows
<1> DEFINE Goes(n, f) == f[0] = first /\ \A i \in 1..n : f[i] = step[i][f[i - 1]]
           G == {n \in Nat : \E f \in [0..n -> V] : Goes(n, f)}
<1>1. 0 \in G
  <2>1. [i \in 0..0 |-> first] \in [0..0 -> V] /\ Goes(0, [i \in 0..0 |-> first])
    OBVIOUS
  <2> QED BY <2>1
<1>2. \A n \in 0..(N - 1) : n \in G => n + 1 \in G
  <2> TAKE n \in 0..(N - 1)
  <2> HAVE n \in G
  <2>1. PICK f \in [0..n -> V] : Goes(n, f)
    OBVIOUS
  <2> DEFINE g == [i \in 0..(n + 1) |-> IF i = n + 1 THEN step[n + 1][f[n]] ELSE f[i]]
  <2>2. n + 1 \in 1..N /\ f[n] \in V
    OBVIOUS
  <2>3. step[n + 1][f[n]] \in V
    BY <2>2
  <2>4. g \in [0..(n + 1) -> V]
    BY <2>3
  <2>5. g[n + 1] = step[n + 1][g[n]] /\ g[0] = f[0] /\ \A i \in 0..n : g[i] = f[i]
    OBVIOUS
  <2> HIDE DEF g
  <2>6. Goes(n + 1, g)
    <3>1. ASSUME NEW i \in 1..(n + 1) PROVE g[i] = step[i][g[i - 1]]
      <4>1. CASE i = n + 1
        BY <2>5, <4>1
      <4>2. CASE i # n + 1
        <5>1. i \in 1..n /\ i \in 0..n /\ i - 1 \in 0..n
          BY <4>2
        <5> QED BY <2>1, <2>5, <5>1
      <4> QED BY <4>1, <4>2
    <3> QED BY <2>1, <2>5, <3>1
  <2> QED BY <2>4, <2>6
<1> HIDE DEF G
<1>3. \A n \in 0..N : n \in G
  BY <1>1, <1>2, CountingUp
<1>4. N \in G
  BY <1>3
<1> QED BY <1>4 DEF G

\* What holds of the first value and after each step holds of all.
LEMMA AllAlong ==
    ASSUME NEW N \in Nat, NEW V, NEW f, f[0] \in V, \A i \in 1..N : f[i - 1] \in V => f[i] \in V
    PROVE  \A i \in 0..N : f[i] \in V
<1> DEFINE G == {n \in Nat : f[n] \in V}
<1>1. 0 \in G /\ \A n \in 0..(N - 1) : n \in G => n + 1 \in G
  <2>1. \A n \in 0..(N - 1) : n + 1 \in 1..N /\ (n + 1) - 1 = n
    OBVIOUS
  <2> QED BY <2>1
<1> HIDE DEF G
<1>2. \A n \in 0..N : n \in G
  BY <1>1, CountingUp
<1> QED BY <1>2 DEF G
=============================================================================
