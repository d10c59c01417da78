----------------------------- MODULE Recursion -----------------------------
(***************************************************************************)
(* Induction and recursion over the naturals, stated about sets and        *)
(* functions, so that the provers can instantiate them: what holds of all  *)
(* numbers is a set of numbers, and what a recursive function does in one  *)
(* step is a function.                                                     *)
(***************************************************************************)
EXTENDS Integers, WellFoundedInduction, TLAPS

\* A non-empty set of naturals has a least element.
LEMMA LeastNumber ==
  ASSUME NEW S, S \subseteq Nat, S # {}
  PROVE  \E m \in S : \A k \in S : m <= k
<1>1. PICK m \in S : \A k \in S : <<k, m>> \notin OpToRel(<, Nat)
  BY NatLessThanWellFounded, WFMin
<1>2. \A k \in S : ~(k < m)
  BY <1>1 DEF OpToRel
<1> QED BY <1>2

\* A set that holds 0, and with each natural its successor, holds all of them.
LEMMA NatInductionSet ==
  ASSUME NEW S, 0 \in S, \A n \in Nat : n \in S => n + 1 \in S
  PROVE  Nat \subseteq S
<1> SUFFICES ASSUME Nat \ S # {} PROVE FALSE
  OBVIOUS
<1>1. PICK m \in Nat \ S : \A k \in Nat \ S : m <= k
  BY LeastNumber
<1>2. m # 0 /\ m - 1 \in Nat /\ m - 1 \in S
  BY <1>1
<1> QED BY <1>1, <1>2

\* The same with all smaller numbers for the hypothesis.
LEMMA StrongInductionSet ==
  ASSUME NEW S, \A n \in Nat : (\A m \in Nat : m < n => m \in S) => n \in S
  PROVE  Nat \subseteq S
<1> SUFFICES ASSUME Nat \ S # {} PROVE FALSE
  OBVIOUS
<1>1. PICK n \in Nat \ S : \A k \in Nat \ S : n <= k
  BY LeastNumber
<1>2. \A m \in Nat : m < n => m \in S
  BY <1>1
<1> QED BY <1>1, <1>2

\* A non-empty set of naturals up to a bound has a greatest element.
LEMMA GreatestNumber ==
  ASSUME NEW n \in Nat, NEW S, S \subseteq 0..n, S # {}
  PROVE  \E m \in S : \A k \in S : k <= m
<1> DEFINE Gaps == {n - k : k \in S}
<1>1. Gaps \subseteq Nat /\ Gaps # {}
  <2>1. \A k \in 0..n : n - k \in Nat
    OBVIOUS
  <2> QED BY <2>1
<1>2. PICK g \in Gaps : \A h \in Gaps : g <= h
  BY <1>1, LeastNumber
<1>3. PICK m \in S : g = n - m
  BY <1>2
<1>4. ASSUME NEW k \in S PROVE k <= m
  <2>1. n - m <= n - k
    BY <1>2, <1>3
  <2> QED BY <2>1
<1> QED BY <1>4

\* f starts with f0 and goes from each number to the next by step.
Recurs(f, f0, step) ==
  /\ f[0] = f0
  /\ \A i \in Nat \ {0} : f[i] = step[<<i, f[i - 1]>>]

\* A function on the naturals may be defined by its value at 0 and the step to
\* the next number.
LEMMA RecursionExists ==
  ASSUME NEW U, NEW f0 \in U, NEW step \in [Nat \X U -> U]
  PROVE  \E f \in [Nat -> U] : Recurs(f, f0, step)
<1> DEFINE Begun(n) == {f \in [0..n -> U] :
                          /\ f[0] = f0
                          /\ \A i \in 1..n : f[i] = step[<<i, f[i - 1]>>]}
<1>1. ASSUME NEW n \in Nat PROVE Begun(n) # {}
  <2> DEFINE S == {m \in Nat : Begun(m) # {}}
  <2>1. 0 \in S
    <3>1. [i \in 0..0 |-> f0] \in Begun(0)
      OBVIOUS
    <3> QED BY <3>1
  <2>2. ASSUME NEW m \in Nat, m \in S PROVE m + 1 \in S
    <3>1. PICK f \in Begun(m) : TRUE
      BY <2>2
    <3> DEFINE g == [i \in 0..(m + 1) |-> IF i <= m THEN f[i] ELSE step[<<m + 1, f[m]>>]]
    <3>2. g \in [0..(m + 1) -> U] /\ g[0] = f0
      OBVIOUS
    <3>3. ASSUME NEW i \in 1..(m + 1) PROVE g[i] = step[<<i, g[i - 1]>>]
      <4>1. CASE i <= m
        BY <3>1, <4>1
      <4>2. CASE i = m + 1
        <5>1. m + 1 \in 0..(m + 1) /\ m \in 0..(m + 1) /\ ~(m + 1 <= m) /\ (m + 1) - 1 = m
          OBVIOUS
        <5>2. g[m + 1] = step[<<m + 1, f[m]>>] /\ g[m] = f[m]
          BY <5>1
        <5> HIDE DEF g
        <5> QED BY <4>2, <5>1, <5>2
      <4> QED BY <4>1, <4>2
    <3>4. g \in Begun(m + 1)
      BY <3>2, <3>3
    <3> HIDE DEF g, Begun
    <3> QED BY <3>4
  <2> HIDE DEF S
  <2>3. Nat \subseteq S
    BY <2>1, <2>2, NatInductionSet
  <2> QED BY <2>3 DEF S
<1>2. ASSUME NEW m \in Nat, NEW k \in Nat, NEW f \in Begun(m), NEW g \in Begun(k)
      PROVE  \A n \in Nat : n <= m /\ n <= k => f[n] = g[n]
  <2> DEFINE S == {n \in Nat : n <= m /\ n <= k => f[n] = g[n]}
  <2>1. 0 \in S
    OBVIOUS
  <2>2. ASSUME NEW n \in Nat, n \in S PROVE n + 1 \in S
    <3> SUFFICES ASSUME n + 1 <= m, n + 1 <= k PROVE f[n + 1] = g[n + 1]
      OBVIOUS
    <3>1. f[n] = g[n] /\ n + 1 \in 1..m /\ n + 1 \in 1..k /\ (n + 1) - 1 = n
      BY <2>2
    <3>2. f[n + 1] = step[<<n + 1, f[(n + 1) - 1]>>] /\ g[n + 1] = step[<<n + 1, g[(n + 1) - 1]>>]
      BY <3>1
    <3> QED BY <3>1, <3>2
  <2> HIDE DEF S
  <2>3. Nat \subseteq S
    BY <2>1, <2>2, NatInductionSet
  <2> QED BY <2>3 DEF S
<1> DEFINE some == [n \in Nat |-> CHOOSE f \in Begun(n) : TRUE]
           F == [n \in Nat |-> some[n][n]]
<1>3. \A n \in Nat : some[n] \in Begun(n)
  BY <1>1
<1> HIDE DEF some
<1>4. F \in [Nat -> U] /\ F[0] = f0
  BY <1>3
<1>5. ASSUME NEW i \in Nat, i # 0 PROVE F[i] = step[<<i, F[i - 1]>>]
  <2>1. i - 1 \in Nat /\ i - 1 <= i /\ i \in 1..i
    BY <1>5
  <2>2. some[i] \in Begun(i) /\ some[i - 1] \in Begun(i - 1)
    BY <1>3, <2>1
  <2>3. some[i][i - 1] = some[i - 1][i - 1]
    <3> HIDE DEF Begun
    <3> QED BY <1>2, <2>1, <2>2
  <2>4. some[i][i] = step[<<i, some[i][i - 1]>>]
    BY <2>1, <2>2
  <2>5. F[i] = some[i][i] /\ F[i - 1] = some[i - 1][i - 1]
    BY <2>1
  <2> QED BY <2>3, <2>4, <2>5
<1> HIDE DEF F
<1>6. Recurs(F, f0, step)
  BY <1>4, <1>5 DEF Recurs
<1> QED BY <1>4, <1>6

\* The step to a number looks at the values of f at smaller numbers only.
LooksBack(step, n, V) ==
  \A i \in 0..n : \A f, g \in [0..n -> V] :
    (\A k \in 0..n : k < i => f[k] = g[k]) => step[<<i, f>>] = step[<<i, g>>]

RecursBack(f, step, n) == \A i \in 0..n : f[i] = step[<<i, f>>]

\* A function on 0..n may also be defined by its values at smaller numbers.
LEMMA CourseOfValues ==
  ASSUME NEW n \in Nat, NEW V, NEW v \in V, NEW step \in [(0..n) \X [0..n -> V] -> V],
         LooksBack(step, n, V)
  PROVE  \E f \in [0..n -> V] : RecursBack(f, step, n)
<1> USE DEF LooksBack, RecursBack
<1> DEFINE U == [0..n -> V]
           Good(m, f) == \A i \in 0..n : i < m => f[i] = step[<<i, f>>]
           S == {m \in Nat : \E f \in U : Good(m, f)}
<1>1. 0 \in S
  <2>1. [k \in 0..n |-> v] \in U /\ Good(0, [k \in 0..n |-> v])
    OBVIOUS
  <2> QED BY <2>1
<1>2. ASSUME NEW m \in Nat, m \in S PROVE m + 1 \in S
  <2>1. PICK f \in U : Good(m, f)
    BY <1>2
  <2>2. CASE m > n
    <3>1. Good(m + 1, f)
      BY <2>1, <2>2
    <3> QED BY <3>1
  <2>3. CASE m <= n
    <3> DEFINE g == [f EXCEPT ![m] = step[<<m, f>>]]
    <3>1. m \in 0..n /\ step[<<m, f>>] \in V
      BY <2>1, <2>3
    <3>2. g \in U /\ g[m] = step[<<m, f>>] /\ \A k \in 0..n : k # m => g[k] = f[k]
      BY <2>1, <3>1
    <3> HIDE DEF g
    <3>3. \A i \in 0..n : i <= m => step[<<i, g>>] = step[<<i, f>>]
      <4> SUFFICES ASSUME NEW i \in 0..n, i <= m PROVE step[<<i, g>>] = step[<<i, f>>]
        OBVIOUS
      <4>1. \A k \in 0..n : k < i => g[k] = f[k]
        BY <3>2
      <4> QED BY <2>1, <3>2, <4>1
    <3>4. Good(m + 1, g)
      <4> SUFFICES ASSUME NEW i \in 0..n, i < m + 1 PROVE g[i] = step[<<i, g>>]
        OBVIOUS
      <4>1. i <= m /\ (i = m \/ i < m)
        OBVIOUS
      <4>2. step[<<i, g>>] = step[<<i, f>>]
        BY <3>3, <4>1
      <4>3. i < m => i # m /\ f[i] = step[<<i, f>>]
        BY <2>1
      <4> HIDE DEF Good
      <4> QED BY <3>2, <4>1, <4>2, <4>3
    <3> QED BY <3>2, <3>4
  <2> HIDE DEF S
  <2> QED BY <2>2, <2>3
<1> HIDE DEF S
<1>3. Nat \subseteq S
  BY <1>1, <1>2, NatInductionSet
<1>4. PICK f \in U : Good(n + 1, f)
  <2>1. n + 1 \in S
    BY <1>3
  <2>2. \E f \in U : Good(n + 1, f)
    <3> HIDE DEF Good, U
    <3> QED BY <2>1 DEF S
  <2> QED BY <2>2
<1>5. \A i \in 0..n : i < n + 1
  OBVIOUS
<1> QED BY <1>4, <1>5
=============================================================================
