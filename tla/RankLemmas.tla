------------------------------ MODULE RankLemmas ------------------------------
(***************************************************************************)
(* Facts about counting and sums that several components rest on: writing  *)
(* a manifest puts each entry where the number of entries before it says,  *)
(* a direct S-box gives each point the number of points before it, a DAG   *)
(* ranks the nodes it has finished, a winding number is a sum over the     *)
(* edges of a polygon, a coefficient one over products and the mean of a   *)
(* window one over pixels, and the floats of an interval are spaced by     *)
(* powers of two, which exceed every number.                               *)
(* Shifts are quotients, by those powers: the bits of a byte come of them. *)
(* An order on S is the set of its pairs.                                  *)
(***************************************************************************)
EXTENDS Integers, FiniteSets, Functions, FiniteSetTheorems, TLAPS

\* A set of natural numbers has a least element: what stands in for induction.
LEMMA LeastNatural ==
  ASSUME NEW T \in SUBSET Nat, T # {}
  PROVE  \E m \in T : \A k \in T : m <= k
<1>1. \E m \in T : \A k \in T : ~(<<k, m>> \in OpToRel(<, Nat))
  BY NatLessThanWellFounded, WFMin
<1>2. PICK m \in T : \A k \in T : ~(<<k, m>> \in OpToRel(<, Nat))
  BY <1>1
<1>3. \A k \in T : ~(k < m)
  BY <1>2 DEF OpToRel
<1> QED BY <1>3

\* A bounded set of numbers has a greatest one.
LEMMA GreatestNatural ==
  ASSUME NEW n \in Nat, NEW S \in SUBSET (0..n), S # {}
  PROVE  \E v \in S : \A u \in S : u <= v
<1> DEFINE R == {n - u : u \in S}
<1>1. R \in SUBSET Nat /\ R # {}
  <2>1. \A u \in S : u \in 0..n /\ n - u \in Nat
    OBVIOUS
  <2> QED BY <2>1
<1>2. PICK m \in R : \A j \in R : m <= j
  <2> HIDE DEF R
  <2> QED BY <1>1, LeastNatural
<1>3. PICK v \in S : m = n - v
  OBVIOUS
<1>4. ASSUME NEW u \in S PROVE u <= v
  <2>1. n - u \in R
    OBVIOUS
  <2>2. m <= n - u
    <3> HIDE DEF R
    <3> QED BY <1>2, <2>1
  <2>3. u \in Int /\ v \in Int
    OBVIOUS
  <2> QED BY <1>3, <2>2, <2>3
<1> QED BY <1>4

StrictOrder(R, S) ==
  /\ R \subseteq S \X S
  /\ \A i \in S : <<i, i>> \notin R
  /\ \A i, j, k \in S : <<i, j>> \in R /\ <<j, k>> \in R => <<i, k>> \in R
  /\ \A i, j \in S : i # j => <<i, j>> \in R \/ <<j, i>> \in R

Below(R, S, i) == {j \in S : <<j, i>> \in R}

\* Fewer elements are below an element than there are, and fewer below a smaller one.
LEMMA RankBounds ==
  ASSUME NEW S, NEW R, IsFiniteSet(S), StrictOrder(R, S), NEW i \in S
  PROVE  /\ Cardinality(Below(R, S, i)) \in 0..(Cardinality(S) - 1)
         /\ \A j \in S : <<j, i>> \in R =>
              Cardinality(Below(R, S, j)) < Cardinality(Below(R, S, i))
<1>1. ASSUME NEW T, IsFiniteSet(T), NEW U \in SUBSET T, NEW x \in T, x \notin U
      PROVE  Cardinality(U) \in Nat /\ Cardinality(T) \in Nat /\ Cardinality(U) < Cardinality(T)
  <2>1. IsFiniteSet(U) /\ Cardinality(U) <= Cardinality(T) /\ (Cardinality(T) = Cardinality(U) => T = U)
    BY <1>1, FS_Subset
  <2> QED BY <1>1, <2>1, FS_CardinalityType
<1>2. Below(R, S, i) \in SUBSET S /\ i \notin Below(R, S, i)
  BY DEF Below, StrictOrder
<1>3. Cardinality(Below(R, S, i)) \in 0..(Cardinality(S) - 1)
  BY <1>1, <1>2
<1>4. ASSUME NEW j \in S, <<j, i>> \in R
      PROVE  Cardinality(Below(R, S, j)) < Cardinality(Below(R, S, i))
  <2>1. Below(R, S, j) \in SUBSET Below(R, S, i)
    BY <1>4 DEF Below, StrictOrder
  <2>2. j \in Below(R, S, i) /\ j \notin Below(R, S, j)
    BY <1>4 DEF Below, StrictOrder
  <2>3. IsFiniteSet(Below(R, S, i))
    BY <1>2, FS_Subset
  <2> QED BY <1>1, <2>1, <2>2, <2>3
<1> QED BY <1>3, <1>4

\* Ranks put the elements of a finite set in one-to-one correspondence with the
\* numbers below its size, in their order.
LEMMA RankBijection ==
  ASSUME NEW S, NEW R, IsFiniteSet(S), StrictOrder(R, S),
         NEW rank, rank = [i \in S |-> Cardinality(Below(R, S, i))]
  PROVE  /\ rank \in [S -> 0..(Cardinality(S) - 1)]
         /\ \A i, j \in S : <<i, j>> \in R <=> rank[i] < rank[j]
         /\ \A i, j \in S : rank[i] = rank[j] => i = j
         /\ \A k \in 0..(Cardinality(S) - 1) : \E i \in S : rank[i] = k
<1> DEFINE K == 0..(Cardinality(S) - 1)
<1>1. rank \in [S -> K]
  BY RankBounds
<1>2. \A i, j \in S : <<i, j>> \in R => rank[i] < rank[j]
  BY RankBounds
<1>3. \A i \in S : rank[i] \in Int
  BY <1>1
<1>4. \A i, j \in S : i # j => rank[i] # rank[j]
  <2> SUFFICES ASSUME NEW i \in S, NEW j \in S, i # j PROVE rank[i] # rank[j]
    OBVIOUS
  <2>1. <<i, j>> \in R \/ <<j, i>> \in R
    BY DEF StrictOrder
  <2>2. rank[i] < rank[j] \/ rank[j] < rank[i]
    BY <1>2, <2>1
  <2>3. rank[i] \in Int /\ rank[j] \in Int
    BY <1>3
  <2> QED BY <2>2, <2>3
<1>5. \A i, j \in S : <<i, j>> \in R <=> rank[i] < rank[j]
  <2> SUFFICES ASSUME NEW i \in S, NEW j \in S, rank[i] < rank[j] PROVE <<i, j>> \in R
    BY <1>2
  <2>1. i # j /\ ~(rank[j] < rank[i])
    BY <1>3
  <2> QED BY <1>2, <2>1 DEF StrictOrder
<1>6. rank \in Injection(S, K)
  BY <1>1, <1>4 DEF Injection, IsInjective
<1>7. Cardinality(S) \in Nat
  BY FS_CardinalityType
<1>8. IsFiniteSet(K) /\ Cardinality(K) = Cardinality(S)
  BY <1>7, FS_Interval
<1> HIDE DEF K
<1>9. rank \in Surjection(S, K)
  BY <1>6, <1>8, FS_Injection
<1> QED BY <1>1, <1>4, <1>5, <1>9 DEF Surjection, K

-----------------------------------------------------------------------------
(* Sums over finite sets, as MapThenSumSet of the community modules evaluates *)
(* them: element by element, in the order of CHOOSE. *)

\* The element that a fold over a set takes first.
Some(s) == CHOOSE x \in s : TRUE

\* h sums f over each subset of D the way MapThenSumSet does.
Summing(h, f, D) ==
  \A s \in SUBSET D : h[s] = IF s = {} THEN 0 ELSE f[Some(s)] + h[s \ {Some(s)}]

\* h is the function that MapThenSumSet evaluates.
IsSums(h, f, D) ==
  h = [s \in SUBSET D |-> IF s = {} THEN 0 ELSE f[Some(s)] + h[s \ {Some(s)}]]

\* A smaller set.
LEMMA Smaller ==
  ASSUME NEW D, IsFiniteSet(D), NEW s \in SUBSET D, NEW x \in s
  PROVE  /\ s \ {x} \in SUBSET D
         /\ Cardinality(s) \in Nat /\ Cardinality(s \ {x}) \in Nat
         /\ Cardinality(s \ {x}) = Cardinality(s) - 1
<1>1. IsFiniteSet(s)
  BY FS_Subset
<1> QED BY <1>1, FS_RemoveElement, FS_CardinalityType

\* The subsets of a finite set: their sizes, and the smaller ones.
LEMMA SubsetSizes ==
  ASSUME NEW D, IsFiniteSet(D), NEW P, P = SUBSET D
  PROVE  /\ {} \in P /\ D \in P /\ Cardinality(D) \in Nat
         /\ \A s \in P : /\ Cardinality(s) \in 0..Cardinality(D)
                         /\ Cardinality(s) = 0 => s = {}
                         /\ s # {} => Some(s) \in s
                         /\ \A x \in s : /\ s \ {x} \in P
                                         /\ Cardinality(s \ {x}) = Cardinality(s) - 1
<1>1. Cardinality(D) \in Nat
  BY FS_CardinalityType
<1>2. ASSUME NEW s \in SUBSET D
      PROVE  /\ Cardinality(s) \in 0..Cardinality(D)
             /\ Cardinality(s) = 0 => s = {}
  <2>1. IsFiniteSet(s) /\ Cardinality(s) <= Cardinality(D)
    BY FS_Subset
  <2>2. Cardinality(s) \in Nat /\ (Cardinality(s) = 0 => s = {})
    BY <2>1, FS_CardinalityType, FS_EmptySet
  <2> QED BY <1>1, <2>1, <2>2
<1>3. ASSUME NEW s \in SUBSET D, s # {} PROVE Some(s) \in s
  BY <1>3 DEF Some
<1>4. ASSUME NEW s \in SUBSET D, NEW x \in s
      PROVE  /\ s \ {x} \in SUBSET D
             /\ Cardinality(s \ {x}) = Cardinality(s) - 1
  BY Smaller
<1> QED BY <1>1, <1>2, <1>3, <1>4

\* Sums over the subsets of a finite set exist.
LEMMA SumsExist ==
  ASSUME NEW D, IsFiniteSet(D), NEW f, \A i \in D : f[i] \in Int
  PROVE  \E h : IsSums(h, f, D)
<1> DEFINE P == SUBSET D
           Step(h, s) == IF s = {} THEN 0 ELSE f[Some(s)] + h[s \ {Some(s)}]
           Upto(n, h) == /\ h \in [P -> Int]
                         /\ \A s \in P : Cardinality(s) <= n => h[s] = Step(h, s)
           Bad == {n \in Nat : ~ \E h : Upto(n, h)}
<1>1. /\ {} \in P /\ D \in P /\ Cardinality(D) \in Nat
      /\ \A s \in P : /\ Cardinality(s) \in 0..Cardinality(D)
                      /\ Cardinality(s) = 0 => s = {}
                      /\ s # {} => Some(s) \in s
                      /\ \A x \in s : /\ s \ {x} \in P
                                      /\ Cardinality(s \ {x}) = Cardinality(s) - 1
  BY SubsetSizes
<1>2. \A s \in P : s # {} => f[Some(s)] \in Int
  BY <1>1
<1> HIDE DEF P
<1>3. Bad = {}
  <2> SUFFICES ASSUME Bad # {} PROVE FALSE
    OBVIOUS
  <2>1. PICK m \in Bad : \A k \in Bad : m <= k
    <3>1. Bad \in SUBSET Nat
      OBVIOUS
    <3> HIDE DEF Bad
    <3> QED BY <3>1, LeastNatural
  <2>2. m \in Nat /\ ~ \E h : Upto(m, h)
    OBVIOUS
  <2>3. m # 0
    <3> DEFINE zero == [s \in P |-> 0]
    <3>1. zero \in [P -> Int] /\ \A s \in P : zero[s] = 0
      OBVIOUS
    <3>2. \A s \in P : Cardinality(s) <= 0 => s = {}
      BY <1>1
    <3> HIDE DEF zero
    <3>3. Upto(0, zero)
      BY <3>1, <3>2
    <3> QED BY <2>2, <3>3
  <2>4. m - 1 \in Nat /\ m - 1 \notin Bad
    <3>1. m - 1 \in Nat /\ ~(m <= m - 1)
      BY <2>2, <2>3
    <3> HIDE DEF Bad
    <3> QED BY <2>1, <3>1
  <2>5. PICK h : Upto(m - 1, h)
    BY <2>4
  <2> DEFINE g == [s \in P |-> Step(h, s)]
  <2>6. \A s \in P : Step(h, s) \in Int
    <3> SUFFICES ASSUME NEW s \in P, s # {} PROVE f[Some(s)] + h[s \ {Some(s)}] \in Int
      OBVIOUS
    <3>1. s \ {Some(s)} \in P
      BY <1>1
    <3>2. h[s \ {Some(s)}] \in Int
      BY <2>5, <3>1
    <3> QED BY <1>2, <3>2
  <2>7. g \in [P -> Int] /\ \A s \in P : g[s] = Step(h, s)
    <3> HIDE DEF Step
    <3> QED BY <2>6
  <2> HIDE DEF g
  <2>8. ASSUME NEW s \in P, Cardinality(s) <= m PROVE g[s] = Step(g, s)
    <3>1. CASE s = {}
      BY <2>7, <3>1
    <3>2. CASE s # {}
      <4> DEFINE r == s \ {Some(s)}
      <4>1. r \in P /\ Cardinality(r) = Cardinality(s) - 1 /\ Cardinality(s) \in Int
        BY <1>1, <3>2
      <4> HIDE DEF r
      <4>2. Cardinality(r) <= m - 1
        BY <2>2, <2>8, <4>1
      <4>3. h[r] = Step(h, r) /\ g[r] = Step(h, r)
        <5> HIDE DEF Step
        <5> QED BY <2>5, <2>7, <4>1, <4>2
      <4>4. g[r] = h[r]
        BY <4>3
      <4> QED BY <2>7, <3>2, <4>4 DEF r
    <3> QED BY <3>1, <3>2
  <2>9. Upto(m, g)
    BY <2>7, <2>8
  <2> HIDE DEF Upto
  <2> QED BY <2>2, <2>9
<1>4. PICK h : Upto(Cardinality(D), h)
  BY <1>1, <1>3
<1>5. \A s \in P : h[s] = Step(h, s)
  BY <1>1, <1>4
<1>6. h = [s \in P |-> Step(h, s)]
  <2> HIDE DEF Step
  <2> QED BY <1>4, <1>5
<1> QED BY <1>6 DEF P, IsSums

\* A sum does not depend on the order in which the elements are taken.
LEMMA SumsSplit ==
  ASSUME NEW D, IsFiniteSet(D), NEW f, \A i \in D : f[i] \in Int,
         NEW h, Summing(h, f, D)
  PROVE  /\ h[{}] = 0
         /\ \A s \in SUBSET D : h[s] \in Int
         /\ \A s \in SUBSET D : \A x \in s : h[s] = f[x] + h[s \ {x}]
<1> DEFINE P == SUBSET D
           Good(s) == h[s] \in Int /\ \A x \in s : h[s] = f[x] + h[s \ {x}]
           Bad == {Cardinality(s) : s \in {t \in P : ~Good(t)}}
<1>1. /\ {} \in P /\ D \in P /\ Cardinality(D) \in Nat
      /\ \A s \in P : /\ Cardinality(s) \in 0..Cardinality(D)
                      /\ Cardinality(s) = 0 => s = {}
                      /\ s # {} => Some(s) \in s
                      /\ \A x \in s : /\ s \ {x} \in P
                                      /\ Cardinality(s \ {x}) = Cardinality(s) - 1
  BY SubsetSizes
<1>2. /\ \A s \in P : h[s] = IF s = {} THEN 0 ELSE f[Some(s)] + h[s \ {Some(s)}]
      /\ \A s \in P : \A x \in s : f[x] \in Int
  BY DEF Summing
<1> HIDE DEF P
<1>3. Bad = {}
  <2> SUFFICES ASSUME Bad # {} PROVE FALSE
    OBVIOUS
  <2>1. PICK m \in Bad : \A k \in Bad : m <= k
    <3>1. Bad \in SUBSET Nat
      BY <1>1
    <3> HIDE DEF Bad
    <3> QED BY <3>1, LeastNatural
  <2>2. PICK s \in P : ~Good(s) /\ m = Cardinality(s)
    OBVIOUS
  <2>3. ASSUME NEW t \in P, Cardinality(t) < Cardinality(s) PROVE Good(t)
    <3> SUFFICES ASSUME ~Good(t) PROVE FALSE
      OBVIOUS
    <3>1. Cardinality(t) \in Bad
      OBVIOUS
    <3>2. Cardinality(s) <= Cardinality(t)
      <4> HIDE DEF Bad
      <4> QED BY <2>1, <2>2, <3>1
    <3>3. Cardinality(t) \in Int /\ Cardinality(s) \in Int
      BY <1>1
    <3> HIDE DEF Bad, Good
    <3> QED BY <2>3, <3>2, <3>3
  <2> HIDE DEF Bad
  <2>4. s # {}
    <3> SUFFICES ASSUME s = {} PROVE FALSE
      OBVIOUS
    <3>1. h[s] = 0
      BY <1>2
    <3>2. Good(s)
      BY <3>1
    <3> HIDE DEF Good
    <3> QED BY <2>2, <3>2
  <2>5. PICK c \in s : c = Some(s)
    BY <1>1, <2>4
  <2> DEFINE u == s \ {c}
  <2>6. h[s] = f[c] + h[u] /\ f[c] \in Int
    BY <1>2, <2>4, <2>5
  <2>7. u \in P /\ Cardinality(u) < Cardinality(s) /\ Cardinality(s) \in Int /\ Cardinality(u) \in Int
    BY <1>1
  <2>8. Good(u)
    <3> HIDE DEF Good, u
    <3> QED BY <2>3, <2>7
  <2>9. ASSUME NEW x \in s PROVE h[s] = f[x] + h[s \ {x}]
    <3>1. CASE x = c
      BY <2>6, <3>1
    <3>2. CASE x # c
      <4> DEFINE v == s \ {x}
                 w == u \ {x}
      <4>1. v \in P /\ Cardinality(v) < Cardinality(s)
        BY <1>1, <2>7
      <4>2. Good(v)
        <5> HIDE DEF Good, v
        <5> QED BY <2>3, <4>1
      <4>3. x \in u /\ c \in v /\ w = v \ {c}
        BY <3>2
      <4>4. w \in P /\ Cardinality(w) = Cardinality(u) - 1
        <5> HIDE DEF u, v
        <5> QED BY <1>1, <2>7, <4>3
      <4>5. Good(w)
        <5>1. Cardinality(w) < Cardinality(s)
          <6> HIDE DEF u, w
          <6> QED BY <2>7, <4>4
        <5> HIDE DEF Good, u, w
        <5> QED BY <2>3, <4>4, <5>1
      <4>6. h[u] = f[x] + h[w]
        <5> HIDE DEF u
        <5> QED BY <2>8, <4>3
      <4>7. h[v] = f[c] + h[w]
        <5> HIDE DEF u, v, w
        <5> QED BY <4>2, <4>3
      <4>8. h[w] \in Int /\ f[x] \in Int
        <5> HIDE DEF u, w
        <5> QED BY <1>2, <4>5
      <4> HIDE DEF Good, u, w
      <4> QED BY <2>6, <4>6, <4>7, <4>8
    <3> QED BY <3>1, <3>2
  <2>10. h[s] \in Int
    <3> HIDE DEF u
    <3> QED BY <2>6, <2>8
  <2> HIDE DEF u
  <2> QED BY <2>2, <2>9, <2>10
<1>4. \A s \in P : Good(s)
  BY <1>3
<1>5. h[{}] = 0
  BY <1>1, <1>2
<1> QED BY <1>4, <1>5 DEF P

\* A quantity gains in each step what two summands differ by.
GainsBy(gain, f, g, L) ==
  /\ \A i \in 0..L : gain[i] \in Int
  /\ \A i \in 1..L : /\ f[i] \in Int /\ g[i] \in Int
                     /\ f[i] - g[i] = gain[i] - gain[i - 1]

\* Where two summands differ by what a quantity gains, the sums up to n differ by
\* what it has gained.
LEMMA SumsTelescope ==
  ASSUME NEW L \in Nat, NEW f, NEW g, NEW gain,
         GainsBy(gain, f, g, L),
         NEW h, Summing(h, f, 1..L), NEW k, Summing(k, g, 1..L)
  PROVE  h[1..L] - k[1..L] = gain[L] - gain[0]
<1>0. /\ \A i \in 0..L : gain[i] \in Int
      /\ \A i \in 1..L : /\ f[i] \in Int /\ g[i] \in Int
                         /\ f[i] - g[i] = gain[i] - gain[i - 1]
  BY DEF GainsBy
<1> DEFINE Even(n) == h[1..n] - k[1..n] = gain[n] - gain[0]
           Odd == {n \in 0..L : ~Even(n)}
<1>1. IsFiniteSet(1..L)
  BY FS_Interval
<1>2. /\ h[{}] = 0 /\ k[{}] = 0
      /\ \A s \in SUBSET (1..L) : h[s] \in Int /\ k[s] \in Int
      /\ \A s \in SUBSET (1..L) : \A x \in s : h[s] = f[x] + h[s \ {x}] /\ k[s] = g[x] + k[s \ {x}]
  <2> DEFINE D == 1..L
  <2>3. IsFiniteSet(D) /\ Summing(h, f, D) /\ Summing(k, g, D)
    BY <1>1
  <2>4. \A i \in D : f[i] \in Int
    BY <1>0
  <2>5. \A i \in D : g[i] \in Int
    BY <1>0
  <2> HIDE DEF D, Even, Odd
  <2>1. /\ h[{}] = 0
        /\ \A s \in SUBSET D : h[s] \in Int
        /\ \A s \in SUBSET D : \A x \in s : h[s] = f[x] + h[s \ {x}]
    BY <2>3, <2>4, SumsSplit
  <2>2. /\ k[{}] = 0
        /\ \A s \in SUBSET D : k[s] \in Int
        /\ \A s \in SUBSET D : \A x \in s : k[s] = g[x] + k[s \ {x}]
    BY <2>3, <2>5, SumsSplit
  <2> QED BY <2>1, <2>2 DEF D
<1>3. Odd = {}
  <2> SUFFICES ASSUME Odd # {} PROVE FALSE
    OBVIOUS
  <2>1. PICK m \in Odd : \A n \in Odd : m <= n
    <3>1. Odd \in SUBSET Nat
      OBVIOUS
    <3> HIDE DEF Odd
    <3> QED BY <3>1, LeastNatural
  <2>2. m # 0
    <3>1. 1..0 = {} /\ gain[0] \in Int
      BY <1>0
    <3>2. Even(0)
      BY <1>2, <3>1
    <3> QED BY <3>2
  <2>3. m \in 1..L /\ m - 1 \in 0..L /\ ~(m <= m - 1)
    BY <2>2
  <2>4. Even(m - 1)
    <3>1. m - 1 \notin Odd
      <4> HIDE DEF Odd
      <4> QED BY <2>1, <2>3
    <3> QED BY <2>3, <3>1
  <2>5. 1..m \in SUBSET (1..L) /\ m \in 1..m /\ (1..m) \ {m} = 1..(m - 1)
    BY <2>3
  <2>6. h[1..m] = f[m] + h[1..(m - 1)] /\ k[1..m] = g[m] + k[1..(m - 1)]
    BY <1>2, <2>5
  <2>7. /\ h[1..(m - 1)] \in Int /\ k[1..(m - 1)] \in Int /\ f[m] \in Int /\ g[m] \in Int
        /\ gain[m] \in Int /\ gain[m - 1] \in Int /\ gain[0] \in Int
        /\ f[m] - g[m] = gain[m] - gain[m - 1]
    <3>1. 1..(m - 1) \in SUBSET (1..L)
      BY <2>3
    <3> QED BY <1>0, <1>2, <2>3, <3>1
  <2>8. ~(h[1..m] - k[1..m] = gain[m] - gain[0])
    OBVIOUS
  <2>9. h[1..(m - 1)] - k[1..(m - 1)] = gain[m - 1] - gain[0]
    BY <2>4
  <2>10. ASSUME NEW a \in Int, NEW b \in Int, NEW a1 \in Int, NEW b1 \in Int,
                NEW u \in Int, NEW v \in Int, NEW w \in Int,
                a1 - b1 = v - w, a - b = u - v
         PROVE  (a + a1) - (b + b1) = u - w
    BY <2>10
  <2> HIDE DEF Odd, Even
  <2>11. (f[m] + h[1..(m - 1)]) - (g[m] + k[1..(m - 1)]) = gain[m] - gain[0]
    <3> DEFINE a == f[m]
               b == g[m]
               a1 == h[1..(m - 1)]
               b1 == k[1..(m - 1)]
               u == gain[m]
               v == gain[m - 1]
               w == gain[0]
    <3>1. /\ a \in Int /\ b \in Int /\ a1 \in Int /\ b1 \in Int /\ u \in Int /\ v \in Int
          /\ w \in Int /\ a - b = u - v
      BY <2>7
    <3>2. a1 - b1 = v - w
      BY <2>9
    <3> HIDE DEF a, b, a1, b1, u, v, w
    <3>3. (a + a1) - (b + b1) = u - w
      BY <2>10, <3>1, <3>2
    <3> QED BY <3>3 DEF a, b, a1, b1, u, w
  <2> QED BY <2>6, <2>8, <2>11
<1>4. Even(L)
  BY <1>3
<1> QED BY <1>4

\* Remainders of numbers up to the divisor.
LEMMA Remainders ==
  ASSUME NEW L \in Nat \ {0}, NEW i \in 1..L
  PROVE  i % L = IF i = L THEN 0 ELSE i
<1>1. CASE i = L
  BY <1>1
<1>2. CASE i # L
  <2>1. i \in 0..(L - 1)
    BY <1>2
  <2> QED BY <1>2, <2>1
<1> QED BY <1>1, <1>2

-----------------------------------------------------------------------------
(* Powers of two.  2^n is the number of subsets of 1..n. *)

\* The subsets are counted.
LEMMA PowerCounts ==
  ASSUME NEW n \in Nat
  PROVE  IsFiniteSet(SUBSET (1..n)) /\ Cardinality(SUBSET (1..n)) = 2^n
<1>1. IsFiniteSet(1..n) /\ Cardinality(1..n) = n
  BY FS_Interval
<1> QED BY <1>1, FS_SUBSET

\* The subsets without the last number, and those with it.
LEMMA PowersOfTwo ==
  ASSUME NEW n \in Nat
  PROVE  2^n \in Nat \ {0} /\ 2^(n + 1) = 2 * 2^n
<1> DEFINE A == SUBSET (1..n)
           B == SUBSET (1..(n + 1))
           C == {s \cup {n + 1} : s \in A}
           with == [s \in A |-> s \cup {n + 1}]
<1>1. IsFiniteSet(A) /\ Cardinality(A) = 2^n /\ Cardinality(A) \in Nat
  BY PowerCounts, FS_CardinalityType
<1>2. Cardinality(B) = 2^(n + 1)
  BY PowerCounts
<1>3. Cardinality(A) # 0
  BY <1>1, FS_EmptySet
<1>4. B = A \cup C /\ A \cap C = {}
  <2>1. 1..(n + 1) = (1..n) \cup {n + 1} /\ n + 1 \notin 1..n
    OBVIOUS
  <2>2. ASSUME NEW s \in B PROVE s \in A \cup C
    <3>1. CASE n + 1 \in s
      <4>1. s \ {n + 1} \in A /\ s = (s \ {n + 1}) \cup {n + 1}
        BY <2>1, <3>1
      <4> QED BY <4>1
    <3>2. CASE n + 1 \notin s
      BY <2>1, <3>2
    <3> QED BY <3>1, <3>2
  <2>3. A \cup C \subseteq B /\ A \cap C = {}
    BY <2>1
  <2> QED BY <2>2, <2>3
<1>5. ExistsBijection(A, C)
  <2>1. with \in [A -> C]
    OBVIOUS
  <2>2. ASSUME NEW s \in A, NEW u \in A, with[s] = with[u] PROVE s = u
    <3>1. n + 1 \notin s /\ n + 1 \notin u
      OBVIOUS
    <3> QED BY <2>2, <3>1
  <2>3. \A c \in C : \E s \in A : with[s] = c
    OBVIOUS
  <2> HIDE DEF with, A, C
  <2> QED BY <2>1, <2>2, <2>3 DEF ExistsBijection, Bijection, Injection, Surjection, IsInjective
<1>6. IsFiniteSet(C) /\ Cardinality(C) = Cardinality(A)
  BY <1>1, <1>5, FS_Bijection
<1>7. Cardinality(B) = Cardinality(A) + Cardinality(A)
  <2> HIDE DEF A, B, C
  <2>1. Cardinality(A \cap C) = 0
    BY <1>4, FS_EmptySet
  <2>2. Cardinality(A \cup C) = Cardinality(A) + Cardinality(C) - Cardinality(A \cap C)
    BY <1>1, <1>6, FS_Union
  <2>3. Cardinality(C) \in Nat
    BY <1>1, <1>6
  <2> QED BY <1>1, <1>4, <1>6, <2>1, <2>2, <2>3
<1> HIDE DEF A, B
<1> QED BY <1>1, <1>2, <1>3, <1>7

\* Powers of two are larger than their exponents.
LEMMA PowerExceeds ==
  ASSUME NEW n \in Nat
  PROVE  n < 2^n
<1> DEFINE Bad == {k \in Nat : ~(k < 2^k)}
<1> SUFFICES ASSUME Bad # {} PROVE FALSE
  OBVIOUS
<1>1. PICK m \in Bad : \A k \in Bad : m <= k
  <2>1. Bad \in SUBSET Nat
    OBVIOUS
  <2> HIDE DEF Bad
  <2> QED BY <2>1, LeastNatural
<1>2. m \in Nat /\ ~(m < 2^m)
  OBVIOUS
<1>3. m # 0
  <2>1. 2^m \in Nat \ {0}
    BY <1>2, PowersOfTwo
  <2> HIDE DEF Bad
  <2> QED BY <1>2, <2>1
<1>4. m - 1 \in Nat /\ m - 1 < 2^(m - 1)
  <2>1. m - 1 \in Nat /\ ~(m <= m - 1)
    BY <1>2, <1>3
  <2>2. m - 1 \notin Bad
    <3> HIDE DEF Bad
    <3> QED BY <1>1, <2>1
  <2> QED BY <2>1, <2>2
<1>5. 2^(m - 1) \in Nat /\ 2^((m - 1) + 1) = 2 * 2^(m - 1) /\ (m - 1) + 1 = m
  BY <1>2, <1>4, PowersOfTwo
<1> HIDE DEF Bad
<1>6. 2^m = 2 * 2^(m - 1)
  BY <1>5
<1> QED BY <1>2, <1>4, <1>5, <1>6

-----------------------------------------------------------------------------
(* Sums and folds as the community modules compute them. *)

\* The sum of a function as the library computes it.
LEMMA SumComputed ==
  ASSUME NEW f, NEW D, D = DOMAIN f, IsFiniteSet(D), \A i \in D : f[i] \in Int
  PROVE  \E h : Summing(h, f, D) /\ SumFunction(f) = h[D]
<1> DEFINE Sums(h0) == h0 = [s \in SUBSET D |->
                              IF s = {} THEN 0 ELSE f[Some(s)] + h0[s \ {Some(s)}]]
           hh == CHOOSE h0 : Sums(h0)
<1>1. PICK h : IsSums(h, f, D)
  BY SumsExist
<1>2. Sums(hh)
  <2>1. Sums(h)
    BY <1>1 DEF IsSums
  <2> HIDE DEF Sums
  <2> QED BY <2>1
<1>3. SumFunction(f) = hh[D]
  BY DEF SumFunction, SumFunctionOnSet, FoldFunctionOnSet, MapThenFoldSet, Some
<1>4. Summing(hh, f, D)
  <2> HIDE DEF hh
  <2> QED BY <1>2 DEF Summing
<1> HIDE DEF hh
<1> QED BY <1>3, <1>4

\* The sum of a function goes through the sums over the subsets of its domain.
LEMMA SumSplits ==
  ASSUME NEW f, NEW D, D = DOMAIN f, IsFiniteSet(D), \A i \in D : f[i] \in Int
  PROVE  \E h : /\ h[{}] = 0 /\ \A s \in SUBSET D : h[s] \in Int
                /\ \A s \in SUBSET D : \A x \in s : h[s] = f[x] + h[s \ {x}]
                /\ SumFunction(f) = h[D]
<1>1. PICK h : Summing(h, f, D) /\ SumFunction(f) = h[D]
  BY SumComputed
<1>2. /\ h[{}] = 0 /\ \A s \in SUBSET D : h[s] \in Int
      /\ \A s \in SUBSET D : \A x \in s : h[s] = f[x] + h[s \ {x}]
  BY <1>1, SumsSplit
<1> QED BY <1>1, <1>2

\* Sums of at most three numbers.
LEMMA SmallSums ==
  ASSUME NEW n \in 1..3, NEW D, D = 1..n, NEW f, D = DOMAIN f, \A i \in D : f[i] \in Int
  PROVE  /\ n = 1 => SumFunction(f) = f[1]
         /\ n = 2 => SumFunction(f) = f[1] + f[2]
         /\ n = 3 => SumFunction(f) = f[1] + f[2] + f[3]
<1>1. IsFiniteSet(D)
  BY FS_Interval
<1>3. PICK h : /\ h[{}] = 0 /\ \A s \in SUBSET D : h[s] \in Int
               /\ \A s \in SUBSET D : \A x \in s : h[s] = f[x] + h[s \ {x}]
               /\ SumFunction(f) = h[D]
  BY <1>1, SumSplits
<1>4. \A s \in SUBSET D : \A x \in D : x \notin s => h[s \cup {x}] = f[x] + h[s]
  <2> SUFFICES ASSUME NEW s \in SUBSET D, NEW x \in D, x \notin s PROVE h[s \cup {x}] = f[x] + h[s]
    OBVIOUS
  <2> DEFINE t == s \cup {x}
  <2>1. t \in SUBSET D /\ x \in t /\ t \ {x} = s
    OBVIOUS
  <2> HIDE DEF t
  <2>2. h[t] = f[x] + h[t \ {x}]
    BY <1>3, <2>1
  <2> QED BY <2>1, <2>2 DEF t
<1>5. 1 \in D /\ h[{1}] = f[1] /\ f[1] \in Int
  <2>1. 1 \in D /\ {} \in SUBSET D /\ {} \cup {1} = {1} /\ 1 \notin {}
    OBVIOUS
  <2>2. h[{} \cup {1}] = f[1] + h[{}]
    BY <1>4, <2>1
  <2>3. h[{}] = 0 /\ f[1] \in Int
    BY <1>3, <2>1
  <2> QED BY <2>1, <2>2, <2>3
<1>6. n \in {2, 3} => 2 \in D /\ h[{1, 2}] = f[2] + f[1] /\ f[2] \in Int
  <2> SUFFICES ASSUME n \in {2, 3} PROVE 2 \in D /\ h[{1, 2}] = f[2] + f[1] /\ f[2] \in Int
    OBVIOUS
  <2>1. 2 \in D /\ {1} \in SUBSET D /\ {1} \cup {2} = {1, 2} /\ 2 \notin {1}
    OBVIOUS
  <2> QED BY <1>4, <1>5, <2>1
<1>7. n = 3 => h[{1, 2, 3}] = f[3] + (f[2] + f[1]) /\ f[3] \in Int
  <2> SUFFICES ASSUME n = 3 PROVE h[{1, 2, 3}] = f[3] + (f[2] + f[1]) /\ f[3] \in Int
    OBVIOUS
  <2>1. 3 \in D /\ {1, 2} \in SUBSET D /\ {1, 2} \cup {3} = {1, 2, 3} /\ 3 \notin {1, 2}
    OBVIOUS
  <2> QED BY <1>4, <1>6, <2>1
<1>8. (n = 1 => D = {1}) /\ (n = 2 => D = {1, 2}) /\ (n = 3 => D = {1, 2, 3})
  OBVIOUS
<1>9. SumFunction(f) = h[D]
  BY <1>3
<1>10. CASE n = 1
  <2>1. h[D] = h[{1}]
    BY <1>8, <1>10
  <2> QED BY <1>5, <1>9, <1>10, <2>1
<1>11. CASE n = 2
  <2>1. h[D] = h[{1, 2}]
    BY <1>8, <1>11
  <2> QED BY <1>5, <1>6, <1>9, <1>11, <2>1
<1>12. CASE n = 3
  <2>1. h[D] = h[{1, 2, 3}]
    BY <1>8, <1>12
  <2> QED BY <1>5, <1>6, <1>7, <1>9, <1>12, <2>1
<1> QED BY <1>10, <1>11, <1>12

\* A fold over a finite set: step takes the first element of the set and the
\* value of the rest.
Folding(h, D, base, first, step) ==
  h = [s \in SUBSET D |-> IF s = {} THEN base
                                     ELSE step[<<first[s], h[s \ {first[s]}]>>]]

\* It exists.
LEMMA FoldsExist ==
  ASSUME NEW D, IsFiniteSet(D), NEW V, NEW base \in V,
         NEW first, \A s \in SUBSET D : s # {} => first[s] \in s,
         NEW step \in [D \X V -> V]
  PROVE  \E h : Folding(h, D, base, first, step)
<1> DEFINE P == SUBSET D
           Step(h, s) == IF s = {} THEN base ELSE step[<<first[s], h[s \ {first[s]}]>>]
           Upto(n, h) == /\ h \in [P -> V]
                         /\ \A s \in P : Cardinality(s) <= n => h[s] = Step(h, s)
           Bad == {n \in Nat : ~ \E h : Upto(n, h)}
<1>1. /\ {} \in P /\ D \in P /\ Cardinality(D) \in Nat
      /\ \A s \in P : /\ Cardinality(s) \in 0..Cardinality(D)
                      /\ Cardinality(s) = 0 => s = {}
                      /\ s # {} => first[s] \in s /\ first[s] \in D
                      /\ \A x \in s : /\ s \ {x} \in P
                                      /\ Cardinality(s \ {x}) = Cardinality(s) - 1
  <2>1. /\ {} \in P /\ D \in P /\ Cardinality(D) \in Nat
        /\ \A s \in P : /\ Cardinality(s) \in 0..Cardinality(D)
                        /\ Cardinality(s) = 0 => s = {}
                        /\ \A x \in s : /\ s \ {x} \in P
                                        /\ Cardinality(s \ {x}) = Cardinality(s) - 1
    BY SubsetSizes
  <2>2. \A s \in P : s # {} => first[s] \in s /\ first[s] \in D
    OBVIOUS
  <2> HIDE DEF P
  <2> QED BY <2>1, <2>2
<1> HIDE DEF P
<1>3. Bad = {}
  <2> SUFFICES ASSUME Bad # {} PROVE FALSE
    OBVIOUS
  <2>1. PICK m \in Bad : \A k \in Bad : m <= k
    <3>1. Bad \in SUBSET Nat
      OBVIOUS
    <3> HIDE DEF Bad
    <3> QED BY <3>1, LeastNatural
  <2>2. m \in Nat /\ ~ \E h : Upto(m, h)
    OBVIOUS
  <2>3. m # 0
    <3> DEFINE zero == [s \in P |-> base]
    <3>1. zero \in [P -> V] /\ \A s \in P : zero[s] = base
      OBVIOUS
    <3>2. \A s \in P : Cardinality(s) <= 0 => s = {}
      BY <1>1
    <3> HIDE DEF zero
    <3>3. Upto(0, zero)
      BY <3>1, <3>2
    <3> QED BY <2>2, <3>3
  <2>4. m - 1 \in Nat /\ m - 1 \notin Bad
    <3>1. m - 1 \in Nat /\ ~(m <= m - 1)
      BY <2>2, <2>3
    <3> HIDE DEF Bad
    <3> QED BY <2>1, <3>1
  <2>5. PICK h : Upto(m - 1, h)
    BY <2>4
  <2> DEFINE g == [s \in P |-> Step(h, s)]
  <2>6. \A s \in P : Step(h, s) \in V
    <3> SUFFICES ASSUME NEW s \in P, s # {} PROVE step[<<first[s], h[s \ {first[s]}]>>] \in V
      OBVIOUS
    <3>1. first[s] \in D /\ s \ {first[s]} \in P
      BY <1>1
    <3>2. h[s \ {first[s]}] \in V
      BY <2>5, <3>1
    <3> QED BY <3>1, <3>2
  <2>7. g \in [P -> V] /\ \A s \in P : g[s] = Step(h, s)
    <3> HIDE DEF Step
    <3> QED BY <2>6
  <2> HIDE DEF g
  <2>8. ASSUME NEW s \in P, Cardinality(s) <= m PROVE g[s] = Step(g, s)
    <3>1. CASE s = {}
      BY <2>7, <3>1
    <3>2. CASE s # {}
      <4> DEFINE r == s \ {first[s]}
      <4>1. r \in P /\ Cardinality(r) = Cardinality(s) - 1 /\ Cardinality(s) \in Int
        BY <1>1, <3>2
      <4> HIDE DEF r
      <4>2. Cardinality(r) <= m - 1
        BY <2>2, <2>8, <4>1
      <4>3. h[r] = Step(h, r) /\ g[r] = Step(h, r)
        <5> HIDE DEF Step
        <5> QED BY <2>5, <2>7, <4>1, <4>2
      <4>4. g[r] = h[r]
        BY <4>3
      <4> QED BY <2>7, <3>2, <4>4 DEF r
    <3> QED BY <3>1, <3>2
  <2>9. Upto(m, g)
    BY <2>7, <2>8
  <2> HIDE DEF Upto
  <2> QED BY <2>2, <2>9
<1>4. PICK h : Upto(Cardinality(D), h)
  BY <1>1, <1>3
<1>5. \A s \in P : h[s] = Step(h, s)
  BY <1>1, <1>4
<1>6. h = [s \in P |-> Step(h, s)]
  <2> HIDE DEF Step
  <2> QED BY <1>4, <1>5
<1> QED BY <1>6 DEF P, Folding

\* h obeys the rule of a fold wherever the rest of the set has a value in V.
Stepping(h, D, V, base, first, step) ==
  /\ base \in V /\ h[{}] = base
  /\ \A s \in SUBSET D : s # {} => first[s] \in s
  /\ step \in [D \X V -> V]
  /\ \A s \in SUBSET D : s # {} /\ h[s \ {first[s]}] \in V
                         => h[s] = step[<<first[s], h[s \ {first[s]}]>>]

\* All its values are in V then.
LEMMA FoldsTyped ==
  ASSUME NEW D, IsFiniteSet(D), NEW V, NEW base, NEW first, NEW step, NEW h,
         Stepping(h, D, V, base, first, step)
  PROVE  \A s \in SUBSET D : h[s] \in V
<1> DEFINE P == SUBSET D
           Bad == {Cardinality(s) : s \in {t \in P : h[t] \notin V}}
<1>0. /\ base \in V /\ h[{}] = base
      /\ \A s \in SUBSET D : s # {} => first[s] \in s
      /\ step \in [D \X V -> V]
  BY DEF Stepping
<1>1. \A s \in P : s # {} /\ h[s \ {first[s]}] \in V
                   => h[s] = step[<<first[s], h[s \ {first[s]}]>>]
  BY DEF Stepping
<1>2. \A s \in P : s # {} => /\ first[s] \in D /\ s \ {first[s]} \in P
                             /\ Cardinality(s) \in Nat /\ Cardinality(s \ {first[s]}) \in Nat
                             /\ Cardinality(s \ {first[s]}) = Cardinality(s) - 1
  <2> SUFFICES ASSUME NEW s \in SUBSET D, s # {}
               PROVE  /\ first[s] \in D /\ s \ {first[s]} \in SUBSET D
                      /\ Cardinality(s) \in Nat /\ Cardinality(s \ {first[s]}) \in Nat
                      /\ Cardinality(s \ {first[s]}) = Cardinality(s) - 1
    OBVIOUS
  <2>1. PICK x \in s : x = first[s]
    BY <1>0
  <2>2. /\ s \ {x} \in SUBSET D
        /\ Cardinality(s) \in Nat /\ Cardinality(s \ {x}) \in Nat
        /\ Cardinality(s \ {x}) = Cardinality(s) - 1
    BY Smaller
  <2> QED BY <2>1, <2>2
<1>3. {} \in P /\ Bad \in SUBSET Nat
  <2>1. \A s \in SUBSET D : IsFiniteSet(s)
    BY FS_Subset
  <2> QED BY <2>1, FS_CardinalityType
<1> HIDE DEF P
<1>4. Bad = {}
  <2> SUFFICES ASSUME Bad # {} PROVE FALSE
    OBVIOUS
  <2>1. PICK m \in Bad : \A k \in Bad : m <= k
    <3> HIDE DEF Bad
    <3> QED BY <1>3, LeastNatural
  <2>2. PICK s \in P : h[s] \notin V /\ m = Cardinality(s)
    OBVIOUS
  <2>3. s # {}
    BY <1>0, <2>2
  <2>4. PICK r \in P : /\ r = s \ {first[s]} /\ first[s] \in D
                       /\ Cardinality(r) \in Nat /\ m \in Nat /\ Cardinality(r) = m - 1
    BY <1>2, <2>2, <2>3
  <2>5. h[r] \in V
    <3> SUFFICES ASSUME h[r] \notin V PROVE FALSE
      OBVIOUS
    <3>1. Cardinality(r) \in Bad
      OBVIOUS
    <3> HIDE DEF Bad
    <3> QED BY <2>1, <2>4, <3>1
  <2>6. <<first[s], h[r]>> \in D \X V
    BY <2>4, <2>5
  <2>7. h[s] = step[<<first[s], h[r]>>]
    BY <1>1, <2>3, <2>4, <2>5
  <2> QED BY <1>0, <2>2, <2>6, <2>7
<1>5. \A s \in P : h[s] \in V
  BY <1>4
<1> QED BY <1>5 DEF P

-----------------------------------------------------------------------------
(* Sums of functions with finite domains and integer values. *)

\* The function f has a finite domain D and integer values.
Summable(f, D) == D = DOMAIN f /\ IsFiniteSet(D) /\ \A i \in D : f[i] \in Int

\* h sums f over every subset of D.
Additive(h, f, D) ==
  /\ h[{}] = 0 /\ \A s \in SUBSET D : h[s] \in Int
  /\ \A s \in SUBSET D : \A x \in s : h[s] = f[x] + h[s \ {x}]

\* The sums of a function over the subsets of its domain.
LEMMA PartialSums ==
  ASSUME NEW f, NEW D, Summable(f, D)
  PROVE  \E h : Additive(h, f, D) /\ SumFunction(f) = h[D]
<1>1. D = DOMAIN f
  BY DEF Summable
<1>2. IsFiniteSet(D)
  BY DEF Summable
<1>3. \A i \in D : f[i] \in Int
  BY DEF Summable
<1>4. PICK h : Summing(h, f, D) /\ SumFunction(f) = h[D]
  BY <1>1, <1>2, <1>3, SumComputed
<1>5. /\ h[{}] = 0 /\ \A s \in SUBSET D : h[s] \in Int
      /\ \A s \in SUBSET D : \A x \in s : h[s] = f[x] + h[s \ {x}]
  BY <1>2, <1>3, <1>4, SumsSplit
<1> QED BY <1>4, <1>5 DEF Additive

\* There is only one way to sum.
LEMMA SumUnique ==
  ASSUME NEW f, NEW D, Summable(f, D), NEW h, Additive(h, f, D)
  PROVE  SumFunction(f) = h[D]
<1>1. PICK g : Additive(g, f, D) /\ SumFunction(f) = g[D]
  BY PartialSums
<1> DEFINE P == SUBSET D
           Bad == {Cardinality(s) : s \in {t \in P : h[t] # g[t]}}
<1>2. IsFiniteSet(D)
  BY DEF Summable
<1>3. /\ {} \in P /\ D \in P /\ Cardinality(D) \in Nat
      /\ \A s \in P : /\ Cardinality(s) \in 0..Cardinality(D)
                      /\ Cardinality(s) = 0 => s = {}
                      /\ s # {} => Some(s) \in s
                      /\ \A x \in s : /\ s \ {x} \in P
                                      /\ Cardinality(s \ {x}) = Cardinality(s) - 1
  BY <1>2, SubsetSizes
<1>4. Bad \in SUBSET Nat
  BY <1>3
<1>5. ASSUME Bad # {} PROVE FALSE
  <2>1. PICK m \in Bad : \A k \in Bad : m <= k
    <3> HIDE DEF Bad
    <3> QED BY <1>4, <1>5, LeastNatural
  <2>2. PICK s \in P : h[s] # g[s] /\ Cardinality(s) = m
    BY <2>1
  <2>3. s # {}
    BY <1>1, <2>2 DEF Additive
  <2>4. PICK x \in s : TRUE
    BY <2>3
  <2>5. h[s] = f[x] + h[s \ {x}] /\ g[s] = f[x] + g[s \ {x}]
    BY <1>1, <2>2, <2>4 DEF Additive
  <2>6. s \ {x} \in P /\ Cardinality(s \ {x}) = m - 1 /\ m \in Nat
    BY <1>3, <2>2, <2>4
  <2>7. h[s \ {x}] # g[s \ {x}]
    BY <2>2, <2>5
  <2>8. Cardinality(s \ {x}) \in Bad
    BY <2>6, <2>7
  <2>9. m <= m - 1
    <3> HIDE DEF Bad
    <3> QED BY <2>1, <2>6, <2>8
  <2> QED BY <2>6, <2>9
<1>6. h[D] = g[D]
  <2>1. h[D] # g[D] => Cardinality(D) \in Bad
    BY <1>3
  <2> HIDE DEF Bad
  <2> QED BY <1>5, <2>1
<1> QED BY <1>1, <1>6

\* Part of a function sums to the sum over its domain.
LEMMA SumRestricted ==
  ASSUME NEW f, NEW D, Summable(f, D), NEW h, Additive(h, f, D), NEW s \in SUBSET D,
         NEW g, g = [i \in s |-> f[i]]
  PROVE  Summable(g, s) /\ SumFunction(g) = h[s]
<1>1. IsFiniteSet(s)
  BY FS_Subset DEF Summable
<1>2. Summable(g, s)
  BY <1>1 DEF Summable
<1>3. Additive(h, g, s)
  BY DEF Additive
<1> QED BY <1>2, <1>3, SumUnique

\* Sums over two parts of a domain.
LEMMA SumParted ==
  ASSUME NEW f, NEW D, Summable(f, D), NEW h, Additive(h, f, D),
         NEW A \in SUBSET D, NEW B \in SUBSET D, A \cap B = {}
  PROVE  h[A \cup B] = h[A] + h[B]
<1> DEFINE g == [i \in A |-> f[i]]
           k == [s \in SUBSET A |-> h[s \cup B] - h[B]]
<1>1. Summable(g, A) /\ SumFunction(g) = h[A]
  BY SumRestricted
<1>2. Additive(k, g, A)
  <2>1. h[B] \in Int /\ \A s \in SUBSET A : h[s \cup B] \in Int
    BY DEF Additive
  <2>2. k[{}] = 0
    <3>1. {} \cup B = B
      OBVIOUS
    <3> QED BY <2>1, <3>1
  <2>3. ASSUME NEW s \in SUBSET A PROVE k[s] \in Int
    <3>1. h[s \cup B] \in Int /\ h[B] \in Int
      BY <2>1
    <3>2. k[s] = h[s \cup B] - h[B]
      OBVIOUS
    <3> HIDE DEF k
    <3> QED BY <3>1, <3>2
  <2>4. ASSUME NEW s \in SUBSET A, NEW x \in s PROVE k[s] = g[x] + k[s \ {x}]
    <3>1. s \cup B \in SUBSET D /\ x \in s \cup B
      OBVIOUS
    <3>2. h[s \cup B] = f[x] + h[(s \cup B) \ {x}]
      BY <3>1 DEF Additive
    <3>3. (s \cup B) \ {x} = (s \ {x}) \cup B /\ s \ {x} \in SUBSET A
      OBVIOUS
    <3>4. f[x] \in Int /\ g[x] = f[x]
      BY <3>1 DEF Summable
    <3>5. k[s] = h[s \cup B] - h[B] /\ k[s \ {x}] = h[(s \ {x}) \cup B] - h[B]
      BY <3>3
    <3>6. h[B] \in Int /\ h[(s \ {x}) \cup B] \in Int
      BY <2>1, <3>3
    <3>7. h[s \cup B] = f[x] + h[(s \ {x}) \cup B]
      BY <3>2, <3>3
    <3> HIDE DEF k, g
    <3> QED BY <3>4, <3>5, <3>6, <3>7
  <2> QED BY <2>2, <2>3, <2>4 DEF Additive
<1>3. SumFunction(g) = k[A]
  <2> HIDE DEF k, g
  <2> QED BY <1>1, <1>2, SumUnique
<1>4. k[A] = h[A \cup B] - h[B] /\ h[A \cup B] \in Int /\ h[B] \in Int /\ h[A] \in Int
  BY DEF Additive
<1> HIDE DEF k, g
<1> QED BY <1>1, <1>3, <1>4

\* Sums are linear.
LEMMA SumLinear ==
  ASSUME NEW f, NEW g, NEW D, Summable(f, D), Summable(g, D), NEW c \in Int,
         NEW k, D = DOMAIN k, \A i \in D : k[i] = c * f[i] + g[i]
  PROVE  /\ Summable(k, D) /\ SumFunction(f) \in Int /\ SumFunction(g) \in Int
         /\ SumFunction(k) = c * SumFunction(f) + SumFunction(g)
<1>1. PICK h : Additive(h, f, D) /\ SumFunction(f) = h[D]
  BY PartialSums
<1>2. PICK j : Additive(j, g, D) /\ SumFunction(g) = j[D]
  BY PartialSums
<1>3. \A u \in Int : c * u \in Int
  OBVIOUS
<1>4. Summable(k, D)
  BY <1>3 DEF Summable
<1> DEFINE l == [s \in SUBSET D |-> c * h[s] + j[s]]
<1>5. Additive(l, k, D)
  <2>1. \A s \in SUBSET D : h[s] \in Int /\ j[s] \in Int
    BY <1>1, <1>2 DEF Additive
  <2>2. l[{}] = 0
    BY <1>1, <1>2 DEF Additive
  <2>3. \A s \in SUBSET D : l[s] \in Int
    BY <2>1, <1>3
  <2>4. ASSUME NEW s \in SUBSET D, NEW x \in s PROVE l[s] = k[x] + l[s \ {x}]
    <3>1. h[s] = f[x] + h[s \ {x}] /\ j[s] = g[x] + j[s \ {x}] /\ s \ {x} \in SUBSET D /\ x \in D
      BY <1>1, <1>2 DEF Additive
    <3>2. f[x] \in Int /\ g[x] \in Int /\ k[x] = c * f[x] + g[x]
      BY <3>1 DEF Summable
    <3>3. l[s] = c * h[s] + j[s] /\ l[s \ {x}] = c * h[s \ {x}] + j[s \ {x}]
      BY <3>1
    <3>4. \A u, v \in Int : c * (u + v) = c * u + c * v
      OBVIOUS
    <3>5. c * h[s] = c * f[x] + c * h[s \ {x}]
      BY <2>1, <3>1, <3>2, <3>4
    <3> DEFINE p == c * f[x]
               q == c * h[s \ {x}]
    <3>6. p \in Int /\ q \in Int
      BY <1>3, <2>1, <3>1, <3>2
    <3>7. k[x] = p + g[x] /\ l[s \ {x}] = q + j[s \ {x}] /\ l[s] = (p + q) + j[s]
      BY <3>2, <3>3, <3>5
    <3> HIDE DEF p, q, l
    <3> QED BY <2>1, <3>1, <3>2, <3>6, <3>7
  <2> QED BY <2>2, <2>3, <2>4 DEF Additive
<1>6. SumFunction(k) = l[D]
  <2> HIDE DEF l
  <2> QED BY <1>4, <1>5, SumUnique
<1>7. l[D] = c * h[D] + j[D] /\ h[D] \in Int /\ j[D] \in Int
  BY <1>1, <1>2 DEF Additive
<1> QED BY <1>1, <1>2, <1>4, <1>6, <1>7

\* A function that is c on T and 0 elsewhere.
LEMMA SumSupported ==
  ASSUME NEW f, NEW D, D = DOMAIN f, IsFiniteSet(D), NEW T \in SUBSET D, NEW c \in Int,
         \A i \in D : f[i] = IF i \in T THEN c ELSE 0
  PROVE  Summable(f, D) /\ Cardinality(T) \in Nat /\ SumFunction(f) = c * Cardinality(T)
<1>1. Summable(f, D)
  BY DEF Summable
<1> DEFINE l == [s \in SUBSET D |-> c * Cardinality(s \cap T)]
<1>2. \A s \in SUBSET D : IsFiniteSet(s \cap T) /\ Cardinality(s \cap T) \in Nat
  BY FS_Subset, FS_CardinalityType
<1>3. \A u \in Nat : c * u \in Int
  OBVIOUS
<1>4. Additive(l, f, D)
  <2>1. l[{}] = 0
    <3>1. {} \cap T = {} /\ Cardinality({}) = 0
      BY FS_EmptySet
    <3> QED BY <3>1
  <2>2. \A s \in SUBSET D : l[s] \in Int
    BY <1>2, <1>3
  <2>3. ASSUME NEW s \in SUBSET D, NEW x \in s PROVE l[s] = f[x] + l[s \ {x}]
    <3>1. CASE x \in T
      <4>1. x \in s \cap T /\ (s \cap T) \ {x} = (s \ {x}) \cap T /\ s \ {x} \in SUBSET D
        BY <3>1
      <4>2. Cardinality((s \cap T) \ {x}) = Cardinality(s \cap T) - 1
        BY <1>2, <4>1, FS_RemoveElement
      <4>3. f[x] = c
        BY <3>1
      <4>4. \A u \in Nat : c * u = c + c * (u - 1)
        OBVIOUS
      <4>5. c * Cardinality(s \cap T) = c + c * Cardinality((s \ {x}) \cap T)
        BY <1>2, <4>1, <4>2, <4>4
      <4> QED BY <4>1, <4>3, <4>5
    <3>2. CASE x \notin T
      <4>1. s \cap T = (s \ {x}) \cap T /\ s \ {x} \in SUBSET D /\ f[x] = 0
        BY <3>2
      <4>2. l[s \ {x}] \in Int /\ l[s] = l[s \ {x}]
        BY <2>2, <4>1
      <4> HIDE DEF l
      <4> QED BY <4>1, <4>2
    <3> QED BY <3>1, <3>2
  <2> QED BY <2>1, <2>2, <2>3 DEF Additive
<1>5. SumFunction(f) = l[D]
  <2> HIDE DEF l
  <2> QED BY <1>1, <1>4, SumUnique
<1>6. D \cap T = T
  OBVIOUS
<1> QED BY <1>1, <1>2, <1>5, <1>6

\* The part of D that p sends to e.
Fibre(p, D, e) == {i \in D : p[i] = e}

\* A sum can be taken fibre by fibre.
LEMMA SumFibres ==
  ASSUME NEW f, NEW D, Summable(f, D), NEW E, IsFiniteSet(E), NEW p \in [D -> E],
         NEW g, g = [e \in E |-> SumFunction([i \in Fibre(p, D, e) |-> f[i]])]
  PROVE  /\ \A e \in E : Summable([i \in Fibre(p, D, e) |-> f[i]], Fibre(p, D, e))
         /\ Summable(g, E) /\ SumFunction(f) = SumFunction(g)
<1>1. PICK h : Additive(h, f, D) /\ SumFunction(f) = h[D]
  BY PartialSums
<1>2. ASSUME NEW e \in E
      PROVE  /\ Fibre(p, D, e) \in SUBSET D /\ g[e] = h[Fibre(p, D, e)] /\ g[e] \in Int
             /\ Summable([i \in Fibre(p, D, e) |-> f[i]], Fibre(p, D, e))
  <2>1. Fibre(p, D, e) \in SUBSET D
    BY DEF Fibre
  <2>2. /\ Summable([i \in Fibre(p, D, e) |-> f[i]], Fibre(p, D, e))
        /\ SumFunction([i \in Fibre(p, D, e) |-> f[i]]) = h[Fibre(p, D, e)]
    BY <1>1, <2>1, SumRestricted
  <2>3. h[Fibre(p, D, e)] \in Int
    BY <1>1, <2>1 DEF Additive
  <2> QED BY <2>1, <2>2, <2>3
<1>3. Summable(g, E)
  BY <1>2 DEF Summable
<1> DEFINE over(s) == {i \in D : p[i] \in s}
           l == [s \in SUBSET E |-> h[over(s)]]
<1>4. Additive(l, g, E)
  <2>1. l[{}] = 0
    <3>1. over({}) = {}
      OBVIOUS
    <3> QED BY <1>1, <3>1 DEF Additive
  <2>2. \A s \in SUBSET E : l[s] \in Int
    BY <1>1 DEF Additive
  <2>3. ASSUME NEW s \in SUBSET E, NEW x \in s PROVE l[s] = g[x] + l[s \ {x}]
    <3>1. over(s) = Fibre(p, D, x) \cup over(s \ {x})
      BY DEF Fibre
    <3>2. Fibre(p, D, x) \cap over(s \ {x}) = {} /\ over(s \ {x}) \in SUBSET D
      BY DEF Fibre
    <3>3. Fibre(p, D, x) \in SUBSET D /\ g[x] = h[Fibre(p, D, x)]
      BY <1>2
    <3> DEFINE A == Fibre(p, D, x)
               B == over(s \ {x})
    <3> HIDE DEF over, A, B
    <3>4. h[over(s)] = h[Fibre(p, D, x)] + h[over(s \ {x})]
      <4>1. A \in SUBSET D /\ B \in SUBSET D /\ A \cap B = {} /\ over(s) = A \cup B
        BY <3>1, <3>2, <3>3 DEF A, B
      <4>2. h[A \cup B] = h[A] + h[B]
        BY <1>1, <4>1, SumParted
      <4> QED BY <4>1, <4>2 DEF A, B
    <3> QED BY <3>3, <3>4
  <2> QED BY <2>1, <2>2, <2>3 DEF Additive
<1>5. SumFunction(g) = l[E]
  <2> HIDE DEF l
  <2> QED BY <1>3, <1>4, SumUnique
<1>6. over(E) = D
  OBVIOUS
<1> HIDE DEF over
<1> QED BY <1>1, <1>2, <1>3, <1>5, <1>6

\* A quotient is the only number with its property, and quotients compose.
LEMMA QuotientUnique ==
  ASSUME NEW n \in Nat, NEW p \in Nat \ {0}, NEW q \in Nat, p * q <= n, n < p * q + p
  PROVE  n \div p = q
<1> DEFINE g == n \div p
<1>1. g \in Nat /\ p * g <= n /\ n < p * g + p
  OBVIOUS
<1> HIDE DEF g
<1>2. ASSUME NEW u \in Nat, NEW v \in Nat, u < v PROVE p * u + p <= p * v
  <2>1. p * (v - (u + 1)) >= 0 /\ v - (u + 1) \in Nat
    BY <1>2
  <2>2. p * (v - (u + 1)) = p * v - p * u - p
    BY <1>2
  <2>3. p * u \in Int /\ p * v \in Int
    BY <1>2
  <2> QED BY <2>1, <2>2, <2>3
<1>3. p * g \in Int /\ p * q \in Int
  BY <1>1
<1>4. ~(g < q)
  <2> SUFFICES ASSUME g < q PROVE FALSE
    OBVIOUS
  <2>1. p * g + p <= p * q
    BY <1>1, <1>2
  <2> QED BY <1>1, <1>3, <2>1
<1>5. ~(q < g)
  <2> SUFFICES ASSUME q < g PROVE FALSE
    OBVIOUS
  <2>1. p * q + p <= p * g
    BY <1>1, <1>2
  <2> QED BY <1>1, <1>3, <2>1
<1>6. g = q
  BY <1>1, <1>4, <1>5
<1> QED BY <1>6 DEF g

\* Halving a quotient.
LEMMA QuotientHalved ==
  ASSUME NEW n \in Nat, NEW p \in Nat \ {0}
  PROVE  n \div (2 * p) = (n \div p) \div 2
<1> DEFINE g == n \div p
           q == g \div 2
<1>1. g \in Nat /\ p * g <= n /\ n < p * g + p
  OBVIOUS
<1> HIDE DEF g
<1>2. q \in Nat /\ (g = 2 * q \/ g = 2 * q + 1)
  BY <1>1
<1> HIDE DEF q
<1>3. p * q \in Int /\ p * (2 * q) = 2 * (p * q) /\ p * (2 * q + 1) = 2 * (p * q) + p
      /\ (2 * p) * q = 2 * (p * q)
  BY <1>2
<1>4. (2 * p) * q <= n /\ n < (2 * p) * q + 2 * p
  <2>1. p * g = 2 * (p * q) \/ p * g = 2 * (p * q) + p
    BY <1>2, <1>3
  <2> QED BY <1>1, <1>3, <2>1
<1>5. n \div (2 * p) = q
  <2>1. 2 * p \in Nat \ {0}
    OBVIOUS
  <2> QED BY <1>2, <1>4, <2>1, QuotientUnique
<1> QED BY <1>5 DEF g, q

\* 2^0, of which the provers know nothing.
LEMMA PowerOfZero == 2^0 = 1
<1>1. 1..0 = {} /\ SUBSET (1..0) = {{}}
  OBVIOUS
<1>2. Cardinality(SUBSET (1..0)) = 2^0
  BY PowerCounts
<1>3. Cardinality({{}}) = 1
  BY FS_Singleton
<1> QED BY <1>1, <1>2, <1>3

=============================================================================
