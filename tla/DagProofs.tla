------------------------------- MODULE DagProofs -------------------------------
(***************************************************************************)
(* Proofs about ExpressionDag: the verdict on a DAG is right, for every    *)
(* finite DAG and depth limit.                                             *)
(*                                                                         *)
(* The distances from the roots are told apart without induction over      *)
(* data: a node at distance k ends a path of k edges, a set of nodes that  *)
(* each have a child in it is never left (Trap), and ranks that go down    *)
(* along edges rule such a set out (Ranked).  visit keeps a stack that is  *)
(* a path, and ranks the nodes it has finished.  decode repeats the walk   *)
(* that visit made to its end, which is why it needs no depth limit.       *)
(***************************************************************************)
EXTENDS ExpressionDag, RankLemmas, SequenceTheorems

-----------------------------------------------------------------------------
(* Graphs: what the distances from the roots are. *)

Args(d, n) == d.nodes[n].args
Wired(d) == d \in Dags /\ ShapeOK(d)

\* A set of numbers with 0 and every successor of its members is all of them.
LEMMA Induction ==
  ASSUME NEW T, 0 \in T, \A k \in Nat : k \in T => k + 1 \in T
  PROVE  Nat \subseteq T
<1> DEFINE U == Nat \ T
<1> SUFFICES ASSUME U # {} PROVE FALSE
  OBVIOUS
<1>1. PICK m \in U : \A k \in U : m <= k
  <2>1. U \in SUBSET Nat
    OBVIOUS
  <2> HIDE DEF U
  <2> QED BY <2>1, LeastNatural
<1>2. m # 0 /\ m - 1 \in Nat /\ m - 1 \notin U
  BY <1>1
<1> QED BY <1>1, <1>2

\* References of a DAG of the right shape are to its nodes.
LEMMA WiredFacts ==
  ASSUME NEW d, Wired(d)
  PROVE  /\ Len(d.nodes) \in Nat /\ Nodes(d) = 1..Len(d.nodes)
         /\ d.roots \in Seq(Nat) /\ Len(d.roots) \in Nat /\ DOMAIN d.roots = 1..Len(d.roots)
         /\ Range(d.roots) \subseteq Nodes(d)
         /\ \A j \in 1..Len(d.roots) : d.roots[j] \in Nodes(d)
         /\ \A n \in Nodes(d) :
              /\ Args(d, n) \in Seq(Nat) /\ Len(Args(d, n)) \in Nat
              /\ DOMAIN Args(d, n) = 1..Len(Args(d, n))
              /\ Range(Args(d, n)) \subseteq Nodes(d)
              /\ \A j \in 1..Len(Args(d, n)) : Args(d, n)[j] \in Nodes(d)
<1>1. d.nodes \in Seq([op : STRING, args : Seq(Nat)]) /\ d.roots \in Seq(Nat)
  BY DagAssumption DEF Wired
<1>2. Len(d.nodes) \in Nat /\ Nodes(d) = 1..Len(d.nodes)
  BY <1>1 DEF Nodes
<1>3. /\ Len(d.roots) \in Nat /\ DOMAIN d.roots = 1..Len(d.roots)
      /\ Range(d.roots) \subseteq Nodes(d)
  BY <1>1 DEF Wired, ShapeOK
<1>4. \A j \in 1..Len(d.roots) : d.roots[j] \in Nodes(d)
  BY <1>3 DEF Range
<1>5. ASSUME NEW n \in Nodes(d)
      PROVE  /\ Args(d, n) \in Seq(Nat) /\ Len(Args(d, n)) \in Nat
             /\ DOMAIN Args(d, n) = 1..Len(Args(d, n))
             /\ Range(Args(d, n)) \subseteq Nodes(d)
             /\ \A j \in 1..Len(Args(d, n)) : Args(d, n)[j] \in Nodes(d)
  <2> DEFINE R == [op : STRING, args : Seq(Nat)]
  <2>5. d.nodes \in Seq(R) /\ n \in 1..Len(d.nodes)
    BY <1>1, <1>2
  <2>6. \A r \in R : r.args \in Seq(Nat)
    OBVIOUS
  <2> HIDE DEF R
  <2>7. d.nodes[n] \in R
    BY <2>5
  <2>1. Args(d, n) \in Seq(Nat)
    BY <2>6, <2>7 DEF Args
  <2>2. Len(Args(d, n)) \in Nat /\ DOMAIN Args(d, n) = 1..Len(Args(d, n))
    BY <2>1
  <2>3. Range(Args(d, n)) \subseteq Nodes(d)
    BY DEF Wired, ShapeOK, Args
  <2>4. \A j \in 1..Len(Args(d, n)) : Args(d, n)[j] \in Range(Args(d, n))
    BY <2>2 DEF Range
  <2> QED BY <2>1, <2>2, <2>3, <2>4
<1> QED BY <1>1, <1>2, <1>3, <1>4, <1>5

\* The recursion of AtDistance has a solution, so that its equations hold.
LEMMA Distances ==
  /\ AtDistance[0] = Range(dag.roots)
  /\ \A k \in Nat : AtDistance[k + 1] = Children(AtDistance[k])
<1> DEFINE R == Range(dag.roots)
           Upto(f, n) == f = [k \in 0..n |-> IF k = 0 THEN R ELSE Children(f[k - 1])]
<1> HIDE DEF R
<1>1. \A n \in Nat : \E f : Upto(f, n)
  <2> DEFINE T == {n \in Nat : \E f : Upto(f, n)}
  <2>1. 0 \in T
    <3>1. Upto([k \in 0..0 |-> R], 0)
      OBVIOUS
    <3> QED BY <3>1
  <2>2. ASSUME NEW n \in Nat, n \in T PROVE n + 1 \in T
    <3>1. PICK f : Upto(f, n)
      BY <2>2
    <3> DEFINE g == [k \in 0..(n + 1) |-> IF k = n + 1 THEN Children(f[n]) ELSE f[k]]
    <3>2. \A k \in 0..n : f[k] = IF k = 0 THEN R ELSE Children(f[k - 1])
      BY <3>1
    <3>3. DOMAIN g = 0..(n + 1) /\ \A k \in 0..n : g[k] = f[k] /\ g[n + 1] = Children(f[n])
      OBVIOUS
    <3>4. \A k \in 0..(n + 1) : g[k] = IF k = 0 THEN R ELSE Children(g[k - 1])
      <4> HIDE DEF g
      <4> TAKE k \in 0..(n + 1)
      <4>1. CASE k = n + 1
        <5>1. k - 1 = n /\ n \in 0..n /\ k # 0
          BY <4>1
        <5> QED BY <3>3, <4>1, <5>1
      <4>2. CASE k \in 0..n
        <5>1. k = 0 \/ k - 1 \in 0..n
          BY <4>2
        <5> QED BY <3>2, <3>3, <4>2, <5>1
      <4> QED BY <4>1, <4>2
    <3>5. g = [k \in 0..(n + 1) |-> g[k]]
      OBVIOUS
    <3> HIDE DEF g
    <3>6. Upto(g, n + 1)
      BY <3>4, <3>5
    <3> QED BY <3>6
  <2> HIDE DEF T
  <2>3. Nat \subseteq T
    BY <2>1, <2>2, Induction
  <2> QED BY <2>3 DEF T
<1>2. ASSUME NEW m \in Nat, NEW n \in Nat, NEW f, NEW g, Upto(f, m), Upto(g, n)
      PROVE  \A k \in 0..m : k <= n => f[k] = g[k]
  <2> DEFINE T == {k \in Nat : k <= m /\ k <= n => f[k] = g[k]}
  <2>1. /\ \A k \in 0..m : f[k] = IF k = 0 THEN R ELSE Children(f[k - 1])
        /\ \A k \in 0..n : g[k] = IF k = 0 THEN R ELSE Children(g[k - 1])
    BY <1>2
  <2> HIDE DEF Upto
  <2>2. 0 \in T
    BY <2>1
  <2>3. ASSUME NEW k \in Nat, k \in T PROVE k + 1 \in T
    <3> SUFFICES ASSUME k + 1 <= m, k + 1 <= n PROVE f[k + 1] = g[k + 1]
      OBVIOUS
    <3>1. f[k] = g[k]
      BY <2>3
    <3>2. k + 1 \in 0..m /\ k + 1 \in 0..n /\ k + 1 # 0 /\ (k + 1) - 1 = k
      OBVIOUS
    <3> QED BY <2>1, <3>1, <3>2
  <2> HIDE DEF T
  <2>4. Nat \subseteq T
    BY <2>2, <2>3, Induction
  <2> QED BY <2>4 DEF T
<1> DEFINE h(n) == CHOOSE f : Upto(f, n)
           F == [k \in Nat |-> h(k)[k]]
<1>3. \A n \in Nat : Upto(h(n), n)
  BY <1>1
<1> HIDE DEF h
<1>4. ASSUME NEW k \in Nat
      PROVE  F[k] = IF k = 0 THEN R ELSE Children(F[k - 1])
  <2>1. h(k)[k] = IF k = 0 THEN R ELSE Children(h(k)[k - 1])
    <3>1. Upto(h(k), k)
      BY <1>3
    <3>2. k \in 0..k
      OBVIOUS
    <3> QED BY <3>1, <3>2
  <2>2. CASE k = 0
    BY <2>1, <2>2
  <2>3. CASE k # 0
    <3>1. k - 1 \in Nat /\ k - 1 \in 0..(k - 1) /\ k - 1 <= k
      BY <2>3
    <3>2. h(k - 1)[k - 1] = h(k)[k - 1]
      <4>1. Upto(h(k - 1), k - 1) /\ Upto(h(k), k)
        BY <1>3, <3>1
      <4> HIDE DEF Upto
      <4> QED BY <1>2, <3>1, <4>1
    <3> QED BY <2>1, <2>3, <3>1, <3>2
  <2> QED BY <2>2, <2>3
<1>5. F = [k \in Nat |-> IF k = 0 THEN R ELSE Children(F[k - 1])]
  <2>1. F = [k \in Nat |-> F[k]]
    OBVIOUS
  <2> HIDE DEF F
  <2> QED BY <1>4, <2>1
<1>6. AtDistance = [k \in Nat |-> IF k = 0 THEN R ELSE Children(AtDistance[k - 1])]
  <2> HIDE DEF F
  <2>1. \E f : f = [k \in Nat |-> IF k = 0 THEN R ELSE Children(f[k - 1])]
    BY <1>5
  <2> QED BY <2>1 DEF AtDistance, R
<1>7. \A k \in Nat : AtDistance[k] = IF k = 0 THEN R ELSE Children(AtDistance[k - 1])
  <2> DEFINE A == AtDistance
  <2> HIDE DEF A
  <2>1. A = [k \in Nat |-> IF k = 0 THEN R ELSE Children(A[k - 1])]
    BY <1>6 DEF A
  <2>2. \A k \in Nat : A[k] = IF k = 0 THEN R ELSE Children(A[k - 1])
    BY <2>1
  <2> QED BY <2>2 DEF A
<1> HIDE DEF F
<1>8. AtDistance[0] = R
  BY <1>7
<1>9. \A k \in Nat : AtDistance[k + 1] = Children(AtDistance[k])
  <2> TAKE k \in Nat
  <2>1. k + 1 \in Nat /\ k + 1 # 0 /\ (k + 1) - 1 = k
    OBVIOUS
  <2> QED BY <1>7, <2>1
<1> QED BY <1>8, <1>9 DEF R

-----------------------------------------------------------------------------
(* Graphs: what tells their properties from a distance. *)

\* Everything the roots refer to, directly or not, is in C.
Closed(d, C) ==
  Range(d.roots) \subseteq C /\ \A n \in C : Range(Args(d, n)) \subseteq C

\* A path from a root.
Path(d, p) ==
  /\ p \in Seq(Nodes(d)) /\ p # <<>> /\ p[1] \in Range(d.roots)
  /\ \A i \in 1..(Len(p) - 1) : p[i + 1] \in Range(Args(d, p[i]))
Leads(d, n) == \E p : Path(d, p) /\ p[Len(p)] = n

\* A set a path never has to leave.
Trap(d, S) ==
  S # {} /\ S \subseteq Nodes(d) /\ \A n \in S : Range(Args(d, n)) \cap S # {}

\* The nodes of C lie above their arguments.
Ranked(d, C, rank, m) ==
  /\ rank \in [C -> 1..m]
  /\ \A n \in C : \A c \in Range(Args(d, n)) : c \in C /\ rank[c] < rank[n]

\* The i-th node of a path is at distance i - 1.
LEMMA PathDistance ==
  ASSUME Wired(dag), NEW p, Path(dag, p)
  PROVE  \A i \in 1..Len(p) : p[i] \in AtDistance[i - 1]
<1> DEFINE T == {k \in Nat : k < Len(p) => p[k + 1] \in AtDistance[k]}
<1>1. /\ Len(p) \in Nat \ {0} /\ p[1] \in Range(dag.roots)
      /\ \A i \in 1..(Len(p) - 1) : p[i + 1] \in Range(Args(dag, p[i]))
  BY DEF Path
<1>2. 0 \in T
  BY <1>1, Distances
<1>3. ASSUME NEW k \in Nat, k \in T PROVE k + 1 \in T
  <2> SUFFICES ASSUME k + 1 < Len(p) PROVE p[(k + 1) + 1] \in AtDistance[k + 1]
    OBVIOUS
  <2>1. p[k + 1] \in AtDistance[k]
    BY <1>1, <1>3
  <2>2. k + 1 \in 1..(Len(p) - 1)
    BY <1>1
  <2>3. p[(k + 1) + 1] \in Range(Args(dag, p[k + 1]))
    BY <1>1, <2>2
  <2>4. p[(k + 1) + 1] \in Children(AtDistance[k])
    BY <2>1, <2>3 DEF Children, Args
  <2> QED BY <2>4, Distances
<1> HIDE DEF T
<1>4. Nat \subseteq T
  BY <1>2, <1>3, Induction
<1> USE DEF T
<1>5. ASSUME NEW i \in 1..Len(p) PROVE p[i] \in AtDistance[i - 1]
  <2>1. i - 1 \in Nat /\ i - 1 < Len(p) /\ (i - 1) + 1 = i
    BY <1>1
  <2> QED BY <1>4, <2>1
<1> QED BY <1>5

\* A closed set holds everything at any distance.
LEMMA ClosedDistance ==
  ASSUME NEW C, Closed(dag, C)
  PROVE  \A k \in Nat : AtDistance[k] \subseteq C
<1> DEFINE T == {k \in Nat : AtDistance[k] \subseteq C}
<1>1. 0 \in T
  BY Distances DEF Closed
<1>2. ASSUME NEW k \in Nat, k \in T PROVE k + 1 \in T
  <2>1. Children(AtDistance[k]) \subseteq C
    BY <1>2 DEF Children, Closed, Args
  <2> QED BY <2>1, Distances
<1> HIDE DEF T
<1>3. Nat \subseteq T
  BY <1>1, <1>2, Induction
<1> QED BY <1>3 DEF T

\* Once there is nothing at some distance, there is nothing further away.
LEMMA EmptyDistance ==
  ASSUME NEW m \in Nat, AtDistance[m] = {}
  PROVE  \A k \in Nat : AtDistance[m + k] = {}
<1> DEFINE T == {k \in Nat : AtDistance[m + k] = {}}
<1>1. 0 \in T
  OBVIOUS
<1>2. ASSUME NEW k \in Nat, k \in T PROVE k + 1 \in T
  <2>1. m + k \in Nat /\ (m + k) + 1 = m + (k + 1)
    OBVIOUS
  <2>2. Children(AtDistance[m + k]) = {}
    BY <1>2 DEF Children
  <2>3. AtDistance[(m + k) + 1] = {}
    BY <2>1, <2>2, Distances
  <2> QED BY <2>1, <2>3
<1> HIDE DEF T
<1>3. Nat \subseteq T
  BY <1>1, <1>2, Induction
<1> QED BY <1>3 DEF T

\* A path that comes into a trap never ends.
LEMMA TrapDistance ==
  ASSUME Wired(dag), NEW S, Trap(dag, S), NEW n \in S, Leads(dag, n)
  PROVE  \A k \in Nat : AtDistance[k] # {}
<1>1. PICK p : Path(dag, p) /\ p[Len(p)] = n
  BY DEF Leads
<1> DEFINE m == Len(p) - 1
<1>2. Len(p) \in Nat \ {0} /\ m \in Nat /\ Len(p) \in 1..Len(p)
  BY <1>1 DEF Path
<1>3. n \in AtDistance[m]
  BY <1>1, <1>2, PathDistance
<1> HIDE DEF m
<1> DEFINE T == {k \in Nat : AtDistance[m + k] \cap S # {}}
<1>4. 0 \in T
  BY <1>2, <1>3
<1>5. ASSUME NEW k \in Nat, k \in T PROVE k + 1 \in T
  <2>1. m + k \in Nat /\ (m + k) + 1 = m + (k + 1)
    BY <1>2
  <2>2. PICK s \in S : s \in AtDistance[m + k]
    BY <1>5
  <2>3. PICK c \in S : c \in Range(Args(dag, s))
    BY DEF Trap
  <2>4. c \in Children(AtDistance[m + k])
    BY <2>2, <2>3 DEF Children, Args
  <2>5. AtDistance[(m + k) + 1] \cap S # {}
    BY <2>1, <2>4, Distances
  <2> QED BY <2>1, <2>5
<1> HIDE DEF T
<1>6. Nat \subseteq T
  BY <1>4, <1>5, Induction
<1>7. ASSUME NEW k \in Nat, AtDistance[k] = {} PROVE FALSE
  <2>1. AtDistance[k + m] = {}
    BY <1>2, <1>7, EmptyDistance
  <2>2. k + m = m + k
    BY <1>2
  <2> QED BY <1>6, <2>1, <2>2 DEF T
<1> QED BY <1>7

\* Distances are bounded by the ranks below the roots.
LEMMA RankedDistance ==
  ASSUME Wired(dag), NEW C, NEW m \in Nat, NEW rank, Ranked(dag, C, rank, m),
         Range(dag.roots) \subseteq C
  PROVE  AtDistance[m] = {}
<1> DEFINE T == {k \in Nat : \A n \in AtDistance[k] : n \in C /\ rank[n] <= m - k}
<1>1. 0 \in T
  BY Distances DEF Ranked
<1>2. ASSUME NEW k \in Nat, k \in T PROVE k + 1 \in T
  <2>1. ASSUME NEW c \in AtDistance[k + 1]
        PROVE  c \in C /\ rank[c] <= m - (k + 1)
    <3>1. PICK n \in AtDistance[k] : c \in Range(Args(dag, n))
      BY Distances DEF Children, Args
    <3>2. n \in C /\ rank[n] <= m - k
      BY <1>2
    <3>3. c \in C /\ rank[c] < rank[n] /\ rank[c] \in Int /\ rank[n] \in Int
      BY <3>1, <3>2 DEF Ranked
    <3> QED BY <3>2, <3>3
  <2> QED BY <2>1
<1> HIDE DEF T
<1>3. Nat \subseteq T
  BY <1>1, <1>2, Induction
<1>4. ASSUME NEW n \in AtDistance[m] PROVE FALSE
  <2>1. n \in C /\ rank[n] <= m - m
    BY <1>3 DEF T
  <2> QED BY <2>1 DEF Ranked
<1> QED BY <1>4

\* There is no trap among ranked nodes.
LEMMA RankedNoTrap ==
  ASSUME NEW d, NEW C, NEW m \in Nat, NEW rank, Ranked(d, C, rank, m),
         NEW S, Trap(d, S), S \subseteq C
  PROVE  FALSE
<1> DEFINE R == {rank[n] : n \in S}
<1>1. R \in SUBSET Nat /\ R # {}
  BY DEF Ranked, Trap
<1> HIDE DEF R
<1>2. PICK r \in R : \A k \in R : r <= k
  BY <1>1, LeastNatural
<1> USE DEF R
<1>3. PICK n \in S : rank[n] = r
  OBVIOUS
<1>4. PICK c \in S : c \in Range(Args(d, n))
  BY DEF Trap
<1>5. rank[c] < rank[n] /\ rank[c] \in R /\ rank[c] \in Int /\ rank[n] \in Int
  BY <1>4 DEF Ranked
<1> QED BY <1>2, <1>3, <1>5

\* What a refusal is for: a cycle below a root, a node below none, a long path.
Fault(d) ==
  \/ \E S : Trap(d, S) /\ \E n \in S : Leads(d, n)
  \/ \E C : Closed(d, C) /\ C \subseteq Nodes(d) /\ C # Nodes(d)
  \/ \E p : Path(d, p) /\ Len(p) = MaxDepth + 2

\* What a visit of all nodes establishes.
Sound(d) ==
  /\ \E rank : Ranked(d, Nodes(d), rank, Len(d.nodes))
  /\ \A n \in Nodes(d) : Leads(d, n)

\* Each of the three faults shows in the distances.
LEMMA FaultShows ==
  ASSUME Wired(dag), Fault(dag)
  PROVE  ~Acyclic \/ Reachable # Nodes(dag) \/ AtDistance[MaxDepth + 1] # {}
<1>0. MaxDepth \in Nat /\ Len(dag.nodes) \in Nat
  BY DagAssumption, WiredFacts
<1>1. CASE \E S : Trap(dag, S) /\ \E n \in S : Leads(dag, n)
  <2>1. \A k \in Nat : AtDistance[k] # {}
    BY <1>1, TrapDistance
  <2> QED BY <1>0, <2>1 DEF Acyclic
<1>2. CASE \E C : Closed(dag, C) /\ C \subseteq Nodes(dag) /\ C # Nodes(dag)
  <2>1. PICK C : Closed(dag, C) /\ C \subseteq Nodes(dag) /\ C # Nodes(dag)
    BY <1>2
  <2>2. \A k \in Nat : AtDistance[k] \subseteq C
    BY <2>1, ClosedDistance
  <2>3. \A k \in 0..Len(dag.nodes) : k \in Nat
    BY <1>0
  <2>4. Reachable \subseteq C
    BY <2>2, <2>3 DEF Reachable
  <2> QED BY <2>1, <2>4
<1>3. CASE \E p : Path(dag, p) /\ Len(p) = MaxDepth + 2
  <2>1. PICK p : Path(dag, p) /\ Len(p) = MaxDepth + 2
    BY <1>3
  <2>2. MaxDepth + 2 \in 1..Len(p) /\ (MaxDepth + 2) - 1 = MaxDepth + 1
    BY <1>0, <2>1
  <2>3. p[MaxDepth + 2] \in AtDistance[(MaxDepth + 2) - 1]
    BY <2>1, <2>2, PathDistance
  <2> QED BY <2>2, <2>3
<1> QED BY <1>1, <1>2, <1>3 DEF Fault

\* A sound DAG has no cycle and hangs together.
LEMMA SoundShows ==
  ASSUME Wired(dag), Sound(dag)
  PROVE  Acyclic /\ Reachable = Nodes(dag)
<1> DEFINE N == Len(dag.nodes)
<1>1. /\ N \in Nat /\ Range(dag.roots) \subseteq Nodes(dag)
      /\ Closed(dag, Nodes(dag))
  BY WiredFacts DEF Closed
<1>2. AtDistance[N] = {}
  BY <1>1, RankedDistance DEF Sound
<1>3. ASSUME NEW n \in Nodes(dag) PROVE n \in Reachable
  <2>1. PICK p : Path(dag, p) /\ p[Len(p)] = n
    BY DEF Sound, Leads
  <2> DEFINE k == Len(p) - 1
  <2>2. Len(p) \in 1..Len(p) /\ k \in Nat
    BY <2>1 DEF Path
  <2>3. n \in AtDistance[k]
    BY <2>1, <2>2, PathDistance
  <2> HIDE DEF k
  <2>4. ASSUME k > N PROVE FALSE
    <3>1. k - N \in Nat /\ N + (k - N) = k
      BY <1>1, <2>2, <2>4
    <3>2. AtDistance[N + (k - N)] = {}
      BY <1>1, <1>2, <3>1, EmptyDistance
    <3> QED BY <2>3, <3>1, <3>2
  <2>5. k \in 0..N
    BY <1>1, <2>2, <2>4
  <2> QED BY <2>3, <2>5 DEF Reachable
<1>4. \A k \in 0..N : AtDistance[k] \subseteq Nodes(dag)
  <2>1. \A k \in Nat : AtDistance[k] \subseteq Nodes(dag)
    BY <1>1, ClosedDistance
  <2>2. \A k \in 0..N : k \in Nat
    BY <1>1
  <2> QED BY <2>1, <2>2
<1>5. Reachable \subseteq Nodes(dag)
  BY <1>4 DEF Reachable
<1> QED BY <1>2, <1>3, <1>5 DEF Acyclic

-----------------------------------------------------------------------------
(* The depth-first search of visit and of decode. *)

\* A call on the stack has gone through the arguments before the next one; the
\* last of them is what the call above it is for.
Frames ==
  /\ stack \in Seq([node : Nodes(dag), next : Nat \ {0}])
  /\ \A i \in 1..Len(stack) :
       /\ stack[i].next <= Len(Args(dag, stack[i].node)) + 1
       /\ \A j \in 1..(stack[i].next - 1) :
            \/ Args(dag, stack[i].node)[j] \in finished
            \/ i < Len(stack) /\ j = stack[i].next - 1
  /\ \A i \in 1..(Len(stack) - 1) :
       /\ stack[i].next > 1
       /\ stack[i + 1].node = Args(dag, stack[i].node)[stack[i].next - 1]

\* So it is with the roots.
Roots ==
  /\ root \in 0..Len(dag.roots)
  /\ stack # <<>> => root > 0 /\ stack[1].node = dag.roots[root]
  /\ \A j \in 1..root : dag.roots[j] \in finished \/ (stack # <<>> /\ j = root)

\* Finished nodes hang below the roots and were finished after their arguments.
Finished ==
  /\ finished \subseteq Nodes(dag)
  /\ \A n \in finished : Leads(dag, n)
  /\ \E rank : Ranked(dag, finished, rank, Cardinality(finished))

Searching == Frames /\ Roots /\ Finished

\* The stack is a path from a root.
LEMMA StackPath ==
  ASSUME Wired(dag), Searching, stack # <<>>
  PROVE  /\ Path(dag, [i \in 1..Len(stack) |-> stack[i].node])
         /\ Len(stack) \in Nat \ {0}
         /\ Len([i \in 1..Len(stack) |-> stack[i].node]) = Len(stack)
<1> DEFINE p == [i \in 1..Len(stack) |-> stack[i].node]
<1>1. /\ Len(stack) \in Nat \ {0}
      /\ \A i \in 1..Len(stack) : stack[i].node \in Nodes(dag) /\ stack[i].next \in Nat \ {0}
  <2> DEFINE Frame == [node : Nodes(dag), next : Nat \ {0}]
  <2>1. stack \in Seq(Frame)
    BY DEF Searching, Frames
  <2>2. \A f \in Frame : f.node \in Nodes(dag) /\ f.next \in Nat \ {0}
    OBVIOUS
  <2> HIDE DEF Frame
  <2>3. Len(stack) \in Nat \ {0} /\ \A i \in 1..Len(stack) : stack[i] \in Frame
    BY <2>1
  <2> QED BY <2>2, <2>3
<1>2. p \in Seq(Nodes(dag)) /\ Len(p) = Len(stack) /\ p # <<>>
  BY <1>1
<1>3. \A i \in 1..Len(stack) : p[i] = stack[i].node
  OBVIOUS
<1> HIDE DEF p
<1>4. p[1] \in Range(dag.roots)
  <2>1. 1 \in 1..Len(stack) /\ root \in 1..Len(dag.roots) /\ stack[1].node = dag.roots[root]
    BY <1>1, WiredFacts DEF Searching, Roots
  <2>2. dag.roots[root] \in Range(dag.roots)
    BY <2>1, WiredFacts DEF Range
  <2> QED BY <1>3, <2>1, <2>2
<1>5. ASSUME NEW i \in 1..(Len(p) - 1) PROVE p[i + 1] \in Range(Args(dag, p[i]))
  <2>1. i \in 1..Len(stack) /\ i + 1 \in 1..Len(stack) /\ i \in 1..(Len(stack) - 1)
    BY <1>1, <1>2
  <2>2. /\ stack[i].next > 1 /\ stack[i].next <= Len(Args(dag, stack[i].node)) + 1
        /\ stack[i + 1].node = Args(dag, stack[i].node)[stack[i].next - 1]
    BY <2>1 DEF Searching, Frames
  <2>3. stack[i].node \in Nodes(dag) /\ stack[i].next \in Nat
    BY <1>1, <2>1
  <2>4. /\ Len(Args(dag, stack[i].node)) \in Nat
        /\ DOMAIN Args(dag, stack[i].node) = 1..Len(Args(dag, stack[i].node))
    BY <2>3, WiredFacts
  <2>5. stack[i].next - 1 \in DOMAIN Args(dag, stack[i].node)
    BY <2>2, <2>3, <2>4
  <2>6. stack[i + 1].node \in Range(Args(dag, stack[i].node))
    BY <2>2, <2>5 DEF Range
  <2> QED BY <1>3, <2>1, <2>6
<1>6. Path(dag, p)
  BY <1>2, <1>4, <1>5 DEF Path
<1> QED BY <1>1, <1>2, <1>6 DEF p

\* What is called next, and what its caller goes on with.
LEMMA PendingFacts ==
  ASSUME Wired(dag), Searching, NEW node \in Pending
  PROVE  /\ Pending = {node} /\ node \in Nodes(dag)
         /\ stack = <<>> =>
              root + 1 \in 1..Len(dag.roots) /\ node = dag.roots[root + 1] /\ Advanced = <<>>
         /\ stack # <<>> =>
              LET m == Len(stack)
              IN /\ m \in Nat \ {0} /\ stack[m].node \in Nodes(dag)
                 /\ stack[m].next \in 1..Len(Args(dag, stack[m].node))
                 /\ node = Args(dag, stack[m].node)[stack[m].next]
                 /\ Advanced \in Seq([node : Nodes(dag), next : Nat \ {0}])
                 /\ Len(Advanced) = m
                 /\ \A i \in 1..m : Advanced[i].node = stack[i].node
                 /\ \A i \in 1..(m - 1) : Advanced[i] = stack[i]
                 /\ Advanced[m].next = stack[m].next + 1
<1>1. CASE stack = <<>>
  <2>1. root < Len(dag.roots) /\ Pending = {dag.roots[root + 1]}
    BY <1>1 DEF Pending
  <2>2. root + 1 \in 1..Len(dag.roots)
    BY <2>1, WiredFacts DEF Searching, Roots
  <2>3. dag.roots[root + 1] \in Nodes(dag)
    BY <2>2, WiredFacts
  <2> QED BY <1>1, <2>1, <2>2, <2>3 DEF Advanced
<1>2. CASE stack # <<>>
  <2> DEFINE m == Len(stack)
             Frame == [node : Nodes(dag), next : Nat \ {0}]
  <2>1. stack \in Seq(Frame) /\ m \in Nat \ {0} /\ m \in 1..m
    BY <1>2 DEF Searching, Frames
  <2>2. stack[m] \in Frame
    <3> HIDE DEF Frame, m
    <3> QED BY <2>1 DEF m
  <2>3. Last(stack) = stack[m]
    BY DEF Last
  <2>4. /\ stack[m].next <= Len(Args(dag, stack[m].node))
        /\ Pending = {Args(dag, stack[m].node)[stack[m].next]}
    BY <1>2, <2>3 DEF Pending, Args
  <2>5. stack[m].node \in Nodes(dag) /\ stack[m].next \in Nat \ {0}
    BY <2>2
  <2>6. stack[m].next \in 1..Len(Args(dag, stack[m].node))
    BY <2>4, <2>5, WiredFacts
  <2>7. Args(dag, stack[m].node)[stack[m].next] \in Nodes(dag)
    BY <2>5, <2>6, WiredFacts
  <2> DEFINE top == [stack[m] EXCEPT !.next = @ + 1]
  <2>8. top \in Frame /\ top.node = stack[m].node /\ top.next = stack[m].next + 1
    BY <2>2
  <2> HIDE DEF Frame, top
  <2>9. Advanced = [stack EXCEPT ![m] = top]
    BY <1>2 DEF Advanced, top
  <2>10. /\ Advanced \in Seq(Frame) /\ Len(Advanced) = m
         /\ \A i \in 1..m : Advanced[i] = IF i = m THEN top ELSE stack[i]
    BY <2>1, <2>8, <2>9
  <2>11. \A i \in 1..(m - 1) : Advanced[i] = stack[i]
    BY <2>1, <2>10
  <2>12. Advanced[m].next = stack[m].next + 1 /\ \A i \in 1..m : Advanced[i].node = stack[i].node
    BY <2>1, <2>8, <2>10
  <2> QED BY <1>2, <2>1, <2>4, <2>5, <2>6, <2>7, <2>10, <2>11, <2>12 DEF Frame
<1> QED BY <1>1, <1>2

\* The next node is below the last one of the stack, or a root.
LEMMA PendingPath ==
  ASSUME Wired(dag), Searching, NEW node \in Pending
  PROVE  \E p : Path(dag, p) /\ Len(p) = Len(stack) + 1 /\ p[Len(p)] = node
<1>1. CASE stack = <<>>
  <2> DEFINE p == <<node>>
  <2>1. node \in Nodes(dag) /\ root + 1 \in 1..Len(dag.roots) /\ node = dag.roots[root + 1]
    BY <1>1, PendingFacts
  <2>2. node \in Range(dag.roots)
    BY <2>1, WiredFacts DEF Range
  <2>3. Path(dag, p) /\ Len(p) = Len(stack) + 1 /\ p[Len(p)] = node
    BY <1>1, <2>1, <2>2 DEF Path
  <2> QED BY <2>3
<1>2. CASE stack # <<>>
  <2> DEFINE m == Len(stack)
             q == [i \in 1..m |-> stack[i].node]
             p == [i \in 1..(m + 1) |-> IF i <= m THEN stack[i].node ELSE node]
  <2>1. Path(dag, q) /\ m \in Nat \ {0} /\ Len(q) = m
    BY <1>2, StackPath
  <2>2. /\ node \in Nodes(dag) /\ stack[m].node \in Nodes(dag)
        /\ stack[m].next \in 1..Len(Args(dag, stack[m].node))
        /\ node = Args(dag, stack[m].node)[stack[m].next]
    BY <1>2, PendingFacts
  <2>3. node \in Range(Args(dag, stack[m].node))
    BY <2>2, WiredFacts DEF Range
  <2>4. \A i \in 1..m : stack[i].node \in Nodes(dag)
    <3>1. q \in Seq(Nodes(dag))
      BY <2>1 DEF Path
    <3> HIDE DEF m
    <3>2. \A i \in 1..m : q[i] \in Nodes(dag) /\ q[i] = stack[i].node
      BY <2>1, <3>1
    <3> QED BY <3>2
  <2> HIDE DEF m
  <2>5. p \in Seq(Nodes(dag)) /\ Len(p) = m + 1
    BY <2>1, <2>2, <2>4
  <2>6. /\ \A i \in 1..m : p[i] = q[i] /\ q[i] = stack[i].node
        /\ p[m + 1] = node
    BY <2>1
  <2> HIDE DEF p, q
  <2>7. p[1] \in Range(dag.roots)
    BY <2>1, <2>6 DEF Path
  <2>8. ASSUME NEW i \in 1..(Len(p) - 1) PROVE p[i + 1] \in Range(Args(dag, p[i]))
    <3>1. CASE i = m
      <4>1. m \in 1..m
        BY <2>1
      <4> QED BY <2>3, <2>6, <3>1, <4>1
    <3>2. CASE i # m
      <4>1. i \in 1..(Len(q) - 1) /\ i \in 1..m /\ i + 1 \in 1..m
        BY <2>1, <2>5, <3>2
      <4>2. q[i + 1] \in Range(Args(dag, q[i]))
        BY <2>1, <4>1 DEF Path
      <4> QED BY <2>6, <4>1, <4>2
    <3> QED BY <3>1, <3>2
  <2>9. Path(dag, p)
    <3>1. p # <<>>
      BY <2>1, <2>5
    <3> QED BY <2>5, <2>7, <2>8, <3>1 DEF Path
  <2>10. Len(p) = Len(stack) + 1 /\ p[Len(p)] = node
    BY <2>5, <2>6 DEF m
  <2> QED BY <2>9, <2>10
<1> QED BY <1>1, <1>2

\* A call for a node that is being visited closes a cycle.
LEMMA PendingTrap ==
  ASSUME Wired(dag), Searching, NEW node \in Pending, node \in Visiting
  PROVE  \E S : Trap(dag, S) /\ node \in S
<1> DEFINE m == Len(stack)
           q == [i \in 1..m |-> stack[i].node]
<1>1. stack # <<>>
  BY DEF Visiting
<1>2. Path(dag, q) /\ m \in Nat \ {0} /\ Len(q) = m
  BY <1>1, StackPath
<1>3. DOMAIN stack = 1..m
  BY DEF Searching, Frames
<1>4. PICK k \in 1..m : stack[k].node = node
  BY <1>3 DEF Visiting
<1>5. /\ stack[m].node \in Nodes(dag)
      /\ stack[m].next \in 1..Len(Args(dag, stack[m].node))
      /\ node = Args(dag, stack[m].node)[stack[m].next]
  BY <1>1, PendingFacts
<1>6. node \in Range(Args(dag, stack[m].node))
  BY <1>5, WiredFacts DEF Range
<1> HIDE DEF m
<1>7. \A i \in 1..m : q[i] = stack[i].node
  OBVIOUS
<1> HIDE DEF q
<1>8. /\ \A i \in 1..m : q[i] \in Nodes(dag)
      /\ \A i \in 1..(m - 1) : q[i + 1] \in Range(Args(dag, q[i]))
  <2>1. q \in Seq(Nodes(dag))
    BY <1>2 DEF Path
  <2> QED BY <1>2, <2>1 DEF Path
<1> DEFINE S == {q[i] : i \in k..m}
<1>9. \A i \in k..m : i \in 1..m
  BY <1>2
<1>10. k \in k..m /\ m \in 1..m
  BY <1>2
<1>11. node \in S
  BY <1>4, <1>7, <1>10
<1>12. ASSUME NEW n \in S PROVE Range(Args(dag, n)) \cap S # {}
  <2>1. PICK i \in k..m : n = q[i]
    OBVIOUS
  <2>2. CASE i = m
    BY <1>6, <1>7, <1>10, <1>11, <2>1, <2>2
  <2>3. CASE i # m
    <3>1. i \in 1..(m - 1) /\ i + 1 \in k..m
      BY <1>2, <2>3
    <3>2. q[i + 1] \in S /\ q[i + 1] \in Range(Args(dag, n))
      BY <1>8, <2>1, <3>1
    <3> QED BY <3>2
  <2> QED BY <2>2, <2>3
<1>13. S \subseteq Nodes(dag)
  BY <1>8, <1>9
<1> HIDE DEF S
<1>14. Trap(dag, S)
  BY <1>11, <1>12, <1>13 DEF Trap
<1> QED BY <1>11, <1>14

\* The frames after the caller went on to its next argument.
LEMMA AdvancedFrames ==
  ASSUME Wired(dag), Searching, NEW node \in Pending, stack # <<>>
  PROVE  LET m == Len(stack)  a == Advanced
         IN /\ \A i \in 1..m :
                 /\ a[i].next <= Len(Args(dag, a[i].node)) + 1
                 /\ \A j \in 1..(a[i].next - 1) :
                      Args(dag, a[i].node)[j] \in finished \/ j = a[i].next - 1
            /\ \A i \in 1..(m - 1) :
                 /\ a[i].next > 1
                 /\ a[i + 1].node = Args(dag, a[i].node)[a[i].next - 1]
            /\ a[m].next > 1 /\ Args(dag, a[m].node)[a[m].next - 1] = node
<1> DEFINE m == Len(stack)
           a == Advanced
<1>1. /\ m \in Nat \ {0} /\ stack[m].node \in Nodes(dag)
      /\ stack[m].next \in 1..Len(Args(dag, stack[m].node))
      /\ node = Args(dag, stack[m].node)[stack[m].next]
      /\ \A i \in 1..m : a[i].node = stack[i].node
      /\ \A i \in 1..(m - 1) : a[i] = stack[i]
      /\ a[m].next = stack[m].next + 1
  BY PendingFacts
<1>2. Len(Args(dag, stack[m].node)) \in Nat /\ m \in 1..m
  BY <1>1, WiredFacts
<1>3. /\ \A i \in 1..m :
           /\ stack[i].next <= Len(Args(dag, stack[i].node)) + 1
           /\ \A j \in 1..(stack[i].next - 1) :
                \/ Args(dag, stack[i].node)[j] \in finished
                \/ i < m /\ j = stack[i].next - 1
      /\ \A i \in 1..(m - 1) :
           /\ stack[i].next > 1
           /\ stack[i + 1].node = Args(dag, stack[i].node)[stack[i].next - 1]
  BY DEF Searching, Frames
<1> HIDE DEF m, a
<1>4. ASSUME NEW i \in 1..m
      PROVE  /\ a[i].next <= Len(Args(dag, a[i].node)) + 1
             /\ \A j \in 1..(a[i].next - 1) :
                  Args(dag, a[i].node)[j] \in finished \/ j = a[i].next - 1
  <2>1. CASE i = m
    <3>1. a[i].node = stack[m].node /\ a[i].next = stack[m].next + 1
      BY <1>1, <1>2, <2>1
    <3>2. \A j \in 1..(stack[m].next - 1) : Args(dag, stack[m].node)[j] \in finished
      BY <1>2, <1>3
    <3> QED BY <1>1, <1>2, <3>1, <3>2
  <2>2. CASE i # m
    <3>1. i \in 1..(m - 1)
      BY <1>1, <2>2
    <3>2. a[i] = stack[i]
      BY <1>1, <3>1
    <3> QED BY <1>3, <3>2
  <2> QED BY <2>1, <2>2
<1>5. ASSUME NEW i \in 1..(m - 1)
      PROVE  /\ a[i].next > 1
             /\ a[i + 1].node = Args(dag, a[i].node)[a[i].next - 1]
  <2>1. i + 1 \in 1..m
    BY <1>1
  <2>2. a[i] = stack[i] /\ a[i + 1].node = stack[i + 1].node
    BY <1>1, <2>1
  <2> QED BY <1>3, <2>2
<1>6. a[m].next > 1 /\ Args(dag, a[m].node)[a[m].next - 1] = node
  <2>1. (stack[m].next + 1) - 1 = stack[m].next /\ stack[m].next + 1 > 1
    BY <1>1
  <2> QED BY <1>1, <1>2, <2>1
<1> QED BY <1>4, <1>5, <1>6 DEF m, a

\* A finished node is passed over.
LEMMA SkipKeeps ==
  ASSUME Wired(dag), Searching, NEW node \in Pending, node \in finished, Proceed(Advanced)
  PROVE  Searching'
<1>1. Finished'
  BY DEF Searching, Finished, Proceed
<1>2. CASE stack = <<>>
  <2>1. /\ root + 1 \in 1..Len(dag.roots) /\ node = dag.roots[root + 1]
        /\ stack' = <<>> /\ root' = root + 1 /\ dag' = dag /\ finished' = finished
    BY <1>2, PendingFacts DEF Proceed
  <2>2. root \in Nat /\ \A j \in 1..root : dag.roots[j] \in finished
    BY <1>2 DEF Searching, Roots
  <2>3. Roots'
    <3>1. root + 1 \in 0..Len(dag.roots)
      BY <2>1, <2>2
    <3>2. \A j \in 1..(root + 1) : dag.roots[j] \in finished
      BY <2>1, <2>2
    <3> QED BY <2>1, <3>1, <3>2 DEF Roots
  <2>4. Frames'
    BY <2>1 DEF Frames
  <2> QED BY <1>1, <2>3, <2>4 DEF Searching
<1>3. CASE stack # <<>>
  <2> DEFINE m == Len(stack)
  <2>1. /\ m \in Nat \ {0} /\ Advanced \in Seq([node : Nodes(dag), next : Nat \ {0}])
        /\ Len(Advanced) = m /\ \A i \in 1..m : Advanced[i].node = stack[i].node
    BY <1>3, PendingFacts
  <2>2. stack' = Advanced /\ root' = root /\ dag' = dag /\ finished' = finished
    BY <1>3 DEF Proceed
  <2>3. /\ \A i \in 1..m :
             /\ Advanced[i].next <= Len(Args(dag, Advanced[i].node)) + 1
             /\ \A j \in 1..(Advanced[i].next - 1) :
                  Args(dag, Advanced[i].node)[j] \in finished \/ j = Advanced[i].next - 1
        /\ \A i \in 1..(m - 1) :
             /\ Advanced[i].next > 1
             /\ Advanced[i + 1].node = Args(dag, Advanced[i].node)[Advanced[i].next - 1]
        /\ Advanced[m].next > 1 /\ Args(dag, Advanced[m].node)[Advanced[m].next - 1] = node
    BY <1>3, AdvancedFrames
  <2> HIDE DEF m
  <2>4. ASSUME NEW i \in 1..m, NEW j \in 1..(Advanced[i].next - 1)
        PROVE  \/ Args(dag, Advanced[i].node)[j] \in finished
               \/ i < m /\ j = Advanced[i].next - 1
    <3>1. CASE i = m
      BY <2>3, <3>1
    <3>2. CASE i < m
      BY <2>3, <3>2
    <3> QED BY <2>1, <3>1, <3>2
  <2>5. Frames'
    BY <2>1, <2>2, <2>3, <2>4 DEF Frames
  <2>6. Roots'
    <3>1. Advanced # <<>> /\ 1 \in 1..m
      BY <2>1
    <3>2. Advanced[1].node = stack[1].node
      BY <2>1, <3>1
    <3> QED BY <1>3, <2>2, <3>1, <3>2 DEF Searching, Roots
  <2> QED BY <1>1, <2>5, <2>6 DEF Searching
<1> QED BY <1>2, <1>3

\* A node that is entered goes on the stack.
LEMMA PushKeeps ==
  ASSUME Wired(dag), Searching, NEW node \in Pending,
         Proceed(Append(Advanced, [node |-> node, next |-> 1]))
  PROVE  Searching'
<1> DEFINE m == Len(stack)
           Frame == [node : Nodes(dag), next : Nat \ {0}]
           new == [node |-> node, next |-> 1]
<1>1. Finished'
  BY DEF Searching, Finished, Proceed
<1>2. /\ stack' = Append(Advanced, new) /\ dag' = dag /\ finished' = finished
      /\ root' = IF stack = <<>> THEN root + 1 ELSE root
  BY DEF Proceed
<1>3. node \in Nodes(dag)
  BY PendingFacts
<1>4. new \in Frame /\ new.node = node /\ new.next = 1
  BY <1>3
<1>5. m \in Nat /\ Advanced \in Seq(Frame) /\ Len(Advanced) = m
  <2>1. CASE stack = <<>>
    <3>1. Advanced = <<>> /\ m = 0
      BY <2>1, PendingFacts
    <3> HIDE DEF Frame
    <3> QED BY <3>1
  <2>2. CASE stack # <<>>
    BY <2>2, PendingFacts
  <2> QED BY <2>1, <2>2
<1>6. /\ \A i \in 1..m :
           /\ Advanced[i].next <= Len(Args(dag, Advanced[i].node)) + 1
           /\ \A j \in 1..(Advanced[i].next - 1) :
                Args(dag, Advanced[i].node)[j] \in finished \/ j = Advanced[i].next - 1
      /\ \A i \in 1..(m - 1) :
           /\ Advanced[i].next > 1
           /\ Advanced[i + 1].node = Args(dag, Advanced[i].node)[Advanced[i].next - 1]
      /\ m # 0 => /\ Advanced[m].next > 1
                  /\ Args(dag, Advanced[m].node)[Advanced[m].next - 1] = node
  <2>1. CASE stack = <<>>
    BY <2>1
  <2>2. CASE stack # <<>>
    BY <2>2, AdvancedFrames
  <2> QED BY <2>1, <2>2
<1>7. /\ stack = <<>> => root + 1 \in 1..Len(dag.roots) /\ node = dag.roots[root + 1] /\ m = 0
      /\ stack # <<>> => m # 0 /\ Advanced[1].node = stack[1].node
  <2>1. CASE stack = <<>>
    BY <2>1, PendingFacts
  <2>2. CASE stack # <<>>
    <3>1. m \in Nat \ {0} /\ \A i \in 1..m : Advanced[i].node = stack[i].node
      BY <2>2, PendingFacts
    <3> HIDE DEF m
    <3> QED BY <2>2, <3>1
  <2> QED BY <2>1, <2>2
<1> HIDE DEF m, Frame, new
<1>8. /\ stack' \in Seq(Frame) /\ Len(stack') = m + 1
      /\ \A i \in 1..m : stack'[i] = Advanced[i]
      /\ stack'[m + 1] = new /\ stack' # <<>>
  <2>1. Append(Advanced, new) \in Seq(Frame) /\ Len(Append(Advanced, new)) = m + 1
    BY <1>4, <1>5
  <2>2. /\ \A i \in 1..m : Append(Advanced, new)[i] = Advanced[i]
        /\ Append(Advanced, new)[m + 1] = new
    BY <1>4, <1>5
  <2>3. Append(Advanced, new) # <<>>
    BY <1>5, <2>1
  <2> QED BY <1>2, <2>1, <2>2, <2>3
<1>9. Frames'
  <2>1. stack' \in Seq([node : Nodes(dag'), next : Nat \ {0}])
    BY <1>2, <1>8 DEF Frame
  <2>2. ASSUME NEW i \in 1..(m + 1)
        PROVE  /\ stack'[i].next <= Len(Args(dag, stack'[i].node)) + 1
               /\ \A j \in 1..(stack'[i].next - 1) :
                    \/ Args(dag, stack'[i].node)[j] \in finished
                    \/ i < m + 1 /\ j = stack'[i].next - 1
    <3>1. CASE i = m + 1
      <4>1. stack'[i].next = 1 /\ stack'[i].node = node /\ Len(Args(dag, node)) \in Nat
        BY <1>3, <1>4, <1>8, <3>1, WiredFacts
      <4> QED BY <4>1
    <3>2. CASE i \in 1..m
      <4>1. stack'[i] = Advanced[i] /\ i < m + 1
        BY <1>5, <1>8, <3>2
      <4> QED BY <1>6, <3>2, <4>1
    <3> QED BY <1>5, <3>1, <3>2
  <2>3. ASSUME NEW i \in 1..m
        PROVE  /\ stack'[i].next > 1
               /\ stack'[i + 1].node = Args(dag, stack'[i].node)[stack'[i].next - 1]
    <3>1. stack'[i] = Advanced[i]
      BY <1>8
    <3>2. CASE i = m
      BY <1>4, <1>5, <1>6, <1>8, <3>1, <3>2
    <3>3. CASE i # m
      <4>1. i \in 1..(m - 1) /\ i + 1 \in 1..m
        BY <1>5, <3>3
      <4> QED BY <1>6, <1>8, <3>1, <4>1
    <3> QED BY <3>2, <3>3
  <2>4. (m + 1) - 1 = m
    BY <1>5
  <2> QED BY <1>2, <1>8, <2>1, <2>2, <2>3, <2>4 DEF Frames
<1>10. Roots'
  <2>1. /\ root \in 0..Len(dag.roots)
        /\ stack # <<>> => root > 0 /\ stack[1].node = dag.roots[root]
        /\ \A j \in 1..root : dag.roots[j] \in finished \/ (stack # <<>> /\ j = root)
    BY DEF Searching, Roots
  <2>2. CASE stack = <<>>
    <3>1. root' = root + 1 /\ stack'[1].node = dag.roots[root + 1]
      BY <1>2, <1>4, <1>7, <1>8, <2>2
    <3>2. root + 1 \in 0..Len(dag.roots) /\ root + 1 > 0
      BY <1>7, <2>1, <2>2
    <3>3. \A j \in 1..(root + 1) : dag.roots[j] \in finished \/ j = root + 1
      BY <2>1, <2>2
    <3> QED BY <1>2, <1>8, <3>1, <3>2, <3>3 DEF Roots
  <2>3. CASE stack # <<>>
    <3>1. root' = root /\ stack'[1].node = stack[1].node
      <4>1. 1 \in 1..m
        BY <1>5, <1>7, <2>3
      <4> QED BY <1>2, <1>7, <1>8, <2>3, <4>1
    <3> QED BY <1>2, <1>8, <2>1, <2>3, <3>1 DEF Roots
  <2> QED BY <2>2, <2>3
<1> QED BY <1>1, <1>9, <1>10 DEF Searching

\* A call returns when all arguments of its node are finished.
LEMMA LeaveFinishes ==
  ASSUME Wired(dag), Searching, stack # <<>>, Pending = {}
  PROVE  LET node == Last(stack).node
         IN /\ node \in Nodes(dag) /\ Leads(dag, node)
            /\ Range(Args(dag, node)) \subseteq finished
<1> DEFINE m == Len(stack)
           p == [i \in 1..m |-> stack[i].node]
           node == Last(stack).node
<1>1. Path(dag, p) /\ m \in Nat \ {0} /\ Len(p) = m /\ m \in 1..m
  BY StackPath
<1>2. node = stack[m].node /\ Last(stack).next = stack[m].next /\ p[m] = node
  BY <1>1 DEF Last
<1>3. Leads(dag, node)
  <2> HIDE DEF p, m, node
  <2> QED BY <1>1, <1>2 DEF Leads
<1>4. node \in Nodes(dag)
  <2>1. p \in Seq(Nodes(dag))
    BY <1>1 DEF Path
  <2> HIDE DEF p, m, node
  <2> QED BY <1>1, <1>2, <2>1
<1>5. ~(stack[m].next <= Len(Args(dag, node)))
  BY <1>2 DEF Pending, Args
<1>6. /\ stack[m].next <= Len(Args(dag, node)) + 1
      /\ \A j \in 1..(stack[m].next - 1) : Args(dag, node)[j] \in finished \/ m < m
  BY <1>1, <1>2 DEF Searching, Frames
<1>7. stack[m].next \in Nat
  <2> DEFINE Frame == [node : Nodes(dag), next : Nat \ {0}]
  <2>1. stack \in Seq(Frame)
    BY DEF Searching, Frames
  <2>2. \A f \in Frame : f.next \in Nat
    OBVIOUS
  <2> HIDE DEF Frame
  <2>3. stack[m] \in Frame
    BY <1>1, <2>1
  <2> QED BY <2>2, <2>3
<1> HIDE DEF node, m, p
<1>8. /\ Len(Args(dag, node)) \in Nat /\ DOMAIN Args(dag, node) = 1..Len(Args(dag, node))
  BY <1>4, WiredFacts
<1>9. stack[m].next - 1 = Len(Args(dag, node))
  BY <1>5, <1>6, <1>7, <1>8
<1>10. \A j \in 1..Len(Args(dag, node)) : Args(dag, node)[j] \in finished
  BY <1>1, <1>6, <1>9
<1>11. Range(Args(dag, node)) \subseteq finished
  BY <1>8, <1>10 DEF Range
<1> QED BY <1>3, <1>4, <1>11 DEF node

\* Finished nodes stay ranked when one more is finished after its arguments.
LEMMA RankFinished ==
  ASSUME Wired(dag), Finished, NEW node \in Nodes(dag), Range(Args(dag, node)) \subseteq finished
  PROVE  LET more == finished \cup {node}
         IN \E rank : Ranked(dag, more, rank, Cardinality(more))
<1> DEFINE more == finished \cup {node}
           m == Cardinality(finished)
<1>1. IsFiniteSet(finished) /\ m \in Nat
  <2>1. IsFiniteSet(Nodes(dag))
    <3>1. 1 \in Int /\ Len(dag.nodes) \in Int /\ Nodes(dag) = 1..Len(dag.nodes)
      BY WiredFacts
    <3> QED BY <3>1, FS_Interval
  <2>2. IsFiniteSet(finished)
    BY <2>1, FS_Subset DEF Finished
  <2> QED BY <2>2, FS_CardinalityType
<1>2. PICK rank : Ranked(dag, finished, rank, m)
  BY DEF Finished
<1>3. CASE node \in finished
  <2>1. more = finished
    BY <1>3
  <2> QED BY <1>2, <2>1
<1>4. CASE node \notin finished
  <2>1. Cardinality(more) = m + 1
    BY <1>1, <1>4, FS_AddElement
  <2> DEFINE r == [n \in more |-> IF n = node THEN m + 1 ELSE rank[n]]
  <2>2. \A n \in finished : n # node /\ rank[n] \in 1..m
    BY <1>2, <1>4 DEF Ranked
  <2>3. r \in [more -> 1..(m + 1)]
    BY <1>1, <2>2
  <2>4. r[node] = m + 1 /\ \A n \in finished : r[n] = rank[n]
    BY <2>2
  <2> HIDE DEF r, m
  <2>5. ASSUME NEW n \in more, NEW c \in Range(Args(dag, n))
        PROVE  c \in more /\ r[c] < r[n]
    <3>1. CASE n = node
      <4>1. c \in finished
        BY <3>1
      <4> QED BY <1>1, <2>2, <2>4, <3>1, <4>1
    <3>2. CASE n \in finished
      <4>1. c \in finished /\ rank[c] < rank[n]
        BY <1>2, <3>2 DEF Ranked
      <4> QED BY <2>4, <3>2, <4>1
    <3> QED BY <3>1, <3>2
  <2>6. Ranked(dag, more, r, Cardinality(more))
    BY <2>1, <2>3, <2>5 DEF Ranked
  <2> QED BY <2>6
<1> QED BY <1>3, <1>4

\* A sequence without its last element.
LEMMA FrontFacts ==
  ASSUME NEW S, NEW s \in Seq(S), s # <<>>
  PROVE  /\ Front(s) \in Seq(S) /\ Len(s) - 1 \in Nat /\ Len(Front(s)) = Len(s) - 1
         /\ \A i \in 1..(Len(s) - 1) : Front(s)[i] = s[i]
<1> DEFINE n == Len(s) - 1
<1>1. n \in Nat /\ Front(s) = SubSeq(s, 1, n) /\ \A i \in 1..n : s[i] \in S
  BY DEF Front
<1>2. /\ SubSeq(s, 1, n) \in Seq(S) /\ Len(SubSeq(s, 1, n)) = n
      /\ \A i \in 1..n : SubSeq(s, 1, n)[i] = s[i]
  <2>1. 1 \in Int /\ n \in Int /\ \A i \in 1..n : s[i] \in S
    BY <1>1
  <2>2. /\ SubSeq(s, 1, n) \in Seq(S)
        /\ Len(SubSeq(s, 1, n)) = IF 1 <= n THEN n - 1 + 1 ELSE 0
        /\ \A i \in 1..(n - 1 + 1) : SubSeq(s, 1, n)[i] = s[1 + i - 1]
    BY <2>1, SubSeqProperties
  <2>3. n - 1 + 1 = n /\ \A i \in 1..n : 1 + i - 1 = i
    BY <1>1
  <2> QED BY <1>1, <2>2, <2>3
<1> QED BY <1>1, <1>2

\* A call that returns leaves its node finished and its caller going on.
LEMMA LeaveKeeps ==
  ASSUME Wired(dag), Searching, stack # <<>>, Pending = {},
         stack' = Front(stack), finished' = finished \cup {Last(stack).node},
         UNCHANGED <<dag, root>>
  PROVE  Searching'
<1> DEFINE m == Len(stack)
           node == Last(stack).node
           Frame == [node : Nodes(dag), next : Nat \ {0}]
<1>1. stack \in Seq(Frame) /\ m \in Nat \ {0}
  BY DEF Searching, Frames
<1>2. /\ stack' \in Seq(Frame) /\ Len(stack') = m - 1
      /\ \A i \in 1..(m - 1) : stack'[i] = stack[i]
  <2> HIDE DEF Frame
  <2> QED BY <1>1, FrontFacts
<1>3. node \in Nodes(dag) /\ Leads(dag, node) /\ Range(Args(dag, node)) \subseteq finished
  BY LeaveFinishes
<1>4. stack[m].node = node
  BY DEF Last
<1>5. Finished'
  <2> DEFINE more == finished \cup {node}
  <2>1. \E rank : Ranked(dag, more, rank, Cardinality(more))
    BY <1>3, RankFinished DEF Searching
  <2>2. more \subseteq Nodes(dag) /\ \A n \in more : Leads(dag, n)
    BY <1>3 DEF Searching, Finished
  <2>3. finished' = more /\ dag' = dag
    OBVIOUS
  <2> HIDE DEF more
  <2> QED BY <2>1, <2>2, <2>3 DEF Finished
<1>6. finished' = finished \cup {node} /\ node \in finished' /\ finished \subseteq finished'
  OBVIOUS
<1>7. /\ \A i \in 1..m :
           /\ stack[i].next <= Len(Args(dag, stack[i].node)) + 1
           /\ \A j \in 1..(stack[i].next - 1) :
                \/ Args(dag, stack[i].node)[j] \in finished
                \/ i < m /\ j = stack[i].next - 1
      /\ \A i \in 1..(m - 1) :
           /\ stack[i].next > 1
           /\ stack[i + 1].node = Args(dag, stack[i].node)[stack[i].next - 1]
  BY DEF Searching, Frames
<1> HIDE DEF m, node
<1>8. Frames'
  <2>1. ASSUME NEW i \in 1..(m - 1), NEW j \in 1..(stack[i].next - 1)
        PROVE  \/ Args(dag, stack[i].node)[j] \in finished'
               \/ i < m - 1 /\ j = stack[i].next - 1
    <3>1. i \in 1..m /\ (i < m - 1 \/ i + 1 = m)
      BY <1>1
    <3>2. Args(dag, stack[i].node)[j] \in finished \/ j = stack[i].next - 1
      BY <1>7, <3>1
    <3>3. CASE i + 1 = m /\ j = stack[i].next - 1
      BY <1>4, <1>6, <1>7, <3>3
    <3> QED BY <1>6, <3>1, <3>2, <3>3
  <2>2. \A i \in 1..(m - 1) : i \in 1..m
    BY <1>1
  <2>3. ASSUME NEW i \in 1..(m - 1)
        PROVE  /\ stack'[i].next <= Len(Args(dag, stack'[i].node)) + 1
               /\ \A j \in 1..(stack'[i].next - 1) :
                    \/ Args(dag, stack'[i].node)[j] \in finished'
                    \/ i < m - 1 /\ j = stack'[i].next - 1
    BY <1>2, <1>7, <2>1, <2>2
  <2>4. ASSUME NEW i \in 1..((m - 1) - 1)
        PROVE  /\ stack'[i].next > 1
               /\ stack'[i + 1].node = Args(dag, stack'[i].node)[stack'[i].next - 1]
    <3>1. i \in 1..(m - 1) /\ i + 1 \in 1..(m - 1)
      BY <1>1
    <3> QED BY <1>2, <1>7, <3>1
  <2>5. stack' \in Seq([node : Nodes(dag'), next : Nat \ {0}])
    BY <1>2
  <2> QED BY <1>2, <2>3, <2>4, <2>5 DEF Frames
<1>9. Roots'
  <2>1. /\ root \in 0..Len(dag.roots) /\ root > 0 /\ stack[1].node = dag.roots[root]
        /\ \A j \in 1..root : dag.roots[j] \in finished \/ j = root
    BY DEF Searching, Roots
  <2>2. CASE m = 1
    <3>1. dag.roots[root] \in finished' /\ stack' = <<>>
      <4>1. dag.roots[root] \in finished'
        BY <1>4, <1>6, <2>1, <2>2
      <4>2. stack' = <<>>
        <5> HIDE DEF Frame
        <5> QED BY <1>2, <2>2
      <4> QED BY <4>1, <4>2
    <3> QED BY <1>6, <2>1, <3>1 DEF Roots
  <2>3. CASE m # 1
    <3>1. 1 \in 1..(m - 1) /\ stack' # <<>>
      BY <1>1, <1>2, <2>3
    <3>2. stack'[1].node = stack[1].node
      BY <1>2, <3>1
    <3> QED BY <1>6, <2>1, <3>1, <3>2 DEF Roots
  <2> QED BY <2>2, <2>3
<1> QED BY <1>5, <1>8, <1>9 DEF Searching

-----------------------------------------------------------------------------
(* decode goes where visit went. *)

\* Pending and Advanced of a state of the search, which is a record here.
Current == [stack |-> stack, root |-> root, finished |-> finished]
PendingOf(d, s) ==
  IF s.stack # <<>>
  THEN IF Last(s.stack).next <= Len(d.nodes[Last(s.stack).node].args)
       THEN {d.nodes[Last(s.stack).node].args[Last(s.stack).next]} ELSE {}
  ELSE IF s.root < Len(d.roots) THEN {d.roots[s.root + 1]} ELSE {}
AdvancedOf(s) ==
  IF s.stack = <<>> THEN <<>> ELSE [s.stack EXCEPT ![Len(s.stack)].next = @ + 1]

\* A step of the search that does not refuse.
Entered(s, node) ==
  [stack |-> IF node \in s.finished THEN AdvancedOf(s)
             ELSE Append(AdvancedOf(s), [node |-> node, next |-> 1]),
   root |-> IF s.stack = <<>> THEN s.root + 1 ELSE s.root, finished |-> s.finished]
Left(s) ==
  [stack |-> Front(s.stack), root |-> s.root, finished |-> s.finished \cup {Last(s.stack).node}]
Move(d, s, t) ==
  \/ \E node \in PendingOf(d, s) : t = Entered(s, node)
  \/ s.stack # <<>> /\ PendingOf(d, s) = {} /\ t = Left(s)
Over(d, s) == s.stack = <<>> /\ PendingOf(d, s) = {}

\* The states of a search from its beginning, none too deep.
Begin == [stack |-> <<>>, root |-> 0, finished |-> {}]
Walk(d, w, m) ==
  /\ m \in Nat \ {0} /\ w[1] = Begin
  /\ \A i \in 1..(m - 1) : Move(d, w[i], w[i + 1])
  /\ \A i \in 1..m : Len(w[i].stack) <= MaxDepth + 1

\* The search has no choice, and none when it is over.
LEMMA MoveOnce ==
  ASSUME NEW d, NEW s, NEW t, Move(d, s, t)
  PROVE  ~Over(d, s) /\ \A u : Move(d, s, u) => u = t
<1>1. \A x, y \in PendingOf(d, s) : x = y
  BY DEF PendingOf
<1>2. ~Over(d, s)
  BY DEF Move, Over
<1>3. CASE PendingOf(d, s) = {}
  BY <1>2, <1>3 DEF Move
<1>4. CASE PendingOf(d, s) # {}
  <2>1. PICK node : PendingOf(d, s) = {node}
    BY <1>1, <1>4
  <2> QED BY <1>2, <2>1 DEF Move
<1> QED BY <1>2, <1>3, <1>4

\* A walk goes on with a move.
LEMMA WalkOn ==
  ASSUME NEW d, NEW w, NEW m, Walk(d, w, m), NEW t, Move(d, w[m], t), Len(t.stack) <= MaxDepth + 1
  PROVE  \E v : Walk(d, v, m + 1) /\ v[m + 1] = t
<1> DEFINE v == [i \in 1..(m + 1) |-> IF i <= m THEN w[i] ELSE t]
<1>1. m \in Nat \ {0}
  BY DEF Walk
<1>2. v[m + 1] = t /\ \A i \in 1..m : v[i] = w[i]
  BY <1>1
<1> HIDE DEF v
<1>3. 1 \in 1..m /\ m \in 1..m /\ m + 1 \in Nat \ {0} /\ (m + 1) - 1 = m
  BY <1>1
<1>4. ASSUME NEW i \in 1..m PROVE Move(d, v[i], v[i + 1])
  <2>1. CASE i = m
    BY <1>2, <1>3, <2>1
  <2>2. CASE i # m
    <3>1. i \in 1..(m - 1) /\ i + 1 \in 1..m
      BY <1>1, <2>2
    <3> QED BY <1>2, <3>1 DEF Walk
  <2> QED BY <2>1, <2>2
<1>5. \A i \in 1..(m + 1) : Len(v[i].stack) <= MaxDepth + 1
  <2>1. \A i \in 1..(m + 1) : i \in 1..m \/ i = m + 1
    BY <1>1
  <2> QED BY <1>2, <2>1 DEF Walk
<1>6. v[1] = Begin
  BY <1>2, <1>3 DEF Walk
<1>7. Walk(d, v, m + 1)
  BY <1>3, <1>4, <1>5, <1>6 DEF Walk
<1> QED BY <1>2, <1>7

\* The state of the search is the record of its variables.
LEMMA CurrentIs ==
  /\ Pending = PendingOf(dag, Current) /\ Advanced = AdvancedOf(Current)
  /\ Current.stack = stack /\ Current.root = root /\ Current.finished = finished
BY DEF Current, Pending, PendingOf, Advanced, AdvancedOf

\* What the steps of the search do that do not refuse.
LEMMA EnterMoves ==
  ASSUME NEW node \in Pending,
         \/ node \in finished /\ Proceed(Advanced)
         \/ node \notin finished /\ Proceed(Append(Advanced, [node |-> node, next |-> 1]))
  PROVE  Move(dag, Current, Current')
<1> DEFINE next == IF node \in finished THEN Advanced
                   ELSE Append(Advanced, [node |-> node, next |-> 1])
<1>1. /\ stack' = next /\ finished' = finished
      /\ root' = IF stack = <<>> THEN root + 1 ELSE root
  BY DEF Proceed
<1>2. Current' = [stack |-> next, root |-> IF stack = <<>> THEN root + 1 ELSE root,
                  finished |-> finished]
  <2> HIDE DEF next
  <2> QED BY <1>1 DEF Current
<1> QED BY <1>2, CurrentIs DEF Move, Entered

\* So does a call that returns.
LEMMA LeaveMoves ==
  ASSUME stack # <<>>, Pending = {}, stack' = Front(stack), root' = root,
         finished' = finished \cup {Last(stack).node}
  PROVE  Move(dag, Current, Current')
<1>1. Current' = [stack |-> Front(stack), root |-> root,
                  finished |-> finished \cup {Last(stack).node}]
  BY DEF Current
<1> QED BY <1>1, CurrentIs DEF Move, Left

\* A search begins with nothing done.
LEMMA BeginSearches ==
  ASSUME Wired(dag), stack = <<>>, root = 0, finished = {}
  PROVE  Searching /\ Walk(dag, <<Current>>, 1)
<1>1. Frames
  BY DEF Frames
<1>2. Roots
  BY WiredFacts DEF Roots
<1>3. Finished
  <2> DEFINE rank == [n \in {} |-> 0]
  <2>1. rank \in [{} -> 1..Cardinality({})]
    OBVIOUS
  <2> HIDE DEF rank
  <2>2. Ranked(dag, {}, rank, Cardinality({}))
    BY <2>1 DEF Ranked
  <2> QED BY <2>2 DEF Finished
<1>4. Current = Begin
  BY DEF Current, Begin
<1>5. Len(Begin.stack) <= MaxDepth + 1
  BY DagAssumption DEF Begin
<1>6. Walk(dag, <<Current>>, 1)
  BY <1>4, <1>5 DEF Walk
<1> QED BY <1>1, <1>2, <1>3, <1>6 DEF Searching

-----------------------------------------------------------------------------
(* The verdict on a DAG. *)

Duplicate == stack = <<>> /\ \E m, n \in Nodes(dag) : m # n /\ decoded[m] = decoded[n]

\* While visit searches, the walk it has made is not too deep.  While decode
\* searches, it is somewhere on the walk visit made to its end.
DagInv ==
  /\ dpc \in {"shape", "visit", "decode", "accepted", "refused"} => dag \in Dags
  /\ dpc = "shape" => stack = <<>> /\ root = 0 /\ finished = {}
  /\ dpc \in {"visit", "decode"} => Wired(dag) /\ Searching
  /\ dpc = "visit" => \E w, m : Walk(dag, w, m) /\ w[m] = Current
  /\ dpc = "decode" =>
       /\ Sound(dag)
       /\ \E w, m : /\ Walk(dag, w, m) /\ Over(dag, w[m])
                   /\ \E k \in 1..m : w[k] = Current
  /\ dpc = "accepted" => Wired(dag) /\ Sound(dag)
  /\ dpc = "refused" => ~ShapeOK(dag) \/ Fault(dag) \/ Duplicate

\* decode meets no cycle: a trap would have no least rank.
LEMMA DecodeMeetsNone ==
  ASSUME DagInv, dpc = "decode"
  PROVE  Pending \cap Visiting = {}
<1> SUFFICES ASSUME NEW node \in Pending, node \in Visiting PROVE FALSE
  OBVIOUS
<1>1. Wired(dag) /\ Searching /\ Sound(dag)
  BY DEF DagInv
<1>2. PICK S : Trap(dag, S)
  BY <1>1, PendingTrap
<1>3. PICK rank : Ranked(dag, Nodes(dag), rank, Len(dag.nodes))
  BY <1>1 DEF Sound
<1>4. Len(dag.nodes) \in Nat /\ S \subseteq Nodes(dag)
  BY <1>1, <1>2, WiredFacts DEF Trap
<1> QED BY <1>2, <1>3, <1>4, RankedNoTrap

\* Neither search is ever deeper than the limit.
LEMMA NeverDeep ==
  ASSUME DagInv, dpc \in {"visit", "decode"}
  PROVE  Len(stack) <= MaxDepth + 1
<1>1. PICK w, m, k : Walk(dag, w, m) /\ k \in 1..m /\ w[k] = Current
  <2>1. CASE dpc = "visit"
    <3>1. PICK w, m : Walk(dag, w, m) /\ w[m] = Current
      BY <2>1 DEF DagInv
    <3>2. m \in 1..m
      BY <3>1 DEF Walk
    <3> QED BY <3>1, <3>2
  <2>2. CASE dpc = "decode"
    BY <2>2 DEF DagInv
  <2> QED BY <2>1, <2>2
<1>2. Len(w[k].stack) <= MaxDepth + 1
  BY <1>1 DEF Walk
<1> QED BY <1>1, <1>2, CurrentIs

\* What the invariant says of the verdict.
LEMMA InvVerdict ==
  ASSUME DagInv
  PROVE  DagVerdictExact
<1>1. dpc = "accepted" => Acyclic /\ Reachable = Nodes(dag)
  BY SoundShows DEF DagInv
<1>2. ASSUME dpc = "refused", ShapeOK(dag)
      PROVE  \/ ~Acyclic \/ Reachable # Nodes(dag) \/ AtDistance[MaxDepth + 1] # {}
             \/ Duplicate
  <2>1. Wired(dag) /\ (Fault(dag) \/ Duplicate)
    BY <1>2 DEF DagInv, Wired
  <2> QED BY <2>1, FaultShows
<1>3. dpc = "decode" => Len(stack) <= MaxDepth + 1 /\ Pending \cap Visiting = {}
  BY DecodeMeetsNone, NeverDeep
<1> QED BY <1>1, <1>2, <1>3 DEF DagVerdictExact, Duplicate

\* A search that goes on keeps the invariant.
LEMMA MoveInv ==
  ASSUME DagInv, dpc \in {"visit", "decode"}, UNCHANGED <<dag, dpc>>, Searching',
         Move(dag, Current, Current'),
         dpc = "visit" => Len(stack') <= MaxDepth + 1
  PROVE  DagInv'
<1>1. Current'.stack = stack'
  BY DEF Current
<1>2. CASE dpc = "visit"
  <2>1. PICK w, m : Walk(dag, w, m) /\ w[m] = Current
    BY <1>2 DEF DagInv
  <2>2. Move(dag, w[m], Current') /\ Len(Current'.stack) <= MaxDepth + 1
    BY <1>1, <1>2, <2>1
  <2> DEFINE t == Current'
  <2> HIDE DEF t
  <2>3. Move(dag, w[m], t) /\ Len(t.stack) <= MaxDepth + 1
    BY <2>2 DEF t
  <2>4. PICK v : Walk(dag, v, m + 1) /\ v[m + 1] = t
    BY <2>1, <2>3, WalkOn
  <2>5. \E x, n : Walk(dag, x, n) /\ x[n] = t
    BY <2>4
  <2> QED BY <1>2, <2>5 DEF DagInv, t
<1>3. CASE dpc = "decode"
  <2>1. PICK w, m, k : Walk(dag, w, m) /\ Over(dag, w[m]) /\ k \in 1..m /\ w[k] = Current
    BY <1>3 DEF DagInv
  <2> DEFINE t == Current'
  <2> HIDE DEF t
  <2>2. Move(dag, w[k], t)
    BY <2>1 DEF t
  <2>3. k # m
    BY <2>1, <2>2, MoveOnce
  <2>4. k \in 1..(m - 1) /\ k + 1 \in 1..m
    BY <2>1, <2>3 DEF Walk
  <2>5. Move(dag, w[k], w[k + 1])
    BY <2>1, <2>4 DEF Walk
  <2>6. w[k + 1] = t
    BY <2>2, <2>5, MoveOnce
  <2>7. \E x, n : Walk(dag, x, n) /\ Over(dag, x[n]) /\ \E i \in 1..n : x[i] = t
    BY <2>1, <2>4, <2>6
  <2> QED BY <1>3, <2>7 DEF DagInv, t
<1> QED BY <1>2, <1>3

\* A call of visit or decode passes, enters or is refused for a fault.
LEMMA EnterInv ==
  ASSUME DagInv, Enter
  PROVE  DagInv'
<1>1. PICK node \in Pending :
        IF (dpc = "visit" /\ Len(stack) > MaxDepth) \/ node \in Visiting THEN Refuse
        ELSE IF node \in finished THEN Proceed(Advanced)
        ELSE Proceed(Append(Advanced, [node |-> node, next |-> 1]))
  BY DEF Enter
<1>2. dpc \in {"visit", "decode"} /\ Wired(dag) /\ Searching /\ dag \in Dags
  BY DEF Enter, DagInv
<1>3. CASE Refuse
  <2>1. CASE node \in Visiting
    <3>1. PICK S : Trap(dag, S) /\ node \in S
      BY <1>2, <2>1, PendingTrap
    <3>2. Leads(dag, node)
      BY <1>2, PendingPath DEF Leads
    <3>3. Fault(dag)
      BY <3>1, <3>2 DEF Fault
    <3> QED BY <1>2, <1>3, <3>3 DEF DagInv, Refuse
  <2>2. CASE node \notin Visiting /\ dpc = "visit" /\ Len(stack) > MaxDepth
    <3>1. PICK p : Path(dag, p) /\ Len(p) = Len(stack) + 1
      BY <1>2, PendingPath
    <3>2. Len(stack) = MaxDepth + 1
      <4>1. Len(stack) \in Nat
        BY <1>2 DEF Searching, Frames
      <4> QED BY <1>2, <2>2, <4>1, NeverDeep, DagAssumption
    <3>3. Len(p) = MaxDepth + 2
      BY <3>1, <3>2, DagAssumption
    <3>4. Fault(dag)
      BY <3>1, <3>3 DEF Fault
    <3> QED BY <1>2, <1>3, <3>4 DEF DagInv, Refuse
  <2>3. CASE node \notin Visiting /\ ~(dpc = "visit" /\ Len(stack) > MaxDepth)
    <3>1. dpc' = dpc
      BY <1>1, <2>3 DEF Proceed
    <3> QED BY <1>2, <1>3, <3>1 DEF Refuse
  <2> QED BY <2>1, <2>2, <2>3
<1>4. CASE ~Refuse
  <2>1. /\ ~(dpc = "visit" /\ Len(stack) > MaxDepth)
        /\ \/ node \in finished /\ Proceed(Advanced)
           \/ node \notin finished /\ Proceed(Append(Advanced, [node |-> node, next |-> 1]))
    BY <1>1, <1>4
  <2>2. Searching'
    BY <1>2, <2>1, SkipKeeps, PushKeeps
  <2>3. Move(dag, Current, Current')
    BY <2>1, EnterMoves
  <2>4. dag' = dag /\ dpc' = dpc
    BY <2>1 DEF Proceed
  <2>5. dpc = "visit" => Len(stack') <= MaxDepth + 1
    <3> DEFINE Frame == [node : Nodes(dag), next : Nat \ {0}]
    <3>1. Len(stack) \in Nat /\ Advanced \in Seq(Frame) /\ Len(Advanced) = Len(stack)
      <4>1. CASE stack = <<>>
        <5>1. Advanced = <<>>
          BY <1>2, <4>1, PendingFacts
        <5> HIDE DEF Frame
        <5> QED BY <4>1, <5>1
      <4>2. CASE stack # <<>>
        BY <1>2, <4>2, PendingFacts
      <4> QED BY <4>1, <4>2
    <3>2. stack' = Advanced \/ stack' = Append(Advanced, [node |-> node, next |-> 1])
      BY <2>1 DEF Proceed
    <3> HIDE DEF Frame
    <3>3. Len(Append(Advanced, [node |-> node, next |-> 1])) = Len(stack) + 1
      BY <3>1
    <3> QED BY <2>1, <3>1, <3>2, <3>3, DagAssumption
  <2> QED BY <1>2, <2>2, <2>3, <2>4, <2>5, MoveInv
<1> QED BY <1>3, <1>4

\* A call that returns keeps the invariant.
LEMMA LeaveInv ==
  ASSUME DagInv, Leave
  PROVE  DagInv'
<1>1. /\ dpc \in {"visit", "decode"} /\ stack # <<>> /\ Pending = {}
      /\ stack' = Front(stack) /\ finished' = finished \cup {Last(stack).node}
      /\ dag' = dag /\ dpc' = dpc /\ root' = root
  BY DEF Leave
<1>2. Wired(dag) /\ Searching
  BY <1>1 DEF DagInv
<1>3. Searching'
  BY <1>1, <1>2, LeaveKeeps
<1>4. Move(dag, Current, Current')
  BY <1>1, LeaveMoves
<1>5. Len(stack') <= MaxDepth + 1
  <2> DEFINE Frame == [node : Nodes(dag), next : Nat \ {0}]
  <2>1. stack \in Seq(Frame)
    BY <1>2 DEF Searching, Frames
  <2> HIDE DEF Frame
  <2>2. Len(Front(stack)) = Len(stack) - 1 /\ Len(stack) \in Nat
    BY <1>1, <2>1, FrontFacts
  <2>3. Len(stack) <= MaxDepth + 1
    BY <1>1, NeverDeep
  <2> QED BY <1>1, <2>2, <2>3, DagAssumption
<1> QED BY <1>1, <1>3, <1>4, <1>5, MoveInv

\* The search begins on a DAG of the right shape.
LEMMA CheckShapeInv ==
  ASSUME DagInv, CheckShape
  PROVE  DagInv'
<1>1. /\ dpc = "shape" /\ dag \in Dags /\ stack = <<>> /\ root = 0 /\ finished = {}
      /\ UNCHANGED <<dag, stack, root, finished, decoded>>
      /\ dpc' = IF ShapeOK(dag) THEN "visit" ELSE "refused"
  BY DEF DagInv, CheckShape
<1>2. CASE ShapeOK(dag)
  <2>1. Wired(dag)
    BY <1>1, <1>2 DEF Wired
  <2>2. Searching /\ Walk(dag, <<Current>>, 1)
    BY <1>1, <2>1, BeginSearches
  <2>3. Searching' /\ Current' = Current
    BY <1>1, <2>2 DEF Searching, Frames, Roots, Finished, Current
  <2>4. \E w, m : Walk(dag, w, m) /\ w[m] = Current
    BY <2>2
  <2> QED BY <1>1, <1>2, <2>1, <2>3, <2>4 DEF DagInv
<1>3. CASE ~ShapeOK(dag)
  BY <1>1, <1>3 DEF DagInv
<1> QED BY <1>2, <1>3

\* Where a search is over, all that hangs below the roots is finished.
LEMMA OverCloses ==
  ASSUME Wired(dag), Searching, stack = <<>>, Pending = {}
  PROVE  Closed(dag, finished) /\ finished \subseteq Nodes(dag)
<1>1. ~(root < Len(dag.roots))
  BY DEF Pending
<1>2. root = Len(dag.roots)
  BY <1>1, WiredFacts DEF Searching, Roots
<1>3. \A j \in 1..Len(dag.roots) : dag.roots[j] \in finished
  BY <1>2 DEF Searching, Roots
<1>4. Range(dag.roots) \subseteq finished
  BY <1>3, WiredFacts DEF Range
<1>5. \A n \in finished : Range(Args(dag, n)) \subseteq finished
  BY DEF Searching, Finished, Ranked
<1> QED BY <1>4, <1>5 DEF Closed, Searching, Finished

\* visit ends with every node, or refuses the rest.
LEMMA EndVisitInv ==
  ASSUME DagInv, EndVisit
  PROVE  DagInv'
<1>1. /\ dpc = "visit" /\ stack = <<>> /\ Pending = {} /\ dag \in Dags /\ Wired(dag) /\ Searching
  BY DEF EndVisit, DagInv
<1>2. Closed(dag, finished) /\ finished \subseteq Nodes(dag)
  BY <1>1, OverCloses
<1>3. CASE finished # Nodes(dag)
  <2>1. Fault(dag)
    BY <1>2, <1>3 DEF Fault
  <2> QED BY <1>1, <1>3, <2>1 DEF EndVisit, Refuse, DagInv
<1>4. CASE finished = Nodes(dag)
  <2>1. /\ dpc' = "decode" /\ root' = 0 /\ finished' = {} /\ stack' = <<>> /\ dag' = dag
    BY <1>1, <1>4 DEF EndVisit
  <2>2. Sound(dag)
    <3>1. Cardinality(Nodes(dag)) = Len(dag.nodes)
      <4>1. 1 \in Int /\ Len(dag.nodes) \in Nat /\ Nodes(dag) = 1..Len(dag.nodes)
        BY <1>1, WiredFacts
      <4>2. Cardinality(1..Len(dag.nodes)) = IF 1 > Len(dag.nodes) THEN 0 ELSE Len(dag.nodes) - 1 + 1
        BY <4>1, FS_Interval
      <4> QED BY <4>1, <4>2
    <3> QED BY <1>1, <1>4, <3>1 DEF Sound, Searching, Finished
  <2>3. PICK w, m : Walk(dag, w, m) /\ w[m] = Current
    BY <1>1 DEF DagInv
  <2>4. Over(dag, w[m])
    BY <1>1, <2>3, CurrentIs DEF Over
  <2>5. w[1] = Begin /\ 1 \in 1..m
    BY <2>3 DEF Walk
  <2>6. Current' = Begin
    BY <2>1 DEF Current, Begin
  <2>7. \E v, n : Walk(dag, v, n) /\ Over(dag, v[n]) /\ \E k \in 1..n : v[k] = Begin
    BY <2>3, <2>4, <2>5
  <2>8. Searching'
    <3>1. Frames'
      BY <2>1 DEF Frames
    <3>2. Roots'
      BY <1>1, <2>1, WiredFacts DEF Roots
    <3>3. Finished'
      <4> DEFINE rank == [n \in {} |-> 0]
      <4>1. rank \in [{} -> 1..Cardinality({})]
        OBVIOUS
      <4> HIDE DEF rank
      <4>2. Ranked(dag, {}, rank, Cardinality({}))
        BY <4>1 DEF Ranked
      <4> QED BY <2>1, <4>2 DEF Finished
    <3> QED BY <3>1, <3>2, <3>3 DEF Searching
  <2> QED BY <1>1, <2>1, <2>2, <2>6, <2>7, <2>8 DEF DagInv
<1> QED BY <1>3, <1>4

\* Fewer expressions than nodes: two nodes have the same.
LEMMA FewerExpressions ==
  ASSUME Wired(dag), Cardinality({decoded[n] : n \in Nodes(dag)}) # Len(dag.nodes)
  PROVE  \E m, n \in Nodes(dag) : m # n /\ decoded[m] = decoded[n]
<1> DEFINE N == Nodes(dag)
           T == {decoded[n] : n \in N}
           f == [n \in N |-> decoded[n]]
<1>1. IsFiniteSet(N) /\ Cardinality(N) = Len(dag.nodes)
  <2>1. 1 \in Int /\ Len(dag.nodes) \in Nat /\ N = 1..Len(dag.nodes)
    BY WiredFacts
  <2>2. /\ IsFiniteSet(1..Len(dag.nodes))
        /\ Cardinality(1..Len(dag.nodes)) = IF 1 > Len(dag.nodes) THEN 0 ELSE Len(dag.nodes) - 1 + 1
    BY <2>1, FS_Interval
  <2> QED BY <2>1, <2>2
<1>2. f \in Surjection(N, T)
  BY DEF Surjection
<1>3. f \in [N -> T] /\ \A n \in N : f[n] = decoded[n]
  OBVIOUS
<1>4. Cardinality(T) # Cardinality(N)
  BY <1>1
<1> HIDE DEF N, T, f
<1>5. f \notin Injection(N, T)
  BY <1>1, <1>2, <1>4, FS_Surjection
<1>6. ~IsInjective(f)
  BY <1>3, <1>5 DEF Injection
<1>7. \E m, n \in N : m # n /\ f[m] = f[n]
  BY <1>3, <1>6 DEF IsInjective
<1> QED BY <1>3, <1>7 DEF N

\* decode ends with an expression for every node, or refuses a repetition.
LEMMA EndDecodeInv ==
  ASSUME DagInv, EndDecode
  PROVE  DagInv'
<1>1. /\ dpc = "decode" /\ stack = <<>> /\ dag \in Dags /\ Wired(dag) /\ Sound(dag)
  BY DEF EndDecode, DagInv
<1>2. CASE Cardinality({decoded[n] : n \in Nodes(dag)}) # Len(dag.nodes)
  <2>1. dpc' = "refused" /\ UNCHANGED <<dag, stack, decoded>>
    BY <1>2 DEF EndDecode, Refuse
  <2>2. Duplicate
    BY <1>1, <1>2, FewerExpressions DEF Duplicate
  <2>3. Duplicate'
    BY <2>1, <2>2 DEF Duplicate
  <2> QED BY <1>1, <2>1, <2>3 DEF DagInv
<1>3. CASE Cardinality({decoded[n] : n \in Nodes(dag)}) = Len(dag.nodes)
  <2>1. dpc' = "accepted" /\ UNCHANGED dag
    BY <1>3 DEF EndDecode
  <2> QED BY <1>1, <2>1 DEF DagInv
<1> QED BY <1>2, <1>3

\* Every step on a DAG keeps the invariant.
LEMMA StepDag ==
  ASSUME DagInv, DagStep \/ UNCHANGED dagVars
  PROVE  DagInv'
<1>1. CASE UNCHANGED dagVars
  BY <1>1 DEF DagInv, Searching, Frames, Roots, Finished, Current, Duplicate, dagVars
<1> QED BY <1>1, CheckShapeInv, EnterInv, LeaveInv, EndVisitInv, EndDecodeInv DEF DagStep
=============================================================================
