------------------------- MODULE BundleManifestProofs -------------------------
(***************************************************************************)
(* Proofs about BundleManifest: for any directory, artifacts, limits and   *)
(* number of writers and verifiers, what a manifest says and what its      *)
(* verification means.                                                     *)
(***************************************************************************)
EXTENDS BundleManifest, RankLemmas

-----------------------------------------------------------------------------
(* Entries of a manifest. *)

\* The domain of a sequence.
LEMMA SeqDomain == \A S : \A s \in Seq(S) : Len(s) \in Nat /\ DOMAIN s = 1..Len(s)
OBVIOUS

\* The fields of an entry; paths are ordered as numbers are.
LEMMA EntryFields == \A e \in Entry : e.path \in Name /\ e.path \in Nat /\ e.size \in Nat
BY BundleAssumption DEF Entry

\* The total of any entries is a natural number: the sum over them is defined.
LEMMA TotalNatural ==
  ASSUME NEW es \in Seq(Entry)
  PROVE  TotalSize(es) \in Nat
<1> DEFINE L == Len(es)
           Defines(f) == f = [n \in 0..L |-> IF n = 0 THEN 0 ELSE f[n - 1] + es[n].size]
           Upto(n, f) == /\ f \in [0..n -> Nat] /\ f[0] = 0
                         /\ \A k \in 1..n : f[k] = f[k - 1] + es[k].size
           NotUpto == {n \in 0..L : ~ \E f : Upto(n, f)}
<1>1. L \in Nat /\ \A k \in 1..L : es[k].size \in Nat
  BY EntryFields
<1>2. NotUpto = {}
  <2> SUFFICES ASSUME NotUpto # {} PROVE FALSE
    OBVIOUS
  <2>1. PICK m \in NotUpto : \A k \in NotUpto : m <= k
    <3>1. NotUpto \in SUBSET Nat
      BY <1>1
    <3> HIDE DEF NotUpto
    <3> QED BY <3>1, LeastNatural
  <2>2. m \in 0..L /\ ~ \E f : Upto(m, f)
    BY <2>1
  <2>3. m # 0
    <3> DEFINE f == [k \in 0..0 |-> 0]
    <3>1. Upto(0, f)
      <4>1. f[0] = 0 /\ f \in [0..0 -> Nat] /\ 1..0 = {}
        OBVIOUS
      <4> QED BY <4>1
    <3> QED BY <2>2, <3>1
  <2>4. m - 1 \in 0..L /\ m - 1 \notin NotUpto
    <3>1. m - 1 \in 0..L /\ ~(m <= m - 1)
      BY <1>1, <2>2, <2>3
    <3> HIDE DEF NotUpto
    <3> QED BY <2>1, <3>1
  <2>5. PICK f : Upto(m - 1, f)
    <3>1. \E f : Upto(m - 1, f)
      BY <2>4
    <3> QED BY <3>1
  <2> DEFINE g == [k \in 0..m |-> IF k = m THEN f[m - 1] + es[m].size ELSE f[k]]
  <2>6. m \in Nat /\ m \in 1..L /\ es[m].size \in Nat /\ f[m - 1] \in Nat
    BY <1>1, <2>2, <2>3, <2>5
  <2>7. g \in [0..m -> Nat]
    BY <2>5, <2>6
  <2>8. g[0] = 0
    BY <2>5, <2>6
  <2>9. \A k \in 1..m : g[k] = g[k - 1] + es[k].size
    BY <2>5, <2>6
  <2> QED BY <2>2, <2>7, <2>8, <2>9
<1>3. PICK f : Upto(L, f)
  BY <1>1, <1>2
<1>4. \E h : Defines(h)
  <2>1. Defines(f)
    BY <1>1, <1>3
  <2> QED BY <2>1
<1> DEFINE sum == CHOOSE h : Defines(h)
<1>5. Defines(sum)
  BY <1>4
<1>6. TotalSize(es) = sum[L]
  BY DEF TotalSize
<1> HIDE DEF sum
<1>7. sum[0] = 0 /\ \A n \in 1..L : sum[n] = sum[n - 1] + es[n].size
  BY <1>1, <1>5
<1> DEFINE Odd == {n \in 0..L : sum[n] \notin Nat}
<1>8. Odd = {}
  <2> SUFFICES ASSUME Odd # {} PROVE FALSE
    OBVIOUS
  <2>1. PICK m \in Odd : \A k \in Odd : m <= k
    <3>1. Odd \in SUBSET Nat
      BY <1>1
    <3> HIDE DEF Odd
    <3> QED BY <3>1, LeastNatural
  <2>2. m \in 1..L /\ m - 1 \in 0..L
    BY <1>1, <1>7, <2>1
  <2>3. sum[m - 1] \in Nat
    BY <2>1, <2>2
  <2> QED BY <1>1, <1>7, <2>1, <2>2, <2>3
<1> QED BY <1>1, <1>6, <1>8

\* Entries whose paths strictly ascend: sorted, and no path twice.
Strict(es) == \A i, j \in DOMAIN es : i < j => es[i].path < es[j].path

\* Sorting entries with different paths makes the paths ascend strictly, and
\* neither loses an entry nor invents one.
LEMMA SortedIsStrict ==
  ASSUME NEW es \in Seq(Entry), IsInjective(Paths(es))
  PROVE  /\ SortedByPath(es) \in Seq(Entry)
         /\ Len(SortedByPath(es)) = Len(es)
         /\ Strict(SortedByPath(es))
         /\ \A k \in DOMAIN es : \E i \in DOMAIN es : SortedByPath(es)[k] = es[i]
         /\ \A i \in DOMAIN es : \E k \in DOMAIN es : SortedByPath(es)[k] = es[i]
<1> DEFINE S == DOMAIN es
           L == Len(es)
           R == {ss \in S \X S : es[ss[1]].path < es[ss[2]].path}
           rank == [i \in S |-> Cardinality(Below(R, S, i))]
           at(k) == CHOOSE i \in S : Place(es, i) = k
<1>1. S = 1..L /\ L \in Nat /\ \A i \in S : es[i] \in Entry /\ es[i].path \in Nat
  BY EntryFields
<1>2. \A i, j \in S : <<i, j>> \in R <=> es[i].path < es[j].path
  OBVIOUS
<1>3. \A i, j \in S : es[i].path = es[j].path => i = j
  BY DEF IsInjective, Paths
<1>4. IsFiniteSet(S) /\ Cardinality(S) = L
  BY <1>1, FS_Interval
<1>5. StrictOrder(R, S)
  BY <1>1, <1>2, <1>3 DEF StrictOrder
<1>6. \A i \in S : Place(es, i) = 1 + rank[i]
  <2> SUFFICES ASSUME NEW i \in S
               PROVE  {j \in S : es[j].path < es[i].path} = Below(R, S, i)
    BY DEF Place
  <2> QED BY <1>2 DEF Below
<1>r. rank = [i \in S |-> Cardinality(Below(R, S, i))]
  OBVIOUS
<1> HIDE DEF R, rank
<1>7. /\ rank \in [S -> 0..(L - 1)]
      /\ \A i, j \in S : <<i, j>> \in R <=> rank[i] < rank[j]
      /\ \A k \in 0..(L - 1) : \E i \in S : rank[i] = k
  <2> HIDE DEF S
  <2> QED BY <1>4, <1>5, <1>r, RankBijection
<1>8. ASSUME NEW k \in S
      PROVE  at(k) \in S /\ rank[at(k)] = k - 1
  <2>1. PICK i \in S : rank[i] = k - 1
    BY <1>1, <1>7
  <2>2. Place(es, i) = k
    BY <1>1, <1>6, <2>1
  <2>3. at(k) \in S /\ Place(es, at(k)) = k
    BY <2>2
  <2> QED BY <1>1, <1>6, <1>7, <2>3
<1> HIDE DEF at
<1>9. SortedByPath(es) = [k \in S |-> es[at(k)]]
  BY DEF SortedByPath, at
<1>10. SortedByPath(es) \in Seq(Entry) /\ Len(SortedByPath(es)) = L
  BY <1>1, <1>8, <1>9
<1>11. Strict(SortedByPath(es))
  <2> SUFFICES ASSUME NEW i \in S, NEW j \in S, i < j
               PROVE  es[at(i)].path < es[at(j)].path
    BY <1>9 DEF Strict
  <2>1. rank[at(i)] < rank[at(j)]
    BY <1>1, <1>8
  <2> QED BY <1>2, <1>7, <1>8, <2>1
<1>12. ASSUME NEW i \in S PROVE \E k \in S : at(k) = i
  <2> DEFINE k == rank[i] + 1
  <2>1. k \in S /\ rank[i] \in Int
    BY <1>1, <1>7
  <2>2. at(k) \in S /\ rank[at(k)] = rank[i]
    BY <1>8, <2>1
  <2>3. at(k) = i
    <3>1. ~(<<at(k), i>> \in R) /\ ~(<<i, at(k)>> \in R)
      BY <1>7, <2>1, <2>2
    <3> QED BY <1>5, <2>2, <3>1 DEF StrictOrder
  <2> QED BY <2>1, <2>3
<1> QED BY <1>8, <1>9, <1>10, <1>11, <1>12

-----------------------------------------------------------------------------
(***************************************************************************)
(* The inductive invariant.                                                *)
(***************************************************************************)
\* What is written for a request: every artifact of it once, in order.
Complete(es, req) ==
  /\ es \in Seq(Entry)
  /\ Len(es) \in 1..MaxArtifacts
  /\ Strict(es)
  /\ \E i \in DOMAIN es : es[i].path = req.primary
  /\ TotalSize(es) <= MaxTotal
  /\ ToSet(Paths(es)) = {req.artifacts[i] : i \in DOMAIN req.artifacts}

PayloadOf(es, req) ==
  [artifacts |-> es, primary |-> req.primary, total |-> TotalSize(es)]

\* A manifest of some writer.
Written(m, reqs) ==
  \E w \in Writer : Complete(m.artifacts, reqs[w]) /\ m = PayloadOf(m.artifacts, reqs[w])

\* Every entry says what its artifact holds.
Measured(es, held) ==
  \A i \in DOMAIN es :
    /\ held[es[i].path] # Absent
    /\ held[es[i].path].size = es[i].size
    /\ held[es[i].path].sha256 = es[i].sha256
    /\ es[i].size <= MaxArtifact

\* An artifact held this checksum, this size, since the verifier read the manifest.
HeldSum(sets, e) == \E c \in sets[e.path] \ {Absent} : c.sha256 = e.sha256
HeldSize(sets, e) == \E c \in sets[e.path] \ {Absent} : c.size = e.size
HeldBoth(sets, e) ==
  \E c \in sets[e.path] \ {Absent} : c.sha256 = e.sha256 /\ c.size = e.size

\* Entry i has been compared and holds, up to the exception for one overtaken.
Compared(sets, raced, es, i) ==
  HeldSum(sets, es[i]) /\ HeldSize(sets, es[i]) /\ (i \in raced \/ HeldBoth(sets, es[i]))

\* The size of entry i has been compared, and is still that of the artifact unless
\* the artifact has been rewritten since.
Sized(sets, raced, es, i) ==
  /\ HeldSize(sets, es[i])
  /\ i \in raced \/ (file[es[i].path] # Absent /\ file[es[i].path].size = es[i].size)

\* What a writer has, at each of its steps.
WriterAt(w) ==
  LET as == request[w].artifacts
      es == entries[w]
  IN  /\ wpc[w] = "stat" =>
           Len(es) = 0 \/ (Len(as) \in 1..MaxArtifacts /\ Len(es) < Len(as))
      /\ wpc[w] = "hash" => Len(as) \in 1..MaxArtifacts /\ Len(es) < Len(as)
      /\ wpc[w] = "encode" => Len(as) \in 1..MaxArtifacts /\ Len(es) = Len(as)
      /\ wpc[w] \in {"stat", "hash", "encode"} =>
           \A i \in DOMAIN es : i \in DOMAIN as /\ es[i].path = as[i]
      /\ wpc[w] \in {"write", "replace"} => Complete(es, request[w])
      /\ wpc[w] = "replace" => temp[w] = PayloadOf(es, request[w])

\* While no artifact changes, all it has is still true.
WriterTrue(w) ==
  changes = 0 =>
    /\ Measured(entries[w], file)
    /\ wpc[w] = "hash" => /\ file[NextName(w)] # Absent
                          /\ file[NextName(w)].size = measured[w]
                          /\ measured[w] <= MaxArtifact

ManifestAt ==
  \/ manifest \in Prior
  \/ Written(manifest, request) /\ (changes = 0 => Measured(manifest.artifacts, file))

\* The steps that compare an entry.
Comparing == {"path", "stat", "hash"}

\* What a verifier knows, at each of its steps.
VerifierAt(v) ==
  LET es == payload[v].artifacts
  IN  /\ vpc[v] = "read" => checked[v] = 0
      /\ vpc[v] \in Comparing \cup {"total", "ok"} =>
           payload[v] # Absent /\ Len(es) \in 1..MaxArtifacts
      /\ vpc[v] \in Comparing => checked[v] < Len(es)
      /\ vpc[v] \in {"total", "ok"} => checked[v] = Len(es)
      /\ vpc[v] # "read" => \A n \in Name : file[n] \in seen[v][n]
      /\ vpc[v] \in Comparing \cup {"total", "ok"} =>
           \A i \in 1..checked[v] : Compared(seen[v], overtaken[v], es, i)
      /\ vpc[v] = "hash" => Sized(seen[v], overtaken[v], es, checked[v] + 1)
      /\ vpc[v] = "ok" => WellFormed(payload[v])

VerifierTrue(v) ==
  changes = 0 /\ vpc[v] # "read" =>
    \/ payload[v] \in Prior
    \/ /\ vpc[v] \notin {"corrupt", "raised"}
       /\ Written(payload[v], request)
       /\ Measured(payload[v].artifacts, file)

BundleInv ==
  /\ TypeOK
  /\ TempHasOwner
  /\ \A w \in Writer : WriterAt(w) /\ WriterTrue(w)
  /\ ManifestAt
  /\ \A v \in Verifier : VerifierAt(v) /\ VerifierTrue(v)

\* Before anything runs.
LEMMA InitBundleInv == Init => BundleInv
<1> SUFFICES ASSUME Init PROVE BundleInv
  OBVIOUS
<1>1. TypeOK
  BY BundleAssumption DEF Init, TypeOK
<1>2. \A w \in Writer : WriterAt(w) /\ WriterTrue(w)
  BY DEF Init, WriterAt, WriterTrue, Measured
<1>3. \A v \in Verifier : VerifierAt(v) /\ VerifierTrue(v)
  BY DEF Init, VerifierAt, VerifierTrue, Comparing
<1> QED BY <1>1, <1>2, <1>3 DEF Init, BundleInv, TempHasOwner, ManifestAt

\* The entries that encoding leaves are complete and as true as the ones it sorts.
LEMMA EncodeSorts ==
  ASSUME NEW es \in Seq(Entry), NEW req \in Request,
         Len(req.artifacts) \in 1..MaxArtifacts, Len(es) = Len(req.artifacts),
         \A i \in DOMAIN es : es[i].path = req.artifacts[i],
         IsInjective(Paths(es)),
         \E i \in DOMAIN es : es[i].path = req.primary,
         TotalSize(SortedByPath(es)) <= MaxTotal
  PROVE  /\ Complete(SortedByPath(es), req)
         /\ \A held : Measured(es, held) => Measured(SortedByPath(es), held)
<1> DEFINE s == SortedByPath(es)
<1>1. /\ s \in Seq(Entry) /\ Len(s) = Len(es) /\ Strict(s)
      /\ \A k \in DOMAIN es : \E i \in DOMAIN es : s[k] = es[i]
      /\ \A i \in DOMAIN es : \E k \in DOMAIN es : s[k] = es[i]
  BY SortedIsStrict
<1> HIDE DEF s
<1>2. req.artifacts \in Seq(Name)
  BY DEF Request
<1>3. DOMAIN req.artifacts = DOMAIN es /\ DOMAIN s = DOMAIN es
  <2>1. DOMAIN req.artifacts = 1..Len(req.artifacts)
    BY <1>2, SeqDomain
  <2>2. DOMAIN es = 1..Len(es) /\ DOMAIN s = 1..Len(s)
    BY <1>1, SeqDomain
  <2> QED BY <1>1, <2>1, <2>2
<1>4. ToSet(Paths(s)) = {req.artifacts[i] : i \in DOMAIN req.artifacts}
  <2>1. ToSet(Paths(s)) = {s[k].path : k \in DOMAIN es}
    BY <1>3 DEF ToSet, Paths
  <2>2. ASSUME NEW k \in DOMAIN es PROVE \E i \in DOMAIN es : s[k].path = req.artifacts[i]
    <3>1. PICK i \in DOMAIN es : s[k] = es[i]
      BY <1>1
    <3> QED BY <3>1
  <2>3. ASSUME NEW i \in DOMAIN es PROVE \E k \in DOMAIN es : s[k].path = req.artifacts[i]
    <3>1. PICK k \in DOMAIN es : s[k] = es[i]
      BY <1>1
    <3> QED BY <3>1
  <2>4. {s[k].path : k \in DOMAIN es} \subseteq {req.artifacts[i] : i \in DOMAIN es}
    BY <2>2
  <2>5. {req.artifacts[i] : i \in DOMAIN es} \subseteq {s[k].path : k \in DOMAIN es}
    <3> SUFFICES ASSUME NEW i \in DOMAIN es
                 PROVE  req.artifacts[i] \in {s[k].path : k \in DOMAIN es}
      OBVIOUS
    <3>1. PICK k \in DOMAIN es : s[k].path = req.artifacts[i]
      BY <2>3
    <3> QED BY <3>1
  <2> QED BY <1>3, <2>1, <2>4, <2>5
<1>5. \E k \in DOMAIN s : s[k].path = req.primary
  <2>1. PICK i \in DOMAIN es : es[i].path = req.primary
    OBVIOUS
  <2>2. PICK k \in DOMAIN es : s[k] = es[i]
    BY <1>1
  <2> QED BY <1>3, <2>1, <2>2
<1>6. Complete(s, req)
  <2>1. Len(s) \in 1..MaxArtifacts /\ TotalSize(s) <= MaxTotal
    BY <1>1, <1>2 DEF s
  <2> QED BY <1>1, <1>4, <1>5, <2>1 DEF Complete
<1>7. \A held : Measured(es, held) => Measured(s, held)
  <2> SUFFICES ASSUME NEW held, Measured(es, held), NEW k \in DOMAIN s
               PROVE  /\ held[s[k].path] # Absent
                      /\ held[s[k].path].size = s[k].size
                      /\ held[s[k].path].sha256 = s[k].sha256
                      /\ s[k].size <= MaxArtifact
    BY DEF Measured
  <2>1. PICK i \in DOMAIN es : s[k] = es[i]
    BY <1>1, <1>3
  <2> QED BY <2>1 DEF Measured
<1> QED BY <1>6, <1>7 DEF s

\* A complete payload is a manifest, and a well-formed one.
LEMMA PayloadWritten ==
  ASSUME NEW es, NEW req \in Request, Complete(es, req)
  PROVE  /\ PayloadOf(es, req) \in Manifest
         /\ WellFormed(PayloadOf(es, req))
<1>1. TotalSize(es) \in Nat
  BY TotalNatural DEF Complete
<1>2. PayloadOf(es, req) \in Manifest
  BY <1>1 DEF Complete, PayloadOf, Manifest, Request
<1>3. WellFormed(PayloadOf(es, req))
  <2>1. \A i \in 1..(Len(es) - 1) : es[i].path < es[i + 1].path
    <3>1. \A i \in 1..(Len(es) - 1) : i \in DOMAIN es /\ i + 1 \in DOMAIN es /\ i < i + 1
      BY DEF Complete
    <3> QED BY <3>1 DEF Complete, Strict
  <2> QED BY <2>1 DEF Complete, PayloadOf, WellFormed
<1> QED BY <1>2, <1>3

-----------------------------------------------------------------------------
(* Steps: what a step of one process leaves to the others. *)

\* A manifest with its writer's request, and what measures up, stay.
LEMMA ManifestFrame ==
  ASSUME ManifestAt, manifest' = manifest, request' = request,
         changes' = changes, file' = file
  PROVE  ManifestAt'
BY DEF ManifestAt

\* What one writer has does not depend on what the other processes do.
LEMMA WriterFrame ==
  ASSUME NEW x \in Writer, WriterAt(x), WriterTrue(x),
         wpc'[x] = wpc[x], request' = request, entries'[x] = entries[x],
         measured'[x] = measured[x], temp'[x] = temp[x],
         changes' = changes, file' = file
  PROVE  WriterAt(x)' /\ WriterTrue(x)'
BY DEF WriterAt, WriterTrue, NextName

\* Nor what a verifier knows.
LEMMA VerifierFrame ==
  ASSUME NEW x \in Verifier, VerifierAt(x), VerifierTrue(x),
         vpc'[x] = vpc[x], payload'[x] = payload[x], checked'[x] = checked[x],
         seen'[x] = seen[x], overtaken'[x] = overtaken[x],
         request' = request, changes' = changes, file' = file
  PROVE  VerifierAt(x)' /\ VerifierTrue(x)'
BY DEF VerifierAt, VerifierTrue, Comparing, Compared, Sized, HeldSum, HeldSize, HeldBoth

\* A step of one writer that changes neither an artifact nor the manifest, and
\* keeps its own part of the invariant, keeps the whole of it.
LEMMA WriterStep ==
  ASSUME BundleInv, NEW w \in Writer, TypeOK',
         UNCHANGED <<changes, file, manifest, request, verifierVars>>,
         \A x \in Writer \ {w} : /\ wpc'[x] = wpc[x] /\ entries'[x] = entries[x]
                                 /\ measured'[x] = measured[x] /\ temp'[x] = temp[x],
         temp'[w] # Absent => wpc'[w] \in {"write", "replace", "unlink", "leftover", "killed"},
         WriterAt(w)', WriterTrue(w)'
  PROVE  BundleInv'
<1>1. TempHasOwner'
  BY DEF BundleInv, TempHasOwner
<1>2. ASSUME NEW x \in Writer PROVE WriterAt(x)' /\ WriterTrue(x)'
  <2>1. CASE x = w
    BY <2>1
  <2>2. CASE x # w
    BY <2>2, WriterFrame DEF BundleInv
  <2> QED BY <2>1, <2>2
<1>3. ManifestAt'
  BY ManifestFrame DEF BundleInv
<1>4. ASSUME NEW v \in Verifier PROVE VerifierAt(v)' /\ VerifierTrue(v)'
  BY VerifierFrame DEF BundleInv, verifierVars, observed
<1> QED BY <1>1, <1>2, <1>3, <1>4 DEF BundleInv

\* A step of one verifier that keeps its own part of the invariant keeps all of it.
LEMMA VerifierStep ==
  ASSUME BundleInv, NEW v \in Verifier, TypeOK',
         UNCHANGED <<changes, file, manifest, writerVars>>,
         \A x \in Verifier \ {v} : /\ vpc'[x] = vpc[x] /\ payload'[x] = payload[x]
                                   /\ checked'[x] = checked[x] /\ seen'[x] = seen[x]
                                   /\ overtaken'[x] = overtaken[x],
         VerifierAt(v)', VerifierTrue(v)'
  PROVE  BundleInv'
<1>1. TempHasOwner'
  BY DEF BundleInv, TempHasOwner, writerVars
<1>2. ASSUME NEW x \in Writer PROVE WriterAt(x)' /\ WriterTrue(x)'
  BY WriterFrame DEF BundleInv, writerVars
<1>3. ManifestAt'
  BY ManifestFrame DEF BundleInv, writerVars
<1>4. ASSUME NEW x \in Verifier PROVE VerifierAt(x)' /\ VerifierTrue(x)'
  <2>1. CASE x = v
    BY <2>1
  <2>2. CASE x # v
    BY <2>2, VerifierFrame DEF BundleInv, writerVars
  <2> QED BY <2>1, <2>2
<1> QED BY <1>1, <1>2, <1>3, <1>4 DEF BundleInv

\* The artifact a writer measures and hashes next, while there is one.
LEMMA NextNameIsName ==
  ASSUME TypeOK, NEW w \in Writer, Len(entries[w]) < Len(request[w].artifacts)
  PROVE  /\ NextName(w) \in Name
         /\ request[w].artifacts \in Seq(Name) /\ entries[w] \in Seq(Entry)
         /\ request[w] \in Request
<1>1. request[w] \in Request /\ entries[w] \in Seq(Entry)
  BY BundleAssumption DEF TypeOK
<1>2. request[w].artifacts \in Seq(Name)
  BY <1>1 DEF Request
<1>3. Len(entries[w]) + 1 \in 1..Len(request[w].artifacts)
  BY <1>1, <1>2
<1> QED BY <1>1, <1>2, <1>3 DEF NextName

\* A stat keeps the invariant.
LEMMA StepStat ==
  ASSUME BundleInv, NEW w \in Writer, StatArtifact(w)
  PROVE  BundleInv'
<1> DEFINE as == request[w].artifacts
           n == NextName(w)
<1>1. TypeOK /\ WriterAt(w) /\ WriterTrue(w) /\ TempHasOwner
  BY DEF BundleInv
<1>2. /\ wpc[w] = "stat"
      /\ UNCHANGED <<changes, file, manifest, request, entries, temp, verifierVars>>
  BY DEF StatArtifact
<1>3. as \in Seq(Name) /\ entries[w] \in Seq(Entry) /\ temp[w] = Absent
  <2>1. request[w] \in Request /\ entries[w] \in Seq(Entry)
    BY <1>1, BundleAssumption DEF TypeOK
  <2>2. as \in Seq(Name)
    BY <2>1 DEF Request
  <2> QED BY <1>1, <1>2, <2>1, <2>2 DEF TempHasOwner
<1>4. CASE WriterGoto(w, "raised") /\ UNCHANGED measured
  <2>1. TypeOK'
    BY <1>1, <1>2, <1>4 DEF TypeOK, WriterGoto, verifierVars, observed
  <2>2. wpc'[w] = "raised"
    BY <1>1, <1>4 DEF TypeOK, WriterGoto
  <2>3. WriterAt(w)' /\ WriterTrue(w)'
    BY <1>1, <1>2, <2>2 DEF WriterAt, WriterTrue
  <2> QED BY <1>2, <1>3, <1>4, <2>1, <2>2, <2>3, WriterStep DEF WriterGoto
<1>5. CASE /\ Len(as) \in 1..MaxArtifacts
           /\ file[n] # Absent /\ ~(file[n].size > MaxArtifact)
           /\ WriterGoto(w, "hash")
           /\ measured' = [measured EXCEPT ![w] = file[n].size]
  <2>1. Len(entries[w]) < Len(as)
    BY <1>1, <1>2, <1>3, <1>5 DEF WriterAt
  <2>2. n \in Name
    BY <1>1, <2>1, NextNameIsName
  <2>3. file[n].size \in Nat /\ file[n].size <= MaxArtifact
    <3>1. file[n] \in Content
      BY <1>1, <1>5, <2>2 DEF TypeOK
    <3>2. file[n].size \in Nat /\ MaxArtifact \in Nat
      BY <3>1, BundleAssumption
    <3> HIDE DEF n
    <3> QED BY <1>5, <3>2
  <2> HIDE DEF n
  <2>4. TypeOK'
    BY <1>1, <1>2, <1>5, <2>3 DEF TypeOK, WriterGoto, verifierVars, observed
  <2>5. wpc'[w] = "hash" /\ measured'[w] = file[n].size
    BY <1>1, <1>5 DEF TypeOK, WriterGoto
  <2>6. WriterAt(w)'
    BY <1>1, <1>2, <1>5, <2>1, <2>5 DEF WriterAt
  <2>7. NextName(w)' = n
    BY <1>2 DEF NextName, n
  <2>8. WriterTrue(w)'
    BY <1>1, <1>2, <1>5, <2>3, <2>5, <2>7 DEF WriterTrue
  <2> QED BY <1>2, <1>3, <1>5, <2>4, <2>5, <2>6, <2>8, WriterStep DEF WriterGoto
<1> QED BY <1>4, <1>5 DEF StatArtifact

\* Hashing an artifact keeps the invariant.
LEMMA StepHash ==
  ASSUME BundleInv, NEW w \in Writer, HashArtifact(w)
  PROVE  BundleInv'
<1> DEFINE as == request[w].artifacts
           es == entries[w]
           n == NextName(w)
           e == [path |-> n, size |-> measured[w], sha256 |-> file[n].sha256]
<1>1. TypeOK /\ WriterAt(w) /\ WriterTrue(w) /\ TempHasOwner
  BY DEF BundleInv
<1>2. /\ wpc[w] = "hash"
      /\ UNCHANGED <<changes, file, manifest, request, measured, temp, verifierVars>>
  BY DEF HashArtifact
<1>3. /\ as \in Seq(Name) /\ es \in Seq(Entry) /\ n \in Name /\ n = as[Len(es) + 1]
      /\ Len(as) \in 1..MaxArtifacts /\ Len(es) < Len(as) /\ temp[w] = Absent
  BY <1>1, <1>2, NextNameIsName DEF WriterAt, TempHasOwner, NextName
<1>4. CASE file[n] = Absent
  <2>0. WriterGoto(w, "raised") /\ UNCHANGED entries
    BY <1>4 DEF HashArtifact
  <2>1. TypeOK'
    BY <1>1, <1>2, <2>0 DEF TypeOK, WriterGoto, verifierVars, observed
  <2>2. wpc'[w] = "raised"
    BY <1>1, <2>0 DEF TypeOK, WriterGoto
  <2>3. WriterAt(w)' /\ WriterTrue(w)'
    BY <1>1, <1>2, <2>0, <2>2 DEF WriterAt, WriterTrue
  <2> QED BY <1>2, <1>3, <2>0, <2>1, <2>2, <2>3, WriterStep DEF WriterGoto
<1>5. CASE file[n] # Absent
  <2> DEFINE t == Append(es, e)
  <2>0. /\ entries' = [entries EXCEPT ![w] = t]
        /\ WriterGoto(w, IF Len(entries'[w]) < Len(as) THEN "stat" ELSE "encode")
    BY <1>5 DEF HashArtifact
  <2>1. e \in Entry /\ measured[w] \in Nat
    BY <1>1, <1>3, <1>5 DEF TypeOK, Entry
  <2>2. /\ t \in Seq(Entry) /\ Len(t) = Len(es) + 1
        /\ \A i \in DOMAIN t : i \in DOMAIN es \/ i = Len(es) + 1
        /\ \A i \in DOMAIN es : t[i] = es[i]
        /\ t[Len(es) + 1] = e
    BY <1>3, <2>1
  <2>3. e.path = n /\ e.size = measured[w] /\ e.sha256 = file[n].sha256
    OBVIOUS
  <2> HIDE DEF t, e
  <2>4. entries'[w] = t
    BY <1>1, <2>0 DEF TypeOK
  <2>5. wpc' = [wpc EXCEPT ![w] = IF Len(t) < Len(as) THEN "stat" ELSE "encode"]
    BY <2>0, <2>4 DEF WriterGoto
  <2>6. TypeOK'
    BY <1>1, <1>2, <2>0, <2>2, <2>5 DEF TypeOK, verifierVars, observed
  <2>7. wpc'[w] = IF Len(t) < Len(as) THEN "stat" ELSE "encode"
    BY <1>1, <2>5 DEF TypeOK
  <2>8. \A i \in DOMAIN t : i \in DOMAIN as /\ t[i].path = as[i]
    <3>1. \A i \in DOMAIN es : i \in DOMAIN as /\ es[i].path = as[i]
      BY <1>1, <1>2 DEF WriterAt
    <3>2. Len(es) + 1 \in DOMAIN as
      BY <1>3
    <3> QED BY <1>3, <2>2, <2>3, <3>1, <3>2
  <2>9. WriterAt(w)'
    <3>1. /\ Len(t) < Len(as) \/ Len(t) = Len(as)
          /\ Len(t) \in Nat
      BY <1>3, <2>2
    <3> QED BY <1>2, <1>3, <2>2, <2>4, <2>7, <2>8, <3>1 DEF WriterAt
  <2>10. WriterTrue(w)'
    <3> SUFFICES ASSUME changes = 0 PROVE Measured(t, file)
      BY <1>2, <2>4, <2>7 DEF WriterTrue
    <3>1. Measured(es, file) /\ file[n].size = measured[w] /\ measured[w] <= MaxArtifact
      BY <1>1, <1>2 DEF WriterTrue
    <3> QED BY <1>5, <2>2, <2>3, <3>1 DEF Measured
  <2> QED BY <1>2, <1>3, <2>0, <2>5, <2>6, <2>9, <2>10, WriterStep
<1> QED BY <1>4, <1>5

\* Checking and sorting the entries keeps the invariant.
LEMMA StepEncode ==
  ASSUME BundleInv, NEW w \in Writer, Encode(w)
  PROVE  BundleInv'
<1> DEFINE es == entries[w]
           req == request[w]
<1>1. TypeOK /\ WriterAt(w) /\ WriterTrue(w) /\ TempHasOwner
  BY DEF BundleInv
<1>2. /\ wpc[w] = "encode"
      /\ UNCHANGED <<changes, file, manifest, request, measured, verifierVars>>
  BY DEF Encode
<1>3. es \in Seq(Entry) /\ req \in Request /\ temp[w] = Absent
  BY <1>1, <1>2, BundleAssumption DEF TypeOK, TempHasOwner
<1>4. CASE WriterGoto(w, "raised") /\ UNCHANGED <<entries, temp>>
  <2>1. TypeOK'
    BY <1>1, <1>2, <1>4 DEF TypeOK, WriterGoto, verifierVars, observed
  <2>2. wpc'[w] = "raised"
    BY <1>1, <1>4 DEF TypeOK, WriterGoto
  <2>3. WriterAt(w)' /\ WriterTrue(w)'
    BY <1>1, <1>2, <1>4, <2>2 DEF WriterAt, WriterTrue
  <2> QED BY <1>2, <1>3, <1>4, <2>1, <2>2, <2>3, WriterStep DEF WriterGoto
<1>5. CASE /\ IsInjective(Paths(es))
           /\ \E i \in DOMAIN es : es[i].path = req.primary
           /\ TotalSize(SortedByPath(es)) <= MaxTotal
           /\ WriterGoto(w, "write")
           /\ entries' = [entries EXCEPT ![w] = SortedByPath(@)]
           /\ temp' = [temp EXCEPT ![w] = Partial]
  <2> DEFINE s == SortedByPath(es)
  <2>1. /\ Len(req.artifacts) \in 1..MaxArtifacts /\ Len(es) = Len(req.artifacts)
        /\ \A i \in DOMAIN es : es[i].path = req.artifacts[i]
    BY <1>1, <1>2 DEF WriterAt
  <2>2. Complete(s, req) /\ \A held : Measured(es, held) => Measured(s, held)
    BY <1>3, <1>5, <2>1, EncodeSorts
  <2>3. s \in Seq(Entry)
    BY <2>2 DEF Complete
  <2>4. entries' = [entries EXCEPT ![w] = s]
    BY <1>5
  <2> HIDE DEF s
  <2>5. TypeOK'
    BY <1>1, <1>2, <1>5, <2>3, <2>4 DEF TypeOK, WriterGoto, verifierVars, observed
  <2>6. wpc'[w] = "write" /\ entries'[w] = s
    BY <1>1, <1>5, <2>4 DEF TypeOK, WriterGoto
  <2>7. WriterAt(w)'
    BY <1>2, <2>2, <2>6 DEF WriterAt
  <2>8. WriterTrue(w)'
    BY <1>1, <1>2, <2>2, <2>6 DEF WriterTrue
  <2> QED BY <1>2, <1>5, <2>4, <2>5, <2>6, <2>7, <2>8, WriterStep DEF WriterGoto
<1> QED BY <1>4, <1>5 DEF Encode

\* Writing the temporary file, or failing to, keeps the invariant.
LEMMA StepWrite ==
  ASSUME BundleInv, NEW w \in Writer, WriteTemp(w)
  PROVE  BundleInv'
<1>1. TypeOK /\ WriterAt(w) /\ WriterTrue(w)
  BY DEF BundleInv
<1>2. /\ wpc[w] = "write"
      /\ UNCHANGED <<changes, file, manifest, request, entries, measured, verifierVars>>
  BY DEF WriteTemp
<1>3. Complete(entries[w], request[w]) /\ request[w] \in Request
  BY <1>1, <1>2, BundleAssumption DEF WriterAt, TypeOK
<1>4. Payload(w) = PayloadOf(entries[w], request[w]) /\ Payload(w) \in Manifest
  BY <1>3, PayloadWritten DEF Payload, PayloadOf
<1>5. CASE WriterGoto(w, "replace") /\ temp' = [temp EXCEPT ![w] = Payload(w)]
  <2>1. TypeOK'
    BY <1>1, <1>2, <1>4, <1>5 DEF TypeOK, WriterGoto, verifierVars, observed
  <2>2. wpc'[w] = "replace" /\ temp'[w] = PayloadOf(entries[w], request[w])
    BY <1>1, <1>4, <1>5 DEF TypeOK, WriterGoto
  <2>3. WriterAt(w)' /\ WriterTrue(w)'
    BY <1>1, <1>2, <1>3, <2>2 DEF WriterAt, WriterTrue
  <2> QED BY <1>2, <1>5, <2>1, <2>2, <2>3, WriterStep DEF WriterGoto
<1>6. CASE WriterGoto(w, "unlink") /\ UNCHANGED temp
  <2>1. TypeOK'
    BY <1>1, <1>2, <1>6 DEF TypeOK, WriterGoto, verifierVars, observed
  <2>2. wpc'[w] = "unlink"
    BY <1>1, <1>6 DEF TypeOK, WriterGoto
  <2>3. WriterAt(w)' /\ WriterTrue(w)'
    BY <1>1, <1>2, <2>2 DEF WriterAt, WriterTrue
  <2> QED BY <1>2, <1>6, <2>1, <2>2, <2>3, WriterStep DEF WriterGoto
<1> QED BY <1>5, <1>6 DEF WriteTemp

\* Removing the temporary file keeps the invariant.
LEMMA StepUnlink ==
  ASSUME BundleInv, NEW w \in Writer, UnlinkTemp(w)
  PROVE  BundleInv'
<1>1. TypeOK /\ WriterAt(w) /\ WriterTrue(w)
  BY DEF BundleInv
<1>2. UNCHANGED <<changes, file, manifest, request, entries, measured, verifierVars>>
  BY DEF UnlinkTemp
<1>3. CASE WriterGoto(w, "raised") /\ temp' = [temp EXCEPT ![w] = Absent]
  <2>1. TypeOK'
    BY <1>1, <1>2, <1>3 DEF TypeOK, WriterGoto, verifierVars, observed
  <2>2. wpc'[w] = "raised" /\ temp'[w] = Absent
    BY <1>1, <1>3 DEF TypeOK, WriterGoto
  <2>3. WriterAt(w)' /\ WriterTrue(w)'
    BY <1>1, <1>2, <2>2 DEF WriterAt, WriterTrue
  <2> QED BY <1>2, <1>3, <2>1, <2>2, <2>3, WriterStep DEF WriterGoto
<1>4. CASE WriterGoto(w, "leftover") /\ UNCHANGED temp
  <2>1. TypeOK'
    BY <1>1, <1>2, <1>4 DEF TypeOK, WriterGoto, verifierVars, observed
  <2>2. wpc'[w] = "leftover"
    BY <1>1, <1>4 DEF TypeOK, WriterGoto
  <2>3. WriterAt(w)' /\ WriterTrue(w)'
    BY <1>1, <1>2, <2>2 DEF WriterAt, WriterTrue
  <2> QED BY <1>2, <1>4, <2>1, <2>2, <2>3, WriterStep DEF WriterGoto
<1> QED BY <1>3, <1>4 DEF UnlinkTemp

\* So does the death of a writer.
LEMMA StepKill ==
  ASSUME BundleInv, NEW w \in Writer, KillWriter(w)
  PROVE  BundleInv'
<1>1. TypeOK /\ WriterAt(w) /\ WriterTrue(w)
  BY DEF BundleInv
<1>2. TypeOK'
  BY <1>1 DEF TypeOK, KillWriter, WriterGoto, verifierVars, observed
<1>3. wpc'[w] = "killed"
  BY <1>1 DEF TypeOK, KillWriter, WriterGoto
<1>4. WriterAt(w)' /\ WriterTrue(w)'
  BY <1>1, <1>3 DEF WriterAt, WriterTrue, KillWriter
<1> QED BY <1>2, <1>3, <1>4, WriterStep DEF KillWriter, WriterGoto

\* Replacing the manifest publishes a complete payload, true while nothing changes.
LEMMA Published ==
  ASSUME BundleInv, NEW w \in Writer, wpc[w] = "replace",
         WriterGoto(w, "done"), manifest' = temp[w],
         temp' = [temp EXCEPT ![w] = Absent],
         UNCHANGED <<changes, file, request, entries, measured, verifierVars>>
  PROVE  BundleInv'
<1>1. TypeOK /\ WriterAt(w) /\ WriterTrue(w) /\ TempHasOwner
  BY DEF BundleInv
<1>2. wpc' = [wpc EXCEPT ![w] = "done"]
  BY DEF WriterGoto
<1> DEFINE es == entries[w]
<1>3. Complete(es, request[w]) /\ temp[w] = PayloadOf(es, request[w]) /\ request[w] \in Request
  BY <1>1, BundleAssumption DEF WriterAt, TypeOK
<1>4. temp[w] \in Manifest /\ temp[w].artifacts = es
  BY <1>3, PayloadWritten DEF PayloadOf
<1>5. TypeOK'
  BY <1>1, <1>2, <1>4 DEF TypeOK, verifierVars, observed
<1>6. wpc'[w] = "done" /\ temp'[w] = Absent
  BY <1>1, <1>2 DEF TypeOK
<1>7. TempHasOwner'
  BY <1>1, <1>2, <1>6 DEF TempHasOwner
<1>8. ManifestAt'
  <2>1. Written(manifest', request')
    BY <1>3, <1>4 DEF Written
  <2>2. changes' = 0 => Measured((manifest').artifacts, file')
    BY <1>1, <1>4 DEF WriterTrue
  <2> QED BY <2>1, <2>2 DEF ManifestAt
<1>9. ASSUME NEW x \in Writer PROVE WriterAt(x)' /\ WriterTrue(x)'
  <2>1. CASE x = w
    BY <1>1, <1>6, <2>1 DEF WriterAt, WriterTrue
  <2>2. CASE x # w
    BY <1>2, <2>2, WriterFrame DEF BundleInv
  <2> QED BY <2>1, <2>2
<1>10. ASSUME NEW v \in Verifier PROVE VerifierAt(v)' /\ VerifierTrue(v)'
  BY VerifierFrame DEF BundleInv, verifierVars, observed
<1> QED BY <1>5, <1>7, <1>8, <1>9, <1>10 DEF BundleInv

\* Replacing the manifest, or failing to, keeps the invariant.
LEMMA StepReplace ==
  ASSUME BundleInv, NEW w \in Writer, ReplaceManifest(w)
  PROVE  BundleInv'
<1>1. TypeOK /\ WriterAt(w) /\ WriterTrue(w)
  BY DEF BundleInv
<1>2. wpc[w] = "replace" /\ UNCHANGED <<changes, file, request, entries, measured, verifierVars>>
  BY DEF ReplaceManifest
<1>3. CASE /\ WriterGoto(w, "done") /\ manifest' = temp[w]
           /\ temp' = [temp EXCEPT ![w] = Absent]
  BY <1>2, <1>3, Published
<1>4. CASE WriterGoto(w, "unlink") /\ UNCHANGED <<manifest, temp>>
  <2>1. TypeOK'
    BY <1>1, <1>2, <1>4 DEF TypeOK, WriterGoto, verifierVars, observed
  <2>2. wpc'[w] = "unlink"
    BY <1>1, <1>4 DEF TypeOK, WriterGoto
  <2>3. WriterAt(w)' /\ WriterTrue(w)'
    BY <1>1, <1>2, <2>2 DEF WriterAt, WriterTrue
  <2> QED BY <1>2, <1>4, <2>1, <2>2, <2>3, WriterStep DEF WriterGoto
<1> QED BY <1>3, <1>4 DEF ReplaceManifest

\* Reading the manifest keeps the invariant.
LEMMA StepRead ==
  ASSUME BundleInv, NEW v \in Verifier, ReadManifest(v)
  PROVE  BundleInv'
<1> DEFINE now == [n \in Name |-> {file[n]}]
           good == manifest # Absent /\ Len(manifest.artifacts) \in 1..MaxArtifacts
<1>1. TypeOK /\ VerifierAt(v) /\ ManifestAt
  BY DEF BundleInv
<1>2. /\ vpc[v] = "read" /\ payload' = [payload EXCEPT ![v] = manifest]
      /\ seen' = [seen EXCEPT ![v] = now]
      /\ vpc' = [vpc EXCEPT ![v] = IF good THEN "path" ELSE "corrupt"]
      /\ UNCHANGED <<changes, file, manifest, writerVars, checked, overtaken>>
  BY DEF ReadManifest, VerifierGoto
<1>3. now \in [Name -> SUBSET (Content \cup {Absent})] /\ \A n \in Name : file[n] \in now[n]
  BY <1>1 DEF TypeOK
<1> HIDE DEF now
<1>4. TypeOK'
  BY <1>1, <1>2, <1>3 DEF TypeOK, writerVars
<1>5. /\ vpc'[v] = (IF good THEN "path" ELSE "corrupt") /\ payload'[v] = manifest
      /\ checked'[v] = 0 /\ seen'[v] = now /\ request' = request
  BY <1>1, <1>2 DEF TypeOK, VerifierAt, writerVars
<1>6. VerifierAt(v)'
  BY <1>2, <1>3, <1>5 DEF VerifierAt, Comparing
<1>7. VerifierTrue(v)'
  <2>1. ASSUME Written(manifest, request) PROVE good
    <3>1. PICK w \in Writer : /\ Complete(manifest.artifacts, request[w])
                              /\ manifest = PayloadOf(manifest.artifacts, request[w])
      BY <2>1 DEF Written
    <3>2. request[w] \in Request
      BY <1>1, BundleAssumption DEF TypeOK
    <3>3. manifest \in Manifest
      BY <3>1, <3>2, PayloadWritten
    <3> QED BY <3>1, <3>3, BundleAssumption DEF Complete
  <2> HIDE DEF good
  <2> QED BY <1>1, <1>2, <1>5, <2>1 DEF VerifierTrue, ManifestAt
<1> QED BY <1>2, <1>4, <1>6, <1>7, VerifierStep

\* The entry a verifier compares next, while there is one.
LEMMA NextEntryIsEntry ==
  ASSUME TypeOK, NEW v \in Verifier, payload[v] # Absent,
         checked[v] < Len(payload[v].artifacts)
  PROVE  /\ NextEntry(v) \in Entry /\ NextEntry(v).path \in Name
         /\ payload[v].artifacts \in Seq(Entry) /\ checked[v] \in Nat
         /\ checked[v] + 1 \in 1..Len(payload[v].artifacts)
<1>1. payload[v] \in Manifest /\ checked[v] \in Nat
  BY DEF TypeOK
<1>2. payload[v].artifacts \in Seq(Entry)
  BY <1>1 DEF Manifest
<1>3. checked[v] + 1 \in 1..Len(payload[v].artifacts)
  BY <1>1, <1>2
<1>4. NextEntry(v) \in Entry
  BY <1>2, <1>3 DEF NextEntry
<1> QED BY <1>1, <1>2, <1>3, <1>4, EntryFields

\* What the comparison of an entry starts from.
LEMMA AtEntry ==
  ASSUME BundleInv, NEW v \in Verifier, vpc[v] \in Comparing
  PROVE  LET es == payload[v].artifacts
             e == NextEntry(v)
             k == checked[v] + 1
         IN  /\ TypeOK /\ VerifierAt(v) /\ VerifierTrue(v)
             /\ e \in Entry /\ e.path \in Name /\ e = es[k]
             /\ es \in Seq(Entry) /\ checked[v] \in Nat
             /\ k \in DOMAIN es /\ k \in 1..Len(es)
             /\ file[e.path] \in seen[v][e.path]
             /\ changes = 0 /\ payload[v] \notin Prior =>
                  /\ file[e.path] # Absent /\ e.size <= MaxArtifact
                  /\ file[e.path].size = e.size /\ file[e.path].sha256 = e.sha256
<1> DEFINE es == payload[v].artifacts
           e == NextEntry(v)
           k == checked[v] + 1
<1>1. TypeOK /\ VerifierAt(v) /\ VerifierTrue(v)
  BY DEF BundleInv
<1>2. payload[v] # Absent /\ checked[v] < Len(es) /\ vpc[v] # "read"
  BY <1>1 DEF VerifierAt, Comparing
<1>3. /\ e \in Entry /\ e.path \in Name /\ e = es[k]
      /\ es \in Seq(Entry) /\ checked[v] \in Nat
      /\ k \in DOMAIN es /\ k \in 1..Len(es)
  BY <1>1, <1>2, NextEntryIsEntry, SeqDomain DEF NextEntry
<1> HIDE DEF e, k
<1>4. file[e.path] \in seen[v][e.path]
  BY <1>1, <1>2, <1>3 DEF VerifierAt
<1>5. ASSUME changes = 0, payload[v] \notin Prior
      PROVE  /\ file[e.path] # Absent /\ e.size <= MaxArtifact
             /\ file[e.path].size = e.size /\ file[e.path].sha256 = e.sha256
  <2>1. Measured(es, file)
    BY <1>1, <1>2, <1>5 DEF VerifierTrue
  <2> QED BY <1>3, <2>1 DEF Measured
<1> QED BY <1>1, <1>3, <1>4, <1>5 DEF e, k

\* A comparison that only moves the verifier on, or ends it.
LEMMA ComparisonStep ==
  ASSUME BundleInv, NEW v \in Verifier, vpc[v] \in Comparing,
         NEW step \in {"stat", "hash", "corrupt", "raised"},
         VerifierGoto(v, step),
         UNCHANGED <<changes, file, manifest, writerVars, payload, checked, observed>>,
         step = "hash" => Sized(seen[v], overtaken[v], payload[v].artifacts, checked[v] + 1),
         step \in {"corrupt", "raised"} => ~(changes = 0 /\ payload[v] \notin Prior)
  PROVE  BundleInv'
<1>1. TypeOK /\ VerifierAt(v) /\ VerifierTrue(v) /\ vpc[v] # "read"
  BY DEF BundleInv, Comparing
<1>2. vpc' = [vpc EXCEPT ![v] = step] /\ seen' = seen /\ overtaken' = overtaken
  BY DEF VerifierGoto, observed
<1>3. TypeOK' /\ vpc'[v] = step
  BY <1>1, <1>2 DEF TypeOK, writerVars
<1>4. VerifierAt(v)'
  <2> DEFINE es == payload[v].artifacts
  <2>1. /\ payload[v] # Absent /\ Len(es) \in 1..MaxArtifacts /\ checked[v] < Len(es)
        /\ \A n \in Name : file[n] \in seen[v][n]
        /\ \A i \in 1..checked[v] : Compared(seen[v], overtaken[v], es, i)
    BY <1>1 DEF VerifierAt, Comparing
  <2>2. \A i : Compared(seen[v], overtaken[v], es, i) => Compared(seen[v], overtaken[v], es, i)'
    BY <1>2 DEF Compared, HeldSum, HeldSize, HeldBoth
  <2>3. step = "hash" => Sized(seen[v], overtaken[v], es, checked[v] + 1)'
    BY <1>2 DEF Sized, HeldSize
  <2> QED BY <1>2, <1>3, <2>1, <2>2, <2>3 DEF VerifierAt, Comparing
<1>5. VerifierTrue(v)'
  BY <1>1, <1>2, <1>3 DEF VerifierTrue, writerVars
<1> QED BY <1>2, <1>3, <1>4, <1>5, VerifierStep

\* Finding the artifact of an entry keeps the invariant.
LEMMA StepCheckPath ==
  ASSUME BundleInv, NEW v \in Verifier, CheckPath(v)
  PROVE  BundleInv'
<1>1. vpc[v] \in Comparing
  BY DEF CheckPath, Comparing
<1>2. UNCHANGED <<changes, file, manifest, writerVars, payload, checked, observed>>
  BY DEF CheckPath
<1>3. \/ VerifierGoto(v, "stat")
      \/ VerifierGoto(v, "corrupt") /\ ~(changes = 0 /\ payload[v] \notin Prior)
  BY <1>1, AtEntry DEF CheckPath
<1> QED BY <1>1, <1>2, <1>3, ComparisonStep

\* Comparing a size keeps the invariant.
LEMMA StepCompareSize ==
  ASSUME BundleInv, NEW v \in Verifier, CompareSize(v)
  PROVE  BundleInv'
<1>1. vpc[v] \in Comparing
  BY DEF CompareSize, Comparing
<1>2. UNCHANGED <<changes, file, manifest, writerVars, payload, checked, observed>>
  BY DEF CompareSize
<1> DEFINE e == NextEntry(v)
<1>3. /\ file[e.path] \in seen[v][e.path] /\ e = payload[v].artifacts[checked[v] + 1]
      /\ changes = 0 /\ payload[v] \notin Prior => file[e.path] # Absent /\ file[e.path].size = e.size
  BY <1>1, AtEntry
<1>4. \/ VerifierGoto(v, "raised") /\ file[e.path] = Absent
      \/ VerifierGoto(v, "corrupt") /\ file[e.path].size # e.size
      \/ VerifierGoto(v, "hash") /\ file[e.path] # Absent /\ file[e.path].size = e.size
  BY DEF CompareSize
<1> HIDE DEF e
<1>5. ASSUME file[e.path] # Absent, file[e.path].size = e.size
      PROVE  Sized(seen[v], overtaken[v], payload[v].artifacts, checked[v] + 1)
  BY <1>3, <1>5 DEF Sized, HeldSize
<1> QED BY <1>1, <1>2, <1>3, <1>4, <1>5, ComparisonStep

\* Comparing a checksum keeps the invariant.
LEMMA StepCompareHash ==
  ASSUME BundleInv, NEW v \in Verifier, CompareHash(v)
  PROVE  BundleInv'
<1> DEFINE es == payload[v].artifacts
           e == NextEntry(v)
           k == checked[v] + 1
<1>1. vpc[v] = "hash" /\ vpc[v] \in Comparing
  BY DEF CompareHash, Comparing
<1>2. UNCHANGED <<changes, file, manifest, writerVars, payload, observed>>
  BY DEF CompareHash
<1>3. /\ TypeOK /\ VerifierAt(v) /\ VerifierTrue(v)
      /\ e = es[k] /\ es \in Seq(Entry) /\ checked[v] \in Nat
      /\ k \in DOMAIN es /\ k \in 1..Len(es)
      /\ file[e.path] \in seen[v][e.path]
      /\ changes = 0 /\ payload[v] \notin Prior =>
           file[e.path] # Absent /\ file[e.path].sha256 = e.sha256
  BY <1>1, AtEntry
<1>4. \/ VerifierGoto(v, "raised") /\ UNCHANGED checked /\ file[e.path] = Absent
      \/ VerifierGoto(v, "corrupt") /\ UNCHANGED checked /\ file[e.path].sha256 # e.sha256
      \/ /\ file[e.path] # Absent /\ file[e.path].sha256 = e.sha256
         /\ checked' = [checked EXCEPT ![v] = @ + 1]
         /\ VerifierGoto(v, IF checked'[v] < Len(es) THEN "path" ELSE "total")
  BY DEF CompareHash
<1> HIDE DEF e
<1>5. CASE /\ UNCHANGED checked
           /\ \/ VerifierGoto(v, "raised") /\ file[e.path] = Absent
              \/ VerifierGoto(v, "corrupt") /\ file[e.path].sha256 # e.sha256
  <2>1. ~(changes = 0 /\ payload[v] \notin Prior)
    BY <1>3, <1>5
  <2>2. UNCHANGED <<changes, file, manifest, writerVars, payload, checked, observed>>
    BY <1>2, <1>5
  <2> QED BY <1>1, <1>5, <2>1, <2>2, ComparisonStep
<1>6. CASE /\ file[e.path] # Absent /\ file[e.path].sha256 = e.sha256
           /\ checked' = [checked EXCEPT ![v] = @ + 1]
           /\ VerifierGoto(v, IF checked'[v] < Len(es) THEN "path" ELSE "total")
  <2>1. /\ checked'[v] = k /\ seen' = seen /\ overtaken' = overtaken
        /\ vpc' = [vpc EXCEPT ![v] = IF k < Len(es) THEN "path" ELSE "total"]
    BY <1>2, <1>3, <1>6 DEF TypeOK, VerifierGoto, observed
  <2>2. TypeOK' /\ vpc'[v] = IF k < Len(es) THEN "path" ELSE "total"
    BY <1>2, <1>3, <1>6, <2>1 DEF TypeOK, writerVars
  <2>3. Compared(seen[v], overtaken[v], es, k)
    <3>1. Sized(seen[v], overtaken[v], es, k)
      BY <1>1, <1>3 DEF VerifierAt
    <3>2. HeldSum(seen[v], es[k])
      BY <1>3, <1>6 DEF HeldSum
    <3>3. k \in overtaken[v] \/ HeldBoth(seen[v], es[k])
      BY <1>3, <1>6, <3>1 DEF Sized, HeldBoth
    <3> QED BY <3>1, <3>2, <3>3 DEF Sized, Compared
  <2>4. \A i \in 1..k : Compared(seen[v], overtaken[v], es, i)
    <3>1. \A i \in 1..checked[v] : Compared(seen[v], overtaken[v], es, i)
      BY <1>1, <1>3 DEF VerifierAt, Comparing
    <3>2. \A i \in 1..k : i \in 1..checked[v] \/ i = k
      BY <1>3
    <3> QED BY <2>3, <3>1, <3>2
  <2>5. VerifierAt(v)'
    <3>1. k < Len(es) \/ k = Len(es)
      BY <1>3
    <3>2. \A i : Compared(seen[v], overtaken[v], es, i) => Compared(seen[v], overtaken[v], es, i)'
      BY <1>2, <2>1 DEF Compared, HeldSum, HeldSize, HeldBoth
    <3>3. /\ payload[v] # Absent /\ Len(es) \in 1..MaxArtifacts
          /\ \A n \in Name : file[n] \in seen[v][n]
      BY <1>1, <1>3 DEF VerifierAt, Comparing
    <3> HIDE DEF k
    <3> QED BY <1>2, <2>1, <2>2, <2>4, <3>1, <3>2, <3>3 DEF VerifierAt, Comparing
  <2>6. VerifierTrue(v)'
    BY <1>1, <1>2, <1>3, <2>2 DEF VerifierTrue, writerVars
  <2> QED BY <1>2, <1>6, <2>1, <2>2, <2>5, <2>6, VerifierStep
<1> QED BY <1>4, <1>5, <1>6

\* Paths that ascend and are all different ascend strictly, and the other way round.
LEMMA StrictIsAscending ==
  ASSUME NEW es \in Seq(Entry)
  PROVE  Ascending(es) /\ IsInjective(Paths(es)) <=> Strict(es)
<1>1. \A i \in DOMAIN es : i \in Int /\ es[i].path \in Int
  BY EntryFields
<1>2. ASSUME Ascending(es), IsInjective(Paths(es)) PROVE Strict(es)
  <2> SUFFICES ASSUME NEW i \in DOMAIN es, NEW j \in DOMAIN es, i < j
               PROVE  es[i].path < es[j].path
    BY DEF Strict
  <2>1. es[i].path <= es[j].path /\ es[i].path # es[j].path
    <3>1. i # j
      BY <1>1
    <3> QED BY <1>2, <3>1 DEF Ascending, IsInjective, Paths
  <2> QED BY <1>1, <2>1
<1>3. ASSUME Strict(es) PROVE Ascending(es) /\ IsInjective(Paths(es))
  <2>1. Ascending(es)
    BY <1>1, <1>3 DEF Ascending, Strict
  <2>2. ASSUME NEW i \in DOMAIN es, NEW j \in DOMAIN es, es[i].path = es[j].path PROVE i = j
    BY <1>1, <1>3, <2>2 DEF Strict
  <2> QED BY <2>1, <2>2 DEF IsInjective, Paths
<1> QED BY <1>2, <1>3

\* Comparing the totals keeps the invariant.
LEMMA StepCompareTotal ==
  ASSUME BundleInv, NEW v \in Verifier, CompareTotal(v)
  PROVE  BundleInv'
<1> DEFINE m == payload[v]
           es == m.artifacts
           fits == /\ Ascending(es)
                   /\ IsInjective(Paths(es))
                   /\ \E i \in DOMAIN es : es[i].path = m.primary
                   /\ TotalSize(es) = m.total
                   /\ TotalSize(es) <= MaxTotal
<1>1. TypeOK /\ VerifierAt(v) /\ VerifierTrue(v)
  BY DEF BundleInv
<1>2. /\ vpc[v] = "total" /\ vpc' = [vpc EXCEPT ![v] = IF fits THEN "ok" ELSE "corrupt"]
      /\ UNCHANGED <<changes, file, manifest, writerVars, payload, checked, seen, overtaken>>
  BY DEF CompareTotal, VerifierGoto, observed
<1>3. m \in Manifest /\ es \in Seq(Entry) /\ Len(es) \in 1..MaxArtifacts
  BY <1>1, <1>2 DEF TypeOK, VerifierAt, Manifest
<1>4. ASSUME fits PROVE WellFormed(m)
  <2>1. Strict(es)
    BY <1>3, <1>4, StrictIsAscending
  <2>2. \A i \in 1..(Len(es) - 1) : i \in DOMAIN es /\ i + 1 \in DOMAIN es /\ i < i + 1
    BY <1>3
  <2> QED BY <1>3, <1>4, <2>1, <2>2 DEF Strict, WellFormed
<1>5. ASSUME changes = 0, m \notin Prior PROVE fits
  <2>1. PICK w \in Writer : Complete(es, request[w]) /\ m = PayloadOf(es, request[w])
    BY <1>1, <1>2, <1>5 DEF VerifierTrue, Written
  <2>2. m.primary = request[w].primary /\ m.total = TotalSize(es)
    BY <2>1 DEF PayloadOf
  <2> QED BY <1>3, <2>1, <2>2, StrictIsAscending DEF Complete
<1> HIDE DEF fits
<1>6. TypeOK' /\ vpc'[v] = IF fits THEN "ok" ELSE "corrupt"
  BY <1>1, <1>2 DEF TypeOK, writerVars
<1>7. VerifierAt(v)'
  <2>1. \A i : Compared(seen[v], overtaken[v], es, i) => Compared(seen[v], overtaken[v], es, i)'
    BY <1>2 DEF Compared, HeldSum, HeldSize, HeldBoth
  <2> QED BY <1>1, <1>2, <1>4, <1>6, <2>1 DEF VerifierAt, Comparing
<1>8. VerifierTrue(v)'
  BY <1>1, <1>2, <1>5, <1>6 DEF VerifierTrue, writerVars
<1> QED BY <1>2, <1>6, <1>7, <1>8, VerifierStep

\* Rewriting an artifact keeps the invariant: nothing has to be true any more, and
\* what a verifier has seen only grows.
LEMMA StepChange ==
  ASSUME BundleInv, NEW n \in Name, ChangeArtifact(n)
  PROVE  BundleInv'
<1>1. PICK c \in Content \cup {Absent} :
        /\ file' = [file EXCEPT ![n] = c]
        /\ seen' = [v \in Verifier |-> IF vpc[v] = "read" THEN seen[v]
                                       ELSE [seen[v] EXCEPT ![n] = @ \cup {c}]]
  BY DEF ChangeArtifact
<1>0. overtaken' = [v \in Verifier |-> overtaken[v] \cup
                      (IF Between(v, n) THEN {checked[v] + 1} ELSE {})]
  BY DEF ChangeArtifact
<1>2. /\ changes' = changes + 1 /\ changes < MaxChanges
      /\ UNCHANGED <<manifest, writerVars, vpc, payload, checked>>
  BY DEF ChangeArtifact
<1>3. TypeOK
  BY DEF BundleInv
<1>4. ASSUME NEW v \in Verifier
      PROVE  /\ seen'[v] \in [Name -> SUBSET (Content \cup {Absent})]
             /\ \A x \in Name : seen[v][x] \subseteq seen'[v][x]
             /\ vpc[v] # "read" => \A x \in Name : file[x] \in seen[v][x] => file'[x] \in seen'[v][x]
  <2>1. seen[v] \in [Name -> SUBSET (Content \cup {Absent})]
    BY <1>3 DEF TypeOK
  <2>2. CASE vpc[v] = "read"
    BY <1>1, <2>1, <2>2
  <2>3. CASE vpc[v] # "read"
    <3>1. seen'[v] = [seen[v] EXCEPT ![n] = @ \cup {c}]
      BY <1>1, <2>3
    <3>2. \A x \in Name : file'[x] = IF x = n THEN c ELSE file[x]
      BY <1>1, <1>3 DEF TypeOK
    <3> QED BY <2>1, <3>1, <3>2
  <2> QED BY <2>2, <2>3
<1>5. TypeOK'
  <2>1. file' \in [Name -> Content \cup {Absent}]
    BY <1>1, <1>3 DEF TypeOK
  <2>2. changes' \in 0..MaxChanges
    BY <1>2, <1>3, BundleAssumption DEF TypeOK
  <2>3. seen' \in [Verifier -> [Name -> SUBSET (Content \cup {Absent})]]
    BY <1>1, <1>4
  <2>4. overtaken' \in [Verifier -> SUBSET Nat]
    BY <1>0, <1>3 DEF TypeOK
  <2> QED BY <1>2, <1>3, <2>1, <2>2, <2>3, <2>4 DEF TypeOK, writerVars
<1>6. changes' # 0
  BY <1>2, <1>3 DEF TypeOK
<1>7. TempHasOwner' /\ ManifestAt'
  BY <1>2, <1>6 DEF BundleInv, TempHasOwner, ManifestAt, writerVars
<1>8. ASSUME NEW w \in Writer PROVE WriterAt(w)' /\ WriterTrue(w)'
  BY <1>2, <1>6 DEF BundleInv, WriterAt, WriterTrue, writerVars
<1>9. ASSUME NEW v \in Verifier PROVE VerifierAt(v)' /\ VerifierTrue(v)'
  <2> DEFINE es == payload[v].artifacts
  <2>1. VerifierAt(v)
    BY DEF BundleInv
  <2>2. ASSUME NEW i \in DOMAIN es, es[i].path \in Name
        PROVE  /\ HeldSize(seen[v], es[i]) => HeldSize(seen'[v], es[i])
               /\ Compared(seen[v], overtaken[v], es, i) => Compared(seen'[v], overtaken'[v], es, i)
    <3> DEFINE e == es[i]
    <3>1. seen[v][e.path] \subseteq seen'[v][e.path] /\ overtaken[v] \subseteq overtaken'[v]
      BY <1>0, <1>4, <2>2
    <3> HIDE DEF e
    <3>2. /\ HeldSum(seen[v], e) => HeldSum(seen'[v], e)
          /\ HeldSize(seen[v], e) => HeldSize(seen'[v], e)
          /\ HeldBoth(seen[v], e) => HeldBoth(seen'[v], e)
      BY <3>1 DEF HeldSum, HeldSize, HeldBoth
    <3> QED BY <3>1, <3>2 DEF e, Compared
  <2>3. ASSUME vpc[v] \in Comparing \cup {"total", "ok"}
        PROVE  /\ \A i \in 1..Len(es) : i \in DOMAIN es /\ es[i].path \in Name
               /\ Len(es) \in Nat /\ checked[v] \in Nat /\ checked[v] <= Len(es)
               /\ vpc[v] = "hash" => checked[v] + 1 \in 1..Len(es)
    <3>1. payload[v] \in Manifest /\ checked[v] \in Nat
      BY <1>3, <2>1, <2>3 DEF TypeOK, VerifierAt
    <3>2. es \in Seq(Entry)
      BY <3>1 DEF Manifest
    <3>3. \A i \in 1..Len(es) : i \in DOMAIN es /\ es[i].path \in Name
      BY <3>2, EntryFields
    <3>4. /\ checked[v] <= Len(es)
          /\ vpc[v] = "hash" => checked[v] + 1 \in 1..Len(es)
      BY <2>1, <2>3, <3>1, <3>2 DEF VerifierAt, Comparing
    <3> QED BY <3>1, <3>2, <3>3, <3>4
  <2>4. ASSUME vpc[v] \in Comparing \cup {"total", "ok"}, NEW i \in 1..checked[v]
        PROVE  Compared(seen'[v], overtaken'[v], es, i)
    <3>1. i \in DOMAIN es /\ es[i].path \in Name
      BY <2>3, <2>4
    <3>2. Compared(seen[v], overtaken[v], es, i)
      BY <2>1, <2>4 DEF VerifierAt
    <3> QED BY <2>2, <3>1, <3>2
  <2>5. ASSUME vpc[v] = "hash" PROVE Sized(seen[v], overtaken[v], es, checked[v] + 1)'
    <3> DEFINE k == checked[v] + 1
               e == es[k]
    <3>1. k \in DOMAIN es /\ e.path \in Name
      BY <2>3, <2>5 DEF Comparing
    <3>2. HeldSize(seen[v], e) /\ (k \in overtaken[v] \/ (file[e.path] # Absent /\ file[e.path].size = e.size))
      BY <2>1, <2>5 DEF VerifierAt, Sized
    <3>3. HeldSize(seen'[v], e)
      BY <2>2, <3>1, <3>2
    <3>4. e = NextEntry(v)
      BY DEF NextEntry
    <3> HIDE DEF k, e
    <3>5. CASE e.path = n
      <4>1. Between(v, n)
        BY <2>5, <3>4, <3>5 DEF Between
      <4>2. k \in overtaken'[v]
        BY <1>0, <4>1 DEF k
      <4> QED BY <1>2, <3>3, <4>2 DEF Sized, HeldSize, k, e
    <3>6. CASE e.path # n
      <4>1. file'[e.path] = file[e.path] /\ overtaken[v] \subseteq overtaken'[v]
        BY <1>0, <1>1, <1>3, <3>1, <3>6 DEF TypeOK
      <4>2. k \in overtaken'[v] \/ (file'[e.path] # Absent /\ file'[e.path].size = e.size)
        BY <3>2, <4>1
      <4> QED BY <1>2, <3>3, <4>2 DEF Sized, HeldSize, k, e
    <3> QED BY <3>5, <3>6
  <2>6. vpc[v] # "read" => \A x \in Name : file'[x] \in seen'[v][x]
    BY <1>4, <2>1 DEF VerifierAt
  <2>7. VerifierAt(v)'
    <3>1. \A i : Compared(seen'[v], overtaken'[v], es, i) => Compared(seen[v], overtaken[v], es, i)'
      BY <1>2 DEF Compared, HeldSum, HeldSize, HeldBoth
    <3> QED BY <1>2, <2>1, <2>4, <2>5, <2>6, <3>1 DEF VerifierAt, Comparing
  <2> QED BY <1>6, <2>7 DEF VerifierTrue
<1> QED BY <1>5, <1>7, <1>8, <1>9 DEF BundleInv

\* Every step keeps the invariant.
LEMMA StepBundleInv == BundleInv /\ [Next]_vars => BundleInv'
<1> SUFFICES ASSUME BundleInv, [Next]_vars PROVE BundleInv'
  OBVIOUS
<1>1. ASSUME NEW w \in Writer, Write(w) PROVE BundleInv'
  BY <1>1, StepStat, StepHash, StepEncode, StepWrite, StepReplace, StepUnlink DEF Write
<1>2. ASSUME NEW w \in Writer, KillWriter(w) PROVE BundleInv'
  BY <1>2, StepKill
<1>3. ASSUME NEW v \in Verifier, Verify(v) PROVE BundleInv'
  BY <1>3, StepRead, StepCheckPath, StepCompareSize, StepCompareHash, StepCompareTotal DEF Verify
<1>4. ASSUME NEW n \in Name, ChangeArtifact(n) PROVE BundleInv'
  BY <1>4, StepChange
<1>5. CASE UNCHANGED vars
  <2>1. TypeOK' /\ TempHasOwner'
    BY <1>5 DEF BundleInv, TypeOK, TempHasOwner, vars, writerVars, verifierVars, observed
  <2>2. ManifestAt'
    BY <1>5, ManifestFrame DEF BundleInv, vars, writerVars
  <2>3. ASSUME NEW w \in Writer PROVE WriterAt(w)' /\ WriterTrue(w)'
    BY <1>5, WriterFrame DEF BundleInv, vars, writerVars
  <2>4. ASSUME NEW v \in Verifier PROVE VerifierAt(v)' /\ VerifierTrue(v)'
    BY <1>5, VerifierFrame DEF BundleInv, vars, writerVars, verifierVars, observed
  <2> QED BY <2>1, <2>2, <2>3, <2>4 DEF BundleInv
<1> QED BY <1>1, <1>2, <1>3, <1>4, <1>5 DEF Next

\* The invariant holds in every reachable state.
LEMMA AlwaysBundleInv == Spec => []BundleInv
BY InitBundleInv, StepBundleInv, PTL DEF Spec

-----------------------------------------------------------------------------
(* What it shows. *)

\* Every variable keeps its type: among others, whatever a writer publishes is a
\* manifest.
THEOREM BundleTypeCorrect == Spec => []TypeOK
<1>1. BundleInv => TypeOK
  BY DEF BundleInv
<1> QED BY <1>1, AlwaysBundleInv, PTL

\* A temporary file exists only while its writer is between creating it and
\* ending, or was killed there, for any number of writers: the finally clause of
\* write_research_bundle_manifest covers every way out.
THEOREM TempOwned == Spec => []TempHasOwner
<1>1. BundleInv => TempHasOwner
  BY DEF BundleInv
<1> QED BY <1>1, AlwaysBundleInv, PTL

\* The manifest of a directory is the one that was there or the complete,
\* well-formed one of one writer, for any number of writers, any artifacts and any
\* limits: the replacement by os.replace never publishes half a payload.
THEOREM ManifestIsWhole == Spec => []ManifestWhole
<1>1. BundleInv => ManifestWhole
  <2> SUFFICES ASSUME BundleInv, manifest \notin Prior PROVE ManifestWhole
    BY DEF ManifestWhole
  <2>1. PICK w \in Writer : /\ Complete(manifest.artifacts, request[w])
                            /\ manifest = PayloadOf(manifest.artifacts, request[w])
    BY DEF BundleInv, ManifestAt, Written
  <2>2. request[w] \in Request
    BY BundleAssumption DEF BundleInv, TypeOK
  <2>3. WellFormed(manifest)
    BY <2>1, <2>2, PayloadWritten
  <2>4. manifest.primary = request[w].primary
    BY <2>1 DEF PayloadOf
  <2>5. ToSet(Paths(manifest.artifacts)) = Requested(w)
    BY <2>1 DEF Complete, Requested
  <2> QED BY <2>3, <2>4, <2>5 DEF ManifestWhole
<1> QED BY <1>1, AlwaysBundleInv, PTL

\* While no artifact changes, a verifier accepts every manifest a writer wrote,
\* whichever writer replaces it meanwhile: the checks of the two agree.
THEOREM RoundTrip == Spec => []WrittenVerifies
<1>1. BundleInv => WrittenVerifies
  BY DEF BundleInv, VerifierTrue, WrittenVerifies
<1> QED BY <1>1, AlwaysBundleInv, PTL

\* A verifier accepts only a well-formed manifest, and of each entry one version of
\* the artifact, held since the manifest was read, had both the size and the
\* checksum, for any number of writers and any rewriting of artifacts.  The one
\* exception is an artifact rewritten between the comparisons of its own size and
\* checksum: then the two were true of it separately.
THEOREM AcceptedTrue == Spec => []AcceptedWasTrue
<1>1. BundleInv => AcceptedWasTrue
  <2> SUFFICES ASSUME BundleInv, NEW v \in Verifier, vpc[v] = "ok",
                      NEW i \in DOMAIN payload[v].artifacts
               PROVE  Compared(seen[v], overtaken[v], payload[v].artifacts, i)
    BY DEF AcceptedWasTrue, BundleInv, VerifierAt, Compared, HeldSum, HeldSize, HeldBoth
  <2>1. VerifierAt(v) /\ payload[v] \in Manifest
    BY DEF BundleInv, TypeOK, VerifierAt
  <2>2. i \in 1..checked[v]
    BY <2>1, SeqDomain DEF VerifierAt, Manifest
  <2> QED BY <2>1, <2>2 DEF VerifierAt
<1> QED BY <1>1, AlwaysBundleInv, PTL
=============================================================================
