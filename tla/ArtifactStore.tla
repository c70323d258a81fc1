----------------------------- MODULE ArtifactStore -----------------------------
(***************************************************************************)
(* The packaged artifacts (artifacts.py): JSON documents read once per     *)
(* process, lookups in them, their integrity check, and the replay of a    *)
(* Schur certificate (schur.py).                                           *)
(*                                                                         *)
(* A document is "good", "altered" (in data no call here asks for),        *)
(* "schema" (another schema version), "overlapping" (a supplement that     *)
(* repeats a certificate), "missing", "broken" (no JSON object) or         *)
(* "undecodable" (not UTF-8).                                              *)
(* Values are counted in twelfths and a tolerance below one twelfth is 0;  *)
(* the gammas are those of the corpus, -1, 0 and 1, or not exact.          *)
(***************************************************************************)
EXTENDS Integers, Sequences, FiniteSets, FiniteSetsExt, SequencesExt

CONSTANTS
  Unset,         \* no value
  Faults,        \* what may be found instead of a good document
  MaxFaults,     \* bound: how many documents are not good
  MaxCalls,      \* bound: how many calls a process makes
  ClassCoeffs,   \* classes.json: class -> <<B1, B2, B3>>
  Bounded,       \* the classes that have an expansion and bounds
  Certificates   \* name -> [class, functional, gammas, status, candidate, bound, proven]

\* What a lookup may raise.
Exceptions == {"CorruptArtifactError", "InvalidInputError", "UnresolvedError", "UnsupportedError", "ValueError"}

\* classes.json has exact coefficients; the corpus is of its classes.
ASSUME StoreAssumption ==
  /\ Unset \notin Int \cup [kind : {"raised"}, exception : Exceptions]
  /\ \A class \in DOMAIN ClassCoeffs : \A n \in 1..3 : ClassCoeffs[class][n] \in Int
  /\ \A name \in DOMAIN Certificates :
       LET c == Certificates[name] IN
       /\ c.class \in DOMAIN ClassCoeffs /\ c.gammas \in Seq({-1, 0, 1, Unset})
       /\ c.candidate.form \in {"exact", "float", "none", "malformed"}
       /\ c.proven \in BOOLEAN

VARIABLES
  disk,       \* document -> what the package directory holds
  memory,     \* document -> what _load_json has cached, "none" if nothing
  lookup,     \* the call: [op, class, name]
  calls,      \* how many there were
  todo,       \* documents it has still to read
  found       \* what it returned or raised

storeVars == <<disk, memory, lookup, calls, todo, found>>

-----------------------------------------------------------------------------
(* Schur machinery *)

Order == 3
\* The k-th coefficient of the product of two series without constant term.
Convolved(s, t, k) == SumFunction([j \in 1..(k - 1) |-> s[j] * t[k - j]])

\* schur_omega_coefficients: h = (g + z tail) / (1 + g z tail), last gamma first.
Unfold(g, tail) ==
  LET c[k \in 1..Order] == IF k = 1 THEN g ELSE tail[k - 1] - g * Convolved(tail, c, k)
  IN  c
\* The mutant runs the reverse recursion forwards.
OmegaForward(gammas) == FoldLeft(LAMBDA tail, g : Unfold(g, tail), [k \in 1..Order |-> 0], gammas)
Omega(gammas) == FoldRight(Unfold, gammas, [k \in 1..Order |-> 0])

\* member_coefficients: n! times the n-th coefficient of exp(int (phi(w)-1)/z).
Powers(w) ==
  LET p[j \in 1..Order] ==
        [k \in 1..Order |-> IF j = 1 THEN w[k] ELSE Convolved(p[j - 1], w, k)]
  IN  p
Factorial(n) == <<1, 1, 2, 6>>[n + 1]
Series(phi, power) == [k \in 1..Order |-> SumFunction([j \in 1..Order |-> phi[j] * power[j][k]])]
Integrated(q, e, n) ==
  SumFunction([k \in 1..n |-> (q[k] * e[n - k]) * (Factorial(n - 1) \div Factorial(n - k))])
Exponential(q) ==
  LET e[n \in 0..Order] == IF n = 0 THEN 1 ELSE Integrated(q, e, n) IN e
Member(phi, gammas) ==
  LET e == Exponential(Series(phi, Powers(Omega(gammas)))) IN [n \in 1..Order |-> e[n]]

Absolute(n) == IF n < 0 THEN -n ELSE n

\* functional_value, in twelfths; mu is counted in quarters.
Families == {"fekete_szego", "hankel2_2", "inv_a3", "log_gamma2", "zalcman_a2a3_a4"}
ValueAt(functional, e) ==
  Absolute(CASE functional.family = "fekete_szego" -> 6 * e[2] - 3 * functional.mu * e[1] * e[1]
             [] functional.family = "hankel2_2"    -> 2 * e[1] * e[3] - 3 * e[2] * e[2]
             [] functional.family = "inv_a3"       -> 24 * e[1] * e[1] - 6 * e[2]
             [] functional.family = "log_gamma2"   -> 3 * (e[2] - e[1] * e[1])
             [] OTHER                              -> 6 * e[1] * e[2] - 2 * e[3])

-----------------------------------------------------------------------------
(* Outcomes *)

Answer(value) == [kind |-> "answer", value |-> value]
Refused(exception) == [kind |-> "raised", exception |-> exception]

\* verify_certificate with its documents loaded, in the order of its checks.
ReplayCertificate(certificate) ==
  LET candidate == certificate.candidate
      value == ValueAt(certificate.functional, Member(ClassCoeffs[certificate.class], certificate.gammas))
      attained   == value = candidate.value
      consistent == value <= certificate.bound
  IN  IF certificate.gammas = <<>> \/ Unset \in ToSet(certificate.gammas) THEN Refused("UnresolvedError")
      ELSE IF certificate.functional.family \notin Families THEN Refused("UnsupportedError")
      ELSE IF certificate.bound = Unset THEN Refused("CorruptArtifactError")
      ELSE IF candidate.form = "malformed" THEN Refused("CorruptArtifactError")
      ELSE IF candidate.form = "none" THEN Refused("UnresolvedError")
      ELSE IF attained /\ consistent /\ certificate.status = "PROVED"
      THEN Answer(IF certificate.proven THEN "proven_exact_under_declared_assumptions"
                                        ELSE "certified_enclosure")
      ELSE Refused("CorruptArtifactError")

-----------------------------------------------------------------------------
(* Calls *)

Listed == {"bounds", "certificates", "classes", "supplement", "expansions", "open_problems",
           "reconciliation", "references"}
Documents == Listed \cup {"manifest"}

\* What each operation may read, and in which order: a filter reads the document
\* that lists the values it can take, and the command for a proof asks first
\* whether the supplement has it.
Reads(op, class) ==
  LET filter == IF class = Unset THEN <<>> ELSE <<"classes">>
      corpus == <<"certificates", "supplement">>
  IN CASE op = "class"          -> {<<"classes">>}
       [] op = "expansion"      -> {<<"classes", "expansions">>}
       [] op = "bound"          -> {<<"classes", "bounds">>}
       [] op = "table"          -> {<<"supplement">>}
       [] op = "proofs"         -> {corpus \o <<"manifest">> \o filter}
       [] op = "proof"          -> {first \o corpus \o <<"classes">> : first \in {<<>>, <<"supplement">>}}
       [] op = "certificate"    -> {corpus \o <<"classes">>}
       [] op = "open_problems"  -> {<<"open_problems">>}
       [] op = "reconciliation" -> {<<"reconciliation">> \o filter \o more : more \in {<<>>, corpus}}
       [] op = "references"     -> {<<"references">>}
       [] OTHER                 -> {<<"manifest">>}
Operations == {"class", "expansion", "bound", "table", "proofs", "proof", "certificate",
               "open_problems", "reconciliation", "references", "verify", "info"}
Filtered == {"bound", "proofs", "reconciliation"}   \* by functional or status too
Named == {"proof", "certificate"}

StoreInit ==
  /\ \E damaged \in {s \in SUBSET Documents : Cardinality(s) <= MaxFaults} :
       \E fault \in [damaged -> Faults] :
         disk = [d \in Documents |-> IF d \in damaged THEN fault[d] ELSE "good"]
  /\ memory = [d \in Documents |-> "none"]
  /\ lookup = Unset /\ calls = 0 /\ todo = <<>> /\ found = Unset

Call(op, class, name) ==
  /\ todo = <<>> /\ (lookup = Unset \/ found # Unset)
  /\ calls < MaxCalls /\ calls' = calls + 1
  /\ lookup' = [op |-> op, class |-> class, name |-> name]
  /\ todo' \in Reads(op, class) /\ found' = Unset /\ UNCHANGED <<disk, memory>>

\* Between two calls of a process bad documents are reinstalled, or a good one of
\* the listed is damaged.
Reinstall ==
  /\ found # Unset
  /\ IF \E d \in Documents : disk[d] # "good"
     THEN disk' = [d \in Documents |-> "good"]
     ELSE \E d \in Listed, fault \in Faults : disk' = [disk EXCEPT ![d] = fault]
  /\ lookup' = Unset /\ found' = Unset /\ UNCHANGED <<memory, calls, todo>>

\* _load_json is cached, exceptions are not; references.md is no JSON.
Content(d) == IF memory[d] # "none" THEN memory[d] ELSE disk[d]
\* _certificates merges the supplement with the certificates it has just read.
Merging == lookup.op # "table" /\ "certificates" \notin ToSet(todo)
Unreadable(d) ==
  CASE Content(d) = "undecodable" -> "ValueError"
    [] Content(d) = "missing"     -> "CorruptArtifactError"
    [] Content(d) \in {"broken", "schema"} /\ d # "references"              -> "CorruptArtifactError"
    [] Content(d) = "overlapping" /\ d = "supplement" /\ Merging            -> "CorruptArtifactError"
    [] OTHER                                                                -> "none"

\* A class or name that is not in the document just read.
Unknown(d) ==
  \/ d = "classes" /\ lookup.op \notin Named /\ lookup.class \notin DOMAIN ClassCoeffs \cup {Unset}
  \/ d \in {"expansions", "bounds"} /\ lookup.class \notin Bounded
  \/ d = "supplement" /\ Merging /\ lookup.op \in Named /\ lookup.name \notin DOMAIN Certificates

Stop(exception) == found' = Refused(exception) /\ todo' = <<>>

Read ==
  /\ todo # <<>>
  /\ LET d == Head(todo) IN
     /\ memory' = [memory EXCEPT ![d] =
          IF \/ Content(d) \in {"missing", "undecodable"}
             \/ Content(d) = "broken" /\ d # "references"
          THEN "none" ELSE Content(d)]
     /\ IF Unreadable(d) # "none" THEN Stop(Unreadable(d))
        ELSE IF Unknown(d) THEN Stop("UnsupportedError")
        ELSE \/ todo' = Tail(todo) /\ UNCHANGED found
             \/ d = "reconciliation" /\ Stop("InvalidInputError")   \* an unknown category
  /\ UNCHANGED <<disk, lookup, calls>>

\* snapshot_verify reads the files again; the mutant, what it has in memory.
CachedCheck ==
  IF \A d \in Listed : Content(d) = "good" THEN Answer("verified") ELSE Refused("CorruptArtifactError")
IntegrityCheck ==
  IF \A d \in Listed : disk[d] = "good" THEN Answer("verified") ELSE Refused("CorruptArtifactError")

Conclude ==
  /\ lookup # Unset /\ todo = <<>> /\ found = Unset
  /\ \/ lookup.op = "verify" /\ found' = IntegrityCheck
     \/ lookup.op = "certificate" /\ found' = ReplayCertificate(Certificates[lookup.name])
     \/ /\ lookup.op = "proof"   \* it displays the functional
        /\ found' = IF Certificates[lookup.name].functional.family \in Families
                    THEN Answer("record") ELSE Refused("UnsupportedError")
     \/ lookup.op \in Filtered /\ found' = Refused("UnsupportedError")
     \/ lookup.op \notin {"verify", "certificate", "proof"} /\ found' = Answer("record")
  /\ UNCHANGED <<disk, memory, lookup, calls, todo>>

StoreStep ==
  \/ \E op \in Operations \ Named, class \in DOMAIN ClassCoeffs \cup {"unknown", Unset} : Call(op, class, Unset)
  \/ \E op \in Named, name \in DOMAIN Certificates \cup {Unset} : Call(op, Unset, name)
  \/ Read \/ Conclude \/ Reinstall

-----------------------------------------------------------------------------
(* Properties *)

\* The extremal member in closed form: the first gamma that is not 0 makes the
\* Schwarz function a power of z, whatever follows it.
ExtremalMember(phi, gammas) ==
  LET unit == {n \in DOMAIN gammas : gammas[n] # 0}
      j    == Min(unit)
      q    == [k \in 1..Order |->
                 IF unit # {} /\ k % j = 0
                 THEN phi[k \div j] * (IF (k \div j) % 2 = 0 THEN 1 ELSE gammas[j]) ELSE 0]
  IN  <<q[1], q[1] * q[1] + q[2], q[1] * q[1] * q[1] + 3 * q[1] * q[2] + 2 * q[3]>>

\* What a certificate has to say to be replayed, and to be right.
Replayable(c) == c.gammas # <<>> /\ Unset \notin ToSet(c.gammas) /\ c.functional.family \in Families
Consistent(c) ==
  LET value == ValueAt(c.functional, ExtremalMember(ClassCoeffs[c.class], c.gammas))
  IN  /\ c.status = "PROVED" /\ c.candidate.form \in {"exact", "float"}
      /\ c.bound # Unset /\ value = c.candidate.value /\ value <= c.bound

\* A certificate replays exactly when its document says PROVED and the member its
\* gammas describe attains the declared candidate without exceeding the declared
\* bound; what cannot be replayed is unresolved, what disagrees is corrupt
\* (artifacts.py 675-827 and its docstring 676-694; schur.py 76-233).
CertificateVerdictExact ==
  lookup # Unset /\ found # Unset /\ lookup.op = "certificate" /\ lookup.name \in DOMAIN Certificates =>
    LET c == Certificates[lookup.name]
    IN  /\ found.kind = "answer" => Replayable(c) /\ Consistent(c)
        /\ found.kind = "answer" => (found.value = "certified_enclosure" <=> ~c.proven)
        /\ Replayable(c) /\ Consistent(c) /\ found.kind = "raised" =>
             \E d \in Documents : disk[d] # "good" \/ memory[d] \notin {"good", "none"}
        /\ found = Refused("UnresolvedError") => ~Replayable(c) \/ c.candidate.form = "none"

\* The integrity check is about the files as they are, whatever the process has
\* cached before they were reinstalled or damaged: it passes only if every listed
\* document is good on disk, and fails only for one that is not, or for a manifest
\* that it cannot read or has cached (artifacts.py 100-115, 234-291).
IntegrityOfDisk ==
  lookup # Unset /\ found # Unset /\ lookup.op = "verify" =>
    /\ found.kind = "answer" => \A d \in Listed : disk[d] = "good"
    /\ found.kind = "raised" =>
         \/ \E d \in Listed : disk[d] # "good"
         \/ Content("manifest") \in {"missing", "undecodable", "broken", "schema"}
=============================================================================
