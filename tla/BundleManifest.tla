---------------------------- MODULE BundleManifest ----------------------------
(***************************************************************************)
(* Research bundles (bundle.py): writers record the size and checksum of   *)
(* the artifacts of a directory in one manifest file, verifiers read the   *)
(* manifest and measure the artifacts again.  Several of each may run, and *)
(* an artifact may be rewritten between any two of their system calls.     *)
(*                                                                         *)
(* Artifact names are numbers, ordered as the code orders strings.  The    *)
(* text fields of a manifest, validated without regard to the directory,   *)
(* are left out; a manifest is its artifact entries, its primary record    *)
(* and its total.                                                          *)
(***************************************************************************)
EXTENDS Integers, SequencesExt, FiniteSetsExt

CONSTANTS
  Writer,         \* calls of write_research_bundle_manifest
  Verifier,       \* calls of verify_research_bundle_manifest
  Name,           \* artifact paths, numbers
  Content,        \* what an artifact may hold: its size and its checksum
  Absent,         \* no file, no temporary file, no manifest
  Partial,        \* a temporary file that is not completely written
  Requests,       \* the arguments of a writer
  Prior,          \* the manifests the directory may hold at first
  MaxArtifacts,   \* MAX_BUNDLE_ARTIFACTS
  MaxArtifact,    \* MAX_BUNDLE_ARTIFACT_BYTES
  MaxTotal,       \* MAX_BUNDLE_TOTAL_BYTES
  MaxChanges      \* how often artifacts are rewritten

Entry == [path: Name, size: Nat, sha256: {c.sha256 : c \in Content}]
Manifest == [artifacts: Seq(Entry), primary: Name, total: Nat]
Request == [artifacts: Seq(Name), primary: Name]

ASSUME BundleAssumption ==
  /\ Name \subseteq Nat
  /\ \A c \in Content : c.size \in Nat
  /\ Absent # Partial /\ {Absent, Partial} \cap (Content \cup Manifest) = {}
  /\ Requests \subseteq Request /\ Prior \subseteq Manifest \cup {Absent}
  /\ MaxArtifacts \in Nat /\ MaxArtifact \in Nat /\ MaxTotal \in Nat
  /\ MaxChanges \in Nat

VARIABLES
  changes,    \* how often an artifact has been rewritten
  file,       \* file[n]: the content of artifact n, or Absent
  manifest,   \* the content of research_bundle_manifest.json, or Absent
  wpc,        \* wpc[w]: the step writer w takes next
  request,    \* request[w]: its arguments
  entries,    \* entries[w]: the entries it has made
  measured,   \* measured[w]: the size of the artifact it is about to hash
  temp,       \* temp[w]: the content of its temporary file, or Absent
  vpc,        \* vpc[v]: the step verifier v takes next
  payload,    \* payload[v]: the manifest it has read
  checked,    \* checked[v]: how many entries it has compared
  seen,       \* seen[v][n]: what artifact n has held since v read the manifest
  overtaken   \* overtaken[v]: the entries whose artifact was rewritten between
              \* v's look at its size and v's look at its checksum

writerVars == <<wpc, request, entries, measured, temp>>
observed == <<seen, overtaken>>   \* no process reads these
verifierVars == <<vpc, payload, checked, observed>>
vars == <<changes, file, manifest, writerVars, verifierVars>>

TypeOK ==
  /\ changes \in 0..MaxChanges
  /\ file \in [Name -> Content \cup {Absent}]
  /\ manifest \in Manifest \cup {Absent}
  /\ wpc \in [Writer -> {"stat", "hash", "encode", "write", "replace", "unlink",
                         "raised", "leftover", "killed", "done"}]
  /\ request \in [Writer -> Requests]
  /\ entries \in [Writer -> Seq(Entry)]
  /\ measured \in [Writer -> Nat]
  /\ temp \in [Writer -> Manifest \cup {Absent, Partial}]
  /\ vpc \in [Verifier -> {"read", "path", "stat", "hash", "total",
                           "corrupt", "raised", "ok"}]
  /\ payload \in [Verifier -> Manifest \cup {Absent}]
  /\ checked \in [Verifier -> Nat]
  /\ seen \in [Verifier -> [Name -> SUBSET (Content \cup {Absent})]]
  /\ overtaken \in [Verifier -> SUBSET Nat]

Init ==
  /\ changes = 0
  /\ file \in [Name -> Content \cup {Absent}]
  /\ manifest \in Prior
  /\ wpc = [w \in Writer |-> "stat"]
  /\ request \in [Writer -> Requests]
  /\ entries = [w \in Writer |-> <<>>]
  /\ measured = [w \in Writer |-> 0]
  /\ temp = [w \in Writer |-> Absent]
  /\ vpc = [v \in Verifier |-> "read"]
  /\ payload = [v \in Verifier |-> Absent]
  /\ checked = [v \in Verifier |-> 0]
  /\ seen = [v \in Verifier |-> [n \in Name |-> {}]]
  /\ overtaken = [v \in Verifier |-> {}]

TotalSize(es) ==
  LET sum[n \in 0..Len(es)] == IF n = 0 THEN 0 ELSE sum[n - 1] + es[n].size
  IN  sum[Len(es)]
Paths(es) == [i \in DOMAIN es |-> es[i].path]
Ascending(es) == \A i, j \in DOMAIN es : i < j => es[i].path <= es[j].path

\* entries.sort(key=path), of entries with different paths: each goes where the
\* number of entries before it puts it.
Place(es, i) == 1 + Cardinality({j \in DOMAIN es : es[j].path < es[i].path})
SortedByPath(es) ==
  [k \in DOMAIN es |-> es[CHOOSE i \in DOMAIN es : Place(es, i) = k]]

-----------------------------------------------------------------------------
(* write_research_bundle_manifest *)

WriterGoto(w, step) == wpc' = [wpc EXCEPT ![w] = step]
NextName(w) == request[w].artifacts[Len(entries[w]) + 1]

\* _artifact_path and the stat call of _artifact_entry.  The number of
\* artifacts is checked before the first.
StatArtifact(w) ==
  LET n == Len(request[w].artifacts)
  IN /\ wpc[w] = "stat"
     /\ IF n \notin 1..MaxArtifacts
        THEN WriterGoto(w, "raised") /\ UNCHANGED measured
        ELSE IF file[NextName(w)] = Absent \/ file[NextName(w)].size > MaxArtifact
             THEN WriterGoto(w, "raised") /\ UNCHANGED measured
             ELSE /\ WriterGoto(w, "hash")
                  /\ measured' = [measured EXCEPT ![w] = file[NextName(w)].size]
     /\ UNCHANGED <<changes, file, manifest, request, entries, temp, verifierVars>>

\* _sha256_file, on whatever the artifact holds by then.
HashArtifact(w) ==
  LET n == NextName(w)
  IN /\ wpc[w] = "hash"
     /\ IF file[n] = Absent
        THEN WriterGoto(w, "raised") /\ UNCHANGED entries
        ELSE /\ entries' = [entries EXCEPT ![w] =
                  Append(@, [path |-> n, size |-> measured[w], sha256 |-> file[n].sha256])]
             /\ WriterGoto(w, IF Len(entries'[w]) < Len(request[w].artifacts)
                              THEN "stat" ELSE "encode")
     /\ UNCHANGED <<changes, file, manifest, request, measured, temp, verifierVars>>

\* A mistake: the entries stay in the order of the arguments.
EncodeUnsorted(w) ==
  /\ wpc[w] = "encode"
  /\ IF file[request[w].primary] # Absent /\ TotalSize(entries[w]) <= MaxTotal
     THEN WriterGoto(w, "write") /\ temp' = [temp EXCEPT ![w] = Partial]
     ELSE WriterGoto(w, "raised") /\ UNCHANGED temp
  /\ UNCHANGED <<changes, file, manifest, request, entries, measured, verifierVars>>

\* The checks on the whole bundle, the payload, and the temporary file.
Encode(w) ==
  LET es == entries[w]
      primary == request[w].primary
  IN /\ wpc[w] = "encode"
     /\ IF /\ IsInjective(Paths(es))
           /\ file[primary] # Absent
           /\ \E i \in DOMAIN es : es[i].path = primary
           /\ TotalSize(SortedByPath(es)) <= MaxTotal
        THEN /\ WriterGoto(w, "write")
             /\ entries' = [entries EXCEPT ![w] = SortedByPath(@)]
             /\ temp' = [temp EXCEPT ![w] = Partial]
        ELSE WriterGoto(w, "raised") /\ UNCHANGED <<entries, temp>>
     /\ UNCHANGED <<changes, file, manifest, request, measured, verifierVars>>

Payload(w) == [artifacts |-> entries[w], primary |-> request[w].primary,
               total |-> TotalSize(entries[w])]

\* A mistake: an error leaves the file.
WriteTempLeaves(w) ==
  /\ wpc[w] = "write"
  /\ \/ WriterGoto(w, "replace") /\ temp' = [temp EXCEPT ![w] = Payload(w)]
     \/ WriterGoto(w, "raised") /\ UNCHANGED temp
  /\ UNCHANGED <<changes, file, manifest, request, entries, measured, verifierVars>>

\* The temporary file is written, flushed and synchronised, or that raises.
WriteTemp(w) ==
  /\ wpc[w] = "write"
  /\ \/ WriterGoto(w, "replace") /\ temp' = [temp EXCEPT ![w] = Payload(w)]
     \/ WriterGoto(w, "unlink") /\ UNCHANGED temp
  /\ UNCHANGED <<changes, file, manifest, request, entries, measured, verifierVars>>

\* os.replace(temporary, destination), or that raises.
ReplaceManifest(w) ==
  /\ wpc[w] = "replace"
  /\ \/ /\ WriterGoto(w, "done")
        /\ manifest' = temp[w]
        /\ temp' = [temp EXCEPT ![w] = Absent]
     \/ WriterGoto(w, "unlink") /\ UNCHANGED <<manifest, temp>>
  /\ UNCHANGED <<changes, file, request, entries, measured, verifierVars>>

\* The finally clause after an error.  When the removal raises, the file stays.
UnlinkTemp(w) ==
  /\ wpc[w] = "unlink"
  /\ \/ WriterGoto(w, "raised") /\ temp' = [temp EXCEPT ![w] = Absent]
     \/ WriterGoto(w, "leftover") /\ UNCHANGED temp
  /\ UNCHANGED <<changes, file, manifest, request, entries, measured, verifierVars>>

KillWriter(w) ==
  /\ wpc[w] \notin {"done", "raised", "leftover", "killed"}
  /\ WriterGoto(w, "killed")
  /\ UNCHANGED <<changes, file, manifest, request, entries, measured, temp, verifierVars>>

-----------------------------------------------------------------------------
(* verify_research_bundle_manifest *)

VerifierGoto(v, step) == vpc' = [vpc EXCEPT ![v] = step]
NextEntry(v) == payload[v].artifacts[checked[v] + 1]

ReadManifest(v) ==
  /\ vpc[v] = "read"
  /\ payload' = [payload EXCEPT ![v] = manifest]
  /\ seen' = [seen EXCEPT ![v] = [n \in Name |-> {file[n]}]]
  /\ VerifierGoto(v, IF manifest # Absent /\ Len(manifest.artifacts) \in 1..MaxArtifacts
                     THEN "path" ELSE "corrupt")
  /\ UNCHANGED <<changes, file, manifest, writerVars, checked, overtaken>>

\* _artifact_path, and the limit on the size the next entry declares.
CheckPath(v) ==
  LET e == NextEntry(v)
  IN /\ vpc[v] = "path"
     /\ VerifierGoto(v, IF file[e.path] # Absent /\ e.size <= MaxArtifact
                        THEN "stat" ELSE "corrupt")
     /\ UNCHANGED <<changes, file, manifest, writerVars, payload, checked, observed>>

\* A mistake: the sizes of all entries are compared before the first checksum.
CompareSizesFirst(v) ==
  /\ vpc[v] = "stat"
  /\ VerifierGoto(v, IF \/ checked[v] > 0
                        \/ \A e \in ToSet(payload[v].artifacts) :
                             file[e.path] # Absent /\ file[e.path].size = e.size
                     THEN "hash" ELSE "corrupt")
  /\ UNCHANGED <<changes, file, manifest, writerVars, payload, checked, observed>>

\* The size of the next entry.  The stat of a file that has gone raises.
CompareSize(v) ==
  LET e == NextEntry(v)
  IN /\ vpc[v] = "stat"
     /\ VerifierGoto(v, IF file[e.path] = Absent THEN "raised"
                        ELSE IF file[e.path].size = e.size THEN "hash" ELSE "corrupt")
     /\ UNCHANGED <<changes, file, manifest, writerVars, payload, checked, observed>>

\* Its checksum.  Opening a file that has gone raises.
CompareHash(v) ==
  LET e == NextEntry(v)
  IN /\ vpc[v] = "hash"
     /\ \/ /\ file[e.path] = Absent
           /\ VerifierGoto(v, "raised") /\ UNCHANGED checked
        \/ /\ file[e.path] # Absent /\ file[e.path].sha256 # e.sha256
           /\ VerifierGoto(v, "corrupt") /\ UNCHANGED checked
        \/ /\ file[e.path] # Absent /\ file[e.path].sha256 = e.sha256
           /\ checked' = [checked EXCEPT ![v] = @ + 1]
           /\ VerifierGoto(v, IF checked'[v] < Len(payload[v].artifacts)
                              THEN "path" ELSE "total")
     /\ UNCHANGED <<changes, file, manifest, writerVars, payload, observed>>

\* A mistake: a total of exactly the limit is refused.
CompareTotalBelow(v) ==
  LET es == payload[v].artifacts
  IN /\ vpc[v] = "total"
     /\ VerifierGoto(v, IF TotalSize(es) = payload[v].total /\ TotalSize(es) < MaxTotal
                        THEN "ok" ELSE "corrupt")
     /\ UNCHANGED <<changes, file, manifest, writerVars, payload, checked, observed>>

\* The checks on the whole manifest.
CompareTotal(v) ==
  LET es == payload[v].artifacts
  IN /\ vpc[v] = "total"
     /\ VerifierGoto(v, IF /\ Ascending(es)
                           /\ IsInjective(Paths(es))
                           /\ \E i \in DOMAIN es : es[i].path = payload[v].primary
                           /\ TotalSize(es) = payload[v].total
                           /\ TotalSize(es) <= MaxTotal
                        THEN "ok" ELSE "corrupt")
     /\ UNCHANGED <<changes, file, manifest, writerVars, payload, checked, observed>>

\* Verifier v has compared the size of artifact n and not yet its checksum.
Between(v, n) == vpc[v] = "hash" /\ NextEntry(v).path = n

\* Some other program rewrites or removes an artifact.
ChangeArtifact(n) ==
  /\ changes < MaxChanges
  /\ changes' = changes + 1
  /\ \E c \in Content \cup {Absent} :
       /\ file' = [file EXCEPT ![n] = c]
       /\ seen' = [v \in Verifier |-> IF vpc[v] = "read" THEN seen[v]
                                      ELSE [seen[v] EXCEPT ![n] = @ \cup {c}]]
  /\ overtaken' = [v \in Verifier |-> overtaken[v] \cup
                     (IF Between(v, n) THEN {checked[v] + 1} ELSE {})]
  /\ UNCHANGED <<manifest, writerVars, vpc, payload, checked>>

Write(w) ==
  \/ StatArtifact(w) \/ HashArtifact(w) \/ Encode(w) \/ WriteTemp(w)
  \/ ReplaceManifest(w) \/ UnlinkTemp(w)

Verify(v) ==
  \/ ReadManifest(v) \/ CheckPath(v) \/ CompareSize(v) \/ CompareHash(v) \/ CompareTotal(v)

Next ==
  \/ \E w \in Writer : Write(w) \/ KillWriter(w)
  \/ \E v \in Verifier : Verify(v)
  \/ \E n \in Name : ChangeArtifact(n)

Spec == Init /\ [][Next]_vars

-----------------------------------------------------------------------------
WellFormed(m) ==
  LET es == m.artifacts
  IN /\ \A i \in 1..(Len(es) - 1) : es[i].path < es[i + 1].path
     /\ m.primary \in {es[i].path : i \in DOMAIN es}
     /\ m.total = TotalSize(es)
     /\ m.total <= MaxTotal
     /\ Len(es) \in 1..MaxArtifacts

Requested(w) == {request[w].artifacts[i] : i \in DOMAIN request[w].artifacts}

\* The manifest of a directory is never torn and never a mixture: it is the one
\* that was there, or the complete and well-formed one of one writer, whatever
\* number of writers run, fail or are killed.
ManifestWhole ==
  \/ manifest \in Prior
  \/ /\ WellFormed(manifest)
     /\ \E w \in Writer : ToSet(Paths(manifest.artifacts)) = Requested(w)
                          /\ manifest.primary = request[w].primary

\* A temporary file exists only while its writer is between creating it and
\* ending, or after the writer was killed or could not remove it.
TempHasOwner ==
  \A w \in Writer :
    temp[w] # Absent => wpc[w] \in {"write", "replace", "unlink", "leftover", "killed"}

\* Round trip: while the artifacts do not change, a verifier accepts every
\* manifest a writer wrote, however many writers replace it meanwhile, and the
\* limits of the two agree.
WrittenVerifies ==
  changes = 0 =>
    \A v \in Verifier : vpc[v] \in {"corrupt", "raised"} => payload[v] \in Prior

\* A verifier accepts only a well-formed manifest, and of each of its entries one
\* version of the artifact, of those it held since the manifest was read, had both
\* the size and the checksum.  The only exception is an artifact rewritten between
\* the comparisons of its own size and checksum, which are two looks at the file:
\* then one version had the size and one, maybe another, the checksum.
AcceptedWasTrue ==
  \A v \in Verifier : vpc[v] = "ok" =>
    /\ WellFormed(payload[v])
    /\ \A i \in DOMAIN payload[v].artifacts :
         LET e == payload[v].artifacts[i]
             held == seen[v][e.path] \ {Absent}
         IN /\ \E c \in held : c.sha256 = e.sha256
            /\ \E c \in held : c.size = e.size
            /\ i \in overtaken[v] \/ \E c \in held : c.sha256 = e.sha256 /\ c.size = e.size
=============================================================================
