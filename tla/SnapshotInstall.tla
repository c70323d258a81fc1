--------------------------- MODULE SnapshotInstall ---------------------------
(***************************************************************************)
(* install_snapshot of snapshot.py: fetch a source, decompress or copy it  *)
(* into a private temporary directory, verify it against the manifest,     *)
(* copy it to the staging name next to the destination, and rename the     *)
(* staging name over the destination.                                      *)
(*                                                                         *)
(* Files are sequences of bytes.  What several processes share is the      *)
(* directory that holds the destination: two names per destination (the    *)
(* destination itself and destination + ".tmp"), the inode each name is    *)
(* bound to, and the bytes of each inode.  A rename rebinds a name, a      *)
(* write goes to the inode the writer opened, whatever name it has now.    *)
(* Everything else an installer touches is in its own temporary directory. *)
(***************************************************************************)
EXTENDS Integers, Sequences

CONSTANTS
  Installer,      \* calls of install_snapshot, each runs once
  Dest,           \* destination paths
  Byte,           \* the bytes files are made of
  Hole,           \* the zero byte a file system reads back from a gap
  Nil,            \* no inode under a name, no compressed asset in a manifest
  Jobs,           \* the arguments an installer may be called with
  Sources,        \* the files a source path or URL may hold
  Decode,         \* what zstd makes of the files it can decode
  PriorFile,      \* what a destination holds before the first installer runs
  MaxCompressed,  \* max_compressed_bytes
  MaxRaw,         \* max_decompressed_bytes
  Exclusive,      \* TRUE: one live installer per destination at a time
  Faults          \* TRUE: calls may raise, processes die, sources change

File == Seq(Byte \cup {Hole})

(***************************************************************************)
(* A job: the destination, the database the manifest describes, the        *)
(* compressed asset it describes (Nil when it has none), whether the       *)
(* source is a URL, whether its name ends in .zst, and whether the last    *)
(* component of the URL is the database_filename of the manifest.          *)
(***************************************************************************)
Job == [dest: Dest, want: File, archive: File \cup {Nil},
        remote: BOOLEAN, compressed: BOOLEAN, sameName: BOOLEAN]

Inode == Installer \cup Dest

ASSUME ConstantsAssumption ==
  /\ Installer \cap Dest = {}
  /\ Nil \notin Inode
  /\ Nil \notin File
  /\ Jobs \subseteq Job
  /\ \A j \in Jobs : Len(j.want) > 0
  /\ Sources \subseteq File
  /\ DOMAIN Decode \subseteq File
  /\ \A f \in DOMAIN Decode : Decode[f] \in File
  /\ PriorFile \in File
  /\ MaxCompressed \in Nat /\ MaxRaw \in Nat
  /\ Exclusive \in BOOLEAN /\ Faults \in BOOLEAN

VARIABLES
  pc,         \* pc[p]: the step installer p takes next
  job,        \* job[p]: its arguments
  source,     \* source[p]: what its source path or URL holds now
  fetched,    \* fetched[p]: what the download wrote into the private directory
  raw,        \* raw[p]: temp_dir / database_filename
  fd,         \* fd[p]: the inode its copy writes to
  pos,        \* pos[p]: the bytes it has copied
  bytes,      \* bytes[i]: the contents of inode i
  staging,    \* staging[d]: the inode under d + ".tmp"
  installed   \* installed[d]: the inode under d

privateVars == <<job, source, fetched, raw>>
diskVars == <<bytes, staging, installed>>
vars == <<pc, privateVars, fd, pos, diskVars>>

\* The steps inside the try block, whose finally clause removes the staging
\* name, and the ones before it.
Private == {"fetch", "check", "stage", "verify"}
Publishing == {"open", "copy", "replace"}
Unwinding == {"succeed", "raise"}
Ended == {"done", "failed", "littered", "crashed"}
Step == {"idle"} \cup Private \cup Publishing \cup Unwinding \cup Ended

Live(p) == pc[p] \in Private \cup Publishing \cup Unwinding
Target(p) == job[p].dest

TypeOK ==
  /\ pc \in [Installer -> Step]
  /\ job \in [Installer -> Jobs]
  /\ source \in [Installer -> Sources]
  /\ fetched \in [Installer -> File]
  /\ raw \in [Installer -> File]
  /\ fd \in [Installer -> Inode \cup {Nil}]
  /\ pos \in [Installer -> Nat]
  /\ bytes \in [Inode -> File]
  /\ staging \in [Dest -> Inode \cup {Nil}]
  /\ installed \in [Dest -> Inode \cup {Nil}]

-----------------------------------------------------------------------------

\* A destination starts absent or holds a snapshot installed earlier; inode d
\* is the file that was at destination d.
Init ==
  /\ pc = [p \in Installer |-> "idle"]
  /\ job \in [Installer -> Jobs]
  /\ source \in [Installer -> Sources]
  /\ fetched = [p \in Installer |-> <<>>]
  /\ raw = [p \in Installer |-> <<>>]
  /\ fd = [p \in Installer |-> Nil]
  /\ pos = [p \in Installer |-> 0]
  /\ bytes = [i \in Inode |-> IF i \in Dest THEN PriorFile ELSE <<>>]
  /\ staging = [d \in Dest |-> Nil]
  /\ \E present \in SUBSET Dest :
       installed = [d \in Dest |-> IF d \in present THEN d ELSE Nil]

Goto(p, step) == pc' = [pc EXCEPT ![p] = step]

\* The file source_path names: the download, or the local file itself, which
\* is read again by every later step.
SourceFile(p) == IF job[p].remote THEN fetched[p] ELSE source[p]

\* The call begins: the manifest is parsed and the parent directory made.
Begin(p) ==
  /\ pc[p] = "idle"
  /\ Exclusive => \A q \in Installer \ {p} : Live(q) => Target(q) # Target(p)
  /\ Goto(p, "fetch")
  /\ UNCHANGED <<privateVars, fd, pos, diskVars>>

\* A mistake to tell apart: a source of exactly the limit is refused.
FetchBelowLimit(p) ==
  /\ pc[p] = "fetch"
  /\ Goto(p, IF Len(source[p]) >= MaxCompressed THEN "failed" ELSE "check")
  /\ fetched' = [fetched EXCEPT ![p] = source[p]]
  /\ UNCHANGED <<job, source, raw, fd, pos, diskVars>>

\* _source_to_file: a URL is downloaded, a local file is only measured; both
\* are refused above the compressed limit.
Fetch(p) ==
  /\ pc[p] = "fetch"
  /\ IF Len(source[p]) > MaxCompressed
     THEN Goto(p, "failed") /\ UNCHANGED fetched
     ELSE /\ Goto(p, "check")
          /\ fetched' = IF job[p].remote THEN [fetched EXCEPT ![p] = source[p]]
                                         ELSE fetched
  /\ UNCHANGED <<job, source, raw, fd, pos, diskVars>>

\* The second hash, with its limit, and the digest of the compressed asset.
CheckSource(p) ==
  /\ pc[p] = "check"
  /\ IF \/ Len(SourceFile(p)) > MaxCompressed
        \/ /\ job[p].compressed
           /\ job[p].archive \notin {Nil, SourceFile(p)}
     THEN Goto(p, "failed")
     ELSE Goto(p, "stage")
  /\ UNCHANGED <<privateVars, fd, pos, diskVars>>

\* The raw database is written into the private directory.  Copying a
\* downloaded file onto its own name raises SameFileError.
StageRaw(p) ==
  LET input == SourceFile(p)
      output == IF job[p].compressed THEN Decode[input] ELSE input
      possible == IF job[p].compressed
                  THEN input \in DOMAIN Decode /\ Len(Decode[input]) <= MaxRaw
                  ELSE ~(job[p].remote /\ job[p].sameName)
  IN /\ pc[p] = "stage"
     /\ IF possible
        THEN Goto(p, "verify") /\ raw' = [raw EXCEPT ![p] = output]
        ELSE Goto(p, "failed") /\ UNCHANGED raw
     /\ UNCHANGED <<job, source, fetched, fd, pos, diskVars>>

\* A mistake: raise_on_error is forgotten and the result dropped.
VerifyDropped(p) ==
  /\ pc[p] = "verify"
  /\ Goto(p, "open")
  /\ UNCHANGED <<privateVars, fd, pos, diskVars>>

\* verify_snapshot(raw_path, raise_on_error=True): the file has the digest of
\* the manifest and fits the limit.
Verify(p) ==
  /\ pc[p] = "verify"
  /\ IF raw[p] = job[p].want /\ Len(raw[p]) <= MaxRaw
     THEN Goto(p, "open")
     ELSE Goto(p, "failed")
  /\ UNCHANGED <<privateVars, fd, pos, diskVars>>

\* A mistake: the destination is opened for writing, not a staging file.
OpenDestination(p) ==
  LET d == Target(p)
      i == IF installed[d] = Nil THEN p ELSE installed[d]
  IN /\ pc[p] = "open"
     /\ Goto(p, "copy")
     /\ fd' = [fd EXCEPT ![p] = i]
     /\ pos' = [pos EXCEPT ![p] = 0]
     /\ bytes' = [bytes EXCEPT ![i] = <<>>]
     /\ staging' = [staging EXCEPT ![d] = i]
     /\ UNCHANGED <<privateVars, installed>>

\* copyfile opens the staging name for writing: the inode under it is
\* truncated, or a new one is made.
OpenStaging(p) ==
  LET d == Target(p)
      i == IF staging[d] = Nil THEN p ELSE staging[d]
  IN /\ pc[p] = "open"
     /\ Goto(p, "copy")
     /\ fd' = [fd EXCEPT ![p] = i]
     /\ pos' = [pos EXCEPT ![p] = 0]
     /\ bytes' = [bytes EXCEPT ![i] = <<>>]
     /\ staging' = [staging EXCEPT ![d] = i]
     /\ UNCHANGED <<privateVars, installed>>

\* A write of byte b at position n of file f; a gap reads back as zeros.
WriteAt(f, n, b) ==
  [k \in 1..(IF n > Len(f) THEN n ELSE Len(f)) |->
     IF k = n THEN b ELSE IF k <= Len(f) THEN f[k] ELSE Hole]

CopyChunk(p) ==
  LET n == pos[p] + 1
  IN /\ pc[p] = "copy"
     /\ n <= Len(raw[p])
     /\ bytes' = [bytes EXCEPT ![fd[p]] = WriteAt(@, n, raw[p][n])]
     /\ pos' = [pos EXCEPT ![p] = n]
     /\ UNCHANGED <<pc, privateVars, fd, staging, installed>>

\* Mistakes: the copy stops before the end of the input, or waits beyond it.
CopyEndsEarly(p) ==
  /\ pc[p] = "copy"
  /\ Goto(p, "replace")
  /\ UNCHANGED <<privateVars, fd, pos, diskVars>>

CopyEndsNever(p) ==
  /\ pc[p] = "copy"
  /\ pos[p] > Len(raw[p])
  /\ Goto(p, "replace")
  /\ UNCHANGED <<privateVars, fd, pos, diskVars>>

\* End of the input: copyfile closes both files and returns.
CopyEnds(p) ==
  /\ pc[p] = "copy"
  /\ pos[p] = Len(raw[p])
  /\ Goto(p, "replace")
  /\ UNCHANGED <<privateVars, fd, pos, diskVars>>

\* os.replace(staging, destination): whatever inode the staging name has now
\* becomes the destination; without one it raises FileNotFoundError.
Replace(p) ==
  LET d == Target(p)
  IN /\ pc[p] = "replace"
     /\ IF staging[d] # Nil
        THEN /\ Goto(p, "succeed")
             /\ installed' = [installed EXCEPT ![d] = staging[d]]
             /\ staging' = [staging EXCEPT ![d] = Nil]
        ELSE /\ Goto(p, "raise")
             /\ UNCHANGED <<installed, staging>>
     /\ UNCHANGED <<privateVars, fd, pos, bytes>>

\* The finally clause: the staging name is removed if there is one.
Cleanup(p) ==
  /\ pc[p] \in Unwinding
  /\ Goto(p, IF pc[p] = "succeed" THEN "done" ELSE "failed")
  /\ staging' = [staging EXCEPT ![Target(p)] = Nil]
  /\ UNCHANGED <<privateVars, fd, pos, bytes, installed>>

\* Mistakes: an error that skips the finally clause, one the clause swallows.
ErrorSkipsFinally(p) ==
  /\ Faults
  /\ pc[p] \in Private \cup Publishing
  /\ Goto(p, "failed")
  /\ UNCHANGED <<privateVars, fd, pos, diskVars>>

ErrorSwallowed(p) ==
  /\ Faults
  /\ pc[p] \in Private \cup Publishing
  /\ Goto(p, IF pc[p] \in Private THEN "failed" ELSE "succeed")
  /\ UNCHANGED <<privateVars, fd, pos, diskVars>>

\* An operation raises (no space, no permission, the network, an interrupt):
\* the call unwinds through the finally clause when it is in the try block.
Error(p) ==
  /\ Faults
  /\ pc[p] \in Private \cup Publishing
  /\ Goto(p, IF pc[p] \in Private THEN "failed" ELSE "raise")
  /\ UNCHANGED <<privateVars, fd, pos, diskVars>>

\* The removal itself raises, or an interrupt comes inside the finally clause:
\* the call raises and the staging name stays.
CleanupFails(p) ==
  /\ Faults
  /\ pc[p] \in Unwinding
  /\ Goto(p, "littered")
  /\ UNCHANGED <<privateVars, fd, pos, diskVars>>

\* The process is killed: nothing is cleaned up.
Crash(p) ==
  /\ Faults
  /\ Live(p)
  /\ Goto(p, "crashed")
  /\ UNCHANGED <<privateVars, fd, pos, diskVars>>

\* Someone else rewrites the source while the installer reads it.
SourceChanges(p) ==
  /\ Faults
  /\ pc[p] \in Private
  /\ \E f \in Sources : source' = [source EXCEPT ![p] = f]
  /\ UNCHANGED <<pc, job, fetched, raw, fd, pos, diskVars>>

Proceed(p) ==
  \/ Fetch(p) \/ CheckSource(p) \/ StageRaw(p) \/ Verify(p)
  \/ OpenStaging(p) \/ CopyChunk(p) \/ CopyEnds(p) \/ Replace(p) \/ Cleanup(p)

Next ==
  \E p \in Installer :
    \/ Begin(p) \/ Proceed(p)
    \/ Error(p) \/ Crash(p) \/ CleanupFails(p) \/ SourceChanges(p)

Spec == Init /\ [][Next]_vars

-----------------------------------------------------------------------------
(* What the destination shows a process that opens it. *)
Visible(d) == IF installed[d] = Nil THEN Nil ELSE bytes[installed[d]]

Described(d) == {job[p].want : p \in {q \in Installer : Target(q) = d}}

(***************************************************************************)
(* Installation is atomic: a destination only ever goes, in one step, to   *)
(* a complete database that a manifest describes ("atomically installing", *)
(* install_snapshot's docstring).  Holds while installers of one           *)
(* destination take turns, whatever fails; not when two of them share the  *)
(* staging name.                                                           *)
(***************************************************************************)
Atomic == INSTANCE AtomicInstall
  WITH current <- [d \in Dest |-> Visible(d)],
       described <- [d \in Dest |-> Described(d)]

InstallIsAtomic == Atomic!Spec

\* The bytes behind a published name never change: what SQLite is told with
\* immutable=1 when a reader opens the destination.
InstalledImmutable ==
  [][\A d \in Dest : installed[d] # Nil =>
       bytes'[installed[d]] = bytes[installed[d]]]_vars

\* A call that returns normally leaves its own database at the destination
\* (the return value of install_snapshot is the path it installed).
ReportedInstalled ==
  [][\A p \in Installer : pc[p] # "done" /\ pc'[p] = "done" =>
       Visible(Target(p)) = job[p].want]_vars

\* Even when installers of one destination race, the destination holds no
\* byte of a file that failed verification: every byte is the one a verified
\* database has at that position, or a gap.
OnlyVerifiedBytes ==
  \A d \in Dest :
    \/ Visible(d) \in {Nil, PriorFile}
    \/ \A k \in 1..Len(Visible(d)) :
         \/ Visible(d)[k] = Hole
         \/ \E w \in Described(d) : k <= Len(w) /\ w[k] = Visible(d)[k]

\* A staging name exists only while an installer that opened it has not run
\* its finally clause, or after one was killed or could not remove it: no other
\* way out of a call leaves a partial file behind.
LitterHasOwner ==
  \A d \in Dest : staging[d] # Nil =>
    \E p \in Installer :
      /\ Target(p) = d
      /\ pc[p] \in {"copy", "replace", "raise", "succeed", "littered", "crashed"}

\* With no fault, a source that is what the manifest describes and fits the
\* limits is installed, never refused.
GoodSource(p) ==
  LET f == source[p]
  IN /\ Len(f) <= MaxCompressed
     /\ Len(job[p].want) <= MaxRaw
     /\ IF job[p].compressed
        THEN f \in DOMAIN Decode /\ Decode[f] = job[p].want
                                /\ job[p].archive \in {Nil, f}
        ELSE f = job[p].want

GoodSourceInstalls ==
  \A p \in Installer : pc[p] = "failed" => ~GoodSource(p)

\* Every call ends.
CallsEnd == \A p \in Installer : Live(p) ~> pc[p] \in Ended

-----------------------------------------------------------------------------
(***************************************************************************)
(* The inductive invariant behind InstallIsAtomic when installers of one   *)
(* destination take turns.                                                 *)
(***************************************************************************)
Turns ==
  \A p, q \in Installer : p # q /\ Live(p) /\ Live(q) => Target(p) # Target(q)

\* An installer's own inode is under no name before it opens the staging name.
Fresh ==
  \A p \in Installer : pc[p] \in {"idle", "open"} \cup Private =>
    \A d \in Dest : staging[d] # p /\ installed[d] # p

\* A staged inode is published nowhere and staged nowhere else.
Separate ==
  \A d \in Dest : staging[d] # Nil =>
    /\ staging[d] \in Installer
    /\ \A e \in Dest : installed[e] # staging[d] /\ (e # d => staging[e] # staging[d])

\* What is being published has been verified, and the staged inode holds as
\* much of it as has been copied.
Copied(p) == [k \in 1..pos[p] |-> raw[p][k]]

StagedBy(p) ==
  /\ pc[p] \in Publishing => raw[p] = job[p].want
  /\ pc[p] \in {"copy", "replace"} =>
       /\ fd[p] # Nil /\ staging[Target(p)] = fd[p]
       /\ pos[p] \in 0..Len(raw[p])
       /\ bytes[fd[p]] = Copied(p)
  /\ pc[p] = "replace" => pos[p] = Len(raw[p])

Staged == \A p \in Installer : StagedBy(p)

Published ==
  /\ \A d \in Dest : Visible(d) \in {Nil, PriorFile} \cup Described(d)
  /\ \A p \in Installer : pc[p] = "succeed" => Visible(Target(p)) = job[p].want

IInv == TypeOK /\ Turns /\ Fresh /\ Separate /\ Staged /\ Published
=============================================================================
