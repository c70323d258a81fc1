---------------------------- MODULE SnapshotReader ----------------------------
(***************************************************************************)
(* RegistrySnapshot.open, info and close of snapshot.py, run against the   *)
(* destinations that installers replace (SnapshotInstall).                 *)
(*                                                                         *)
(* Opening reads the path four times, each time through a new descriptor:  *)
(* a first hash, the hash and the SQLite inspection of verify_snapshot,    *)
(* and the connection that is kept.  info() hashes the path once more.  A  *)
(* rename between two of them changes the file under the path.  A hash is  *)
(* one step: it reads one inode from its opening to its end, and published *)
(* inodes do not change while the installers of a destination take turns   *)
(* (PublishedImmutable of SnapshotProofs).  Readers are therefore checked  *)
(* and proved about with Exclusive TRUE.                                   *)
(* Digests are modelled by the bytes they stand for.                       *)
(***************************************************************************)
EXTENDS SnapshotInstall

CONSTANTS
  Reader,       \* callers of RegistrySnapshot.open
  ReaderJobs,   \* the arguments they may call it with
  Database,     \* the files SQLite opens, with the populations of the manifests
  MinSize,      \* 100, the smallest SQLite file
  OpenLimit,    \* max_bytes of open
  InfoLimit     \* the default max_bytes of _sha256, which info() uses

\* A reader's arguments: the path, and the database the manifest describes,
\* Nil when neither the caller nor a sidecar file has one.
ReaderJob == [dest: Dest, manifest: File \cup {Nil}]

ASSUME ReaderAssumption ==
  /\ ReaderJobs \subseteq ReaderJob
  /\ Database \subseteq File
  /\ MinSize \in Nat /\ OpenLimit \in Nat /\ InfoLimit \in Nat

VARIABLES
  rpc,      \* rpc[r]: the step reader r takes next
  rjob,     \* rjob[r]: its arguments
  found,    \* found[r]: the file its first hash read
  conn,     \* conn[r]: the inode its SQLite connection reads
  report    \* report[r]: the digest info() has computed, Nil before

readerVars == <<rpc, rjob, found, conn, report>>
allVars == <<vars, readerVars>>

ReaderStep == {"idle", "hash", "identify", "inspect", "connect",
               "reading", "measured", "refused", "denied", "closed"}

ReaderTypeOK ==
  /\ rpc \in [Reader -> ReaderStep]
  /\ rjob \in [Reader -> ReaderJobs]
  /\ found \in [Reader -> File \cup {Nil}]
  /\ conn \in [Reader -> Inode \cup {Nil}]
  /\ report \in [Reader -> File \cup {Nil}]

ReaderInit ==
  /\ Init
  /\ rpc = [r \in Reader |-> "idle"]
  /\ rjob \in [Reader -> ReaderJobs]
  /\ found = [r \in Reader |-> Nil]
  /\ conn = [r \in Reader |-> Nil]
  /\ report = [r \in Reader |-> Nil]

Path(r) == rjob[r].dest
Manifest(r) == rjob[r].manifest
ReaderGoto(r, step) == rpc' = [rpc EXCEPT ![r] = step]

\* is_file: a missing snapshot is refused.
FindSnapshot(r) ==
  /\ rpc[r] = "idle"
  /\ ReaderGoto(r, IF installed[Path(r)] = Nil THEN "refused" ELSE "hash")
  /\ UNCHANGED <<rjob, found, conn, report>>

\* A mistake: verification is skipped.
HashSkipsVerification(r) ==
  /\ rpc[r] = "hash"
  /\ found' = [found EXCEPT ![r] = Visible(Path(r))]
  /\ ReaderGoto(r, "connect")
  /\ UNCHANGED <<rjob, conn, report>>

\* The first hash bounds the size from both sides; its digest is dropped.
HashSnapshot(r) ==
  LET f == Visible(Path(r))
  IN /\ rpc[r] = "hash"
     /\ found' = [found EXCEPT ![r] = f]
     /\ ReaderGoto(r, IF Len(f) > OpenLimit \/ Len(f) < MinSize THEN "refused"
                      ELSE IF Manifest(r) = Nil THEN "connect" ELSE "identify")
     /\ UNCHANGED <<rjob, conn, report>>

\* Mistakes: any digest passes; the limit itself is refused; a mismatch is
\* tried again until it goes away.
IdentifyAnything(r) ==
  /\ rpc[r] = "identify"
  /\ ReaderGoto(r, "inspect")
  /\ UNCHANGED <<rjob, found, conn, report>>

IdentifyBelowLimit(r) ==
  /\ rpc[r] = "identify"
  /\ ReaderGoto(r, IF Len(Visible(Path(r))) < OpenLimit THEN "inspect" ELSE "refused")
  /\ UNCHANGED <<rjob, found, conn, report>>

IdentifyRetries(r) ==
  /\ rpc[r] = "identify"
  /\ ReaderGoto(r, IF Visible(Path(r)) = Manifest(r) THEN "inspect" ELSE "identify")
  /\ UNCHANGED <<rjob, found, conn, report>>

\* verify_snapshot hashes the path again and compares with the manifest.  A
\* mismatch is recorded, the inspection still runs, and then open raises.
Identify(r) ==
  LET f == Visible(Path(r))
  IN /\ rpc[r] = "identify"
     /\ ReaderGoto(r, IF f = Manifest(r) /\ Len(f) <= OpenLimit
                      THEN "inspect" ELSE "refused")
     /\ UNCHANGED <<rjob, found, conn, report>>

\* Its own SQLite connection checks integrity, tables and row counts.
Inspect(r) ==
  /\ rpc[r] = "inspect"
  /\ ReaderGoto(r, IF Visible(Path(r)) \in Database THEN "connect" ELSE "refused")
  /\ UNCHANGED <<rjob, found, conn, report>>

\* The connection that is kept.
Connect(r) ==
  /\ rpc[r] = "connect"
  /\ IF Visible(Path(r)) \in Database
     THEN /\ ReaderGoto(r, "reading")
          /\ conn' = [conn EXCEPT ![r] = installed[Path(r)]]
     ELSE ReaderGoto(r, "refused") /\ UNCHANGED conn
  /\ UNCHANGED <<rjob, found, report>>

\* info(): the digest of the path, under the limit for compressed files.
Measure(r) ==
  LET f == Visible(Path(r))
  IN /\ rpc[r] = "reading"
     /\ IF Len(f) > InfoLimit
        THEN /\ ReaderGoto(r, "denied")
             /\ conn' = [conn EXCEPT ![r] = Nil]
             /\ UNCHANGED report
        ELSE /\ ReaderGoto(r, "measured")
             /\ report' = [report EXCEPT ![r] = f]
             /\ UNCHANGED conn
     /\ UNCHANGED <<rjob, found>>

\* The with statement ends, with or without a call of info().
Close(r) ==
  /\ rpc[r] \in {"reading", "measured"}
  /\ ReaderGoto(r, "closed")
  /\ conn' = [conn EXCEPT ![r] = Nil]
  /\ UNCHANGED <<rjob, found, report>>

Opening(r) ==
  \/ FindSnapshot(r) \/ HashSnapshot(r) \/ Identify(r) \/ Inspect(r) \/ Connect(r)

ReaderNext ==
  \/ Next /\ UNCHANGED readerVars
  \/ \E r \in Reader :
       /\ Opening(r) \/ Measure(r) \/ Close(r)
       /\ UNCHANGED vars

ReaderSpec == ReaderInit /\ [][ReaderNext]_allVars

\* A call in progress keeps running until it returns or raises.
ReaderFairSpec ==
  /\ ReaderSpec
  /\ \A p \in Installer : WF_allVars(Proceed(p) /\ UNCHANGED readerVars)
  /\ \A r \in Reader : WF_allVars(Opening(r) /\ UNCHANGED vars)

-----------------------------------------------------------------------------
Connected(r) == rpc[r] \in {"reading", "measured"}
View(r) == bytes[conn[r]]

\* The bytes under an open connection never change: SQLite was told so with
\* immutable=1 and takes no lock, so a change would be read as corruption.
ConnectionStable ==
  [][\A r \in Reader : Connected(r) => bytes'[conn[r]] = View(r)]_allVars

\* A connection reads a complete database: the one that was there before any
\* installer ran, or one that a manifest describes; never a partial copy.
ConnectedComplete ==
  \A r \in Reader : Connected(r) =>
    /\ View(r) \in {PriorFile} \cup Described(Path(r))
    /\ View(r) \in Database

\* A reader that gave a manifest has a connection to the database the manifest
\* describes ("immutable SQLite view of a verified snapshot").  Holds when every
\* installer of the destination has the same manifest.
VerifiedReadsManifest ==
  \A r \in Reader : Connected(r) /\ Manifest(r) # Nil => View(r) = Manifest(r)

\* info() reports verified together with the digest of the manifest, and the
\* digest is that of the database its row counts are read from.
InfoCoherent ==
  \A r \in Reader : rpc[r] = "measured" =>
    /\ report[r] = View(r)
    /\ Manifest(r) # Nil => report[r] = Manifest(r)

\* A reader that finds the database of its manifest is not refused, however
\* often the same database is installed again while it is being opened.
GoodOpens ==
  \A r \in Reader : rpc[r] = "refused" => found[r] # Manifest(r) \/ found[r] = Nil

\* Opening ends with a connection or a refusal, whatever the installers do.
OpenEnds ==
  \A r \in Reader :
    rpc[r] \in {"idle", "hash", "identify", "inspect", "connect"}
      ~> rpc[r] \in {"reading", "measured", "refused", "denied", "closed"}
=============================================================================
