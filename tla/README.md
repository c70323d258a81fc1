# Formal model of the geometric-function-atlas package

TLA+ models of the parts of `geometric_function_atlas` (a Python package of
published and re-computed constants of geometric function theory) in which
something can go wrong that a unit test would hardly reach: installing and
opening registry snapshots, running the `zstd` command, writing and verifying
research bundles, claiming a proof, a violation, membership or containment,
handing out structured results and taking them back, replaying radius and
coefficient certificates, the S-box and image laboratories, and the command line.
TLC checks the models on small instances; TLAPS proves every safety property they
state, in every component, for every value of the constants.

## 1. The system

All of it is one Python package, a library and a command line (`gfa`) over it.
There is no server and no thread.  Concurrency comes from several processes
that use the same files, from the `zstd` child process, and from other programs
that rewrite files between two system calls.

| Component | State it keeps | Operations |
| --- | --- | --- |
| Snapshot installation (`snapshot.py`) | destination file, staging file `destination.tmp`, private temporary directory | `install_snapshot`: download or read, limit, hash, decompress, verify, copy, rename, clean up |
| Zstandard decompression (`snapshot.py`) | output file, byte count, child process, two pipes | `_decompress_zstd` |
| Snapshot reader (`snapshot.py`) | path, manifest, SQLite connection | `RegistrySnapshot.open`, `verify_snapshot`, `info`, `close`, some thirty queries |
| Research bundles (`bundle.py`) | manifest file, temporary file, artifacts | `write_research_bundle_manifest`, `verify_research_bundle_manifest` |
| Payload contracts (`contracts.py`) | none; a payload is a value | check and report construction, `build_result_payload`, `validate_result_payload`, expression DAG |
| Analysis records (`records.py`) | none | `build_screen_record`, `validate_screen_record` |
| Verification tiers (`verify.py`), counterexamples (`counterexamples.py`) | none | screen, symbolic and rigorous verdicts; witness search and certification |
| Radius registry and replay (`radii.py`) | cached rows | queries, coercion and replay of records, `verify_radius_certificate` |
| Packaged artifact store (`artifacts.py`) | cached JSON documents | catalog queries, certificate replay, checksum verification |
| Classes, catalog, exact expressions (`classes.py`, `catalog.py`, `exact.py`, `models.py`) | registry of subordination classes | lookup, parsing, admissibility, membership, containment |
| Coefficient functionals (`coefficients.py`, `fekete_szego.py`, `schur.py`) | none | Taylor coefficients, Schur recursion, closed forms |
| Laboratories (`lab/crypto.py`, `lab/image.py`) | none | S-box metrics and construction; image metrics |
| Command line (`cli.py`) | none | argument parsing, some fifty handlers, exit codes |
| Plotting, citations, scripts | none | rendering, tables, building |

How they interact: the command line calls one operation per process and turns
its exceptions into exit codes.  Installation calls decompression and
verification and publishes a file by renaming it; readers open that file by
path, several times, while other processes may install over it.  Bundles record
the size and checksum of files that other operations wrote.  Verification tiers
and counterexamples produce reports that the contracts wrap and validate.

What is hard, component by component (each is a hazard of `PROJECT.json`, with
its line and the properties that cover it):

* installation: two installers share the staging name; a process killed while
  it copies leaves a partial file for the next one; an error half way must not
  report success or leave litter; a local source may change between the hash
  and the copy; three limits, each with a boundary;
* reading: four descriptors on one path, with renames between them; SQLite is
  told the file is immutable; the digest of `info` and its counts are read at
  different times;
* decompression: a child and a caller with two bounded pipes, output of unknown
  size, a disk that fills up, an interrupt that no clause catches;
* bundles: two writers, writers that fail or are killed, artifacts that change
  between the measurement of the size and that of the checksum, a writer's and a
  verifier's limits and orders that must agree;
* evidence: floating point, exact sums and interval arithmetic judge one
  function, each valid for another object (a grid, a truncation, its binary64
  polynomial), and what is claimed must be true of the function supplied; flags
  of the checks depend on the outcome; records are written and validated by code
  that decides separately what is valid;
* laboratories: the paths and lattice images an S-box is constructed from may end
  early, repeat and tie, and it must still be a permutation; the Walsh-Hadamard butterfly
  works in place; image windows and kernels reach over the edge;
* payloads: the verdict on an expression DAG depends on the order shared nodes
  are visited in; a payload repeats each fact in several places and may have been
  rewritten in one of them or in all; a failed check moves three other fields;
* radii: a record travels as a mapping through other processes, loses a
  certificate or has fields altered, and comes back to be replayed, while the
  bundled registry may be damaged;
* artifacts: documents are cached one by one while the package under the process
  is reinstalled; the Schur recursion unfolds from the last parameter;
* command line: an answer, a structured failure, a named exception, any other
  exception and a reader that went away all end in one exit code.

## 2. Modules

| Module | Models |
| --- | --- |
| `SnapshotInstall` | `install_snapshot` and everything it calls, any number of processes and destinations |
| `AtomicInstall` | what installation promises: a destination changes in one step, to a described database |
| `SnapshotReader` | `open`, `info`, `close`, over `SnapshotInstall` |
| `ZstdStream` | `_decompress_zstd`: child, pipes, caller; and the `zstandard` package |
| `BundleManifest` | both operations of `bundle.py` |
| `AnalysisRecord` | checks, reports and records: `contracts.py`, `records.py` |
| `FunctionVerification` | `verify_function` at its three tiers |
| `WitnessSearch` | `find_counterexample`, `verify_counterexample`, interval evaluation |
| `ClassScreens` | the winding number and the screens of `classes.py` |
| `SboxConstruction` | `construct_sbox`, keyed and direct |
| `SboxLab` | the Walsh-Hadamard transform, the tables and metrics of an S-box, their record |
| `ImageLab` | window sums, kernels and transforms of `lab/image.py`, their records |
| `Evidence` | the operations of the six modules above and the records of their results |
| `ExpressionDag` | `_validate_expression_dag`, `_decode_expression_dag`, `canonical_expression_dag` |
| `ResultContract` | the three computed result types: operation, report, payload, rewriting, `validate_result_payload` |
| `RadiusReplay` | rows and lanes, serialization, coercion, validation and replay across processes |
| `ArtifactStore` | the cached documents and the lookups on them, the integrity check, certificate replay |
| `CommandLine` | one run of `gfa`, over `RadiusReplay` and `ArtifactStore` |
| `Library` | a use of the last five, one at a time |
| `SnapshotProofs` (installation and reader), `ZstdStreamProofs`, `BundleManifestProofs`, `EvidenceProofs`, `LibraryProofs` | theorems about the modules they name |
| `IntervalLemmas` | lemmas about `WitnessSearch`: outward rounding, interval operations, Horner's rule, the three criteria |
| `DagProofs` | lemmas about `ExpressionDag`: paths, cycles, the walks of visit and decode |
| `RankLemmas` | lemmas about counting: least elements, ranks in a finite order, injections of a finite set, sums and folds over a finite set, how sums split, restrict and combine, powers of two and quotients by them |
| `MC...` | values of the constants for TLC |

**SnapshotInstall.** A file is a sequence of bytes. The shared state is what the
file system shares: for each destination the inode under its name (`installed`) and
under its staging name (`staging`), and the bytes of each inode. `OpenStaging`
truncates the inode that is there or makes a new one, `CopyChunk` writes at the
copier's own offset into the inode it opened, `Replace` rebinds the name: a rename
never moves the bytes someone else is still writing, which is exactly what makes the
race on the staging name visible. Each call has a program counter whose values are
the steps of `_install_snapshot_with_manifest`: `fetch` (`_source_to_file`), `check`
(the second hash and the asset digest), `stage` (decompress or copy into the private
directory), `verify`, then inside the `try` block `open`, `copy`, `replace`, and
`succeed` or `raise` on the way through the `finally` clause (`Cleanup`). `Error` is
any operation raising, `CleanupFails` an unlink of that clause raising or an
interrupt inside it, which leaves the staging name behind, `Crash` the process being
killed, `SourceChanges` another program rewriting the source. Decompression is one
step here: its output goes to the private directory and nobody else sees it;
`ZstdStream` has its inside. Digests are modelled by the bytes they stand for. The
SQLite inspection of `verify_snapshot` is implied by equality with the database the
manifest describes.

**SnapshotReader** extends it with callers of `RegistrySnapshot.open`.  Every
read of the path is a step of its own (`HashSnapshot`, `Identify`, `Inspect`,
`Connect`, `Measure`), because each opens the path anew.  A whole hash is one
step: it reads one inode, and theorem `PublishedImmutable` says that inodes
under a destination do not change as long as installers take turns.  The code
does not make them, so the runs and theorems with readers say so: they are
about installers with `Exclusive`, and `InstallShared` shows what racing ones publish.

**ZstdStream.** Bytes in a pipe keep their order, so only their numbers are
modelled.  The caller reads a chunk, tests the limit, writes, and drains
standard error after standard output; the child blocks on a full pipe and dies
of a broken one.  With faults, writes fail, the child is killed by the system,
the caller is interrupted.

**BundleManifest.** Artifact names are numbers, ordered as the code orders
strings.  The path check, the stat and the hash of an artifact are separate steps
(`CheckPath`, `CompareSize`, `CompareHash`), each opens the path anew, and any artifact
may be rewritten or vanish between any two steps; one that vanishes after the path
check raises `FileNotFoundError`, which nothing catches (`raised`).  A rename of the
temporary manifest may fail, and then so may its removal (`leftover`).  Hashing one
artifact is one step.  Two variables are history: `seen`, what each
artifact held since a verifier read the manifest, and `overtaken`, the entries whose
artifact was rewritten between exactly their own two comparisons.  For these the code
can join the size of one version to the checksum of another, because it looks at
the file twice; `AcceptedWasTrue` excepts them and nothing else.  Text fields, symlinks and the
manifest's own size limit are decided without regard to the directory and are
left out.

**AnalysisRecord** has the pipeline every operation ends in: the operation leaves
`result`, its caller builds `record` (`to_dict`, `build_screen_record`), the
receiver decides `accepted` (`validate_screen_record`).  Texts that operations
fill with constants are left out; what remains of a check is its status, whether
it is required and whether it carries a failure reason, which is all the
validator's verdict depends on.

**FunctionVerification** abstracts a function to what is true of it: its sums and
whether SymPy can compare them with 1, whether a tail is unknown or a coefficient
was rounded, and which criteria hold for it and for its binary64 polynomial.
`Lawful` states the theorems the code relies on (the sums suffice, convex implies
starlike, and so on).  A grid scan may say anything; an interval separates only
what the binary64 polynomial does not satisfy.  The control of the three tiers,
and how each check's status and `required` flag follow from it, is kept whole.

**WitnessSearch** justifies that last abstraction: the interval evaluation itself,
Horner's rule with outward rounding in a binary format of a few bits, for
polynomials of degree three and real witnesses, against exact fractions.

**ClassScreens** takes sampled boundaries as data and has the winding number, the
loops that count and remember the first value outside, and the results.

**SboxConstruction** keeps the loops: the keyed construction keeps the first
occurrence of each byte of a path and fills in the others, the direct one ranks
the images of a lattice.  Paths and images are inputs, because they come from
sines and exponentials of floats.  **SboxLab** has the butterfly round by round
over one array and the metrics read off the spectra; `MetricsAreDefinitions`
compares them with distances to affine functions, biases and counts.  The width
is a constant, so that a small S-box stands for the one of eight bits; averages
are kept as their terms.

**ImageLab** has the integral image and the window sums clipped at the edges, the
convolution reflected there, the kernels and the three transforms, over integer
levels with sums left undivided; the property compares each with a sum over the
pixels it is meant to cover.

**Evidence** composes these with `AnalysisRecord`: one operation is called, the
others are idle.

**ExpressionDag** walks the graph with an explicit stack of the frames of
`visit`, so that `Enter`, `Proceed` and `Leave` are its lines in order: a node in
progress, a node finished, the depth limit.  A node is an operator and a list of
references.  The decoder's own recursion and the canonical form follow.

**ResultContract** has what an operation returns (`answer`), the payload built
from it, the rewritings others may apply to a stored payload, and the validator
with its order: shape of the report, contract of the operation, recomputation.
A generator is a triple of integer coefficients, mu an integer, an enclosure a
pair of bounds; the expressions of a payload are the values they denote together
with the displays and the DAG that repeat them.  `Rewritten` changes one fact in
any number of the places that repeat it.

**RadiusReplay** takes an expression as its form (`exact`, `display`, `huge`),
the value it denotes and its spelling: two spellings of one value are equal after
simplification and differ as text, which is what separates comparisons in the
code.  `Chain` gives the verdict of each symbolic step.  A record is held by
someone who may serialize it, alter a field, lose its certificate or hand it to
another process, `MaxChanges` times.

**ArtifactStore** has `disk` and `memory` for each document, whose content is
good, altered, of another schema, with overlapping rows, missing, broken or
undecodable, and for each lookup the order in which it reads documents (`proof` asks
the supplement before the certificates) and where it stops.  Between two calls
`Reinstall` either makes damaged documents good or damages a listed good one, so that
disk and memory differ both ways.  Certificates are replayed over integers: the Schur recursion, the
member's coefficients, the functional.  Values are counted in twelfths so that
the denominators of the functionals disappear.

**CommandLine** parses, calls the handler step by step, and reports.  The radius
and artifact handlers call the modules above; the others are reduced to the
exceptions they can end with.  Texts are classes: a record, an explanation, a
usage message, a traceback.  `Cause` is what an exit code is documented to mean for
the command given, told from the corpus, the registry and the damage to them and not
from the exception: `ReplayCause`, `RadiusCause`, `ArtifactCause`, and for the grouped
commands `OtherCause`, which can only say which exception a code stands for.

**Library** lets one of these be used and holds the others still.

## 3. Runs

| Run | Instance | Checked |
| --- | --- | --- |
| `InstallRace` | 2 installers at once on 1 destination, 2 databases of 2 bytes, local and URL sources, errors, kills, changing sources | `OnlyVerifiedBytes`, `LitterHasOwner` |
| `InstallAndRead` | 2 installers that take turns, of 2 releases (URL and archive), 1 reader with either manifest or none, all faults | `InstallIsAtomic`, `InstalledImmutable`, `ReportedInstalled`, `ConnectedComplete`, `ConnectionStable` |
| `OneRelease` | 2 installers of 1 release from every kind of source, good, torn and too long, 1 reader, nothing fails | `GoodSourceInstalls`, `VerifiedReadsManifest`, `InfoCoherent`, `GoodOpens`, `CallsEnd`, `OpenEnds` |
| `Zstd` | streams of 0 to 6 bytes and 0 to 2 of noise, pipes of 2, chunks of 3, limit 5, both decompressors, with and without faults | `OutputBounded`, `ReturnMeansWhole`, `VerdictExact`, `NoOrphan`, `BothEnd` |
| `Bundle` | 2 writers, 1 verifier, 2 artifacts, one change, a directory with and without a foreign manifest | `ManifestWhole`, `TempHasOwner`, `WrittenVerifies`, `AcceptedWasTrue` |
| `Evidence` | every lawful function whose binary64 polynomial satisfies what it does or nothing, every tier; 24 polynomials, 4 grid points, 6 hints; 6 curves with up to 3 values, not finite ones among them; small S-boxes and images | `ProofsAreTrue`, `ViolationsAreTrue`, `SuccessMeansSettled`, `TiersAgree`, `BestEncloses`, `SearchVerdictTrue`, `ScreenVerdictTrue`, `RefusedOnlyUndecided`, `ConstructedPermutation`, `MetricsAreDefinitions`, `ImageArithmeticExact` |
| `Library` | every graph of 3 nodes and some of 4; 5 generators and a few orders; 6 rows and 2 lanes of radii; certificates of 2 classes; every command with and without `--json` | `DagVerdictExact`, `AcceptedIsTrue`, `ComputedResultsSerialise`, `ReplayFailsClosed`, `CertificateVerdictExact`, `IntegrityOfDisk`, `ExitTellsTruth` |
| `EvidenceRecords` | the same | `BuiltRecordsValid`: violated |
| `InstallShared` | as `InstallRace`, nothing failing | `InstallIsAtomic`: violated |
| `InstallUrlName` | 1 installer of a URL that ends in the database's name | `GoodSourceInstalls`: violated |
| `ReaderReplaced` | 2 releases and a reader, nothing failing | `VerifiedReadsManifest`: violated |
| `JsonFailures` | as `Library` | `JsonFailures`: violated |

What the properties of `Library` say:

* `DagVerdictExact`: an accepted DAG has no cycle and no unused node, a refused one
  has one of these, a repeated expression, a wrong shape or a path longer than the
  limit, and decoding never goes deeper than validation did;
* `AcceptedIsTrue`: a payload that the validator accepts, rewritten or not, states
  values that follow from the inputs it states, or claims nothing;
* `ComputedResultsSerialise`: every result an operation computed gives a payload
  that is built and accepted, failed checks included; what is refused is a
  functional of an unnormalized generator, or a witness nobody computed;
* `ReplayFailsClosed`: only a record that agrees with its reviewed lane is
  certified, and an intact row without a certificate is never called damaged;
* `CertificateVerdictExact`: a certificate is confirmed only when the member its
  parameters determine attains the candidate it states within its bound, and one
  that does is refused only when a document is damaged;
* `IntegrityOfDisk`: the integrity check is about the files as they are: it passes
  only if every listed document is good on disk, whatever the process has cached
  since before it was reinstalled or damaged;
* `ExitTellsTruth`: an answer is printed exactly with 0, and each code a command ends
  with has its documented cause: 0 that what was asked for was established from usable
  documents, 2 that an input is malformed or a document no text, 3 that it is outside
  what the package knows, 4 that the evidence does not suffice, 5 that it exceeds a
  limit, 6 that an artifact is damaged or disagrees with what it claims.  For the
  commands reduced to their exceptions it says only which of them gives which code.

What the properties of `Bundle` say of a manifest that is accepted: it is well
formed, and of each of its entries one version of the artifact, held since the
manifest was read, had both the size and the checksum, unless the artifact was
rewritten between those two comparisons (`AcceptedWasTrue`).

What the violated ones show:

* two processes that install to one destination at once share
  `destination.tmp`: the second truncates the file the first is about to rename,
  and a reader finds an incomplete database that neither verified.
  `OnlyVerifiedBytes` says what is left of the promise: no byte that was not in
  a verified file at that place;
* a URL whose last component is the manifest's `database_filename` cannot be
  installed: the download already has the name the raw file is copied to, and
  `shutil.copyfile` refuses to copy a file onto itself;
* `open` verifies the file under the path and then opens the path again: an
  install between the two gives a connection to a database that is not the
  manifest's, reported as verified;
* `build_screen_record` validates nothing, though its docstring says it raises
  for an invalid record.  The record of a symbolic answer whose convexity sum
  SymPy cannot compare with 1 has a reason on a skipped check, which the
  validator refuses, even when starlikeness was proved.  `RefusedOnlyUndecided`
  says that this is the only such record;
* with `--json` every failure is to leave a JSON record and no traceback, but a
  registry file that does not have its checksum raises `RuntimeError`, which the
  except clause of `_main` does not name: `gfa radius ... --json` then writes a
  traceback and no record, and exits with 1.

**Bounds and why they are enough.** Two installers are what a race on one
staging name takes, and a third adds only a second of the same.  Files of two
bytes are the shortest that can be half written, and one byte of each release
tells a mixture from either.  Limits are placed so that files of exactly the
limit and of one byte more occur (`MaxRaw`, `MaxCompressed`, `OpenLimit`,
`InfoLimit`, `MaxBytes`, `MaxArtifact`, `MaxTotal`).  The pipe of the `Zstd` run
is smaller than the chunk and the chunk smaller than the stream, so that both
block and both split.  In `Evidence` every combination of facts about a function
occurs; the coefficients lie on both sides of each criterion, so that each is
certified for some and not for others, and with three bits most products must
be rounded; the curves include one that runs clockwise, one that crosses itself
and two that overlap themselves, and values on both sides of each, vertices at
the height of a value included.  `MaxChanges` bounds how often artifacts are rewritten; one
rewrite between stat and hash is what the hazard is, and one at any other place must
not be able to join two versions.  In `Library` the depth
limit of a DAG is 1, so that three nodes reach it and exceed it; two rewritings
(`MaxEdits`) change a value and its repetition, or two facts that have to agree; two
alterations (`MaxChanges`) of a record can lose a certificate and forge the field
that would betray it; one damaged document (`MaxFaults`) at every place a lookup
reads, and two calls (`MaxCalls`), so that the second may find the first one's
documents in memory.  `MaxSteps` lies between the limits callers may give.  Every
command occurs with and without `--json`, and three of them (one of radii, one of
artifacts, one of the others) also with wrong arguments, `--help`, the
abbreviation `--js` and a reader that has gone.  Deadlock is not checked:
every call ends, and the models then stop.

**Fairness.** `CallsEnd` and `OpenEnds` assume that a call in progress keeps
running (weak fairness of its own steps: a process is scheduled) and that
nothing fails; `BothEnd` that both processes run.  Nobody is obliged to begin a call,
to change a source, to fail or to die.

## 4. Proofs

All theorems are checked by TLAPS for any values of the constants that satisfy
the named assumptions of the modules.  Those assumptions give the constants
their types (`ConstantsAssumption`, `StreamAssumption`, `BundleAssumption`,
`SizeAssumption`, `DagAssumption`, `ScreenAssumption`, ...) or state what the code is entitled to
take as given: the theorems of function theory (`FunctionAssumption`), that the
bundled registry has one row per direction and that its rows of reviewed lanes
agree with them (`RegistryAssumption`, `LaneAssumption`), that the value standing
for `None` is no result (`NoneAssumption`, `NothingAssumption`, `NullAssumption`).
TLC evaluates every one of them in the runs.  A hypothesis that only some
theorems need is in their statement, and said here.

### Installation: `SnapshotProofs`

Any installers, destinations, bytes, files and limits, with errors, kills and
changing sources:

* `TypeCorrect`: `Spec => []TypeOK`, which no run checks for its own sake;
* `InstallAtomic`: installation by installers that take turns implements
  `AtomicInstall`;
* `PublishedImmutable`: no step writes to an inode under a destination;
* `ReturnMeansInstalled`: a call that returns has its database at the
  destination;
* `OnlyVerifiedPublished`: what is left when installers race: every byte under a
  destination is a gap or has been verified for that place;
* `LitterOwned`: a staging file belongs to an installer that opened it and has not
  come through its `finally` clause, was killed before, or could not remove it there;
* `GoodSourceNeverRefused`: a good source is never refused.

`InstallAtomic`, `PublishedImmutable`, `ReturnMeansInstalled` and
`GoodSourceNeverRefused` assume `Exclusive`, that live installers of one
destination take turns; run `InstallShared` shows the assumption is needed.
`GoodSourceNeverRefused` also assumes that nothing fails and, in `NoNameClash`,
that a raw download is not named as the database is; `InstallUrlName` shows what
happens otherwise.  They rest on the inductive invariant `IInv`:

* `Turns` - two live installers have different destinations;
* `Fresh` - an installer's own inode is under no name before it opens the
  staging name, so that opening cannot truncate anything published;
* `Separate` - a staged inode is staged once and published nowhere, so that
  copying cannot change anything published.  This is the heart: it must hold
  across a kill, when the dead installer's inode stays under the staging name
  and the next installer writes into it;
* `Staged` - between verification and rename the private file is the database
  of the manifest, and the staged inode holds exactly the part copied so far;
* `Published` - destinations are absent, as they were, or described.

`Published` alone is not inductive: that `Replace` publishes a whole database
needs `Staged`, and that no other step disturbs what is staged needs
`Separate` and `Turns`.  The proof of inductiveness has one step per action and
under it one per conjunct the action can disturb; the step simulation maps
`Replace` to `Install` and everything else to stuttering.

`OnlyVerifiedPublished` has an invariant of its own, `RaceInv`, which holds with
any number of racing installers: an inode is opened, staged and published for
one destination only, and every position of it holds a gap or the byte some
database described for that destination has there.

### Reading: `SnapshotProofs`

Any readers over such installers, while those of one destination take turns
(`Exclusive`, a hypothesis of each of these theorems: the code does not enforce it, and
with two at once a reader can find a partial database, as `InstallShared` shows):

* `ConnectionsComplete`, `ConnectionsStable`: a connection reads a complete
  database, whose bytes never change, even after a rename took its name away,
  however many installers fail, are killed or replace the file;
* `VerifiedReads`, `InfoTellsTruth`, `GoodSnapshotOpens`: a verified connection reads
  the manifest's database, `info` reports that database, and a good
  snapshot opens.

The first two need `Detached`: an inode that has been published is staged
nowhere and no installer is still to create it, and that remains so when it
loses its name.  The other three also assume `OneManifest`, that one release is
installed at a destination; `ReaderReplaced` shows that two are enough to break
it.  `InfoTellsTruth` also assumes that the readers have manifests and
`GoodSnapshotOpens` that these describe databases within the limits of `open`.

### Decompression: `ZstdStreamProofs`

* `StreamTypeCorrect`, `OutputStaysBounded`, `ReturnIsWhole`, `VerdictIsExact`,
  `NoOrphanLeft`: the four properties of the run, for any stream, sizes of pipe and
  chunk, and limit;
* `NoPipeDeadlock`: the caller never waits for a child that waits for it.

The invariant is a conservation law: while the caller reads, what the decoder
has produced is in the pipe, in the pending read or in the destination.  With it
goes what each verdict says of the stream, and where the child can be at each
step of the caller.  That the messages on standard error fit their pipe
(`StreamAssumption`) is what `NoPipeDeadlock` needs: the code reads standard output
to its end first, and the command is run quietly.

### Bundles: `BundleManifestProofs`

Any directory, writers, verifiers and limits:

* `BundleTypeCorrect`, `TempOwned`;
* `ManifestIsWhole`: the manifest is the one that was there or the complete one of
  one writer;
* `RoundTrip`: what a writer wrote from artifacts that did not change is accepted;
* `AcceptedTrue`: of each entry that is accepted one version of the artifact had both
  the size and the checksum, unless it was rewritten between exactly the two
  comparisons of that entry.

`TempOwned` says that a temporary file belongs to a writer that is still at it, was
killed, or could not remove it. The invariant says of each writer what its entries
and its temporary file hold (`WriterAt`, `WriterTrue`), of each verifier what it has
compared so far (`VerifierAt`, `VerifierTrue`), and of the manifest whose it is
(`ManifestAt`). For an entry between its two comparisons it says that the size was
true of what the artifact holds now, or that the entry has been overtaken: that is
what lets `CompareHash` conclude that one version had both. Sorting the entries is
the hard step: an entry goes where the number of entries before it says, and
`RankLemmas` proves that this is a bijection onto the positions, so that nothing is
lost, doubled or out of order.

### Evidence: `EvidenceProofs`, `IntervalLemmas`

For every set of functions that satisfies `FunctionAssumption`:

* `VerifyTypeCorrect`: `VerifySpec => []VerifyTypeOK`;
* `ProofsTrue`, `ViolationsTrue`: what is claimed proved or violated is so;
* `SuccessSettles`: a successful report settles the question;
* `TiersConsistent`: the two exact tiers prove the same of starlikeness and
  convexity;
* `EvidenceClaims`: the four together, of `verify_function` among the other
  operations;
* `RecordsAccepted`: the receiver refuses only the records of undecided symbolic
  answers;
* `ConstructionPermutes`: both S-box constructions return permutations, for every
  power of two, path and lattice, repeated and tied images included;
* `ScreensTrue`: a membership or containment screen passes exactly when the curve
  winds once around every finite value tested, and names one it does not wind
  around otherwise, for any closed polygons and any values off their edges;
* `WitnessesEnclosed`: the enclosure of the best candidate of a search contains the
  exact value of the criterion there, for every polynomial, grid, precision and
  scale;
* `SearchTrue`: a certified witness violates the criterion in exact arithmetic, and a
  search that ends uncertified had a hint that does not certify, if it was given
  one that could be evaluated;
* `ImageExact`: for every image of every size, window, kernel and gain the integral
  image gives the sums over the clipped windows, and the transforms keep flat images
  flat and their edges dark;
* `MetricsExact`: for every number of bits and every S-box, constructed or supplied, the
  metrics read off the transforms in place are the distances to affine functions, the
  biases and the counts of differences they are named after, and an S-box is called a
  bijection exactly when no difference of inputs vanishes.

The invariant of the first ones says that a separated enclosure at the rigorous
tier was computed for the function itself (`SeparationKnown`), that an answer is
the verdict on the question now in the variables (`Answered`), and that an
earlier answer was the symbolic verdict on the same question (`AskedBefore`); the
properties then follow from the verdicts case by case.  Agreement of the tiers
is the one that needs all of it: a sum that proves starlikeness makes the
criterion true of the function, hence of its binary64 polynomial when the
interval is used at all, so that no interval separates.  Records follow from
`RecordInv`: one operation was called, and the checks of whatever it returned have
the form the validator asks for, unless it is that symbolic answer.  The keyed
construction keeps a sequence without repetition that, while it fills in,
contains every byte below the next one; it can only be a permutation when it has
all `N`.  The direct one ranks the points by their images, with ties broken by
index, and a rank in a strict finite order is a bijection.

`ScreenInv` says that the counters of a screen agree exactly when no value among
those counted so far is outside, and that the outsider is one of them.  What the
code counts is the crossings of a ray to the right, what the property counts
those of a ray upwards.  For an edge that does not meet the point the two
crossings differ by what a function of the edge's end gains over its start
(`EdgeCrossings`): whether that end is above and to the right.  Around a closed
polygon those gains cancel (`WindingsAgree`).  The sums are folds over a finite
set; `RankLemmas` shows without an induction theorem, by a least counterexample,
that they do not depend on the order (`SumsSplit`) and that they telescope
(`SumsTelescope`).

The searches rest on `IntervalLemmas`.  `Encloses(x, n, d)` says that `x` contains the
fraction `n/d`, without dividing.  `Down` and `Up` round outwards for whatever spacing
of floats, a power of two (`Rounds`), so that `Between` encloses what lies between its
numbers; the extremes of a product or a quotient of intervals are at their ends
(`ProductAbove`, `QuotientAbove`), which gives `TimesEncloses` and `OverEncloses`.  `HornerRuns` unfolds the
recursive function of `PolyInterval`, and the four polynomials a search needs are
enclosed place by place (`FunctionEnclosed` to `ThirdDerivativeEnclosed`).  What remains
is that the interval expression and the exact criterion are the same fraction:
`StarlikeEnclosed`, `BeckerEnclosed` and, where the products are largest,
`NehariEnclosed`.  `EvaluationTrue` joins them, and the invariant `SearchInv` says that
the best candidate is the evaluation of its own point and the hint is tried first.
That 3/2 is a float of the format is the one thing asked of the scale:
`WitnessAssumption` makes `Q` even.

`ImageInv` says how much of the integral image has been accumulated.  The cumulated
sums along the two axes are the sums over the blocks that end at each pixel
(`IntegralImage`), a window that is clipped is a product of two intervals
(`WindowInterval`), and four blocks cut it out (`CornersSum`); `PictureAssumption` makes the
images rectangles and the windows odd.  A convolution of a flat image is its level
times the sum of the kernel, because a reflected index is inside (`ReflectInside`).  The kernel of
a named function is built along four directions; its sum is taken ring by ring:
eight places at every distance from the centre carry the coefficient of that distance and
the others nothing (`StarSize`, `LowPassValues`, `LowPassSum`), so that it sums to the weight
the code divides by, the edge kernel to nothing and the sharpening one to the weight.
What these need of sums is in `RankLemmas`: a sum does not depend on how it is
taken (`SumUnique`), restricts to a part of the domain, splits, is linear, and is a sum
over the fibres of any map of the domain (`SumRestricted`, `SumParted`, `SumLinear`,
`SumFibres`).

For the metrics of an S-box a byte is the set of its bits: its shifts are quotients
that halve (`Shifts`), a byte is determined by its bits (`BitsDetermine`), adding a
power of two that is not there adds that bit and no other (`BitAdded`), and so every
set of bits is that of a byte (`BitsReach`) and the exclusive or of two bytes the
byte of the difference of two sets (`XorBits`).  `LabInv` says that when the next
butterflies are `2^k` wide, an entry of a spectrum is the sum of the function over
the bytes that have the same bits from `k` on, with the sign of the common bits
below (`Partly`).  That is the function itself at the start (`TransformStarts`); a
butterfly joins the two sums that differ in bit `k` (`TermsJoin`, `ButterflyRounds`),
which is where taking the difference the wrong way round would show; at the end it is
the sum over all bytes (`TransformEnds`), `N` less twice the number of bytes where
the component function differs from the linear one (`SpectrumCounts`).  The largest
absolute entry is then the least distance seen from the other side
(`NonlinearityExact`), the linear approximation table the biases (`BiasRead`,
`LargestBias`), a row of the difference table a sum over the fibres of one map
(`RowCounts`), and a difference vanishes for some input exactly when two inputs have
the same image, which over finitely many bytes is when some byte is no image
(`BijectionSeen`).  `SizeAssumption` makes `N` a power of two with at least one bit, the
code has eight, and `BoxAssumption` says what `_as_array` enforces: supplied boxes map bytes
to bytes, not necessarily one to one.

### Library: `LibraryProofs`, `DagProofs`

* `ReplaysFailClosed`: a replay certifies exactly the rows of reviewed lanes with
  the reviewed candidate;
* `ExitIsTruthful`: an answer is printed exactly with exit code 0, and every exit code
  has its documented cause, for every corpus, registry and damage to them;
* `IntegrityChecksDisk`: the integrity check is about the files on disk, for every set
  of documents and faults and any number of calls;
* `AcceptedResultsTrue`, `ResultsSerialise`: accepted payloads state the truth, and
  computed results serialise into payloads that are accepted;
* `DagVerdicts`: the verdict on an expression DAG is right, for every finite DAG
  and depth limit;
* `CertificatesReplay`: a coefficient certificate replays exactly when its document
  says PROVED and the member its gammas describe attains the candidate within the
  bound, for any classes with integer coefficients and any corpus.

A replay answers a function of the record it was given, so that the work lies in
the cases of `ReplayVerdict`: a record that agrees with its certificate and is a
row of the registry has the exact value of its lane.  `ResultInv`
says that a payload keeps its shape under rewriting and that what the validator
accepts was accepted field by field.

What a certificate is replayed with is computed: the Schur recursion backwards
through the gammas, the powers of the Schwarz function, their combination with
the coefficients of the class, the exponential of an integral.  The property states
the member in closed form.  `OmegaUnfolds` goes through the fold one gamma at a time
(as long as a gamma is 0 it multiplies by z; one that is not makes the rest
irrelevant, since its square is 1), `PowersFirst`, `SeriesFirst` and `ExponentialFirst`
follow the three coefficients the functionals look at, and `MemberExtremal` puts
the two forms together.  `StoreAssumption` says what the corpus has: integer
coefficients and gammas -1, 0, 1 or not exact.  `CertInv` is about the documents: a
replay that is refused although its certificate holds met a damaged one, on disk
or in memory.

For the exit codes, `ExitInv` follows the cause from where it arises to the end of the
command.  `StoreTrue` says that the documents a lookup has already read can be used
(`Underway`) and that what it found is true of the disk and of memory (`FoundTrue`): an error
about an artifact was raised with a needed document damaged or a certificate that
disagrees, an unresolved one with good documents that leave the question open.
`Paired` keeps the supplement with the certificates it supplements: nothing happens
between the two reads.  `RowReplay` lists what the replay of a row of the registry may
come to, and `OutcomeTrue` carries the cause from the handler through the report to the
exit.  `DiskInv` is about the integrity check alone: it reads the manifest and nothing
else before it compares the files on disk.  `StoreAssumption` is used
here too: `Unset` is neither an integer nor a refusal.

A DAG is judged by distances: `AtDistance[k]` has the ends of the paths of `k`
edges from the roots.  A path as long as there are nodes contains a cycle, and
the nodes on a cycle form a set each of whose members has a child in it, which
no distance escapes (`TrapDistance`); a rank that falls along every edge excludes
such a set (`RankedDistance`).  The stack of visit is a path, and a finished node
gets its rank when it is left; so a refusal shows a cycle, an unreachable node
or a path that is too long, and an end shows there is none of them.  That decode
needs no limit of its own is the hardest part: the invariant `DagInv` says that
there is a walk, the one visit made from the first root to the end without going
too deep, and that decode is always at some place on that walk.

### What is only model-checked

* liveness under fairness (`CallsEnd`, `OpenEnds`, `BothEnd`) and `ENABLED`, which the
  provers do not handle;
* what the violated runs show.

## 5. Not modelled

Left out, with the reason:

* snapshot queries and the manifest parser: each query is one SELECT over an
  immutable connection, the parser a function of one document;
* plotting: rendering through matplotlib, in floating point;
* citations and the implementation registry: constant tables;
* release and install scripts: developer tools outside the program;
* text parsers (`exact.py`, the expression parser of `radii.py`, argument syntax)
  and their node, depth and power bounds: functions of one text;
* the formulas of SSIM, correlation and gradient similarity over the window sums,
  the comparison and ranking of S-boxes and images; the values of grid scans and of symbolic algebra,
  which enter the models as data;
* the JSON shape of payloads (types, unknown and missing keys, size bounds), the
  closed envelope of radius payloads, `snapshot_payload`;
* `identify_radius`, `recognize_axis_radius`, the extra fields of the radius audit;
* Nehari's criterion in payloads of counterexamples, which takes the same branches
  as Becker's with another threshold;
* the check of a record's coordinates in `records.py:206-211`, which only an `rmax` within
  rounding of 1 can fail; what SymPy evaluates while a DAG is decoded, and
  `validate_exact_expression` after it; the redundant fields of a payload that the
  validator only type-checks (`generator_citation`, `value_decimal`,
  `theorem_reference`); the number of pixels of a window that the image metrics divide
  sums by;
* a file rewritten while one hash of it is read: hashing is one step.  Messages of a
  zstd command on standard error are assumed to fit the pipe;
* `Popen` failing, a machine without any zstd decoder, a destination on a file
  system without atomic rename.  A sidecar manifest next to a snapshot is modelled
  as the caller's manifest.

Seen while modelling, worth a reviewer's look, and not the subject of a run:

* the assumptions of a payload are compared by "not a proper subset"
  (`contracts.py:837`), so a list of entirely different ones passes, although
  docs/RESULT_CONTRACT.md:31 asks for operation-specific assumptions; a
  counterexample's payload rewritten from `caller_supplied` to `built_in` passes;
* whether a DAG is too deep depends on the order its shared nodes are visited in;
* replay of a mapping does not look at the redundant fields it does not need,
  though `radii.py:1183` speaks of failing closed on every mutation; `_records`
  reads the registry and then reads it again to hash it;
* a document that is not UTF-8 ends in exit code 2 and not 6; one of a wrong
  schema stays in memory after the file is repaired;
* `get_proof(raw=True)` returns sub-objects of the cached document;
* a wrong argument with the abbreviation `--js` gives a usage text, not a record;
* a pipe whose reader left before the last flush gives exit code 120, where
  docs/RESULT_CONTRACT.md:134 says 1;
* `snapshot install` prints a verification that failed on rereading and exits
  with 0.

## 6. Plan

In this order, the most important behaviour first:

1. done: `SnapshotInstall`, `AtomicInstall`, `SnapshotReader`, `ZstdStream`,
   `BundleManifest`, and the proofs about installation;
2. done: `AnalysisRecord`, `FunctionVerification`, `WitnessSearch`,
   `ClassScreens`, `Evidence`, and the proofs about the tiers;
3. done: `SboxConstruction`, `SboxLab`, `ImageLab`;
4. done: `ExpressionDag`, `ResultContract`, `RadiusReplay`, `ArtifactStore`,
   `CommandLine`, `Library`;
5. done: proofs of every safety property the runs check: installation without turns,
   readers, decompression, bundles, records, the screens, the counterexample search,
   the S-box construction and metrics, image arithmetic, replays of both kinds of
   certificate, results, expression DAGs and exit codes;
6. next, should the code grow: the queries of a snapshot once they write, and the
   manifest parser once it keeps state.
