---------------------------- MODULE SnapshotProofs ----------------------------
(***************************************************************************)
(* Proofs about SnapshotInstall and SnapshotReader.  For any number of     *)
(* installers, destinations, releases and bytes, installation is atomic    *)
(* while the installers of one destination take turns; and what a          *)
(* connection that RegistrySnapshot opens reads is then a whole verified   *)
(* release, for any number of readers.                                     *)
(***************************************************************************)
EXTENDS SnapshotReader, TLAPS

USE DEF Private, Publishing, Unwinding, Ended

\* Writing the next byte of a file after a prefix of it gives the longer prefix.
LEMMA WriteAppend ==
  ASSUME NEW w \in File, NEW n \in Nat, n + 1 \in 1..Len(w)
  PROVE  WriteAt([k \in 1..n |-> w[k]], n + 1, w[n + 1])
           = [k \in 1..(n + 1) |-> w[k]]
<1> DEFINE f == [k \in 1..n |-> w[k]]
<1>1. f \in Seq(Byte \cup {Hole}) /\ Len(f) = n
  BY DEF File
<1>2. WriteAt(f, n + 1, w[n + 1])
        = [k \in 1..(n + 1) |-> IF k = n + 1 THEN w[n + 1]
                                ELSE IF k <= n THEN f[k] ELSE Hole]
  BY <1>1 DEF WriteAt
<1>3. \A k \in 1..(n + 1) :
        (IF k = n + 1 THEN w[n + 1] ELSE IF k <= n THEN f[k] ELSE Hole) = w[k]
  OBVIOUS
<1> QED BY <1>2, <1>3

\* A write keeps a file a file.
LEMMA WriteType ==
  ASSUME NEW f \in File, NEW n \in Nat \ {0}, NEW b \in Byte \cup {Hole}
  PROVE  WriteAt(f, n, b) \in File
<1> DEFINE m == IF n > Len(f) THEN n ELSE Len(f)
<1>1. m \in Nat /\ Len(f) \in Nat /\ f \in [1..Len(f) -> Byte \cup {Hole}]
  BY DEF File
<1>2. WriteAt(f, n, b) \in [1..m -> Byte \cup {Hole}]
  BY <1>1 DEF WriteAt
<1> QED BY <1>1, <1>2 DEF File

\* A file is the prefix of itself as long as itself.
LEMMA WholePrefix ==
  ASSUME NEW w \in File
  PROVE  [k \in 1..Len(w) |-> w[k]] = w
BY DEF File

-----------------------------------------------------------------------------
\* The initial states have the declared types.
LEMMA InitTypeOK == Init => TypeOK
<1> SUFFICES ASSUME Init PROVE TypeOK
  OBVIOUS
<1>1. <<>> \in File /\ PriorFile \in File
  BY ConstantsAssumption DEF File
<1>2. installed \in [Dest -> Inode \cup {Nil}]
  BY DEF Init, Inode
<1>3. bytes \in [Inode -> File]
  BY <1>1 DEF Init
<1> QED BY <1>1, <1>2, <1>3 DEF Init, TypeOK, Step

\* So have the states after a step.
LEMMA StepTypeOK == TypeOK /\ [Next]_vars => TypeOK'
<1> SUFFICES ASSUME TypeOK, [Next]_vars PROVE TypeOK'
  OBVIOUS
<1> USE DEF TypeOK, Goto, privateVars, diskVars, Step
<1>0. CASE UNCHANGED vars
  BY <1>0 DEF vars
<1> SUFFICES ASSUME NEW p \in Installer,
                    \/ Begin(p) \/ Proceed(p)
                    \/ Error(p) \/ Crash(p) \/ CleanupFails(p) \/ SourceChanges(p)
             PROVE  TypeOK'
  BY <1>0 DEF Next
<1>j. job[p] \in Job /\ Target(p) \in Dest /\ raw[p] \in File /\ source[p] \in File
  BY ConstantsAssumption DEF Job, Target
<1>1. CASE Begin(p)
  BY <1>1 DEF Begin
<1>2. CASE Fetch(p)
  <2>1. fetched' \in [Installer -> File]
    BY <1>2, <1>j DEF Fetch
  <2> QED BY <1>2, <2>1 DEF Fetch
<1>3. CASE CheckSource(p)
  BY <1>3 DEF CheckSource
<1>4. CASE StageRaw(p)
  <2>1. SourceFile(p) \in File
    BY <1>j DEF SourceFile
  <2>2. raw' \in [Installer -> File]
    BY <1>4, <2>1, ConstantsAssumption DEF StageRaw
  <2>3. pc' \in [Installer -> Step]
    BY <1>4 DEF StageRaw
  <2> QED BY <1>4, <2>2, <2>3 DEF StageRaw
<1>5. CASE Verify(p)
  BY <1>5 DEF Verify
<1>6. CASE OpenStaging(p)
  <2> DEFINE i == IF staging[Target(p)] = Nil THEN p ELSE staging[Target(p)]
  <2>1. i \in Inode
    BY <1>j DEF Inode
  <2>2. <<>> \in File
    BY DEF File
  <2>3. /\ pc' = [pc EXCEPT ![p] = "copy"]
        /\ fd' = [fd EXCEPT ![p] = i]
        /\ pos' = [pos EXCEPT ![p] = 0]
        /\ bytes' = [bytes EXCEPT ![i] = <<>>]
        /\ staging' = [staging EXCEPT ![Target(p)] = i]
        /\ UNCHANGED <<job, source, fetched, raw, installed>>
    BY <1>6 DEF OpenStaging
  <2> HIDE DEF i
  <2> QED BY <2>1, <2>2, <2>3
<1>7. CASE CopyChunk(p)
  <2> DEFINE n == pos[p] + 1
             b == WriteAt(bytes[fd[p]], n, raw[p][n])
  <2>1. n \in Nat \ {0} /\ n \in 1..Len(raw[p])
    BY <1>7, <1>j DEF CopyChunk, File
  <2>2. raw[p][n] \in Byte \cup {Hole}
    BY <1>j, <2>1 DEF File
  <2>3. bytes' = [bytes EXCEPT ![fd[p]] = b]
    BY <1>7 DEF CopyChunk
  <2>4. fd[p] \in Inode => b \in File
    BY <2>1, <2>2, WriteType
  <2>5. bytes' \in [Inode -> File]
    <3>1. CASE fd[p] \in Inode
      BY <2>3, <2>4, <3>1
    <3>2. CASE fd[p] \notin Inode
      BY <2>3, <3>2
    <3> QED BY <3>1, <3>2
  <2>6. pos' \in [Installer -> Nat]
    BY <1>7, <2>1 DEF CopyChunk
  <2> QED BY <1>7, <2>5, <2>6 DEF CopyChunk
<1>8. CASE CopyEnds(p)
  BY <1>8 DEF CopyEnds
<1>9. CASE Replace(p)
  <2>1. staging' \in [Dest -> Inode \cup {Nil}] /\ installed' \in [Dest -> Inode \cup {Nil}]
    BY <1>9, <1>j DEF Replace
  <2> QED BY <1>9, <2>1 DEF Replace
<1>10. CASE Cleanup(p)
  BY <1>10 DEF Cleanup
<1>11. CASE Error(p)
  BY <1>11 DEF Error
<1>12. CASE Crash(p)
  BY <1>12 DEF Crash
<1>13. CASE SourceChanges(p)
  BY <1>13 DEF SourceChanges
<1>14. CASE CleanupFails(p)
  BY <1>14 DEF CleanupFails
<1> QED
  BY <1>1, <1>2, <1>3, <1>4, <1>5, <1>6, <1>7, <1>8, <1>9, <1>10, <1>11, <1>12, <1>13, <1>14
  DEF Proceed

\* Every state of an installation has the declared types, whatever fails and
\* however many installers share a destination.
THEOREM TypeCorrect == Spec => []TypeOK
BY InitTypeOK, StepTypeOK, PTL DEF Spec

-----------------------------------------------------------------------------
\* Nothing is staged or published when installation begins.
LEMMA InitIInv == Init => IInv
<1> SUFFICES ASSUME Init PROVE IInv
  OBVIOUS
<1>1. TypeOK
  BY InitTypeOK
<1>2. Turns /\ Staged
  BY DEF Init, Turns, Staged, StagedBy, Live
<1>3. Fresh /\ Separate
  BY ConstantsAssumption DEF Init, Fresh, Separate, Inode
<1>4. Published
  BY ConstantsAssumption DEF Init, Published, Visible, Inode
<1> QED BY <1>1, <1>2, <1>3, <1>4 DEF IInv

\* Installers that begin only when no live one has their destination take turns.
LEMMA StepTurns == Exclusive /\ TypeOK /\ Turns /\ [Next]_vars => Turns'
<1> SUFFICES ASSUME Exclusive, TypeOK, Turns, [Next]_vars PROVE Turns'
  OBVIOUS
<1> USE DEF TypeOK, Goto, privateVars, diskVars
<1>0. CASE UNCHANGED vars
  BY <1>0 DEF vars, Turns, Live, Target
<1> SUFFICES ASSUME NEW p \in Installer,
                    \/ Begin(p) \/ Proceed(p)
                    \/ Error(p) \/ Crash(p) \/ CleanupFails(p) \/ SourceChanges(p)
             PROVE  Turns'
  BY <1>0 DEF Next
<1>1. UNCHANGED job
  BY DEF Begin, Proceed, Fetch, CheckSource, StageRaw, Verify, OpenStaging,
         CopyChunk, CopyEnds, Replace, Cleanup, Error, Crash, CleanupFails, SourceChanges
<1>2. \A q \in Installer \ {p} : pc'[q] = pc[q]
  BY DEF Begin, Proceed, Fetch, CheckSource, StageRaw, Verify, OpenStaging,
         CopyChunk, CopyEnds, Replace, Cleanup, Error, Crash, CleanupFails, SourceChanges
<1>3. CASE Begin(p)
  BY <1>1, <1>2, <1>3 DEF Begin, Turns, Live, Target
<1>4. CASE ~Begin(p)
  <2>1. Live(p)
    BY <1>4 DEF Live, Proceed, Fetch, CheckSource, StageRaw, Verify, OpenStaging,
         CopyChunk, CopyEnds, Replace, Cleanup, Error, Crash, CleanupFails, SourceChanges
  <2> QED BY <1>1, <1>2, <2>1 DEF Turns, Live, Target
<1> QED BY <1>3, <1>4

\* The steps that touch no shared name and no shared inode.
Quiet(p) ==
  \/ Begin(p) \/ Fetch(p) \/ CheckSource(p) \/ StageRaw(p) \/ Verify(p)
  \/ CopyEnds(p) \/ Error(p) \/ Crash(p) \/ CleanupFails(p) \/ SourceChanges(p)

\* A step that touches neither the disk nor a staging name disturbs nothing.
LEMMA QuietStep ==
  ASSUME IInv, NEW p \in Installer, Quiet(p)
  PROVE  Fresh' /\ Separate' /\ Staged' /\ Published'
<1> USE DEF IInv, TypeOK, Goto, privateVars, diskVars, Quiet
<1>1. UNCHANGED <<job, fd, pos, bytes, staging, installed>>
  BY DEF Begin, Fetch, CheckSource, StageRaw, Verify, CopyEnds, Error, Crash, CleanupFails,
         SourceChanges
<1>2. \A q \in Installer \ {p} : pc'[q] = pc[q] /\ raw'[q] = raw[q]
  BY DEF Begin, Fetch, CheckSource, StageRaw, Verify, CopyEnds, Error, Crash, CleanupFails,
         SourceChanges
<1>3. /\ pc'[p] \in {"idle", "open"} \cup Private => pc[p] \in {"idle", "open"} \cup Private
      /\ pc'[p] # "copy" \/ pc[p] = "copy"
      /\ pc'[p] = "replace" =>
           \/ pc[p] = "replace"
           \/ pc[p] = "copy" /\ pos[p] = Len(raw[p])
      /\ pc'[p] = "succeed" => pc[p] = "succeed"
  BY DEF Begin, Fetch, CheckSource, StageRaw, Verify, CopyEnds, Error, Crash, CleanupFails,
         SourceChanges
<1>4. /\ pc'[p] = "open" => raw'[p] = job[p].want
      /\ pc'[p] \in {"copy", "replace"} => raw'[p] = raw[p]
  BY DEF Begin, Fetch, CheckSource, StageRaw, Verify, CopyEnds, Error, Crash, CleanupFails,
         SourceChanges, Staged, StagedBy
<1>5. Fresh'
  BY <1>1, <1>2, <1>3 DEF Fresh
<1>6. Separate'
  BY <1>1 DEF Separate
<1>7. Staged'
  <2> SUFFICES ASSUME NEW q \in Installer PROVE StagedBy(q)'
    BY DEF Staged
  <2>1. StagedBy(q)
    BY DEF Staged
  <2>2. CASE q # p
    BY <1>1, <1>2, <2>1, <2>2 DEF StagedBy, Copied, Target
  <2>3. CASE q = p /\ pc'[p] \in {"copy", "replace"}
    <3>1. pc[p] \in {"copy", "replace"} /\ raw'[p] = raw[p]
      BY <1>3, <1>4, <2>3
    <3>2. Copied(p)' = Copied(p)
      BY <1>1, <3>1 DEF Copied
    <3> QED BY <1>1, <1>3, <2>1, <2>3, <3>1, <3>2 DEF StagedBy, Target
  <2>4. CASE q = p /\ pc'[p] \notin {"copy", "replace"}
    BY <1>1, <1>4, <2>4 DEF StagedBy
  <2> QED BY <2>2, <2>3, <2>4
<1>8. Published'
  BY <1>1, <1>2, <1>3 DEF Published, Visible, Described, Target
<1> QED BY <1>5, <1>6, <1>7, <1>8

\* Opening a staging name truncates nothing that is published.
LEMMA OpenStep ==
  ASSUME Exclusive, IInv, NEW p \in Installer, OpenStaging(p)
  PROVE  Fresh' /\ Separate' /\ Staged' /\ Published'
<1> USE DEF IInv, TypeOK, Goto, privateVars
<1> DEFINE d == Target(p)
           i == IF staging[d] = Nil THEN p ELSE staging[d]
<1>1. /\ pc[p] = "open" /\ pc' = [pc EXCEPT ![p] = "copy"]
      /\ fd' = [fd EXCEPT ![p] = i]
      /\ pos' = [pos EXCEPT ![p] = 0]
      /\ bytes' = [bytes EXCEPT ![i] = <<>>]
      /\ staging' = [staging EXCEPT ![d] = i]
      /\ UNCHANGED <<job, raw, installed>>
  BY DEF OpenStaging
<1>2. d \in Dest /\ i \in Installer /\ i \in Inode /\ i # Nil
  <2>1. d \in Dest
    BY ConstantsAssumption DEF Target, Job
  <2> QED BY <2>1, ConstantsAssumption DEF Separate, Inode
<1>3. \A e \in Dest : installed[e] # i /\ (e # d => staging[e] # i)
  BY <1>1, <1>2 DEF Separate, Fresh
<1>4. \A q \in Installer : i = q => q = p \/ pc[q] \notin {"idle", "open"} \cup Private
  BY <1>1, <1>2, ConstantsAssumption DEF Fresh
<1> HIDE DEF i, d
<1>5. Fresh'
  BY <1>1, <1>2, <1>4 DEF Fresh
<1>6. Separate'
  BY <1>1, <1>2, <1>3 DEF Separate
<1>7. Staged'
  <2> SUFFICES ASSUME NEW q \in Installer PROVE StagedBy(q)'
    BY DEF Staged
  <2>1. StagedBy(q) /\ StagedBy(p)
    BY DEF Staged
  <2>2. CASE q = p
    <3>1. Copied(p)' = <<>>
      BY <1>1 DEF Copied
    <3>2. Len(raw[p]) \in Nat
      BY DEF File
    <3> QED BY <1>1, <1>2, <2>1, <2>2, <3>1, <3>2 DEF StagedBy, Target, d
  <2>3. CASE q # p /\ pc[q] \in {"copy", "replace"}
    <3>1. Target(q) # d /\ Target(q) \in Dest
      BY <1>1, <2>3, ConstantsAssumption DEF Turns, Live, Target, d, Job
    <3>2. fd[q] # i
      BY <1>3, <2>1, <2>3, <3>1 DEF StagedBy
    <3> QED BY <1>1, <1>2, <2>1, <2>3, <3>1, <3>2 DEF StagedBy, Target, Copied
  <2>4. CASE q # p /\ pc[q] \notin {"copy", "replace"}
    BY <1>1, <2>1, <2>4 DEF StagedBy
  <2> QED BY <2>2, <2>3, <2>4
<1>8. Published'
  <2>1. \A e \in Dest : Visible(e)' = Visible(e)
    BY <1>1, <1>2, <1>3 DEF Visible
  <2> QED BY <1>1, <2>1, ConstantsAssumption DEF Published, Described, Target, Job
<1> QED BY <1>5, <1>6, <1>7, <1>8

\* Copying a byte extends the copied prefix and changes nothing published.
LEMMA CopyStep ==
  ASSUME Exclusive, IInv, NEW p \in Installer, CopyChunk(p)
  PROVE  Fresh' /\ Separate' /\ Staged' /\ Published'
<1> USE DEF IInv, TypeOK, Goto, privateVars
<1> DEFINE n == pos[p] + 1
           i == fd[p]
<1>1. /\ pc[p] = "copy" /\ n <= Len(raw[p])
      /\ bytes' = [bytes EXCEPT ![i] = WriteAt(bytes[i], n, raw[p][n])]
      /\ pos' = [pos EXCEPT ![p] = n]
      /\ UNCHANGED <<pc, job, raw, fd, staging, installed>>
  BY DEF CopyChunk
<1>2. /\ i \in Inode /\ i # Nil /\ staging[Target(p)] = i /\ Target(p) \in Dest
      /\ pos[p] \in Nat /\ bytes[i] = Copied(p)
  BY <1>1, ConstantsAssumption DEF Staged, StagedBy, Target, Job
<1>3. bytes'[i] = Copied(p)'
  <2>1. raw[p] \in File /\ pos[p] + 1 \in 1..Len(raw[p])
    BY <1>1, <1>2 DEF File
  <2>2. WriteAt(Copied(p), n, raw[p][n]) = [k \in 1..n |-> raw[p][k]]
    BY <1>2, <2>1, WriteAppend DEF Copied
  <2>3. bytes'[i] = WriteAt(bytes[i], n, raw[p][n])
    BY <1>1, <1>2
  <2>4. Copied(p)' = [k \in 1..n |-> raw[p][k]]
    BY <1>1 DEF Copied
  <2> QED BY <1>2, <2>2, <2>3, <2>4
<1>4. \A e \in Dest : installed[e] # i /\ (e # Target(p) => staging[e] # i)
  BY <1>2 DEF Separate
<1>5. Fresh' /\ Separate'
  BY <1>1 DEF Fresh, Separate
<1>6. Staged'
  <2> SUFFICES ASSUME NEW q \in Installer PROVE StagedBy(q)'
    BY DEF Staged
  <2>1. StagedBy(q) /\ StagedBy(p)
    BY DEF Staged
  <2>2. CASE q = p
    <3>1. n \in 0..Len(raw[p])
      BY <1>1, <1>2 DEF File
    <3> QED BY <1>1, <1>2, <1>3, <2>1, <2>2, <3>1 DEF StagedBy, Target
  <2>3. CASE q # p /\ pc[q] \in {"copy", "replace"}
    <3>1. Target(q) # Target(p) /\ Target(q) \in Dest
      BY <1>1, <2>3, ConstantsAssumption DEF Turns, Live, Target, Job
    <3>2. fd[q] # i
      BY <1>4, <2>1, <2>3, <3>1 DEF StagedBy
    <3>3. pos'[q] = pos[q] /\ bytes'[fd[q]] = bytes[fd[q]]
      BY <1>1, <2>3, <3>2
    <3> QED BY <1>1, <2>1, <2>3, <3>3 DEF StagedBy, Target, Copied
  <2>4. CASE q # p /\ pc[q] \notin {"copy", "replace"}
    BY <1>1, <2>1, <2>4 DEF StagedBy
  <2> QED BY <2>2, <2>3, <2>4
<1>7. Published'
  <2>1. \A e \in Dest : Visible(e)' = Visible(e)
    BY <1>1, <1>2, <1>4 DEF Visible
  <2> QED BY <1>1, <2>1, ConstantsAssumption DEF Published, Described, Target, Job
<1> QED BY <1>5, <1>6, <1>7

\* The rename publishes the installer's own, complete and verified, database.
LEMMA ReplaceStep ==
  ASSUME Exclusive, IInv, NEW p \in Installer, Replace(p)
  PROVE  /\ Fresh' /\ Separate' /\ Staged' /\ Published'
         /\ Visible(Target(p))' = job[p].want
<1> USE DEF IInv, TypeOK, Goto, privateVars
<1> DEFINE d == Target(p)
           i == staging[d]
<1>1. /\ d \in Dest /\ i # Nil /\ i \in Inode /\ i \in Installer
      /\ bytes[i] = job[p].want /\ pc[p] = "replace"
  <2>1. pc[p] = "replace" /\ StagedBy(p)
    BY DEF Replace, Staged
  <2>2. i # Nil /\ bytes[i] = [k \in 1..Len(raw[p]) |-> raw[p][k]] /\ raw[p] = job[p].want
    BY <2>1 DEF StagedBy, Copied
  <2>3. d \in Dest
    BY ConstantsAssumption DEF Target, Job
  <2> QED BY <2>1, <2>2, <2>3, WholePrefix DEF Separate
<1>2. /\ pc' = [pc EXCEPT ![p] = "succeed"]
      /\ installed' = [installed EXCEPT ![d] = i]
      /\ staging' = [staging EXCEPT ![d] = Nil]
      /\ UNCHANGED <<job, raw, fd, pos, bytes>>
  BY <1>1 DEF Replace
<1>3. \A e \in Dest : e = d => Visible(e)' = job[p].want
  BY <1>1, <1>2 DEF Visible
<1>4. Fresh'
  <2> SUFFICES ASSUME NEW q \in Installer, pc'[q] \in {"idle", "open"} \cup Private,
                      NEW e \in Dest
               PROVE  staging'[e] # q /\ installed'[e] # q
    BY DEF Fresh
  <2>1. pc[q] \in {"idle", "open"} \cup Private
    BY <1>2
  <2> QED BY <1>1, <1>2, <2>1, ConstantsAssumption DEF Fresh, Inode
<1>5. Separate'
  <2> SUFFICES ASSUME NEW c \in Dest, staging'[c] # Nil
               PROVE  /\ staging'[c] \in Installer
                      /\ \A e \in Dest : /\ installed'[e] # staging'[c]
                                         /\ e # c => staging'[e] # staging'[c]
    BY DEF Separate
  <2>1. c # d /\ staging'[c] = staging[c]
    BY <1>1, <1>2
  <2>2. staging[c] \in Installer /\ staging[c] # i
    BY <1>1, <2>1 DEF Separate
  <2>3. \A e \in Dest : installed[e] # staging[c] /\ (e # c => staging[e] # staging[c])
    BY <2>1 DEF Separate
  <2> QED BY <1>1, <1>2, <2>1, <2>2, <2>3
<1>6. Staged'
  <2> SUFFICES ASSUME NEW q \in Installer PROVE StagedBy(q)'
    BY DEF Staged
  <2>1. StagedBy(q)
    BY DEF Staged
  <2>2. CASE pc'[q] \in Publishing
    <3>1. q # p /\ pc[q] = pc'[q]
      BY <1>2, <2>2
    <3>2. Target(q) # d
      BY <1>1, <2>2, <3>1 DEF Turns, Live
    <3> QED BY <1>2, <2>1, <3>1, <3>2 DEF StagedBy, Copied, Target
  <2>3. CASE pc'[q] \notin Publishing
    BY <2>3 DEF StagedBy
  <2> QED BY <2>2, <2>3
<1>7. Published'
  <2>1. \A e \in Dest : e # d => Visible(e)' = Visible(e)
    BY <1>1, <1>2 DEF Visible
  <2>2. \A e \in Dest : Described(e)' = Described(e)
    BY <1>2 DEF Described, Target
  <2>3. job[p].want \in Described(d)
    BY DEF Described
  <2>4. \A e \in Dest : Visible(e)' \in {Nil, PriorFile} \cup Described(e)'
    <3> TAKE e \in Dest
    <3>1. CASE e = d
      BY <1>3, <2>2, <2>3, <3>1
    <3>2. CASE e # d
      BY <2>1, <2>2, <3>2 DEF Published
    <3> QED BY <3>1, <3>2
  <2>5. ASSUME NEW q \in Installer, pc'[q] = "succeed"
        PROVE  Visible(Target(q))' = job'[q].want
    <3>1. CASE q = p
      <4>1. Target(q)' = d /\ job' = job
        BY <1>2, <3>1 DEF Target
      <4> QED BY <1>1, <1>2, <3>1, <4>1 DEF Visible
    <3>2. CASE q # p
      <4>1. pc[q] = "succeed" /\ Target(q) \in Dest
        BY <1>2, <2>5, <3>2, ConstantsAssumption DEF Target, Job
      <4>2. Target(q) # d
        BY <1>1, <3>2, <4>1 DEF Turns, Live
      <4>3. Visible(Target(q))' = Visible(Target(q)) /\ job'[q] = job[q]
        <5>1. Target(q)' = Target(q)
          BY <1>2 DEF Target
        <5> QED BY <1>1, <1>2, <4>1, <4>2, <5>1 DEF Visible
      <4> QED BY <4>1, <4>3 DEF Published
    <3> QED BY <3>1, <3>2
  <2> QED BY <2>4, <2>5 DEF Published, Visible, Target
<1>8. Visible(Target(p))' = job[p].want
  <2>1. Target(p)' = d
    BY <1>2 DEF Target
  <2> QED BY <1>1, <1>2, <2>1 DEF Visible
<1> QED BY <1>4, <1>5, <1>6, <1>7, <1>8

\* Removing the staging name takes it from nobody who is still copying.
LEMMA CleanupStep ==
  ASSUME Exclusive, IInv, NEW p \in Installer, Cleanup(p)
  PROVE  Fresh' /\ Separate' /\ Staged' /\ Published'
<1> USE DEF IInv, TypeOK, Goto, privateVars
<1> DEFINE d == Target(p)
<1>1. /\ pc[p] \in Unwinding /\ pc'[p] \in Ended
      /\ \A q \in Installer \ {p} : pc'[q] = pc[q]
      /\ staging' = [staging EXCEPT ![d] = Nil]
      /\ UNCHANGED <<job, raw, fd, pos, bytes, installed>>
  BY DEF Cleanup
<1>2. d \in Dest
  BY ConstantsAssumption DEF Target, Job
<1>3. Fresh' /\ Separate'
  BY <1>1, <1>2, ConstantsAssumption DEF Fresh, Separate, Inode
<1>4. Staged'
  <2> SUFFICES ASSUME NEW q \in Installer, pc'[q] \in Publishing PROVE StagedBy(q)'
    BY DEF Staged, StagedBy
  <2>1. StagedBy(q) /\ q # p /\ pc'[q] = pc[q]
    BY <1>1 DEF Staged
  <2>2. Target(q) # d
    BY <1>1, <2>1 DEF Turns, Live
  <2> QED BY <1>1, <2>1, <2>2 DEF StagedBy, Copied, Target
<1>5. Published'
  BY <1>1 DEF Published, Visible, Described, Target
<1> QED BY <1>3, <1>4, <1>5

\* While installers take turns, every step keeps the invariant.
LEMMA StepIInv == Exclusive /\ IInv /\ [Next]_vars => IInv'
<1> SUFFICES ASSUME Exclusive, IInv, [Next]_vars PROVE IInv'
  OBVIOUS
<1>1. TypeOK' /\ Turns'
  BY StepTypeOK, StepTurns DEF IInv
<1>2. CASE UNCHANGED vars
  BY <1>1, <1>2 DEF vars, privateVars, diskVars, IInv, Fresh, Separate, Staged,
       StagedBy, Copied, Published, Visible, Described, Target
<1>3. ASSUME NEW p \in Installer,
             \/ Begin(p) \/ Proceed(p)
             \/ Error(p) \/ Crash(p) \/ CleanupFails(p) \/ SourceChanges(p)
      PROVE  Fresh' /\ Separate' /\ Staged' /\ Published'
  BY <1>3, QuietStep, OpenStep, CopyStep, ReplaceStep, CleanupStep DEF Proceed, Quiet
<1> QED BY <1>1, <1>2, <1>3 DEF Next, IInv

\* The invariant holds in every state.
LEMMA AlwaysIInv ==
  ASSUME Exclusive
  PROVE  Spec => []IInv
<1>1. Init => IInv
  BY InitIInv
<1>2. IInv /\ [Next]_vars => IInv'
  BY StepIInv
<1> QED BY <1>1, <1>2, PTL DEF Spec

\* What a step of Next does to the destinations: nothing, or one of them gets
\* the database of the installer that renames its staging file.
LEMMA StepVisible ==
  ASSUME Exclusive, IInv, [Next]_vars
  PROVE  /\ UNCHANGED job
         /\ \/ \A e \in Dest : Visible(e)' = Visible(e)
            \/ \E p \in Installer :
                 /\ Target(p) \in Dest
                 /\ Visible(Target(p))' = job[p].want
                 /\ \A e \in Dest \ {Target(p)} : Visible(e)' = Visible(e)
<1> USE DEF IInv, TypeOK, Goto, privateVars, diskVars
<1>1. CASE UNCHANGED vars
  BY <1>1 DEF vars, Visible
<1>2. ASSUME NEW p \in Installer, Quiet(p) \/ Cleanup(p) PROVE UNCHANGED <<job, bytes, installed>>
  BY <1>2 DEF Quiet, Begin, Fetch, CheckSource, StageRaw, Verify, CopyEnds, Error,
     Crash, CleanupFails, SourceChanges, Cleanup
<1>3. ASSUME NEW p \in Installer, OpenStaging(p)
      PROVE  UNCHANGED job /\ \A e \in Dest : Visible(e)' = Visible(e)
  <2> DEFINE d == Target(p)
             i == IF staging[d] = Nil THEN p ELSE staging[d]
  <2>1. /\ d \in Dest /\ pc[p] = "open"
        /\ bytes' = [bytes EXCEPT ![i] = <<>>]
        /\ UNCHANGED <<job, installed>>
    BY <1>3, ConstantsAssumption DEF OpenStaging, Target, Job
  <2>2. \A e \in Dest : installed[e] # i
    BY <2>1 DEF Separate, Fresh
  <2> HIDE DEF i
  <2> QED BY <2>1, <2>2 DEF Visible
<1>4. ASSUME NEW p \in Installer, CopyChunk(p)
      PROVE  UNCHANGED job /\ \A e \in Dest : Visible(e)' = Visible(e)
  <2> DEFINE b == WriteAt(bytes[fd[p]], pos[p] + 1, raw[p][pos[p] + 1])
  <2>1. /\ pc[p] = "copy" /\ Target(p) \in Dest
        /\ bytes' = [bytes EXCEPT ![fd[p]] = b]
        /\ UNCHANGED <<job, installed>>
    BY <1>4, ConstantsAssumption DEF CopyChunk, Target, Job
  <2>2. fd[p] # Nil /\ staging[Target(p)] = fd[p]
    BY <2>1 DEF Staged, StagedBy
  <2>3. \A e \in Dest : installed[e] # fd[p]
    BY <2>1, <2>2 DEF Separate
  <2> HIDE DEF b
  <2> QED BY <2>1, <2>3 DEF Visible
<1>5. ASSUME NEW p \in Installer, Replace(p)
      PROVE  /\ UNCHANGED job
             /\ Target(p) \in Dest
             /\ Visible(Target(p))' = job[p].want
             /\ \A e \in Dest \ {Target(p)} : Visible(e)' = Visible(e)
  <2>1. /\ UNCHANGED <<job, bytes>> /\ Target(p) \in Dest
        /\ \A e \in Dest \ {Target(p)} : installed'[e] = installed[e]
    BY <1>5, ConstantsAssumption DEF Replace, Target, Job
  <2>2. Visible(Target(p))' = job[p].want
    BY <1>5, ReplaceStep
  <2> QED BY <2>1, <2>2 DEF Visible
<1> QED BY <1>1, <1>2, <1>3, <1>4, <1>5 DEF Next, Proceed, Quiet, Visible

\* Installation is atomic (the docstring of install_snapshot): while installers
\* of one destination take turns, every behaviour of the code, with raised
\* errors, killed processes and changing sources, is one in which destinations
\* change in one step to a database a manifest describes.
THEOREM InstallAtomic ==
  ASSUME Exclusive
  PROVE  Spec => InstallIsAtomic
<1>1. Init => Atomic!Init
  <2> SUFFICES ASSUME Init, NEW d \in Dest PROVE Visible(d) \in {Nil, PriorFile}
    BY DEF Atomic!Init
  <2>1. installed[d] \in {d, Nil} /\ bytes[d] = PriorFile
    BY DEF Init, Inode
  <2> QED BY <2>1 DEF Visible
<1>2. IInv /\ [Next]_vars => [Atomic!Next]_Atomic!vars
  <2> SUFFICES ASSUME IInv, [Next]_vars PROVE [Atomic!Next]_Atomic!vars
    OBVIOUS
  <2>1. \A e \in Dest : Described(e)' = Described(e)
    BY StepVisible DEF Described, Target
  <2>2. CASE \A e \in Dest : Visible(e)' = Visible(e)
    BY <2>1, <2>2 DEF Atomic!vars
  <2>3. ASSUME NEW p \in Installer,
               Target(p) \in Dest,
               Visible(Target(p))' = job[p].want,
               \A e \in Dest \ {Target(p)} : Visible(e)' = Visible(e)
        PROVE  Atomic!Next
    <3> DEFINE d == Target(p)
    <3>1. job[p].want \in Described(d)
      BY DEF Described
    <3>2. \A e \in Dest : Visible(e)' = IF e = d THEN job[p].want ELSE Visible(e)
      <4>1. job' = job
        BY StepVisible
      <4>2. Target(p)' = d
        BY <4>1 DEF Target
      <4> QED BY <2>3, <4>2 DEF Visible
    <3>3. Atomic!Install(d)
      BY <2>1, <2>3, <3>1, <3>2 DEF Atomic!Install
    <3> QED BY <2>3, <3>3 DEF Atomic!Next
  <2> QED BY <2>2, <2>3, StepVisible
<1> QED BY <1>1, <1>2, AlwaysIInv, PTL DEF Spec, InstallIsAtomic, Atomic!Spec

\* A published file never changes, so opening it with immutable=1 is sound:
\* no step of an installer writes to an inode that is under a destination.
THEOREM PublishedImmutable ==
  ASSUME Exclusive
  PROVE  Spec => InstalledImmutable
<1>1. IInv /\ [Next]_vars =>
        [\A d \in Dest : installed[d] # Nil =>
           bytes'[installed[d]] = bytes[installed[d]]]_vars
  <2> SUFFICES ASSUME IInv, [Next]_vars, NEW d \in Dest, installed[d] # Nil
               PROVE  bytes'[installed[d]] = bytes[installed[d]]
    OBVIOUS
  <2> USE DEF IInv, TypeOK, privateVars, diskVars
  <2>1. CASE UNCHANGED vars
    BY <2>1 DEF vars
  <2>2. ASSUME NEW p \in Installer, ~OpenStaging(p), ~CopyChunk(p),
               \/ Begin(p) \/ Proceed(p)
               \/ Error(p) \/ Crash(p) \/ CleanupFails(p) \/ SourceChanges(p)
        PROVE  UNCHANGED bytes
    BY <2>2 DEF Proceed, Begin, Fetch, CheckSource, StageRaw, Verify, CopyEnds,
       Error, Crash, CleanupFails, SourceChanges, Cleanup, Replace
  <2>3. ASSUME NEW p \in Installer, OpenStaging(p)
        PROVE  bytes'[installed[d]] = bytes[installed[d]]
    <3> DEFINE i == IF staging[Target(p)] = Nil THEN p ELSE staging[Target(p)]
    <3>1. /\ pc[p] = "open" /\ Target(p) \in Dest
          /\ bytes' = [bytes EXCEPT ![i] = <<>>]
      BY <2>3, ConstantsAssumption DEF OpenStaging, Target, Job
    <3>2. installed[d] # i
      BY <3>1 DEF Separate, Fresh
    <3> HIDE DEF i
    <3> QED BY <3>1, <3>2
  <2>4. ASSUME NEW p \in Installer, CopyChunk(p)
        PROVE  bytes'[installed[d]] = bytes[installed[d]]
    <3> DEFINE b == WriteAt(bytes[fd[p]], pos[p] + 1, raw[p][pos[p] + 1])
    <3>1. /\ pc[p] = "copy" /\ Target(p) \in Dest
          /\ bytes' = [bytes EXCEPT ![fd[p]] = b]
      BY <2>4, ConstantsAssumption DEF CopyChunk, Target, Job
    <3>2. installed[d] # fd[p]
      BY <3>1 DEF Separate, Staged, StagedBy
    <3> HIDE DEF b
    <3> QED BY <3>1, <3>2
  <2> QED BY <2>1, <2>2, <2>3, <2>4 DEF Next
<1> QED BY <1>1, AlwaysIInv, PTL DEF Spec, InstalledImmutable

\* A call that returns has its own database at its destination when it returns:
\* what install_snapshot's return value says.
THEOREM ReturnMeansInstalled ==
  ASSUME Exclusive
  PROVE  Spec => ReportedInstalled
<1>1. IInv /\ [Next]_vars =>
        [\A p \in Installer : pc[p] # "done" /\ pc'[p] = "done" =>
           Visible(Target(p)) = job[p].want]_vars
  <2> SUFFICES ASSUME IInv, [Next]_vars,
                      NEW p \in Installer, pc[p] # "done", pc'[p] = "done"
               PROVE  pc[p] = "succeed"
    BY DEF IInv, Published
  <2> USE DEF IInv, TypeOK, Goto, privateVars, diskVars
  <2>1. CASE UNCHANGED vars
    BY <2>1 DEF vars
  <2>2. ASSUME NEW q \in Installer,
               \/ Begin(q) \/ Proceed(q)
               \/ Error(q) \/ Crash(q) \/ CleanupFails(q) \/ SourceChanges(q)
        PROVE  pc[p] = "succeed"
    BY <2>2 DEF Proceed, Begin, Fetch, CheckSource, StageRaw, Verify, OpenStaging,
       CopyChunk, CopyEnds, Error, Crash, CleanupFails, SourceChanges, Cleanup, Replace
  <2> QED BY <2>1, <2>2 DEF Next
<1> QED BY <1>1, AlwaysIInv, PTL DEF Spec, ReportedInstalled

-----------------------------------------------------------------------------
(***************************************************************************)
(* What holds even when installers of one destination race, without        *)
(* Exclusive: every inode belongs to one destination, is only ever opened  *)
(* and published for it, and holds nothing but bytes that were verified    *)
(* for it.                                                                 *)
(***************************************************************************)
Owned(i, d) == i \in Installer /\ Target(i) = d

\* Every byte of the file is a gap, or the one that a database described for
\* the destination has at its position.
Patchwork(f, d) ==
  \A k \in 1..Len(f) :
    f[k] = Hole \/ \E w \in Described(d) : k <= Len(w) /\ w[k] = f[k]

RaceInv ==
  /\ TypeOK
  /\ \A p \in Installer : pc[p] \in Publishing => raw[p] = job[p].want
  /\ \A p \in Installer : pc[p] = "copy" => Owned(fd[p], Target(p))
  /\ \A d \in Dest : staging[d] # Nil => Owned(staging[d], d)
  /\ \A d \in Dest : installed[d] \in {Nil, d} \/ Owned(installed[d], d)
  /\ \A d \in Dest : bytes[d] = PriorFile
  /\ \A p \in Installer : Patchwork(bytes[p], Target(p))

\* Nothing has been opened when installation begins.
LEMMA InitRaceInv == Init => RaceInv
<1> SUFFICES ASSUME Init PROVE RaceInv
  OBVIOUS
<1>1. TypeOK
  BY InitTypeOK
<1>2. \A p \in Installer : bytes[p] = <<>>
  BY ConstantsAssumption DEF Init, Inode
<1>3. \A p \in Installer : Patchwork(bytes[p], Target(p))
  BY <1>2 DEF Patchwork
<1>4. \A d \in Dest : bytes[d] = PriorFile /\ installed[d] \in {Nil, d} /\ staging[d] = Nil
  BY DEF Init, Inode
<1> QED BY <1>1, <1>3, <1>4 DEF Init, RaceInv

\* A write at a position of a patchwork of the byte that a described database has
\* there leaves a patchwork: the gap it may make reads back as zeros.
LEMMA WritePatchwork ==
  ASSUME NEW f \in File, NEW d, NEW w \in File, w \in Described(d),
         NEW n \in 1..Len(w), Patchwork(f, d)
  PROVE  Patchwork(WriteAt(f, n, w[n]), d)
<1> DEFINE m == IF n > Len(f) THEN n ELSE Len(f)
           g == WriteAt(f, n, w[n])
<1>1. m \in Nat /\ Len(f) \in Nat /\ n \in Nat /\ n <= Len(w)
  BY DEF File
<1>2. g = [k \in 1..m |-> IF k = n THEN w[n] ELSE IF k <= Len(f) THEN f[k] ELSE Hole]
  BY DEF WriteAt
<1>3. Len(g) = m
  BY <1>1, <1>2
<1> SUFFICES ASSUME NEW k \in 1..m
             PROVE  g[k] = Hole \/ \E v \in Described(d) : k <= Len(v) /\ v[k] = g[k]
  BY <1>3 DEF Patchwork
<1>4. CASE k = n
  BY <1>1, <1>2, <1>4
<1>5. CASE k # n /\ k <= Len(f)
  <2>1. g[k] = f[k] /\ k \in 1..Len(f)
    BY <1>1, <1>2, <1>5
  <2> QED BY <2>1 DEF Patchwork
<1>6. CASE k # n /\ ~(k <= Len(f))
  BY <1>2, <1>6
<1> QED BY <1>4, <1>5, <1>6

\* Whatever the installers of one destination do to each other, a step keeps it.
LEMMA StepRaceInv == RaceInv /\ [Next]_vars => RaceInv'
<1> SUFFICES ASSUME RaceInv, [Next]_vars PROVE RaceInv'
  OBVIOUS
<1> USE DEF RaceInv, TypeOK, Goto, privateVars, diskVars
<1>t. TypeOK'
  BY StepTypeOK
<1>0. CASE UNCHANGED vars
  BY <1>0, <1>t DEF vars, Owned, Patchwork, Described, Target
<1> SUFFICES ASSUME NEW p \in Installer,
                    \/ Begin(p) \/ Proceed(p)
                    \/ Error(p) \/ Crash(p) \/ CleanupFails(p) \/ SourceChanges(p)
             PROVE  RaceInv'
  BY <1>0 DEF Next
<1>j. UNCHANGED job /\ Target(p) \in Dest /\ job[p].want \in File
      /\ \A q \in Installer : Target(q) \in Dest
  BY ConstantsAssumption
  DEF Job, Target, Begin, Proceed, Fetch, CheckSource, StageRaw, Verify, OpenStaging,
      CopyChunk, CopyEnds, Replace, Cleanup, Error, Crash, CleanupFails, SourceChanges
<1>d. \A q \in Installer : job[q].want \in Described(Target(q))
  BY <1>j DEF Described
<1> DEFINE Kept ==
      /\ \A q \in Installer : pc'[q] \in Publishing => raw'[q] = job[q].want
      /\ \A q \in Installer : pc'[q] = "copy" => Owned(fd'[q], Target(q))
      /\ \A d \in Dest : staging'[d] # Nil => Owned(staging'[d], d)
      /\ \A d \in Dest : installed'[d] \in {Nil, d} \/ Owned(installed'[d], d)
      /\ \A d \in Dest : bytes'[d] = PriorFile
      /\ \A q \in Installer : Patchwork(bytes'[q], Target(q))
<1> SUFFICES Kept
  <2>1. \A q : Target(q)' = Target(q)
    BY <1>j DEF Target
  <2>2. \A i, d : Owned(i, d)' <=> Owned(i, d)
    BY <2>1 DEF Owned
  <2>3. \A d : Described(d)' = Described(d)
    BY <1>j, <2>1 DEF Described
  <2>4. \A f, d : Patchwork(f, d)' <=> Patchwork(f, d)
    BY <2>3 DEF Patchwork
  <2>5. \A q \in Installer : Patchwork(bytes[q], Target(q))' <=> Patchwork(bytes'[q], Target(q))
    BY <1>j DEF Patchwork, Described, Target
  <2> QED BY <1>t, <1>j, <2>1, <2>2, <2>5 DEF Owned
<1>1. CASE Quiet(p)
  <2>1. /\ UNCHANGED <<fd, pos, bytes, staging, installed>>
        /\ \A q \in Installer \ {p} : pc'[q] = pc[q] /\ raw'[q] = raw[q]
        /\ pc'[p] \in {"copy", "replace"} => pc[p] \in Publishing /\ raw'[p] = raw[p]
        /\ pc'[p] = "copy" => pc[p] = "copy"
        /\ pc'[p] = "open" => raw'[p] = job[p].want
    BY <1>1 DEF Quiet, Begin, Fetch, CheckSource, StageRaw, Verify, CopyEnds, Error,
       Crash, CleanupFails, SourceChanges
  <2> QED BY <2>1
<1>2. CASE OpenStaging(p)
  <2> DEFINE d == Target(p)
             i == IF staging[d] = Nil THEN p ELSE staging[d]
  <2>1. /\ pc[p] = "open" /\ pc' = [pc EXCEPT ![p] = "copy"]
        /\ fd' = [fd EXCEPT ![p] = i]
        /\ bytes' = [bytes EXCEPT ![i] = <<>>]
        /\ staging' = [staging EXCEPT ![d] = i]
        /\ UNCHANGED <<raw, installed>>
    BY <1>2 DEF OpenStaging
  <2>2. Owned(i, d) /\ i \in Inode /\ i \notin Dest
    BY <1>j, ConstantsAssumption DEF Owned, Inode
  <2> HIDE DEF i
  <2>3. \A q \in Installer : pc'[q] = "copy" => Owned(fd'[q], Target(q))
    BY <2>1, <2>2
  <2>4. \A e \in Dest : staging'[e] # Nil => Owned(staging'[e], e)
    BY <2>1, <2>2
  <2>5. \A q \in Installer : Patchwork(bytes'[q], Target(q))
    <3>1. \A e : Patchwork(<<>>, e)
      BY DEF Patchwork
    <3> QED BY <2>1, <2>2, <3>1 DEF Inode
  <2>6. \A e \in Dest : bytes'[e] = PriorFile
    BY <2>1, <2>2 DEF Inode
  <2> QED BY <2>1, <2>3, <2>4, <2>5, <2>6
<1>3. CASE CopyChunk(p)
  <2> DEFINE n == pos[p] + 1
             i == fd[p]
             b == WriteAt(bytes[i], n, raw[p][n])
  <2>1. /\ pc[p] = "copy" /\ n \in 1..Len(raw[p]) /\ raw[p] = job[p].want
        /\ bytes' = [bytes EXCEPT ![i] = b]
        /\ UNCHANGED <<pc, raw, fd, staging, installed>>
    BY <1>3, <1>j DEF CopyChunk, File
  <2>2. Owned(i, Target(p)) /\ i \notin Dest /\ i \in Inode /\ bytes[i] \in File
    BY <2>1, ConstantsAssumption DEF Owned, Inode
  <2>3. Patchwork(b, Target(i))
    BY <1>j, <1>d, <2>1, <2>2, WritePatchwork DEF Owned
  <2> HIDE DEF b, i
  <2>4. \A q \in Installer : Patchwork(bytes'[q], Target(q))
    BY <2>1, <2>2, <2>3 DEF Inode
  <2> QED BY <2>1, <2>2, <2>4
<1>4. CASE Replace(p)
  <2>1. /\ UNCHANGED <<raw, fd, bytes>> /\ pc[p] = "replace"
        /\ pc'[p] \in Unwinding /\ \A q \in Installer \ {p} : pc'[q] = pc[q]
        /\ \A e \in Dest : /\ staging'[e] \in {Nil, staging[e]}
                           /\ \/ installed'[e] = installed[e]
                              \/ installed'[e] = staging[e] /\ staging[e] # Nil
    BY <1>4, <1>j DEF Replace
  <2> QED BY <2>1
<1>5. CASE Cleanup(p)
  <2>1. /\ UNCHANGED <<raw, fd, bytes, installed>> /\ pc'[p] \in Ended
        /\ \A q \in Installer \ {p} : pc'[q] = pc[q]
        /\ \A e \in Dest : staging'[e] \in {Nil, staging[e]}
    BY <1>5, <1>j DEF Cleanup
  <2> QED BY <2>1
<1> QED BY <1>1, <1>2, <1>3, <1>4, <1>5 DEF Proceed, Quiet

\* Even when installers of one destination race, overwrite each other's staging
\* file and fail at any step, no byte of a file that failed verification, and no
\* byte meant for another destination, ever reaches it.
THEOREM OnlyVerifiedPublished == Spec => []OnlyVerifiedBytes
<1>1. RaceInv => OnlyVerifiedBytes
  <2> SUFFICES ASSUME RaceInv, NEW d \in Dest
               PROVE  Visible(d) \in {Nil, PriorFile} \/ Patchwork(Visible(d), d)
    BY DEF OnlyVerifiedBytes, Patchwork
  <2>1. CASE installed[d] \in {Nil, d}
    BY <2>1 DEF RaceInv, Visible
  <2>2. CASE Owned(installed[d], d)
    BY <2>2 DEF RaceInv, Visible, Owned
  <2> QED BY <2>1, <2>2 DEF RaceInv
<1> QED BY <1>1, InitRaceInv, StepRaceInv, PTL DEF Spec

\* A call that returned or raised leaves no staging file, unless another call of
\* its destination is still at work, or a call of it was killed or could not remove
\* the file: what the finally clause is for.
THEOREM LitterOwned == Spec => []LitterHasOwner
<1>1. Init => LitterHasOwner
  BY DEF Init, LitterHasOwner
<1>2. TypeOK /\ LitterHasOwner /\ [Next]_vars => LitterHasOwner'
  <2> SUFFICES ASSUME TypeOK, LitterHasOwner, [Next]_vars PROVE LitterHasOwner'
    OBVIOUS
  <2> USE DEF TypeOK, LitterHasOwner, Goto, privateVars, diskVars
  <2>1. CASE UNCHANGED vars
    BY <2>1 DEF vars, Target
  <2>2. ASSUME NEW p \in Installer, OpenStaging(p) PROVE LitterHasOwner'
    <3>1. /\ UNCHANGED job /\ pc'[p] = "copy" /\ \A q \in Installer \ {p} : pc'[q] = pc[q]
          /\ pc[p] = "open"
          /\ \A d \in Dest : d # Target(p) => staging'[d] = staging[d]
      BY <2>2 DEF OpenStaging
    <3> QED BY <3>1 DEF Target
  <2>3. ASSUME NEW p \in Installer, Cleanup(p) PROVE LitterHasOwner'
    <3>1. /\ UNCHANGED job /\ \A q \in Installer \ {p} : pc'[q] = pc[q]
          /\ \A d \in Dest : staging'[d] = IF d = Target(p) THEN Nil ELSE staging[d]
      BY <2>3 DEF Cleanup
    <3> QED BY <3>1 DEF Target
  <2>4. ASSUME NEW p \in Installer, ~OpenStaging(p), ~Cleanup(p),
               \/ Begin(p) \/ Proceed(p)
               \/ Error(p) \/ Crash(p) \/ CleanupFails(p) \/ SourceChanges(p)
        PROVE  LitterHasOwner'
    <3> DEFINE Owning == {"copy", "replace", "raise", "succeed", "littered", "crashed"}
    <3>1. UNCHANGED job /\ \A d \in Dest : staging'[d] \in {Nil, staging[d]}
      BY <2>4 DEF Proceed, Begin, Fetch, CheckSource, StageRaw, Verify, CopyChunk,
         CopyEnds, Replace, Error, Crash, CleanupFails, SourceChanges
    <3>2. \A q \in Installer : pc[q] \in Owning => pc'[q] \in Owning
      BY <2>4 DEF Proceed, Begin, Fetch, CheckSource, StageRaw, Verify, CopyChunk,
         CopyEnds, Replace, Error, Crash, CleanupFails, SourceChanges
    <3> QED BY <3>1, <3>2 DEF Target
  <2> QED BY <2>1, <2>2, <2>3, <2>4 DEF Next
<1> QED BY <1>1, <1>2, TypeCorrect, PTL DEF Spec

-----------------------------------------------------------------------------
(***************************************************************************)
(* Without faults an installer is refused only for a reason the source has.*)
(***************************************************************************)
\* The URL's last component is not the name the raw database gets: copying the
\* download onto itself is what InstallUrlName shows.
NoNameClash == \A j \in Jobs : j.remote /\ ~j.compressed => ~j.sameName

\* What an installer with a good source has made of it so far.
GoodProgress(p) ==
  GoodSource(p) =>
    /\ pc[p] \notin {"raise", "failed"}
    /\ pc[p] \in {"check", "stage"} => SourceFile(p) = source[p]
    /\ pc[p] = "verify" => raw[p] = job[p].want

GoodInv == \A p \in Installer : GoodProgress(p)

\* While installers take turns and nothing fails, a step keeps it: the staging
\* name is there when it is to be renamed because IInv says so.
LEMMA StepGoodInv ==
  ASSUME Exclusive, ~Faults, NoNameClash
  PROVE  IInv /\ GoodInv /\ [Next]_vars => GoodInv'
<1> SUFFICES ASSUME IInv, GoodInv, [Next]_vars, NEW q \in Installer PROVE GoodProgress(q)'
  BY DEF GoodInv
<1> USE DEF IInv, TypeOK, GoodProgress, Goto, privateVars, diskVars
<1>g. GoodProgress(q)
  BY DEF GoodInv
<1>0. CASE UNCHANGED vars
  BY <1>0, <1>g DEF vars, GoodSource, SourceFile
<1> SUFFICES ASSUME NEW p \in Installer, Begin(p) \/ Proceed(p) PROVE GoodProgress(q)'
  BY <1>0 DEF Next, Error, Crash, CleanupFails, SourceChanges
<1>j. UNCHANGED <<job, source>> /\ job[q] \in Jobs /\ job[q] \in Job
  BY ConstantsAssumption
  DEF Begin, Proceed, Fetch, CheckSource, StageRaw, Verify, OpenStaging, CopyChunk,
      CopyEnds, Replace, Cleanup
<1>1. CASE p # q
  <2>1. pc'[q] = pc[q] /\ fetched'[q] = fetched[q] /\ raw'[q] = raw[q]
    BY <1>1 DEF Begin, Proceed, Fetch, CheckSource, StageRaw, Verify, OpenStaging,
       CopyChunk, CopyEnds, Replace, Cleanup
  <2> QED BY <1>g, <1>j, <2>1 DEF GoodSource, SourceFile
<1>2. CASE p = q
  <2> SUFFICES ASSUME GoodSource(q) PROVE GoodProgress(q)'
    BY <1>j DEF GoodSource
  <2>1. CASE Begin(q)
    BY <2>1, <1>g, <1>j DEF Begin
  <2>2. CASE Fetch(q)
    BY <2>2, <1>g, <1>j, ConstantsAssumption DEF Fetch, GoodSource, SourceFile, File
  <2>3. CASE CheckSource(q)
    BY <2>3, <1>g, <1>j, ConstantsAssumption DEF CheckSource, GoodSource, SourceFile, File
  <2>4. CASE StageRaw(q)
    <3>1. pc[q] = "stage" /\ SourceFile(q) = source[q]
      BY <2>4, <1>g DEF StageRaw
    <3>2. pc'[q] = "verify" /\ raw'[q] = job[q].want
      BY <2>4, <3>1, <1>j DEF StageRaw, GoodSource, NoNameClash
    <3> QED BY <3>2, <1>j
  <2>5. CASE Verify(q)
    BY <2>5, <1>g, <1>j DEF Verify, GoodSource
  <2>6. CASE OpenStaging(q) \/ CopyChunk(q) \/ CopyEnds(q)
    BY <2>6, <1>g, <1>j DEF OpenStaging, CopyChunk, CopyEnds
  <2>7. CASE Replace(q)
    <3>1. staging[Target(q)] # Nil
      BY <2>7 DEF Replace, Staged, StagedBy
    <3> QED BY <2>7, <3>1, <1>j DEF Replace
  <2>8. CASE Cleanup(q)
    BY <2>8, <1>g, <1>j DEF Cleanup
  <2> QED BY <1>2, <2>1, <2>2, <2>3, <2>4, <2>5, <2>6, <2>7, <2>8 DEF Proceed
<1> QED BY <1>1, <1>2

\* With no fault and no name clash, a source that is what the manifest describes
\* and fits the limits is never refused, however many installers of other
\* destinations, and earlier ones of the same, there are.
THEOREM GoodSourceNeverRefused ==
  ASSUME Exclusive, ~Faults, NoNameClash
  PROVE  Spec => []GoodSourceInstalls
<1>1. Init => GoodInv
  BY DEF Init, GoodInv, GoodProgress
<1>2. GoodInv => GoodSourceInstalls
  BY DEF GoodInv, GoodProgress, GoodSourceInstalls
<1>3. IInv /\ GoodInv /\ [Next]_vars => GoodInv'
  BY StepGoodInv
<1> QED BY <1>1, <1>2, <1>3, AlwaysIInv, PTL DEF Spec

-----------------------------------------------------------------------------
(* The readers beside the installers. *)

\* A step of the composition is a step of an installer, and the readers stand
\* still, or one of a reader, and the installers and the disk stand still.
ReaderAct(r) == (Opening(r) \/ Measure(r) \/ Close(r)) /\ UNCHANGED vars

LEMMA StepsSplit ==
  ASSUME [ReaderNext]_allVars
  PROVE  /\ [Next]_vars
         /\ \/ UNCHANGED readerVars
            \/ \E r \in Reader : ReaderAct(r)
BY DEF ReaderNext, allVars, ReaderAct

\* Readers disturb no installer.
LEMMA ReaderIInv ==
  ASSUME Exclusive
  PROVE  ReaderSpec => []IInv
<1>1. ReaderInit => IInv
  BY InitIInv DEF ReaderInit
<1>2. IInv /\ [ReaderNext]_allVars => IInv'
  BY StepsSplit, StepIInv, ReaderAssumption
<1> QED BY <1>1, <1>2, PTL DEF ReaderSpec

\* The state of the readers has the declared types.
LEMMA ReaderTypes ==
  ASSUME Exclusive
  PROVE  ReaderSpec => []ReaderTypeOK
<1>1. ReaderInit => ReaderTypeOK
  BY DEF ReaderInit, ReaderTypeOK, ReaderStep
<1>2. IInv /\ ReaderTypeOK /\ [ReaderNext]_allVars => ReaderTypeOK'
  <2> SUFFICES ASSUME IInv, ReaderTypeOK, [ReaderNext]_allVars PROVE ReaderTypeOK'
    OBVIOUS
  <2> USE DEF ReaderTypeOK, ReaderStep, ReaderGoto
  <2>1. CASE UNCHANGED readerVars
    BY <2>1 DEF readerVars
  <2>2. ASSUME NEW r \in Reader, ReaderAct(r) PROVE ReaderTypeOK'
    <3>1. Path(r) \in Dest
      BY ReaderAssumption DEF ReaderJob, Path
    <3>2. Visible(Path(r)) \in File \cup {Nil} /\ installed[Path(r)] \in Inode \cup {Nil}
      BY <3>1 DEF IInv, TypeOK, Visible
    <3> QED BY <2>2, <3>2 DEF ReaderAct, Opening, FindSnapshot, HashSnapshot, Identify,
       Inspect, Connect, Measure, Close
  <2> QED BY <2>1, <2>2, StepsSplit
<1> QED BY <1>1, <1>2, ReaderIInv, PTL DEF ReaderSpec

-----------------------------------------------------------------------------
(***************************************************************************)
(* The inode of a connection may lose its name to a rename.  It is still   *)
(* never written again: installers write only to what is staged and to     *)
(* inodes they have yet to make.                                           *)
(***************************************************************************)
Detached(i) ==
  /\ \A d \in Dest : staging[d] # i
  /\ \A p \in Installer : pc[p] \in {"idle", "open"} \cup Private => i # p

\* What is under a destination is detached.
LEMMA PublishedDetached ==
  ASSUME IInv, NEW d \in Dest, installed[d] # Nil
  PROVE  Detached(installed[d])
BY DEF IInv, Separate, Fresh, Detached

\* What is detached stays so, and keeps its bytes.
LEMMA DetachedStable ==
  ASSUME IInv, NEW i \in Inode, Detached(i), [Next]_vars
  PROVE  Detached(i)' /\ bytes'[i] = bytes[i]
<1> USE DEF IInv, TypeOK, Detached, Goto, privateVars, diskVars
<1>0. CASE UNCHANGED vars
  BY <1>0 DEF vars
<1> SUFFICES ASSUME NEW p \in Installer,
                    \/ Begin(p) \/ Proceed(p)
                    \/ Error(p) \/ Crash(p) \/ CleanupFails(p) \/ SourceChanges(p)
             PROVE  Detached(i)' /\ bytes'[i] = bytes[i]
  BY <1>0 DEF Next
<1>1. CASE Quiet(p)
  <2>1. /\ UNCHANGED <<bytes, staging>>
        /\ \A q \in Installer : pc'[q] \in {"idle", "open"} \cup Private =>
             pc[q] \in {"idle", "open"} \cup Private
    BY <1>1 DEF Quiet, Begin, Fetch, CheckSource, StageRaw, Verify, CopyEnds, Error,
       Crash, CleanupFails, SourceChanges
  <2> QED BY <2>1
<1>2. CASE OpenStaging(p)
  <2> DEFINE d == Target(p)
             n == IF staging[d] = Nil THEN p ELSE staging[d]
  <2>1. /\ pc[p] = "open" /\ pc' = [pc EXCEPT ![p] = "copy"]
        /\ bytes' = [bytes EXCEPT ![n] = <<>>]
        /\ staging' = [staging EXCEPT ![d] = n]
        /\ d \in Dest
    BY <1>2, ConstantsAssumption DEF OpenStaging, Target, Job
  <2>2. n # i
    BY <2>1
  <2> HIDE DEF n, d
  <2> QED BY <2>1, <2>2
<1>3. CASE CopyChunk(p)
  <2>1. /\ UNCHANGED <<pc, staging>> /\ pc[p] = "copy" /\ Target(p) \in Dest
        /\ \A k \in Inode : k # fd[p] => bytes'[k] = bytes[k]
    BY <1>3, ConstantsAssumption DEF CopyChunk, Target, Job
  <2>2. fd[p] = staging[Target(p)]
    BY <2>1 DEF Staged, StagedBy
  <2> QED BY <2>1, <2>2
<1>4. CASE Replace(p) \/ Cleanup(p)
  <2>1. /\ UNCHANGED bytes
        /\ \A d \in Dest : staging'[d] \in {Nil, staging[d]}
        /\ \A q \in Installer : pc'[q] \in {"idle", "open"} \cup Private =>
             pc[q] \in {"idle", "open"} \cup Private
    BY <1>4 DEF Replace, Cleanup
  <2>2. i # Nil
    BY ConstantsAssumption
  <2> QED BY <2>1, <2>2
<1> QED BY <1>1, <1>2, <1>3, <1>4 DEF Proceed, Quiet

\* A connection reads a detached inode, complete and a database.
ConnectionInv ==
  \A r \in Reader : Connected(r) =>
    /\ conn[r] \in Inode /\ Detached(conn[r])
    /\ View(r) \in {PriorFile} \cup Described(Path(r))
    /\ View(r) \in Database

\* Whatever installers and readers do, it stays so.
LEMMA StepConnectionInv ==
  ASSUME Exclusive
  PROVE  IInv /\ ReaderTypeOK /\ ConnectionInv /\ [ReaderNext]_allVars => ConnectionInv'
<1> SUFFICES ASSUME IInv, ReaderTypeOK, ConnectionInv, [ReaderNext]_allVars,
                    NEW r \in Reader, Connected(r)'
             PROVE  /\ conn'[r] \in Inode /\ Detached(conn[r])'
                    /\ View(r)' \in {PriorFile} \cup Described(Path(r))'
                    /\ View(r)' \in Database
  BY DEF ConnectionInv
<1>1. UNCHANGED rjob
  BY DEF ReaderNext, allVars, readerVars, Opening, FindSnapshot, HashSnapshot, Identify,
     Inspect, Connect, Measure, Close
<1>2. [Next]_vars /\ UNCHANGED job
  BY StepsSplit, StepVisible, ReaderAssumption
<1>3. Path(r)' = Path(r) /\ Described(Path(r))' = Described(Path(r)) /\ Path(r) \in Dest
  BY <1>1, <1>2, ReaderAssumption DEF Path, Described, Target, ReaderTypeOK, ReaderJob
<1>4. CASE Connected(r) /\ conn'[r] = conn[r]
  <2>1. conn[r] \in Inode /\ Detached(conn[r])
    BY <1>4 DEF ConnectionInv
  <2> DEFINE i == conn[r]
  <2>2. Detached(i)' /\ bytes'[i] = bytes[i]
    <3>1. ASSUME NEW k \in Inode, Detached(k) PROVE Detached(k)' /\ bytes'[k] = bytes[k]
      BY <1>2, <3>1, DetachedStable
    <3> QED BY <1>4, <2>1, <3>1 DEF Detached
  <2> QED BY <1>3, <1>4, <2>1, <2>2 DEF ConnectionInv, View
<1>5. CASE Connect(r) /\ UNCHANGED vars
  <2> DEFINE i == installed[Path(r)]
  <2>1. Visible(Path(r)) \in Database /\ conn'[r] = i
    BY <1>5 DEF Connect, ReaderGoto, Connected, ReaderTypeOK
  <2>2. i # Nil /\ i \in Inode /\ bytes[i] = Visible(Path(r))
    BY <1>3, <2>1, ReaderAssumption, ConstantsAssumption DEF Visible, IInv, TypeOK
  <2>3. Detached(i)
    BY <1>3, <2>2, PublishedDetached
  <2>4. bytes[i] \in {PriorFile} \cup Described(Path(r))
    BY <1>3, <2>1, <2>2, ReaderAssumption, ConstantsAssumption DEF IInv, Published
  <2>5. UNCHANGED <<pc, staging, bytes>>
    BY <1>5 DEF vars, diskVars
  <2>6. Detached(conn[r])' /\ View(r)' = bytes[i]
    BY <2>1, <2>3, <2>5 DEF Detached, View
  <2> QED BY <1>3, <2>1, <2>2, <2>4, <2>6
<1>6. \/ Connected(r) /\ conn'[r] = conn[r]
      \/ Connect(r) /\ UNCHANGED vars
  <2>1. CASE UNCHANGED readerVars
    BY <2>1 DEF readerVars, Connected
  <2>2. ASSUME NEW s \in Reader, ReaderAct(s), s # r
        PROVE  rpc'[r] = rpc[r] /\ conn'[r] = conn[r]
    BY <2>2 DEF ReaderAct, Opening, FindSnapshot, HashSnapshot, Identify, Inspect,
       Connect, Measure, Close, ReaderGoto, ReaderTypeOK
  <2>3. CASE ReaderAct(r)
    BY <2>3 DEF ReaderAct, Opening, FindSnapshot, HashSnapshot, Identify, Inspect,
       Connect, Measure, Close, ReaderGoto, ReaderTypeOK, Connected
  <2> QED BY <2>1, <2>2, <2>3, StepsSplit DEF Connected
<1> QED BY <1>4, <1>5, <1>6

\* It holds throughout.
LEMMA AlwaysConnectionInv ==
  ASSUME Exclusive
  PROVE  ReaderSpec => []ConnectionInv
<1>1. ReaderInit => ConnectionInv
  BY DEF ReaderInit, ConnectionInv, Connected
<1> QED BY <1>1, StepConnectionInv, ReaderIInv, ReaderTypes, PTL DEF ReaderSpec

\* While the installers of a destination take turns, a connection reads a complete
\* database, the one that was there before or one a manifest describes, and never
\* a partial copy, however many of them fail, are killed or replace the file after
\* it was opened.  The code does not make them take turns: InstallShared shows what
\* two at once can publish.
THEOREM ConnectionsComplete ==
  ASSUME Exclusive
  PROVE  ReaderSpec => []ConnectedComplete
<1>1. ConnectionInv => ConnectedComplete
  BY DEF ConnectionInv, ConnectedComplete
<1> QED BY <1>1, AlwaysConnectionInv, PTL

\* While the installers of a destination take turns, the bytes under an open
\* connection never change, even after a rename has taken the name away: what
\* immutable=1 tells SQLite.
THEOREM ConnectionsStable ==
  ASSUME Exclusive
  PROVE  ReaderSpec => ConnectionStable
<1>1. IInv /\ ConnectionInv /\ [ReaderNext]_allVars =>
        [\A r \in Reader : Connected(r) => bytes'[conn[r]] = View(r)]_allVars
  <2> SUFFICES ASSUME IInv, ConnectionInv, [ReaderNext]_allVars,
                      NEW r \in Reader, Connected(r)
               PROVE  bytes'[conn[r]] = View(r)
    OBVIOUS
  <2>1. conn[r] \in Inode /\ Detached(conn[r])
    BY DEF ConnectionInv
  <2>2. [Next]_vars
    BY StepsSplit
  <2> QED BY <2>1, <2>2, DetachedStable DEF View
<1> QED BY <1>1, ReaderIInv, AlwaysConnectionInv, PTL DEF ReaderSpec, ConnectionStable

-----------------------------------------------------------------------------
(***************************************************************************)
(* When every installer of a path has the manifest of its readers, the     *)
(* four times that open reads the path, and the one of info(), agree.      *)
(* ReaderReplaced shows that they need not when two releases meet.         *)
(***************************************************************************)
OneManifest ==
  \A a \in ReaderJobs, j \in Jobs :
    a.manifest # Nil /\ a.dest = j.dest => j.want = a.manifest

\* A database that open accepts, whatever else it compares it with.
Acceptable(f) == f \in Database /\ Len(f) >= MinSize /\ Len(f) <= OpenLimit

\* The path holds the database of the reader's manifest.
AtManifest(r) == Visible(Path(r)) = Manifest(r)

\* What a reader with a manifest knows at each step.
VerifiedAt(r) ==
  /\ rpc[r] \in {"inspect", "connect"} => AtManifest(r)
  /\ Connected(r) => AtManifest(r) /\ View(r) = Manifest(r)
  /\ rpc[r] = "measured" => report[r] = Manifest(r)

\* What one with an acceptable manifest does once its first hash has read it.
FoundAt(r) ==
  /\ rpc[r] \in {"idle", "hash"} => found[r] = Nil
  /\ found[r] = Manifest(r) /\ Acceptable(Manifest(r)) =>
       /\ rpc[r] # "refused"
       /\ rpc[r] \in {"identify", "inspect", "connect"} => AtManifest(r)

ReleaseInv == \A r \in Reader : Manifest(r) # Nil => VerifiedAt(r) /\ FoundAt(r)

\* The database of the manifest, once it is there, is only ever replaced by itself.
LEMMA ManifestStays ==
  ASSUME Exclusive, OneManifest, IInv, ReaderTypeOK, [ReaderNext]_allVars,
         NEW r \in Reader, Manifest(r) # Nil, AtManifest(r)
  PROVE  AtManifest(r)'
<1>1. UNCHANGED rjob
  BY DEF ReaderNext, allVars, readerVars, Opening, FindSnapshot, HashSnapshot, Identify,
     Inspect, Connect, Measure, Close
<1>2. Path(r) \in Dest /\ rjob[r] \in ReaderJobs
  BY ReaderAssumption DEF Path, ReaderTypeOK, ReaderJob
<1>3. Path(r)' = Path(r) /\ Manifest(r)' = Manifest(r)
  BY <1>1 DEF Path, Manifest
<1>4. \A e \in Dest : e = Path(r) => Visible(e)' = Manifest(r)
  <2>1. CASE \A e \in Dest : Visible(e)' = Visible(e)
    BY <2>1, <1>2 DEF AtManifest
  <2>2. ASSUME NEW p \in Installer,
               Target(p) \in Dest,
               Visible(Target(p))' = job[p].want,
               \A e \in Dest \ {Target(p)} : Visible(e)' = Visible(e)
        PROVE  \A e \in Dest : e = Path(r) => Visible(e)' = Manifest(r)
    <3>1. CASE Target(p) = Path(r)
      <4>1. job[p].want = Manifest(r)
        BY <1>2, <3>1 DEF OneManifest, Path, Manifest, Target, IInv, TypeOK
      <4>2. Target(p)' = Target(p)
        BY StepVisible, StepsSplit, ReaderAssumption DEF Target
      <4> QED BY <1>2, <2>2, <3>1, <4>1, <4>2 DEF Visible
    <3>2. CASE Target(p) # Path(r)
      BY <1>2, <2>2, <3>2 DEF AtManifest
    <3> QED BY <3>1, <3>2
  <2> QED BY <2>1, <2>2, StepVisible, StepsSplit, ReaderAssumption
<1> QED BY <1>2, <1>3, <1>4 DEF AtManifest, Visible

\* A step of an installer or of another reader leaves a reader what it knows.
LEMMA StepReleaseInv ==
  ASSUME Exclusive, OneManifest
  PROVE  IInv /\ ReaderTypeOK /\ ConnectionInv /\ ReleaseInv /\ [ReaderNext]_allVars
           => ReleaseInv'
<1> SUFFICES ASSUME IInv, ReaderTypeOK, ConnectionInv, ReleaseInv, [ReaderNext]_allVars,
                    NEW r \in Reader, Manifest(r)' # Nil
             PROVE  VerifiedAt(r)' /\ FoundAt(r)'
  BY DEF ReleaseInv
<1> USE DEF ReaderTypeOK, ReaderGoto
<1>1. UNCHANGED rjob
  BY DEF ReaderNext, allVars, readerVars, Opening, FindSnapshot, HashSnapshot, Identify,
     Inspect, Connect, Measure, Close
<1>2. Path(r)' = Path(r) /\ Manifest(r)' = Manifest(r) /\ Manifest(r) # Nil
      /\ Path(r) \in Dest
  BY <1>1, ReaderAssumption DEF Path, Manifest, ReaderJob
<1>3. VerifiedAt(r) /\ FoundAt(r)
  BY <1>2 DEF ReleaseInv
<1>4. AtManifest(r) => AtManifest(r)'
  BY <1>2, ManifestStays
<1>5. Connected(r) => bytes'[conn[r]] = View(r)
  <2> SUFFICES ASSUME Connected(r) PROVE bytes'[conn[r]] = View(r)
    OBVIOUS
  <2>1. conn[r] \in Inode /\ Detached(conn[r]) /\ [Next]_vars
    BY StepsSplit DEF ConnectionInv
  <2> QED BY <2>1, DetachedStable DEF View
<1>6. CASE rpc'[r] = rpc[r] /\ found'[r] = found[r] /\ conn'[r] = conn[r] /\ report'[r] = report[r]
  BY <1>2, <1>3, <1>4, <1>5, <1>6 DEF VerifiedAt, FoundAt, Connected, View
<1>7. CASE ReaderAct(r)
  <2>1. UNCHANGED <<bytes, installed>> /\ (AtManifest(r)' <=> AtManifest(r))
    BY <1>2, <1>7 DEF ReaderAct, vars, diskVars, AtManifest, Visible
  <2>2. CASE FindSnapshot(r)
    BY <1>2, <1>3, <2>2, ReaderAssumption
    DEF FindSnapshot, VerifiedAt, FoundAt, Connected, Acceptable
  <2>3. CASE HashSnapshot(r)
    <3>1. /\ found'[r] = Visible(Path(r))
          /\ Len(found'[r]) > OpenLimit \/ Len(found'[r]) < MinSize <=> rpc'[r] = "refused"
          /\ rpc'[r] \in {"refused", "identify"}
      BY <1>2, <2>3 DEF HashSnapshot
    <3>2. Acceptable(Manifest(r)) =>
            ~(Len(Manifest(r)) > OpenLimit \/ Len(Manifest(r)) < MinSize)
      BY ReaderAssumption DEF Acceptable, File
    <3> QED BY <1>2, <2>1, <3>1, <3>2 DEF VerifiedAt, FoundAt, Connected, AtManifest
  <2>4. CASE Identify(r)
    BY <1>2, <1>3, <2>1, <2>4 DEF Identify, VerifiedAt, FoundAt, Connected, AtManifest, Acceptable
  <2>5. CASE Inspect(r)
    BY <1>2, <1>3, <2>1, <2>5 DEF Inspect, VerifiedAt, FoundAt, Connected, AtManifest, Acceptable
  <2>6. CASE Connect(r)
    <3>1. AtManifest(r) /\ Manifest(r) # Nil
      BY <1>2, <1>3, <2>6 DEF Connect, VerifiedAt
    <3>2. bytes[installed[Path(r)]] = Manifest(r)
      BY <3>1 DEF AtManifest, Visible
    <3>3. rpc'[r] = "reading" => View(r)' = Manifest(r)
      BY <2>1, <2>6, <3>2, ConstantsAssumption DEF Connect, View
    <3> QED BY <1>2, <1>3, <2>1, <2>6, <3>1, <3>3
         DEF Connect, VerifiedAt, FoundAt, Connected, AtManifest, Acceptable
  <2>7. CASE Measure(r)
    BY <1>2, <1>3, <2>1, <2>7 DEF Measure, VerifiedAt, FoundAt, Connected, AtManifest, View
  <2>8. CASE Close(r)
    BY <1>2, <1>3, <2>1, <2>8 DEF Close, VerifiedAt, FoundAt, Connected
  <2> QED BY <1>7, <2>2, <2>3, <2>4, <2>5, <2>6, <2>7, <2>8 DEF ReaderAct, Opening
<1>8. \/ ReaderAct(r)
      \/ rpc'[r] = rpc[r] /\ found'[r] = found[r] /\ conn'[r] = conn[r] /\ report'[r] = report[r]
  <2>1. ASSUME NEW s \in Reader, ReaderAct(s), s # r
        PROVE  rpc'[r] = rpc[r] /\ found'[r] = found[r] /\ conn'[r] = conn[r]
               /\ report'[r] = report[r]
    BY <2>1 DEF ReaderAct, Opening, FindSnapshot, HashSnapshot, Identify, Inspect,
       Connect, Measure, Close
  <2> QED BY <2>1, StepsSplit DEF readerVars
<1> QED BY <1>6, <1>7, <1>8

\* It holds throughout.
LEMMA AlwaysReleaseInv ==
  ASSUME Exclusive, OneManifest
  PROVE  ReaderSpec => []ReleaseInv
<1>1. ReaderInit => ReleaseInv
  BY DEF ReaderInit, ReleaseInv, VerifiedAt, FoundAt, Connected
<1>2. IInv /\ ReaderTypeOK /\ ConnectionInv /\ ReleaseInv /\ [ReaderNext]_allVars
        => ReleaseInv'
  BY StepReleaseInv
<1> QED BY <1>1, <1>2, AlwaysConnectionInv, ReaderIInv, ReaderTypes, PTL DEF ReaderSpec

\* With one release, and installers that take turns, a reader that gave a manifest has a connection to the
\* database it describes, although open checks one file and keeps another.
THEOREM VerifiedReads ==
  ASSUME Exclusive, OneManifest
  PROVE  ReaderSpec => []VerifiedReadsManifest
<1>1. ReleaseInv => VerifiedReadsManifest
  BY DEF ReleaseInv, VerifiedAt, VerifiedReadsManifest
<1> QED BY <1>1, AlwaysReleaseInv, PTL

\* With one release, installers that take turns, and readers that give its manifest,
\* the digest that info() reports is that of the database its connection reads and of the manifest.
THEOREM InfoTellsTruth ==
  ASSUME Exclusive, OneManifest,
         \A a \in ReaderJobs : a.manifest # Nil
  PROVE  ReaderSpec => []InfoCoherent
<1>1. ReaderTypeOK /\ ReleaseInv => InfoCoherent
  <2> SUFFICES ASSUME ReaderTypeOK, ReleaseInv, NEW r \in Reader, rpc[r] = "measured"
               PROVE  report[r] = View(r) /\ report[r] = Manifest(r)
    BY DEF InfoCoherent
  <2>1. Manifest(r) # Nil
    BY DEF Manifest, ReaderTypeOK
  <2> QED BY <2>1 DEF ReleaseInv, VerifiedAt, Connected
<1> QED BY <1>1, AlwaysReleaseInv, ReaderTypes, PTL

\* With one release that open accepts, and installers that take turns, a reader whose first hash reads it is not
\* refused later, however often it is installed again meanwhile.
THEOREM GoodSnapshotOpens ==
  ASSUME Exclusive, OneManifest,
         \A a \in ReaderJobs : a.manifest # Nil => Acceptable(a.manifest)
  PROVE  ReaderSpec => []GoodOpens
<1>1. ReaderTypeOK /\ ReleaseInv => GoodOpens
  <2> SUFFICES ASSUME ReaderTypeOK, ReleaseInv, NEW r \in Reader, rpc[r] = "refused",
                      found[r] = Manifest(r), Manifest(r) # Nil
               PROVE  FALSE
    BY DEF GoodOpens
  <2>1. Acceptable(Manifest(r))
    BY DEF Manifest, ReaderTypeOK
  <2> QED BY <2>1 DEF ReleaseInv, FoundAt
<1> QED BY <1>1, AlwaysReleaseInv, ReaderTypes, PTL

=============================================================================
