--------------------------- MODULE ZstdStreamProofs ---------------------------
(***************************************************************************)
(* Proofs about ZstdStream: for any streams, pipe capacity, chunk size and *)
(* limit, what the destination holds and how the call ends.                *)
(***************************************************************************)
EXTENDS ZstdStream, TLAPS

\* The steps in which the caller still reads.
Reading == {"open", "read", "write", "stderr", "wait"}

\* While the caller reads, every byte the decoder produced is in the pipe, in the
\* pending read or in the destination, and every byte counted is in the destination.
Conserved ==
  pc \in Reading => written + buffer + stdout = sent.out /\ total = written

\* Where the caller may be, and what it has seen of the pipe there.
CallerAt ==
  /\ pc \in Reading <=> verdict = "none"
  /\ pc = "open" => buffer = 0
  /\ pc \in {"stderr", "wait"} => buffer = 0 /\ stdout = 0 /\ ChildOver
  /\ pc \in {"kill", "reap"} => verdict \in {"limit", "unwritable"}

\* Standard error holds no more than the process has said.  The package has no
\* process and no pipe; the command's process is killed only to be reaped, reaped
\* before the call returns, and has written everything when it exits by itself.
ChildAt ==
  /\ stderr <= sent.noise
  /\ mode = "package" => /\ child = "none" /\ stdout = 0
                         /\ pc \in {"open", "read", "write", "ended"}
                         /\ pc = "read" => buffer = 0
  /\ mode = "command" => child # "none"
  /\ child = "exited" => sent = [out |-> stream.out, noise |-> stream.noise]
  /\ pc = "reap" => child # "running"
  /\ child = "killed" => pc = "reap"
  /\ child = "reaped" => pc \in {"close", "ended"}
  /\ pc \in {"close", "ended"} => child \in {"reaped", "none"} \/ verdict = "interrupted"
  /\ child = "broken" /\ ~faulty => pc = "ended"

\* What each verdict says of the stream.
VerdictAt ==
  /\ verdict = "limit" => stream.out > MaxBytes
  /\ verdict = "ok" => written = stream.out /\ stream.code = 0
  /\ verdict = "failed" /\ ~faulty => written = stream.out /\ stream.code # 0
  /\ verdict \in {"unwritable", "interrupted"} => faulty

\* The inductive invariant.
StreamInv ==
  TypeOK /\ OutputBounded /\ Conserved /\ CallerAt /\ ChildAt /\ VerdictAt

-----------------------------------------------------------------------------
\* A call begins with nothing read.
LEMMA InitStreamInv == Init => StreamInv
BY StreamAssumption
DEF Init, StreamInv, TypeOK, Verdict, OutputBounded, Conserved, Reading, CallerAt,
    ChildAt, VerdictAt

\* Every step of the caller, of the process and of what disturbs them keeps it.
LEMMA StepStreamInv == StreamInv /\ [Next]_vars => StreamInv'
<1> SUFFICES ASSUME StreamInv, [Next]_vars PROVE StreamInv'
  OBVIOUS
<1> USE StreamAssumption
    DEF StreamInv, TypeOK, Verdict, OutputBounded, Conserved, Reading, CallerAt,
        ChildAt, VerdictAt, ChildOver, call, callerVars, childVars
<1>1. CASE OpenDestination
  BY <1>1 DEF OpenDestination, Goto, Leave
<1>2. CASE ReadSome
  BY <1>2 DEF ReadSome
<1>3. CASE ReadReturns
  BY <1>3 DEF ReadReturns, Goto
<1>4. CASE ReadPackage
  BY <1>4 DEF ReadPackage, Goto
<1>5. CASE WriteChunk
  BY <1>5 DEF WriteChunk, Goto, Leave
<1>6. CASE DrainStderr
  BY <1>6 DEF DrainStderr, Goto
<1>7. CASE Wait
  BY <1>7 DEF Wait, Goto, ReturnCode
<1>8. CASE Kill
  BY <1>8 DEF Kill, Goto
<1>9. CASE Reap
  BY <1>9 DEF Reap, Goto
<1>10. CASE ClosePipes
  BY <1>10 DEF ClosePipes, Goto
<1>11. CASE WriteStdout
  BY <1>11 DEF WriteStdout, BrokenPipe
<1>12. CASE WriteStderr
  BY <1>12 DEF WriteStderr, BrokenPipe
<1>13. CASE ChildExits
  BY <1>13 DEF ChildExits
<1>14. CASE ChildDies
  BY <1>14 DEF ChildDies
<1>15. CASE Interrupt
  BY <1>15 DEF Interrupt, Goto
<1>16. CASE UNCHANGED vars
  BY <1>16 DEF vars
<1> QED
  BY <1>1, <1>2, <1>3, <1>4, <1>5, <1>6, <1>7, <1>8, <1>9, <1>10, <1>11, <1>12, <1>13, <1>14, <1>15, <1>16
  DEF Next, Caller, Child

\* So it holds throughout a call.
LEMMA AlwaysStreamInv == Spec => []StreamInv
BY InitStreamInv, StepStreamInv, PTL DEF Spec

-----------------------------------------------------------------------------
\* Every state of a call has the declared types: no pipe ever holds more than
\* its capacity, no pending read more than it asked for.
THEOREM StreamTypeCorrect == Spec => []TypeOK
<1>1. StreamInv => TypeOK
  BY DEF StreamInv
<1> QED BY <1>1, AlwaysStreamInv, PTL

\* The destination never holds more than max_bytes, whatever the source expands
\* to, whichever decoder runs and whatever fails: the limit is tested on a total
\* that counts the chunk before the chunk is written.
THEOREM OutputStaysBounded == Spec => []OutputBounded
<1>1. StreamInv => OutputBounded
  BY DEF StreamInv
<1> QED BY <1>1, AlwaysStreamInv, PTL

\* _decompress_zstd returns normally only when the destination holds every byte
\* of the stream and the decoder found it whole, for any sizes of pipe and chunk.
THEOREM ReturnIsWhole == Spec => []ReturnMeansWhole
<1>1. StreamInv => ReturnMeansWhole
  BY DEF StreamInv, VerdictAt, ReturnMeansWhole
<1> QED BY <1>1, AlwaysStreamInv, PTL

\* Without faults the verdict is decided by the stream alone, by neither the
\* order in which the two processes run nor the pieces the bytes arrive in.
THEOREM VerdictIsExact == Spec => []VerdictExact
<1>1. StreamInv => VerdictExact
  BY StreamAssumption
  DEF StreamInv, VerdictAt, CallerAt, Reading, OutputBounded, VerdictExact, TypeOK, Verdict
<1> QED BY <1>1, AlwaysStreamInv, PTL

\* A call that ends, other than by an interrupt, has reaped the process it began.
THEOREM NoOrphanLeft == Spec => []NoOrphan
<1>1. StreamInv => NoOrphan
  BY DEF StreamInv, ChildAt, NoOrphan
<1> QED BY <1>1, AlwaysStreamInv, PTL

\* Draining the pipes one after the other cannot leave both processes waiting: a
\* caller that finds standard output empty waits for a process that has room in a
\* pipe for what it has left to write, or is about to exit, and when the caller
\* waits on anything else the process is over already.  It rests on what -q makes
\* sure of: all that zstd says fits in the pipe that is drained last.
CallerNeverStuck ==
  /\ pc = "read" /\ child = "running" /\ stdout = 0 =>
       \/ sent.out < stream.out /\ stdout < Capacity
       \/ sent.noise < stream.noise /\ stderr < Capacity
       \/ sent = [out |-> stream.out, noise |-> stream.noise]
  /\ pc \in {"stderr", "wait", "reap"} => ChildOver

THEOREM NoPipeDeadlock == Spec => []CallerNeverStuck
<1>1. StreamInv => CallerNeverStuck
  BY StreamAssumption
  DEF StreamInv, TypeOK, CallerAt, ChildAt, ChildOver, CallerNeverStuck
<1> QED BY <1>1, AlwaysStreamInv, PTL
=============================================================================
