------------------------------ MODULE ZstdStream ------------------------------
(***************************************************************************)
(* _decompress_zstd of snapshot.py: the zstd command, its two pipes and    *)
(* the caller that drains them, first standard output to its end, then     *)
(* standard error, under a limit on the decompressed size; or, without the *)
(* command, the zstandard package in the caller's own process.             *)
(*                                                                         *)
(* Bytes in a pipe keep their order, so only their numbers are modelled.   *)
(***************************************************************************)
EXTENDS Integers

CONSTANTS
  Streams,    \* what zstd makes of the source: [out, noise, code]
  Capacity,   \* the bytes a pipe holds
  Chunk,      \* the bytes the caller asks for, 1 MiB
  MaxBytes,   \* max_bytes
  Faults      \* whether writes fail, the caller is interrupted, zstd is killed

\* zstd is called with -q: what it says of a broken file fits in a pipe.
ASSUME StreamAssumption ==
  /\ Streams \subseteq [out: Nat, noise: 0..Capacity, code: {0, 1}]
  /\ Capacity \in Nat \ {0} /\ Chunk \in Nat \ {0} /\ MaxBytes \in Nat
  /\ Faults \subseteq BOOLEAN

VARIABLES
  stream,     \* the stream of this call
  mode,       \* "command" or "package"
  faulty,     \* TRUE: faults may happen in this call
  pc,         \* the step of the caller
  verdict,    \* how the call ends
  buffer,     \* the bytes its pending read has collected
  total,      \* the bytes it has counted
  written,    \* the bytes in the destination
  child,      \* the state of the zstd process
  sent,       \* what zstd has written: bytes out and bytes of noise
  stdout,     \* the bytes in each pipe
  stderr

callerVars == <<pc, verdict, buffer, total, written>>
childVars == <<child, sent, stdout, stderr>>
call == <<stream, mode, faulty>>
vars == <<call, callerVars, childVars>>

Verdict == {"none", "ok", "limit", "unwritable", "failed", "interrupted"}

TypeOK ==
  /\ stream \in Streams
  /\ mode \in {"command", "package"}
  /\ faulty \in Faults
  /\ pc \in {"open", "read", "write", "stderr", "wait", "kill", "reap", "close", "ended"}
  /\ verdict \in Verdict
  /\ buffer \in 0..Chunk
  /\ total \in Nat /\ written \in Nat
  /\ child \in {"running", "exited", "broken", "killed", "reaped", "none"}
  /\ sent \in [out: 0..stream.out, noise: 0..stream.noise]
  /\ stdout \in 0..Capacity /\ stderr \in 0..Capacity

Init ==
  /\ stream \in Streams
  /\ mode \in {"command", "package"}
  /\ faulty \in Faults
  /\ pc = "open" /\ verdict = "none"
  /\ buffer = 0 /\ total = 0 /\ written = 0
  /\ child = IF mode = "command" THEN "running" ELSE "none"
  /\ sent = [out |-> 0, noise |-> 0]
  /\ stdout = 0 /\ stderr = 0

ChildOver == child \in {"exited", "broken", "killed", "reaped"}
\* A mistake: the exit code is not looked at.
ReturnCodeIgnored == 0

ReturnCode == IF child = "exited" THEN stream.code ELSE 1

-----------------------------------------------------------------------------
(* The zstd process. *)

\* A mistake: the pipes stay open after the call.
PipesLeftOpen == FALSE

\* The caller has closed its ends of the pipes: the next write is fatal.
BrokenPipe == pc = "ended"

WriteStdout ==
  /\ child = "running" /\ sent.out < stream.out
  /\ IF BrokenPipe
     THEN child' = "broken" /\ UNCHANGED <<sent, stdout>>
     ELSE /\ stdout < Capacity
          /\ stdout' = stdout + 1
          /\ sent' = [sent EXCEPT !.out = @ + 1]
          /\ UNCHANGED child
  /\ UNCHANGED <<call, callerVars, stderr>>

WriteStderr ==
  /\ child = "running" /\ sent.noise < stream.noise
  /\ IF BrokenPipe
     THEN child' = "broken" /\ UNCHANGED <<sent, stderr>>
     ELSE /\ stderr < Capacity
          /\ stderr' = stderr + 1
          /\ sent' = [sent EXCEPT !.noise = @ + 1]
          /\ UNCHANGED child
  /\ UNCHANGED <<call, callerVars, stdout>>

ChildExits ==
  /\ child = "running"
  /\ sent = [out |-> stream.out, noise |-> stream.noise]
  /\ child' = "exited"
  /\ UNCHANGED <<call, callerVars, sent, stdout, stderr>>

ChildDies ==
  /\ faulty /\ child = "running"
  /\ child' = "broken"
  /\ UNCHANGED <<call, callerVars, sent, stdout, stderr>>

-----------------------------------------------------------------------------
(* The caller. *)

Goto(step, v) == pc' = step /\ verdict' = v

\* A mistake: the process is left to itself.
LeaveRunning(v) == Goto(IF mode = "command" THEN "close" ELSE "ended", v)

\* How an error in the try block leaves it: the command is killed and reaped,
\* the package just raises.
Leave(v) == Goto(IF mode = "command" THEN "kill" ELSE "ended",
                 IF mode = "package" /\ v = "unwritable" THEN "failed" ELSE v)

OpenDestination ==
  /\ pc = "open"
  /\ \/ Goto("read", "none")
     \/ faulty /\ Leave("unwritable")
  /\ UNCHANGED <<call, buffer, total, written, childVars>>

\* read(1 MiB) collects bytes until it has them all or the pipe is at its end.
ReadSome ==
  /\ pc = "read" /\ mode = "command"
  /\ buffer < Chunk /\ stdout > 0
  /\ buffer' = buffer + 1
  /\ stdout' = stdout - 1
  /\ UNCHANGED <<call, pc, verdict, total, written, child, sent, stderr>>

ReadReturns ==
  /\ pc = "read" /\ mode = "command"
  /\ buffer = Chunk \/ (stdout = 0 /\ ChildOver)
  /\ Goto(IF buffer = 0 THEN "stderr" ELSE "write", "none")
  /\ UNCHANGED <<call, buffer, total, written, childVars>>

\* The package decodes the next bytes itself and raises at a broken frame.
ReadPackage ==
  /\ pc = "read" /\ mode = "package"
  /\ IF sent.out < stream.out
     THEN \E n \in 1..Chunk :
            /\ sent.out + n <= stream.out
            /\ sent' = [sent EXCEPT !.out = @ + n]
            /\ buffer' = n
            /\ Goto("write", "none")
     ELSE /\ Goto("ended", IF stream.code = 0 THEN "ok" ELSE "failed")
          /\ UNCHANGED <<sent, buffer>>
  /\ UNCHANGED <<call, total, written, child, stdout, stderr>>

\* Mistakes: the limit itself is refused; the chunk is written, then tested.
WriteBelowLimit ==
  /\ pc = "write"
  /\ total' = total + buffer
  /\ buffer' = 0
  /\ \/ total' >= MaxBytes /\ Leave("limit") /\ UNCHANGED written
     \/ total' < MaxBytes /\ Goto("read", "none") /\ written' = written + buffer
  /\ UNCHANGED <<call, childVars>>

WriteThenTest ==
  /\ pc = "write"
  /\ total' = total + buffer
  /\ buffer' = 0
  /\ written' = written + buffer
  /\ IF total' > MaxBytes THEN Leave("limit") ELSE Goto("read", "none")
  /\ UNCHANGED <<call, childVars>>

\* The limit is tested before the chunk is written.
WriteChunk ==
  /\ pc = "write"
  /\ total' = total + buffer
  /\ buffer' = 0
  /\ \/ total' > MaxBytes /\ Leave("limit") /\ UNCHANGED written
     \/ total' <= MaxBytes /\ Goto("read", "none") /\ written' = written + buffer
     \/ /\ faulty /\ total' <= MaxBytes
        /\ Leave("unwritable")
        /\ UNCHANGED written
  /\ UNCHANGED <<call, childVars>>

\* Standard error is read to its end.
DrainStderr ==
  /\ pc = "stderr"
  /\ IF stderr > 0
     THEN stderr' = stderr - 1 /\ UNCHANGED <<pc, verdict>>
     ELSE ChildOver /\ Goto("wait", "none") /\ UNCHANGED stderr
  /\ UNCHANGED <<call, buffer, total, written, child, sent, stdout>>

Wait ==
  /\ pc = "wait" /\ ChildOver
  /\ Goto("close", IF ReturnCode = 0 THEN "ok" ELSE "failed")
  /\ child' = "reaped"
  /\ UNCHANGED <<call, buffer, total, written, sent, stdout, stderr>>

\* A mistake: the process is waited for and not killed.
KillNothing ==
  /\ pc = "kill"
  /\ Goto("reap", verdict)
  /\ UNCHANGED <<call, buffer, total, written, childVars>>

Kill ==
  /\ pc = "kill"
  /\ Goto("reap", verdict)
  /\ child' = IF child = "running" THEN "killed" ELSE child
  /\ UNCHANGED <<call, buffer, total, written, sent, stdout, stderr>>

Reap ==
  /\ pc = "reap" /\ ChildOver
  /\ Goto("close", verdict)
  /\ child' = "reaped"
  /\ UNCHANGED <<call, buffer, total, written, sent, stdout, stderr>>

\* The finally clause closes both pipes.
ClosePipes ==
  /\ pc = "close"
  /\ Goto("ended", verdict)
  /\ stdout' = 0 /\ stderr' = 0
  /\ UNCHANGED <<call, buffer, total, written, child, sent>>

\* An interrupt is caught by no except clause; only the finally clause runs.
Interrupt ==
  /\ faulty
  /\ pc \in {"open", "read", "write", "stderr", "wait"}
  /\ Goto(IF mode = "command" THEN "close" ELSE "ended", "interrupted")
  /\ UNCHANGED <<call, buffer, total, written, childVars>>

Caller ==
  \/ OpenDestination \/ ReadSome \/ ReadReturns \/ ReadPackage \/ WriteChunk
  \/ DrainStderr \/ Wait \/ Kill \/ Reap \/ ClosePipes

Child == WriteStdout \/ WriteStderr \/ ChildExits

Next == Caller \/ Child \/ ChildDies \/ Interrupt

Spec == Init /\ [][Next]_vars

\* Both processes run.
FairSpec == Spec /\ WF_vars(Caller) /\ WF_vars(Child)

-----------------------------------------------------------------------------
\* The destination never holds more than the limit, whatever the source claims.
OutputBounded == written <= MaxBytes

\* The call returns only when the destination holds the whole stream and zstd
\* ended well.
ReturnMeansWhole ==
  verdict = "ok" => written = stream.out /\ stream.code = 0

\* Without faults the verdict is a function of the stream: too long, broken or
\* good; a stream of exactly MaxBytes is good.
VerdictExact ==
  pc = "ended" /\ ~faulty =>
    verdict = IF stream.out > MaxBytes THEN "limit"
              ELSE IF stream.code # 0 THEN "failed" ELSE "ok"

\* A call that ends, other than by an interrupt, leaves no process behind.
NoOrphan ==
  pc = "ended" /\ verdict # "interrupted" => child \in {"reaped", "none"}

\* The call always ends, and so does zstd, even when nobody waits for it.
BothEnd == <>(pc = "ended") /\ <>(child # "running")
=============================================================================
