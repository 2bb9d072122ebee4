------------------------------ MODULE Executor ------------------------------
(***************************************************************************)
(* internal/executor: one call of Executor.Run, from cmd.Start to the      *)
(* Result.  The goroutine in cmd.Wait, the processes the command leaves    *)
(* behind, the pipe they write to, the timer and Ctrl-C run concurrently   *)
(* with Run's select.  Output is counted in bytes and the two streams are  *)
(* one; MaxOutput bounds what a command writes.                            *)
(***************************************************************************)
EXTENDS Integers, Sequences

CONSTANTS
  Helper,     \* the processes the shell may start
  Limit,      \* maxCaptureBytes
  MaxOutput   \* bound: bytes a command writes

ASSUME ExecutorAssumption ==
  /\ "sh" \notin Helper
  /\ Limit \in Nat \ {0}
  /\ MaxOutput \in Nat

Process == Helper \cup {"sh"}

VARIABLES
  timeout,   \* opts.Timeout > 0
  groups,    \* setProcAttr made a process group (not so on Windows)
  pc,        \* where Run is
  ctx,       \* ctx is canceled
  doneBy,    \* runCtx.Err(): what ended runCtx first
  proc,      \* each process: in the shell's group, escaped from it, dead
  piped,     \* the processes that hold the write end of the output pipe
  exit,      \* how the shell ended
  waitDone,  \* the channel cmd.Wait's result is sent to
  written,   \* bytes written to the pipe
  copied,    \* bytes os/exec's copying goroutine has taken out of it
  copyFailed,\* the live writer failed, which ends the copying
  captured,  \* capWriter.buf
  result     \* what Run returned

vars == <<timeout, groups, pc, ctx, doneBy, proc, piped, exit, waitDone,
          written, copied, copyFailed, captured, result>>
run == <<timeout, groups, pc, result>>
output == <<written, copied, copyFailed, captured>>

Live(p) == proc[p] \in {"group", "escaped"}
Alive == {p \in Process : Live(p)}
NoResult == [exit |-> -1, timedOut |-> FALSE, canceled |-> FALSE]

Init ==
  /\ timeout \in BOOLEAN
  /\ groups \in BOOLEAN
  /\ pc = "start"
  /\ ctx = FALSE
  /\ doneBy = "none"
  /\ proc = [p \in Process |-> "unborn"]
  /\ piped = {}
  /\ exit = "none"
  /\ waitDone = "empty"
  /\ written = 0 /\ copied = 0 /\ copyFailed = FALSE
  /\ captured = <<>>
  /\ result = NoResult

-----------------------------------------------------------------------------
(* The environment: the command's processes, the timer, Ctrl-C.            *)

(* A process starts another one, in its group or in a session of its own   *)
(* (setsid), with the inherited output or with it redirected.              *)
Fork(parent, h) ==
  /\ Live(parent)
  /\ proc[h] = "unborn"
  /\ \E where \in {proc[parent], "escaped"} : proc' = [proc EXCEPT ![h] = where]
  /\ piped' \in {piped, IF parent \in piped THEN piped \cup {h} ELSE piped}
  /\ UNCHANGED <<run, ctx, doneBy, exit, waitDone, output>>

HelperExits(h) ==
  /\ Live(h)
  /\ proc' = [proc EXCEPT ![h] = "dead"]
  /\ piped' = piped \ {h}
  /\ UNCHANGED <<run, ctx, doneBy, exit, waitDone, output>>

ShellExits(how) ==
  /\ Live("sh")
  /\ proc' = [proc EXCEPT !["sh"] = "dead"]
  /\ piped' = piped \ {"sh"}
  /\ exit' = how
  /\ UNCHANGED <<run, ctx, doneBy, waitDone, output>>

Write ==
  /\ piped # {}
  /\ written < MaxOutput
  /\ written' = written + 1
  /\ UNCHANGED <<run, ctx, doneBy, proc, piped, exit, waitDone, copied,
                 copyFailed, captured>>

(* The caller's ctx is canceled; it has no deadline of its own.            *)
Cancel ==
  /\ pc \in {"start", "select", "kill"}
  /\ ~ctx
  /\ ctx' = TRUE
  /\ doneBy' = IF doneBy = "none" THEN "cancel" ELSE doneBy
  /\ UNCHANGED <<run, proc, piped, exit, waitDone, output>>

(* context.WithTimeout's timer; a Run without a timeout has none.          *)
Deadline ==
  /\ timeout
  /\ pc \in {"start", "select"}
  /\ doneBy = "none"
  /\ doneBy' = "deadline"
  /\ UNCHANGED <<run, ctx, proc, piped, exit, waitDone, output>>

-----------------------------------------------------------------------------
(* os/exec: the copying goroutine and cmd.Wait.                            *)

LastOf(s, n) == IF Len(s) > n THEN SubSeq(s, Len(s) - n + 1, Len(s)) ELSE s

Uncapped(buf, p) == buf \o p  \* mutant
KeepHead(buf, p) ==  \* mutant
  LET s == buf \o p IN SubSeq(s, 1, IF Len(s) < Limit THEN Len(s) ELSE Limit)

(* capWriter.Write: append, then keep the last Limit bytes.                *)
KeepTail(buf, p) == LastOf(buf \o p, Limit)

Bytes(from, to) == [k \in 1..(to - from) |-> from + k]

Copy ==
  /\ ~copyFailed
  /\ \E n \in (copied + 1)..written :
       /\ captured' = KeepTail(captured, Bytes(copied, n))
       /\ copied' = n
  /\ UNCHANGED <<run, ctx, doneBy, proc, piped, exit, waitDone, written,
                 copyFailed>>

(* io.MultiWriter writes to the live writer first and stops at its error,  *)
(* so io.Copy ends and what it had taken never reaches the capWriter.      *)
CopyFails ==
  /\ ~copyFailed
  /\ copied < written
  /\ copyFailed' = TRUE
  /\ UNCHANGED <<run, ctx, doneBy, proc, piped, exit, waitDone, written,
                 copied, captured>>

(* The pipe is at EOF once it is empty and nobody holds its write end.     *)
CopyingOver == copyFailed \/ (piped = {} /\ copied = written)

(* cmd.Wait returns: the shell is dead and the copying is over.  A clean   *)
(* exit whose output was lost is an error that is no *exec.ExitError.      *)
Drained == CopyingOver

Wait ==
  /\ exit # "none"
  /\ waitDone = "empty" /\ pc \in {"select", "kill"}
  /\ Drained
  /\ waitDone' = IF exit = "ok" /\ copyFailed THEN "copy" ELSE exit
  /\ UNCHANGED <<run, ctx, doneBy, proc, piped, exit, output>>

-----------------------------------------------------------------------------
(* Run.                                                                    *)

StartFails ==
  /\ pc = "start"
  /\ pc' = "failed"
  /\ UNCHANGED <<timeout, groups, ctx, doneBy, proc, piped, exit, waitDone,
                 output, result>>

Start ==
  /\ pc = "start"
  /\ pc' = "select"
  /\ proc' = [proc EXCEPT !["sh"] = "group"]
  /\ piped' = {"sh"}
  /\ UNCHANGED <<timeout, groups, ctx, doneBy, exit, waitDone, output, result>>

ExitCodeAnyway(waitErr, killed) ==  \* mutant
  IF waitErr = "ok" THEN 0 ELSE IF waitErr = "fail" THEN 1 ELSE -1

(* extractExitCode: the code the shell reported, -1 for everything else.   *)
ExitCode(waitErr, killed) ==
  IF waitErr = "ok" /\ ~killed THEN 0 ELSE IF waitErr = "fail" THEN 1 ELSE -1

Return(timedOut, canceled) ==
  /\ waitDone # "empty"
  /\ pc' = "returned"
  /\ result' = [exit |-> ExitCode(waitDone, timedOut \/ canceled),
                timedOut |-> timedOut, canceled |-> canceled]
  /\ waitDone' = "empty"
  /\ UNCHANGED <<timeout, groups, ctx, doneBy, proc, piped, exit, output>>

(* The select's first case; it may win although runCtx is done too.        *)
ReceiveExit ==
  /\ pc = "select"
  /\ Return(FALSE, FALSE)

KilledShell == {"sh"}  \* mutant

(* killProcessGroup: the whole group on Unix, the shell alone on Windows.  *)
Killed == {p \in Process : proc[p] = "group" /\ (groups \/ p = "sh")}

(* The select's second case; the shell may be dead already.                *)
ReceiveDone ==
  /\ pc = "select"
  /\ doneBy # "none"
  /\ pc' = "kill"
  /\ proc' = [p \in Process |-> IF p \in Killed THEN "dead" ELSE proc[p]]
  /\ piped' = piped \ Killed
  /\ exit' = IF exit = "none" THEN "signal" ELSE exit
  /\ UNCHANGED <<timeout, groups, ctx, doneBy, waitDone, output, result>>

TimedOutFirst == doneBy = "deadline"  \* mutant

(* ctx is looked at again only after the killed process is reaped.         *)
TimedOut == doneBy = "deadline" /\ ~ctx

AwaitReap ==
  /\ pc = "kill"
  /\ Return(TimedOut, ~TimedOut)

Idle ==
  /\ pc \in {"failed", "returned"}
  /\ UNCHANGED vars

Next ==
  \/ \E h \in Helper : \E p \in Process : Fork(p, h)
  \/ \E h \in Helper : HelperExits(h)
  \/ \E how \in {"ok", "fail", "signal"} : ShellExits(how)
  \/ Write \/ Cancel \/ Deadline
  \/ Copy \/ CopyFails \/ Wait
  \/ StartFails \/ Start \/ ReceiveExit \/ ReceiveDone \/ AwaitReap
  \/ Idle

Spec == Init /\ [][Next]_vars

(* The goroutines and Run's own are scheduled; the command owes nothing.   *)
FairSpec ==
  /\ Spec
  /\ WF_vars(Copy) /\ WF_vars(Wait)
  /\ WF_vars(Start) /\ WF_vars(ReceiveExit \/ ReceiveDone) /\ WF_vars(AwaitReap)

-----------------------------------------------------------------------------
(* Properties.                                                             *)

(* Types: a Result before Run returns is empty and the capture is bounded. *)
TypeOK ==
  /\ timeout \in BOOLEAN /\ groups \in BOOLEAN /\ ctx \in BOOLEAN
  /\ pc \in {"start", "select", "kill", "returned", "failed"}
  /\ doneBy \in {"none", "deadline", "cancel"}
  /\ proc \in [Process -> {"unborn", "group", "escaped", "dead"}]
  /\ piped \subseteq Alive
  /\ exit \in {"none", "ok", "fail", "signal"}
  /\ waitDone \in {"empty", "ok", "fail", "signal", "copy"}
  /\ written \in 0..MaxOutput /\ copied \in 0..written
  /\ copyFailed \in BOOLEAN
  /\ captured \in Seq(1..MaxOutput) /\ Len(captured) <= Limit
  /\ result \in [exit : {-1, 0, 1}, timedOut : BOOLEAN, canceled : BOOLEAN]

(* A timeout or a cancellation leaves no process of the group alive behind *)
(* the Result, on Unix (killProcessGroup before Run returns).              *)
NoSurvivor ==
  (result.timedOut \/ result.canceled) =>
    \A p \in Process : proc[p] = "group" => ~groups /\ p # "sh"

(* Exit code 0 is the shell's own: it ended by itself with 0, was neither  *)
(* timed out nor canceled, and none of its output was lost; the runner     *)
(* takes 0 for success and feeds the captured tail to the LLM otherwise.   *)
ZeroIsSuccess ==
  (pc = "returned" /\ result.exit = 0) =>
    /\ exit = "ok"
    /\ ~result.timedOut /\ ~result.canceled /\ ~copyFailed

(* The Result carries the last Limit bytes of what reached the pipe, and   *)
(* nothing that was written before the command ended is missing from it    *)
(* unless the live writer failed.                                          *)
TailComplete ==
  /\ captured = LastOf(Bytes(0, copied), Limit)
  /\ pc = "returned" => (copyFailed \/ copied = written)

(* Canceled is only said of a canceled ctx and TimedOut only when it still *)
(* was not when Run looked, never both: the runner aborts the plan on the  *)
(* first and goes on to report the second.                                 *)
FlagsHonest ==
  /\ result.canceled => ctx
  /\ result.timedOut => timeout /\ ~ctx
  /\ ~(result.canceled /\ result.timedOut)

(* The processes killProcessGroup does not reach.                          *)
OutOfReach == {p \in Alive : proc[p] = "escaped" \/ (~groups /\ p # "sh")}

(* A timeout or a cancellation ends Run, unless a process out of its reach *)
(* goes on holding the output pipe.                                        *)
Interruptible ==
  (pc = "select" /\ doneBy # "none") ~>
    (pc = "returned" \/ piped \cap OutOfReach # {})

-----------------------------------------------------------------------------
(* What the proofs carry from step to step. *)

(* Once the shell's exit is in the channel, or taken from it, the copying  *)
(* is over for good: nobody is left to write to the pipe, or the live      *)
(* writer has failed.                                                      *)
ReapInv ==
  /\ pc = "start" => proc = [p \in Process |-> "unborn"] /\ exit = "none"
  /\ pc = "select" /\ exit = "none" => proc["sh"] = "group"
  /\ exit # "none" => proc["sh"] = "dead"
  /\ waitDone # "empty" => waitDone \in {exit, "copy"}
  /\ waitDone # "empty" \/ pc = "returned" => exit # "none" /\ CopyingOver
  /\ waitDone = "ok" => ~copyFailed
  /\ pc # "returned" => result = NoResult
  /\ ZeroIsSuccess

(* From the kill on the group stays dead: what is left of it, on Windows   *)
(* only, are helpers.                                                      *)
GroupDead == \A p \in Process : proc[p] = "group" => ~groups /\ p # "sh"

KillInv ==
  /\ pc = "kill" \/ result.timedOut \/ result.canceled => GroupDead
  /\ doneBy = "cancel" => ctx
  /\ doneBy = "deadline" => timeout
  /\ pc = "kill" => doneBy # "none"
  /\ FlagsHonest

(* As the comment on Run says: it blocks until the command exits, ctx is   *)
(* canceled or the timeout elapses, whichever happens first.               *)
ReturnsAtFirst ==
  (pc = "select" /\ (doneBy # "none" \/ exit # "none")) ~> (pc = "returned")

=============================================================================
