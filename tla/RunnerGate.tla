----------------------------- MODULE RunnerGate -----------------------------
(***************************************************************************)
(* Runner under the refinement mapping to ConsentGate.                     *)
(***************************************************************************)
EXTENDS Runner, FiniteSets

Gate == INSTANCE ConsentGate WITH
          mode <- opts.mode,
          waived <- {r \in Risk : Waived(r)},
          preApproved <- opts.preApproved,
          declared <- [j \in DOMAIN plan |-> plan[j].risk],
          granted <- consent,
          ran <- started,
          over <- pc = "done"

(* Execute implements the promise: whatever it starts, it starts in plan   *)
(* order, with the consent that command needs or as one of the budgeted    *)
(* retries of the step at hand, and never after it has returned.           *)
HonoursConsent == Gate!Spec

-----------------------------------------------------------------------------
(* What the proof of HonoursConsent carries from step to step.  The step   *)
(* the loop is at is later than every step that ran, until it runs itself; *)
(* a correction is always one of the step that ran last.                   *)
OrderInv ==
  /\ pc \in {"normalize", "top", "prompt", "asking"} => Gate!LastIndex < i
  /\ pc = "start" /\ ~attempt.corrected => Gate!LastIndex < i
  /\ \/ pc \in {"running", "correct"}
     \/ pc = "start" /\ attempt.corrected
     => started # <<>> /\ Gate!LastIndex = i

(* Every retry was paid for, and the one about to be asked for or started  *)
(* as well.                                                                *)
RetryDue == pc = "correct" \/ (pc = "start" /\ attempt.corrected)

RetryInv ==
  /\ IsFiniteSet(Gate!Retries)
  /\ Cardinality(Gate!Retries) + (IF RetryDue THEN 1 ELSE 0) <= used

=============================================================================
