------------------------------- MODULE Runner -------------------------------
(***************************************************************************)
(* internal/engine/runner.go: Execute runs one plan under a mode.  One     *)
(* behaviour is one call of Execute, from the plan it is given to the      *)
(* RunSummary it returns, with every branch of the ask and the auto loop,  *)
(* of the confirm prompt and of the self-correction loop as an action.     *)
(* The user, the LLM, the executed commands, the audit file and Ctrl-C are *)
(* the environment.                                                        *)
(***************************************************************************)
EXTENDS Safety, Sequences

CONSTANTS
  MaxCorrections,  \* selfCorrectionMaxAttempts
  Label,           \* the risks the LLM declares
  RunOptions,      \* the RunDeps and modes to start from
  Plans            \* the plans to start from

Options == [mode : {"info", "ask", "auto"},
            confirmDestructive : BOOLEAN, confirmElevated : BOOLEAN,
            yolo : BOOLEAN, preApproved : BOOLEAN,
            audit : {"off", "sound", "failing"}]

(* Steps carry the verdict of the safety engine, or Go's zero value if     *)
(* they never met it.                                                      *)
Checked(c, declared) ==
  [command |-> c, risk |-> declared, decision |-> Evaluate(c, declared)]
Unchecked(c, declared) ==
  [command |-> c, risk |-> declared, decision |-> ZeroDecision]

PlannedStep ==
  {Checked(c, r) : c \in Command, r \in Label} \cup
  {Unchecked(c, r) : c \in Command, r \in Label}

ASSUME RunnerAssumption ==
  /\ Command # {}
  /\ MaxCorrections \in Nat
  /\ Label \subseteq Risk
  /\ RunOptions \subseteq Options
  /\ \A p \in Plans : p \in Seq(PlannedStep)

VARIABLES
  opts,       \* mode and RunDeps of this call; never changes
  plan,       \* the steps
  pc,         \* where Execute is
  i,          \* the step the mode loop is at
  step,       \* that step as the prompt resolved it
  approveRemaining, \* autoApproveRemaining
  attempt,    \* the command about to run or running
  used,       \* correctionsUsed
  outcome,    \* RunSummary.Results by step
  ended,      \* Aborted and AbortReason, or the error Execute returns
  canceled,   \* the context was canceled
  audit,      \* the entries this run appended to the audit log
  started,    \* history: every command handed to the executor
  consent     \* history: every [y]es and [a]ll that counted

vars == <<opts, plan, pc, i, step, approveRemaining, attempt, used, outcome,
          ended, canceled, audit, started, consent>>

-----------------------------------------------------------------------------
(* Steps, decisions and the three exits of a loop iteration. *)

Step == [command : Command, risk : Risk, decision : Decision]
Attempt == [command : Command, risk : Risk, corrected : BOOLEAN]

Blocked(s) == s.decision.action = "block"

(* safety.confirm_* is off for this very class and --yolo was given. *)
Waived(risk) ==
  /\ opts.yolo
  /\ \/ risk = Destructive /\ ~opts.confirmDestructive
     \/ risk = Elevated /\ ~opts.confirmElevated

(* Mutant: [a]ll approves everything that is left. *)
AllCoversEverything(s) ==
  IF opts.mode = "ask"
  THEN ~approveRemaining
  ELSE s.decision.risk \in {Destructive, Elevated} /\ ~Waived(s.decision.risk)

NeedsPrompt(s) ==
  IF opts.mode = "ask"
  THEN ~approveRemaining \/ s.decision.risk >= Elevated
  ELSE s.decision.risk \in {Destructive, Elevated} /\ ~Waived(s.decision.risk)

FirstAttempt(s) ==
  [command |-> s.command, risk |-> s.decision.risk, corrected |-> FALSE]

(* Mutant: the tail begins at the step the loop stopped at. *)
SkipTailFromHere(results) ==
  [j \in DOMAIN plan |-> IF j >= i THEN "skipped" ELSE results[j]]

(* fillSkippedTail: only the steps after the one the loop stopped at. *)
SkipTail(results) ==
  [j \in DOMAIN plan |-> IF j > i THEN "skipped" ELSE results[j]]

Abort(reason, results) ==
  /\ pc' = "done"
  /\ ended' = reason
  /\ outcome' = SkipTail(results)
  /\ UNCHANGED <<i, step, attempt>>

Continue(results) ==
  /\ pc' = "top"
  /\ i' = i + 1
  /\ outcome' = results
  /\ UNCHANGED <<ended, step, attempt>>

(* A Block is recorded and passed over in ask mode, and ends an auto run. *)
ReportBlocked ==
  LET results == [outcome EXCEPT ![i] = "blocked"]
  IN  IF opts.mode = "ask" THEN Continue(results)
                           ELSE Abort("blocked", results)

RunStep(s) ==
  /\ pc' = "start"
  /\ step' = s
  /\ attempt' = FirstAttempt(s)
  /\ UNCHANGED <<i, outcome, ended>>
-----------------------------------------------------------------------------
Init ==
  /\ opts \in RunOptions
  /\ plan \in Plans
  /\ pc = "normalize"
  /\ i = 1
  /\ step = Checked(CHOOSE c \in Command : TRUE, Read)
  /\ attempt = FirstAttempt(step)
  /\ approveRemaining = (opts.mode = "ask" /\ opts.preApproved)
  /\ used = 0
  /\ outcome = [j \in DOMAIN plan |-> "none"]
  /\ ended = "no"
  /\ canceled \in BOOLEAN
  /\ audit = <<>>
  /\ started = <<>>
  /\ consent = {}

history == <<audit, started>>

(* normalizeStepDecisions, then the mode switch: info executes nothing. *)
Normalize ==
  /\ pc = "normalize"
  /\ plan' = [j \in DOMAIN plan |->
                IF plan[j].decision.evaluated THEN plan[j]
                ELSE Checked(plan[j].command, plan[j].risk)]
  /\ pc' = IF opts.mode = "info" THEN "done" ELSE "top"
  /\ UNCHANGED <<opts, i, step, approveRemaining, attempt, used, outcome,
                 ended, canceled, history, consent>>

EndOfPlan ==
  /\ pc = "top"
  /\ i > Len(plan)
  /\ pc' = "done"
  /\ UNCHANGED <<opts, plan, i, step, approveRemaining, attempt, used,
                 outcome, ended, canceled, history, consent>>

(* Mutant: the loop never looks at the context. *)
LoopIgnoresCancel == FALSE

(* The head of the loop: the cancellation check, then the Block check. *)
LoopCanceled == canceled

StepCanceled ==
  /\ pc = "top"
  /\ i <= Len(plan)
  /\ LoopCanceled
  /\ Abort("canceled", outcome)
  /\ UNCHANGED <<opts, plan, approveRemaining, used, canceled, history,
                 consent>>

StepBlocked ==
  /\ pc = "top"
  /\ i <= Len(plan)
  /\ ~LoopCanceled
  /\ Blocked(plan[i])
  /\ ReportBlocked
  /\ UNCHANGED <<opts, plan, approveRemaining, used, canceled, history,
                 consent>>

StepUnprompted ==
  /\ pc = "top"
  /\ i <= Len(plan)
  /\ ~LoopCanceled
  /\ ~Blocked(plan[i])
  /\ ~NeedsPrompt(plan[i])
  /\ RunStep(plan[i])
  /\ UNCHANGED <<opts, plan, approveRemaining, used, canceled, history,
                 consent>>

StepPrompted ==
  /\ pc = "top"
  /\ i <= Len(plan)
  /\ ~LoopCanceled
  /\ ~Blocked(plan[i])
  /\ NeedsPrompt(plan[i])
  /\ pc' = "prompt"
  /\ step' = plan[i]
  /\ UNCHANGED <<opts, plan, i, approveRemaining, attempt, used, outcome,
                 ended, canceled, history, consent>>
-----------------------------------------------------------------------------
(* resolveAskChoice: the confirm loop of one step. *)

ShowPrompt ==
  /\ pc = "prompt"
  /\ ~canceled
  /\ pc' = "asking"
  /\ UNCHANGED <<opts, plan, i, step, approveRemaining, attempt, used,
                 outcome, ended, canceled, history, consent>>

(* Mutant: a prompt on screen outlives its context. *)
PromptOutlivesCancel ==
  /\ pc = "prompt"
  /\ canceled
  /\ Abort("canceled", outcome)
  /\ UNCHANGED <<opts, plan, approveRemaining, used, canceled, history,
                 consent>>

(* Seen at the head of the loop, or as the error of a prompt cut short. *)
PromptCanceled ==
  /\ pc \in {"prompt", "asking"}
  /\ canceled
  /\ Abort("canceled", outcome)
  /\ UNCHANGED <<opts, plan, approveRemaining, used, canceled, history,
                 consent>>

(* Any other prompt error is returned as it is: no tail is filled in. *)
PromptFails ==
  /\ pc = "asking"
  /\ ~canceled
  /\ pc' = "done"
  /\ ended' = "error"
  /\ UNCHANGED <<opts, plan, i, step, approveRemaining, attempt, used,
                 outcome, canceled, history, consent>>

Explain ==
  /\ pc = "asking"
  /\ ~canceled
  /\ pc' = "prompt"
  /\ UNCHANGED <<opts, plan, i, step, approveRemaining, attempt, used,
                 outcome, ended, canceled, history, consent>>

(* Mutant: an edit is taken for an approval. *)
EditRuns(c) ==
  /\ pc = "asking"
  /\ ~canceled
  /\ RunStep(Checked(c, step.risk))
  /\ UNCHANGED <<opts, plan, approveRemaining, used, canceled, history,
                 consent>>

(* The edited text is judged against the risk the plan declared. *)
Edit(c) ==
  /\ pc = "asking"
  /\ ~canceled
  /\ step' = Checked(c, step.risk)
  /\ pc' = "prompt"
  /\ UNCHANGED <<opts, plan, i, approveRemaining, attempt, used, outcome,
                 ended, canceled, history, consent>>

(* [y]es, [n]o or [a]ll: resolveAskChoice returns and the mode loop looks  *)
(* at the resolved step again before it looks at the choice.               *)
Answer(choice) ==
  /\ pc = "asking"
  /\ ~canceled
  /\ CASE Blocked(step) -> ReportBlocked
       [] ~Blocked(step) /\ choice = "no" ->
            Continue([outcome EXCEPT ![i] = "skipped"])
       [] OTHER -> RunStep(step)
  /\ approveRemaining' =
       (approveRemaining \/ (opts.mode = "ask" /\ choice = "all" /\ ~Blocked(step)))
  /\ consent' = IF choice = "no" \/ Blocked(step) THEN consent
                ELSE consent \cup {[index |-> i, command |-> step.command,
                                    choice |-> choice]}
  /\ UNCHANGED <<opts, plan, used, canceled, history>>
-----------------------------------------------------------------------------
(* executeStepWithSelfCorrection and runAndRecord. *)

(* The guard on a Blocked step, or an executor that could not start the    *)
(* command: the run is aborted and the step has no result of its own.      *)
LaunchFails ==
  /\ pc = "start"
  /\ Abort("failed", outcome)
  /\ UNCHANGED <<opts, plan, approveRemaining, used, canceled, history,
                 consent>>

Launch ==
  /\ pc = "start"
  /\ attempt.corrected \/ ~Blocked(step)
  /\ pc' = "running"
  /\ started' = Append(started,
       [index |-> i, command |-> attempt.command,
        corrected |-> attempt.corrected, late |-> canceled])
  /\ UNCHANGED <<opts, plan, i, step, approveRemaining, attempt, used,
                 outcome, ended, canceled, audit, consent>>

(* Mutant: a retry is logged as the command the user confirmed. *)
PlannedEntry == [command |-> step.command, risk |-> step.decision.risk]

AuditEntry == [command |-> attempt.command, risk |-> attempt.risk]

(* appendAudit: a failed write is reported and never stops the run. *)
Record ==
  \/ opts.audit # "off" /\ audit' = Append(audit, AuditEntry)
  \/ opts.audit # "sound" /\ UNCHANGED audit

(* Mutants: one correction too many; a correction that is not counted. *)
BudgetOffByOne == used <= MaxCorrections
ForgetCorrection == UNCHANGED used

BudgetLeft == used < MaxCorrections
SpendCorrection == used' = used + 1

Executed == [outcome EXCEPT ![i] = "executed"]

Succeeds ==
  /\ pc = "running"
  /\ Record
  /\ Continue(Executed)
  /\ UNCHANGED <<opts, plan, approveRemaining, used, canceled, started,
                 consent>>

Killed ==
  /\ pc = "running"
  /\ canceled
  /\ Record
  /\ Abort("canceled", Executed)
  /\ UNCHANGED <<opts, plan, approveRemaining, used, canceled, started,
                 consent>>

(* A nonzero exit, a timeout included, that no correction may follow. *)
FailsForGood ==
  /\ pc = "running"
  /\ canceled \/ ~BudgetLeft
  /\ Record
  /\ Abort("failed", Executed)
  /\ UNCHANGED <<opts, plan, approveRemaining, used, canceled, started,
                 consent>>

FailsOnce ==
  /\ pc = "running"
  /\ ~canceled
  /\ BudgetLeft
  /\ Record
  /\ SpendCorrection
  /\ pc' = "correct"
  /\ UNCHANGED <<opts, plan, i, step, approveRemaining, attempt, outcome,
                 ended, canceled, started, consent>>

(* No usable answer, or a revision on the denylist. *)
CorrectionRefused ==
  /\ pc = "correct"
  /\ Abort("failed", Executed)
  /\ UNCHANGED <<opts, plan, approveRemaining, used, canceled, history,
                 consent>>

(* Mutant: the revision is trusted. *)
AnyRevision(c, declared) == TRUE

Usable(c, declared) == Evaluate(c, declared).action # "block"

Correction(c, declared) ==
  /\ pc = "correct"
  /\ Usable(c, declared)
  /\ attempt' = [command |-> c, risk |-> Evaluate(c, declared).risk,
                 corrected |-> TRUE]
  /\ pc' = "start"
  /\ UNCHANGED <<opts, plan, i, step, approveRemaining, used, outcome, ended,
                 canceled, history, consent>>
-----------------------------------------------------------------------------
Cancel ==
  /\ pc # "done"
  /\ ~canceled
  /\ canceled' = TRUE
  /\ UNCHANGED <<opts, plan, pc, i, step, approveRemaining, attempt, used,
                 outcome, ended, history, consent>>

Returned == pc = "done" /\ UNCHANGED vars

User ==
  \/ PromptFails
  \/ Explain
  \/ \E c \in Command : Edit(c)
  \/ \E choice \in {"yes", "no", "all"} : Answer(choice)

(* What Execute does of itself; the LLM call ends with its context. *)
Proceed ==
  \/ Normalize
  \/ EndOfPlan
  \/ StepCanceled
  \/ StepBlocked
  \/ StepUnprompted
  \/ StepPrompted
  \/ ShowPrompt
  \/ PromptCanceled
  \/ LaunchFails
  \/ Launch
  \/ CorrectionRefused
  \/ \E c \in Command, r \in Label : Correction(c, r)

Exit ==
  \/ Succeeds
  \/ Killed
  \/ FailsForGood
  \/ FailsOnce

Next ==
  \/ Proceed
  \/ User
  \/ Exit
  \/ Cancel
  \/ Returned

(* A command may run, and a user think, for as long as they like; but a    *)
(* canceled command is killed, and Execute itself never rests.             *)
Fairness == WF_vars(Proceed) /\ WF_vars(canceled /\ Exit)

Spec == Init /\ [][Next]_vars
FairSpec == Spec /\ Fairness

-----------------------------------------------------------------------------
TypeOK ==
  /\ opts \in Options
  /\ plan \in Seq(Step)
  /\ pc \in {"normalize", "top", "prompt", "asking", "start", "running",
             "correct", "done"}
  /\ i \in 1..(Len(plan) + 1)
  /\ (pc \notin {"normalize", "top", "done"}) => i <= Len(plan)
  /\ step \in Step
  /\ attempt \in Attempt
  /\ approveRemaining \in BOOLEAN
  /\ used \in 0..MaxCorrections
  /\ outcome \in [DOMAIN plan -> {"none", "executed", "skipped", "blocked"}]
  /\ ended \in {"no", "canceled", "blocked", "failed", "error"}
  /\ canceled \in BOOLEAN
  /\ audit \in Seq([command : Command, risk : Risk])
  /\ started \in Seq([index : 1..Len(plan), command : Command,
                      corrected : BOOLEAN, late : BOOLEAN])
  /\ consent \subseteq [index : 1..Len(plan), command : Command,
                        choice : {"yes", "all"}]

(* Execute's contract: no denylisted command reaches the executor, whether *)
(* it was planned, edited in at the prompt, or proposed as a correction.   *)
NeverDenied ==
  \A k \in 1..Len(started) : started[k].command \notin Denylisted

(* What the user owes to authorise a planned or edited command, judged by  *)
(* the risk the engine gives that exact text: an elevated or destructive   *)
(* one was approved itself, or its class was waived in auto mode; in ask   *)
(* mode any other was approved, or came after an [a]ll.                    *)
ApprovedItself(s) ==
  \E a \in consent : a.index = s.index /\ a.command = s.command

ApprovedBefore(s) ==
  opts.preApproved \/ \E a \in consent : a.choice = "all" /\ a.index < s.index

Authorised(s) ==
  LET risk == Evaluate(s.command, plan[s.index].risk).risk
  IN  \/ ApprovedItself(s)
      \/ opts.mode = "auto" /\ (risk < Elevated \/ Waived(risk))
      \/ opts.mode = "ask" /\ risk < Elevated /\ ApprovedBefore(s)

StartsAuthorised ==
  \A k \in 1..Len(started) :
    ~started[k].corrected => Authorised(started[k])

(* The corrections are bounded over the whole run, not per step, and every *)
(* start beyond one per step is paid for by a correction.                  *)
WithinBudget ==
  /\ Len(started) <= Len(plan) + MaxCorrections
  /\ Len(started) <= i + used

(* Once the context is canceled at most one more command is started: the   *)
(* one whose checks had passed before the cancellation was visible.        *)
OneLateStart ==
  \A k, l \in 1..Len(started) :
    started[k].late /\ started[l].late => k = l

(* With a working audit file every command that has ended is on record, in *)
(* the order it ran, and with no less than the risk its text deserves.     *)
AuditComplete ==
  opts.audit = "sound" =>
    /\ Len(started) = Len(audit) + (IF pc = "running" THEN 1 ELSE 0)
    /\ \A k \in 1..Len(audit) :
         /\ audit[k].command = started[k].command
         /\ audit[k].risk >= EffectiveRisk(started[k].command, Read)

(* The summary tells the truth: a step reported skipped or blocked was     *)
(* never started, one reported executed was; and nothing is started after  *)
(* the step a Block ended an auto run at.                                  *)
StartsOf(j) == {k \in 1..Len(started) : started[k].index = j}

SummaryTruthful ==
  \A j \in DOMAIN plan :
    /\ outcome[j] \in {"skipped", "blocked"} => StartsOf(j) = {}
    /\ outcome[j] = "executed" => StartsOf(j) # {}
    /\ (opts.mode = "auto" /\ outcome[j] = "blocked") =>
         \A k \in 1..Len(started) : started[k].index < j

-----------------------------------------------------------------------------
(* What the proofs carry from step to step.  A step of the plan holds the  *)
(* engine's verdict from the first action on, the step at the prompt holds *)
(* the verdict on its present text, and an attempt is never a denied one   *)
(* and is charged with at least the risk its text deserves.                *)
Engaged == {"prompt", "asking", "start", "running", "correct"}
Attempting == {"start", "running", "correct"}

VerdictInv ==
  /\ \A j \in DOMAIN plan :
       \/ plan[j] = Checked(plan[j].command, plan[j].risk)
       \/ pc = "normalize" /\ plan[j] = Unchecked(plan[j].command, plan[j].risk)
  /\ pc = "normalize" => started = <<>> /\ consent = {}
  /\ pc \notin {"normalize", "done"} => opts.mode \in {"ask", "auto"}
  /\ pc \in Engaged => step = Checked(step.command, plan[i].risk)
  /\ pc \in Attempting =>
       /\ attempt.command \notin Denylisted
       /\ attempt.risk >= EffectiveRisk(attempt.command, Read)
       /\ ~attempt.corrected => attempt = FirstAttempt(step)
  /\ NeverDenied

(* approveRemaining always goes back to an [a]ll at an earlier step, or at *)
(* the one being run.                                                      *)
ConsentInv ==
  /\ approveRemaining =>
       /\ opts.mode = "ask"
       /\ \/ opts.preApproved
          \/ \E a \in consent :
               /\ a.choice = "all"
               /\ a.index < i \/ (a.index = i /\ pc \in Attempting \cup {"done"})
  /\ pc \in Attempting /\ ~attempt.corrected =>
       Authorised([index |-> i, command |-> attempt.command])
  /\ StartsAuthorised

(* One start per step passed, plus the corrections spent; the two places   *)
(* where a correction is spent and its start still to come count one less. *)
BudgetInv ==
  /\ Len(started) <= i + used - (IF pc \in {"running", "done"} THEN 0 ELSE 1)
  /\ Len(started) <= Len(plan) + used

(* After a start the cancellation has overtaken, the loop only gets as far *)
(* as its next look at the context.                                        *)
LateInv ==
  /\ (\E k \in 1..Len(started) : started[k].late) =>
       canceled /\ pc \in {"running", "top", "done"}
  /\ OneLateStart

(* A running command is the one that was started last.                     *)
AuditInv ==
  /\ pc = "running" =>
       started # <<>> /\ started[Len(started)].command = attempt.command
  /\ AuditComplete

(* No step from i on has a result while the loop is at i, and none after   *)
(* it has run; a Block ends an auto run.                                   *)
SummaryInv ==
  /\ pc # "done" => \A j \in DOMAIN plan : j >= i => outcome[j] = "none"
  /\ \A k \in 1..Len(started) : started[k].index <= i
  /\ \/ pc \in {"normalize", "top", "prompt", "asking"}
     \/ pc = "start" /\ ~attempt.corrected
     => \A k \in 1..Len(started) : started[k].index < i
  /\ \/ pc \in {"running", "correct"}
     \/ pc = "start" /\ attempt.corrected
     => StartsOf(i) # {}
  /\ pc # "done" /\ opts.mode = "auto" =>
       \A j \in DOMAIN plan : outcome[j] # "blocked"
  /\ SummaryTruthful

(* A cancellation is always obeyed: the call returns, whoever it was       *)
(* waiting for.                                                            *)
CancelReturns == canceled ~> pc = "done"

(* fillSkippedTail promises that RunSummary "always enumerates every       *)
(* step's fate": an aborted run leaves no step without a result.           *)
EveryFateEnumerated ==
  ended \in {"canceled", "blocked", "failed"} =>
    \A j \in DOMAIN plan : outcome[j] # "none"

(* The README's safety exception: a destructive step always requires       *)
(* confirmation unless confirm_destructive=false meets --yolo; corrections *)
(* are no exception to it.                                                 *)
DestructiveConfirmed ==
  \A k \in 1..Len(started) :
    EffectiveRisk(started[k].command, Read) = Destructive =>
      ApprovedItself(started[k]) \/ Waived(Destructive)

=============================================================================
