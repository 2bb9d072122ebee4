------------------------------ MODULE Planning ------------------------------
(***************************************************************************)
(* From a request to the plan Execute is given: Planner.GeneratePlan with  *)
(* its two corrective re-prompts, Diagnose and DeriveUndo without them,    *)
(* toPlan and the safety verdicts, and the plan-review screen of           *)
(* internal/tui with the re-evaluation loop of internal/cli around it.     *)
(* Where the cursor stands is abstracted: every key acts on any row.       *)
(***************************************************************************)
EXTENDS Safety, Sequences, SequencesExt, Lists

CONSTANTS
  NoCommand,     \* the command whose text is empty
  Label,         \* the risk labels the LLM writes
  MaxAutoSteps,  \* safety.max_auto_steps; 0 is no limit
  RawPlans,      \* the responses of the LLM
  Settings       \* the calls to start from

Unknown == Destructive + 1   \* a label ParseRiskClass does not know

RawStep == [command : Command, label : Label]
Setting == [source : {"do", "fix", "undo"}, mode : {"info", "ask", "auto"},
            planReview : BOOLEAN, review : {"on", "off", "unset"},
            terminal : BOOLEAN]

ASSUME PlanningAssumption ==
  /\ NoCommand \in Command \ Denylisted
  /\ Label \subseteq Risk \cup {Unknown}
  /\ MaxAutoSteps \in Nat
  /\ RawPlans \subseteq Seq(RawStep)
  /\ Settings \subseteq Setting

VARIABLES
  setting,   \* what was called, with which flags and configuration
  pc,        \* where the planning is
  requests,  \* completions asked for
  raw,       \* the response in use
  answer,    \* history: the response the steps were taken from
  truncated, \* the marker of a truncated plan is in the summary
  plan,      \* the plan before the review
  rows,      \* the rows on the screen
  origIdx,   \* the step of plan behind each row the screen started with
  given,     \* the plan handed to Execute
  approved,  \* history: the unskipped rows on the screen at the approval
  refused    \* history: the steps a row showed as Blocked

vars == <<setting, pc, requests, raw, answer, truncated, plan, rows, origIdx,
          given, approved, refused>>
model == <<requests, raw, answer, truncated>>
screen == <<rows, origIdx, approved, refused>>

Init ==
  /\ setting \in Settings
  /\ pc = "request"
  /\ requests = 0
  /\ raw = <<>> /\ answer = <<>> /\ truncated = FALSE
  /\ plan = <<>> /\ rows = <<>> /\ origIdx = <<>> /\ given = <<>>
  /\ approved = <<>> /\ refused = {}

-----------------------------------------------------------------------------
(* The model: GeneratePlan, Diagnose and DeriveUndo.                       *)

TooLong(response) ==
  /\ setting.source = "do"
  /\ MaxAutoSteps > 0
  /\ Len(response) > MaxAutoSteps

UseAgain(response) ==  \* mutant: re-prompted until it fits
  /\ raw' = response
  /\ answer' = response
  /\ pc' = IF TooLong(response) THEN "again" ELSE "convert"

Use(response) ==
  /\ raw' = response
  /\ answer' = response
  /\ pc' = IF TooLong(response) THEN "consolidate" ELSE "convert"

(* requestRawPlan failed: no provider, no JSON, or Ctrl-C.                 *)
RequestFails ==
  /\ pc \in {"request", "again"}
  /\ requests' = requests + 1
  /\ pc' = "failed"
  /\ UNCHANGED <<setting, raw, answer, truncated, plan, screen, given>>

(* An empty plan is an answer to fix and undo; do asks once more.          *)
Request ==
  /\ pc = "request"
  /\ requests' = requests + 1
  /\ \E response \in RawPlans :
       IF response = <<>> /\ setting.source = "do"
       THEN pc' = "again" /\ UNCHANGED <<raw, answer>>
       ELSE Use(response)
  /\ UNCHANGED <<setting, truncated, plan, screen, given>>

RequestAgain ==
  /\ pc = "again"
  /\ requests' = requests + 1
  /\ \E response \in RawPlans :
       IF response = <<>>
       THEN pc' = "failed" /\ UNCHANGED <<raw, answer>>
       ELSE Use(response)
  /\ UNCHANGED <<setting, truncated, plan, screen, given>>

(* raw.Steps[:maxSteps] with the marker for it.                            *)
CutSilently(response) == [steps |-> response, marked |-> FALSE]  \* mutant
Cut(response) ==
  IF Len(response) > MaxAutoSteps
  THEN [steps |-> SubSeq(response, 1, MaxAutoSteps), marked |-> TRUE]
  ELSE [steps |-> response, marked |-> FALSE]

(* The consolidated plan is used if there is one, the first one otherwise. *)
Consolidate ==
  /\ pc = "consolidate"
  /\ requests' = requests + 1
  /\ \E response \in RawPlans :
       LET best == IF response = <<>> THEN raw ELSE response
       IN  /\ answer' = best
           /\ raw' = Cut(best).steps
           /\ truncated' = Cut(best).marked
  /\ pc' = "convert"
  /\ UNCHANGED <<setting, plan, screen, given>>

-----------------------------------------------------------------------------
(* toPlan, and the verdict on every step.  "from" stands for the rationale *)
(* and the reversibility the LLM gave with the step.                       *)

DeclaredTrustingly(label) == IF label = Unknown THEN Read ELSE label  \* mutant
Declared(label) == IF label = Unknown THEN Destructive ELSE label

Step(command, risk, from, decision) ==
  [command |-> command, risk |-> risk, from |-> from, decision |-> decision]

ToPlan(response) ==
  [k \in DOMAIN response |->
     LET risk == Declared(response[k].label)
     IN  Step(response[k].command, risk, k,
              Evaluate(response[k].command, risk))]

Blocked(step) == step.decision.action = "block"

(* planToReviewSteps, newPlanReviewRows.  "of" is the step a row really    *)
(* came from, which the code does not have: it only knows "original", the  *)
(* row's position when the screen was started.                             *)
Row(command, original, of, blocked) ==
  [command |-> command, original |-> original, of |-> of,
   blocked |-> blocked, skipped |-> FALSE]

RowsOf(p) == [k \in DOMAIN p |-> Row(p[k].command, k, p[k].from, Blocked(p[k]))]

ShownBlocked(rs) == {r.of : r \in {x \in ToSet(rs) : x.blocked}}

(* shouldShowPlanReview; undo has no review.                               *)
ShowReview(p) ==
  /\ setting.source # "undo"
  /\ setting.review # "off"
  /\ setting.mode # "info" /\ setting.terminal /\ Len(p) >= 2
  /\ setting.review = "on" \/ (setting.mode = "ask" /\ setting.planReview)

(* A step without a command fails the whole plan; an undo that found       *)
(* nothing to do is refused.                                               *)
Convert ==
  /\ pc = "convert"
  /\ LET p == ToPlan(raw) IN
       IF \E k \in DOMAIN raw : raw[k].command = NoCommand
       THEN pc' = "failed" /\ UNCHANGED <<plan, given, screen>>
       ELSE /\ plan' = p
            /\ IF ShowReview(p)
               THEN /\ pc' = "review"
                    /\ rows' = RowsOf(p)
                    /\ origIdx' = [k \in DOMAIN p |-> k]
                    /\ refused' = ShownBlocked(RowsOf(p))
                    /\ UNCHANGED <<given, approved>>
               ELSE /\ pc' = IF setting.source = "undo" /\ p = <<>>
                             THEN "failed" ELSE "handed"
                    /\ given' = p
                    /\ UNCHANGED screen
  /\ UNCHANGED <<setting, model>>

-----------------------------------------------------------------------------
(* The screen: planReviewModel.Update.                                     *)

Reviewing(newRows) ==
  /\ pc = "review"
  /\ rows' = newRows
  /\ UNCHANGED <<setting, pc, model, plan, origIdx, given, approved, refused>>

(* moveRowDown(k), which is moveRowUp(k + 1).                              *)
Move(k) ==
  /\ k + 1 \in DOMAIN rows
  /\ Reviewing([rows EXCEPT ![k] = rows[k + 1], ![k + 1] = rows[k]])

ToggleSkip(k) == Reviewing([rows EXCEPT ![k].skipped = ~@])

Delete(k) == Reviewing(RemoveAt(rows, k))

CanEditAny(k) == TRUE  \* mutant
CanEdit(k) == ~rows[k].blocked

(* Any text can be typed, none included; esc leaves the row as it is.      *)
Edit(k, command) ==
  /\ pc = "review"
  /\ CanEdit(k)
  /\ Reviewing([rows EXCEPT ![k].command = command])

CancelReview ==
  /\ pc = "review"
  /\ pc' = "failed"
  /\ UNCHANGED <<setting, model, plan, screen, given>>

-----------------------------------------------------------------------------
(* resolveReviewPass.                                                      *)

Unskipped(rs) == Picked(rs, {k \in DOMAIN rs : ~rs[k].skipped})

(* An edited command gets a verdict of its own, against the risk the LLM   *)
(* declared for the step; an unedited one keeps the verdict it has.        *)
VerdictKept(command, original) == original.decision  \* mutant
Verdict(command, original) ==
  IF command = original.command THEN original.decision
  ELSE Evaluate(command, original.risk)

Resolved(r) ==
  LET original == plan[origIdx[r.original]]
  IN  Step(r.command, original.risk, original.from,
           Verdict(r.command, original))

Final(rs) == [k \in DOMAIN rs |-> Resolved(rs[k])]

(* nextOrigIdx: where the rows of the next pass come from.                 *)
IndexKept(rs) == [k \in DOMAIN rs |-> rs[k].original]  \* mutant
NextIndex(rs) == [k \in DOMAIN rs |-> origIdx[rs[k].original]]

(* A newly blocked command puts the screen up again, without the skipped   *)
(* rows; otherwise the run starts, pre-approved.                           *)
Approve ==
  /\ pc = "review"
  /\ LET kept == Unskipped(rows)
         final == Final(kept)
         again == [k \in DOMAIN kept |-> Row(kept[k].command, k, kept[k].of,
                                             Blocked(final[k]))]
     IN  IF \E k \in DOMAIN final : Blocked(final[k])
         THEN /\ rows' = again
              /\ origIdx' = NextIndex(kept)
              /\ refused' = refused \cup ShownBlocked(again)
              /\ UNCHANGED <<pc, given, approved>>
         ELSE /\ pc' = "approved"
              /\ given' = final
              /\ approved' = kept
              /\ UNCHANGED <<rows, origIdx, refused>>
  /\ UNCHANGED <<setting, model, plan>>

Done ==
  /\ pc \in {"handed", "approved", "failed"}
  /\ UNCHANGED vars

Next ==
  \/ Request \/ RequestFails \/ RequestAgain \/ Consolidate \/ Convert
  \/ \E k \in DOMAIN rows :
       \/ Move(k) \/ ToggleSkip(k) \/ Delete(k)
       \/ \E command \in Command : Edit(k, command)
  \/ CancelReview \/ Approve
  \/ Done

Spec == Init /\ [][Next]_vars

-----------------------------------------------------------------------------
(* Properties.                                                             *)

Handed == pc \in {"handed", "approved"}

(* Whatever way a plan took, through re-prompts, truncation, reordering    *)
(* and edits, each step Execute is given carries the safety engine's own   *)
(* verdict on its own command and on the risk the LLM declared for it,     *)
(* destructive if the label was none.                                      *)
VerdictsTrue ==
  Handed =>
    \A k \in DOMAIN given :
      LET label == answer[given[k].from].label
      IN  /\ given[k].risk = IF label = Unknown THEN Destructive ELSE label
          /\ given[k].decision = Evaluate(given[k].command, given[k].risk)

(* What runs after a review is what the screen showed at the approval: the *)
(* same commands in the same order, each with the rationale and the        *)
(* reversibility of the step its row came from, through any number of      *)
(* passes with rows moved, skipped and deleted.  And no step the review    *)
(* ever showed as Blocked is among them: it can be skipped or deleted, not *)
(* edited into something that runs.                                        *)
RunsWhatWasShown ==
  pc = "approved" =>
    /\ Len(given) = Len(approved)
    /\ \A k \in DOMAIN given : /\ given[k].command = approved[k].command
                               /\ given[k].from = approved[k].of
                               /\ given[k].from \notin refused

(* `do` never hands over more steps than safety.max_auto_steps, and a plan *)
(* with fewer steps than the model answered says so in its summary.  It is *)
(* asked at most three times for one, and once only for fix and undo.      *)
NothingCutSilently ==
  /\ requests <= IF setting.source = "do" THEN 3 ELSE 1
  /\ Handed /\ setting.source = "do" =>
    /\ MaxAutoSteps > 0 => Len(plan) <= MaxAutoSteps
    /\ Len(plan) < Len(answer) <=> truncated

=============================================================================
