---------------------------- MODULE RunnerProofs ----------------------------
(***************************************************************************)
(* What holds of Runner for every set of commands, denylist, rules, plans, *)
(* options and correction budget; and that Runner implements ConsentGate,  *)
(* that what Execute tells of a run is true, and that a cancellation is    *)
(* obeyed.                                                                 *)
(***************************************************************************)
EXTENDS RunnerGate, SequenceTheorems, FiniteSetTheorems, TLAPS

-----------------------------------------------------------------------------
(* The verdict of the engine. *)

LEMMA EvaluateType ==
  ASSUME NEW c \in Command, NEW r \in Risk
  PROVE  /\ Evaluate(c, r) \in Decision
         /\ EffectiveRisk(c, r) \in Risk
         /\ EffectiveRisk(c, r) >= EffectiveRisk(c, Read)
         /\ Evaluate(c, r).evaluated
         /\ Evaluate(c, r).risk >= EffectiveRisk(c, r)
         /\ Evaluate(c, r).action = "block" <=> c \in Denylisted
         /\ c \notin Denylisted => Evaluate(c, r).risk = EffectiveRisk(c, r)
BY SafetyAssumption
   DEF Evaluate, EffectiveRisk, Highest, Decision, Risk, Read, Elevated,
       Destructive

LEMMA CheckedType ==
  ASSUME NEW c \in Command, NEW r \in Risk
  PROVE  /\ Checked(c, r) \in Step
         /\ Unchecked(c, r) \in Step
         /\ Checked(c, r).command = c
         /\ Checked(c, r).risk = r
         /\ Checked(c, r).decision = Evaluate(c, r)
         /\ FirstAttempt(Checked(c, r)) \in Attempt
<1>1. ZeroDecision \in Decision
  BY DEF ZeroDecision, Decision, Risk, Read, Destructive
<1>2. QED
  BY <1>1, EvaluateType
     DEF Checked, Unchecked, Step, FirstAttempt, Attempt, Decision

LEMMA PlanType ==
  ASSUME NEW p \in Plans
  PROVE  p \in Seq(Step)
<1>1. PlannedStep \subseteq Step
  <2>1. \A c \in Command, r \in Risk :
          Checked(c, r) \in Step /\ Unchecked(c, r) \in Step
    BY CheckedType
  <2>2. Label \subseteq Risk
    BY RunnerAssumption
  <2>3. QED
    BY <2>1, <2>2 DEF PlannedStep
<1>2. p \in Seq(PlannedStep)
  BY RunnerAssumption
<1>3. QED
  BY <1>1, <1>2, SeqMonotonic

LEMMA AttemptType ==
  ASSUME NEW s \in Step
  PROVE  FirstAttempt(s) \in Attempt
BY DEF Step, Decision, FirstAttempt, Attempt

-----------------------------------------------------------------------------
(* Type correctness. *)

Results == {"none", "executed", "skipped", "blocked"}

LEMMA AbortType ==
  ASSUME TypeOK, i <= Len(plan), plan' = plan,
         NEW reason \in {"canceled", "blocked", "failed"},
         NEW results \in [DOMAIN plan -> Results],
         Abort(reason, results)
  PROVE  /\ pc' = "done" /\ i' = i /\ step' = step /\ attempt' = attempt
         /\ ended' = reason
         /\ outcome' \in [DOMAIN plan -> Results]
BY DEF Abort, SkipTail, Results

LEMMA ContinueType ==
  ASSUME TypeOK, i <= Len(plan), plan' = plan,
         NEW results \in [DOMAIN plan -> Results],
         Continue(results)
  PROVE  /\ pc' = "top" /\ i' = i + 1 /\ step' = step /\ attempt' = attempt
         /\ ended' = ended
         /\ i' \in 1..(Len(plan) + 1)
         /\ outcome' \in [DOMAIN plan -> Results]
<1>1. Len(plan) \in Nat
  BY LenProperties DEF TypeOK
<1>2. QED
  BY <1>1 DEF Continue, TypeOK

LEMMA TypeStep ==
  TypeOK /\ [Next]_vars => TypeOK'
<1> USE RunnerAssumption
<1> SUFFICES ASSUME TypeOK, [Next]_vars PROVE TypeOK'
  OBVIOUS
<1>0. Len(plan) \in Nat /\ DOMAIN plan = 1..Len(plan)
  BY LenProperties DEF TypeOK
<1> DEFINE Log == [command : Command, risk : Risk]
           Start == [index : 1..Len(plan), command : Command,
                     corrected : BOOLEAN, late : BOOLEAN]
<1>a. ASSUME i <= Len(plan) PROVE plan[i] \in Step /\ i \in DOMAIN plan
  BY <1>a, <1>0 DEF TypeOK
<1>b. ASSUME i <= Len(plan), NEW r \in Results
      PROVE  [outcome EXCEPT ![i] = r] \in [DOMAIN plan -> Results]
  BY <1>b DEF TypeOK, Results
<1>c. ASSUME Record PROVE audit' \in Seq(Log)
  <2>1. AuditEntry \in Log /\ audit \in Seq(Log)
    BY DEF AuditEntry, TypeOK, Attempt
  <2>2. Append(audit, AuditEntry) \in Seq(Log)
    BY <2>1, AppendProperties
  <2>3. QED
    BY <1>c, <2>1, <2>2 DEF Record
<1>d. ASSUME ReportBlocked, i <= Len(plan), plan' = plan
      PROVE  /\ pc' \in {"top", "done"} /\ i' \in 1..(Len(plan) + 1)
             /\ step' = step /\ attempt' = attempt
             /\ ended' \in {"blocked", ended}
             /\ outcome' \in [DOMAIN plan -> Results]
  <2> DEFINE r == [outcome EXCEPT ![i] = "blocked"]
  <2>1. r \in [DOMAIN plan -> Results]
    BY <1>b, <1>d DEF Results
  <2>2. CASE opts.mode = "ask"
    BY <2>1, <2>2, <1>d, ContinueType DEF ReportBlocked
  <2>3. CASE opts.mode # "ask"
    BY <2>1, <2>3, <1>d, AbortType DEF ReportBlocked, TypeOK
  <2>4. QED
    BY <2>2, <2>3
<1>1. CASE Normalize
  <2>1. plan' \in Seq(Step) /\ Len(plan') = Len(plan)
                            /\ DOMAIN plan' = DOMAIN plan
    <3>1. \A j \in DOMAIN plan : plan'[j] \in Step
      <4> SUFFICES ASSUME NEW j \in DOMAIN plan PROVE plan'[j] \in Step
        OBVIOUS
      <4>1. plan[j] \in Step
        BY <1>0, ElementOfSeq DEF TypeOK
      <4>2. Checked(plan[j].command, plan[j].risk) \in Step
        BY <4>1, CheckedType DEF Step
      <4>3. QED
        BY <4>1, <4>2, <1>1 DEF Normalize
    <3>2. plan' \in [1..Len(plan) -> Step]
      BY <3>1, <1>0, <1>1 DEF Normalize
    <3>3. QED
      BY <3>2, <1>0, SeqDef, LenProperties
  <2>2. QED
    BY <2>1, <1>1, <1>0 DEF Normalize, TypeOK, history
<1>2. CASE EndOfPlan
  BY <1>2, <1>0 DEF EndOfPlan, TypeOK, history
<1>3. CASE StepCanceled
  BY <1>3, <1>0, AbortType DEF StepCanceled, TypeOK, history, Results
<1>4. CASE StepBlocked
  BY <1>4, <1>0, <1>d DEF StepBlocked, TypeOK, history, Results
<1>5. CASE StepUnprompted
  BY <1>5, <1>0, <1>a, AttemptType
     DEF StepUnprompted, RunStep, TypeOK, history
<1>6. CASE StepPrompted
  BY <1>6, <1>0, <1>a DEF StepPrompted, TypeOK, history
<1>7. CASE ShowPrompt
  BY <1>7, <1>0 DEF ShowPrompt, TypeOK, history
<1>8. CASE PromptCanceled
  BY <1>8, <1>0, AbortType DEF PromptCanceled, TypeOK, history, Results
<1>9. CASE LaunchFails
  BY <1>9, <1>0, AbortType DEF LaunchFails, TypeOK, history, Results
<1>10. CASE Launch
  <2>1. started' \in Seq(Start)
    BY <1>10, <1>0 DEF Launch, TypeOK, Attempt
  <2>2. QED
    BY <2>1, <1>10, <1>0 DEF Launch, TypeOK
<1>11. CASE CorrectionRefused
  BY <1>11, <1>0, <1>b, AbortType
     DEF CorrectionRefused, Executed, TypeOK, history, Results
<1>12. ASSUME NEW c \in Command, NEW r \in Label, Correction(c, r)
       PROVE  TypeOK'
  <2>1. Evaluate(c, r) \in Decision
    BY EvaluateType
  <2>2. attempt' \in Attempt
    BY <2>1, <1>12 DEF Correction, Attempt, Decision
  <2>3. QED
    BY <2>2, <1>12, <1>0 DEF Correction, TypeOK, history
<1>13. CASE PromptFails
  BY <1>13, <1>0 DEF PromptFails, TypeOK, history
<1>14. CASE Explain
  BY <1>14, <1>0 DEF Explain, TypeOK, history
<1>15. ASSUME NEW c \in Command, Edit(c)
       PROVE  TypeOK'
  <2>1. step' \in Step
    BY <1>15, CheckedType DEF Edit, TypeOK, Step
  <2>2. QED
    BY <2>1, <1>15, <1>0 DEF Edit, TypeOK, history
<1>16. ASSUME NEW choice \in {"yes", "no", "all"}, Answer(choice)
       PROVE  TypeOK'
  <2>0. i <= Len(plan) /\ plan' = plan
    BY <1>16 DEF Answer, TypeOK
  <2>1. consent' \subseteq [index : 1..Len(plan), command : Command,
                            choice : {"yes", "all"}]
    BY <1>16, <1>0, <2>0 DEF Answer, TypeOK, Step
  <2>2. CASE Blocked(step)
    BY <2>0, <2>1, <2>2, <1>16, <1>0, <1>d
       DEF Answer, TypeOK, history, Results
  <2>3. CASE ~Blocked(step) /\ choice = "no"
    BY <2>0, <2>1, <2>3, <1>16, <1>0, <1>b, ContinueType
       DEF Answer, TypeOK, history, Results
  <2>4. CASE ~Blocked(step) /\ choice # "no"
    BY <2>0, <2>1, <2>4, <1>16, <1>0, AttemptType
       DEF Answer, RunStep, TypeOK, history
  <2>5. QED
    BY <2>2, <2>3, <2>4
<1>17. CASE Succeeds
  BY <1>17, <1>0, <1>b, <1>c, ContinueType
     DEF Succeeds, Executed, TypeOK, Results
<1>18. CASE Killed
  BY <1>18, <1>0, <1>b, <1>c, AbortType
     DEF Killed, Executed, TypeOK, Results
<1>19. CASE FailsForGood
  BY <1>19, <1>0, <1>b, <1>c, AbortType
     DEF FailsForGood, Executed, TypeOK, Results
<1>20. CASE FailsOnce
  BY <1>20, <1>0, <1>c
     DEF FailsOnce, BudgetLeft, SpendCorrection, TypeOK
<1>21. CASE Cancel
  BY <1>21, <1>0 DEF Cancel, TypeOK, history
<1>22. CASE UNCHANGED vars
  BY <1>22 DEF vars, TypeOK
<1>23. QED
  BY <1>1, <1>2, <1>3, <1>4, <1>5, <1>6, <1>7, <1>8, <1>9, <1>10, <1>11,
     <1>12, <1>13, <1>14, <1>15, <1>16, <1>17, <1>18, <1>19, <1>20, <1>21,
     <1>22
     DEF Next, Proceed, User, Exit, Returned

(* Every variable keeps its type: in particular the loop index stays in    *)
(* the plan and the corrections stay within selfCorrectionMaxAttempts.     *)
THEOREM TypeCorrect == Spec => []TypeOK
<1> USE RunnerAssumption
<1>1. Init => TypeOK
  <2> SUFFICES ASSUME Init PROVE TypeOK
    OBVIOUS
  <2>1. plan \in Seq(Step) /\ Len(plan) \in Nat
    BY PlanType, LenProperties DEF Init
  <2>2. step \in Step /\ attempt \in Attempt
    <3>1. (CHOOSE c \in Command : TRUE) \in Command
      OBVIOUS
    <3>2. Read \in Risk
      BY DEF Read, Risk, Destructive
    <3>3. QED
      BY <3>1, <3>2, CheckedType DEF Init
  <2>3. QED
    BY <2>1, <2>2, EmptySeq DEF Init, TypeOK, Options
<1>2. QED
  BY <1>1, TypeStep, PTL DEF Spec

-----------------------------------------------------------------------------
(* No denylisted command is ever started.                                  *)

(* What the engine lets through is not on the denylist, and the attempt    *)
(* made from it is charged with at least its own risk.                     *)
LEMMA FirstAttemptSound ==
  ASSUME NEW c \in Command, NEW r \in Risk,
         ~Blocked(Checked(c, r))
  PROVE  /\ FirstAttempt(Checked(c, r)).command = c
         /\ FirstAttempt(Checked(c, r)).risk >= EffectiveRisk(c, Read)
         /\ FirstAttempt(Checked(c, r)).corrected = FALSE
         /\ c \notin Denylisted
         /\ Checked(c, r).decision.risk = EffectiveRisk(c, r)
<1>1. Checked(c, r).decision = Evaluate(c, r) /\ Checked(c, r).command = c
  BY CheckedType
<1>2. c \notin Denylisted
  BY <1>1, EvaluateType DEF Blocked
<1>3. /\ Evaluate(c, r).risk = EffectiveRisk(c, r)
      /\ EffectiveRisk(c, r) >= EffectiveRisk(c, Read)
  BY <1>2, EvaluateType
<1>4. QED
  BY <1>1, <1>2, <1>3 DEF FirstAttempt

LEMMA VerdictStep ==
  TypeOK /\ VerdictInv /\ [Next]_vars => VerdictInv'
<1> SUFFICES ASSUME TypeOK, VerdictInv, [Next]_vars PROVE VerdictInv'
  OBVIOUS
<1> USE DEF Engaged, Attempting
<1>0. Len(plan) \in Nat /\ DOMAIN plan = 1..Len(plan)
  BY LenProperties DEF TypeOK
<1>a. \A j \in DOMAIN plan : plan[j] \in Step
  BY <1>0, ElementOfSeq DEF TypeOK
<1>b. ASSUME pc # "normalize"
      PROVE  \A j \in DOMAIN plan :
               plan[j] = Checked(plan[j].command, plan[j].risk)
  BY <1>b DEF VerdictInv
<1>c. step \in Step
  BY DEF TypeOK
<1>1. CASE Normalize
  <2>1. DOMAIN plan' = DOMAIN plan
    BY <1>1 DEF Normalize
  <2>2. ASSUME NEW j \in DOMAIN plan
        PROVE  plan'[j] = Checked(plan'[j].command, plan'[j].risk)
    <3>1. plan[j] \in Step
      BY <1>a
    <3>2. CASE plan[j].decision.evaluated
      <4>1. plan[j] # Unchecked(plan[j].command, plan[j].risk)
        BY <3>2 DEF Unchecked, ZeroDecision
      <4>2. QED
        BY <3>2, <4>1, <1>1 DEF Normalize, VerdictInv
    <3>3. CASE ~plan[j].decision.evaluated
      BY <3>1, <3>3, <1>1, CheckedType DEF Normalize, Step
    <3>4. QED
      BY <3>2, <3>3
  <2>3. QED
    <3>1. opts.mode \in {"info", "ask", "auto"}
      BY DEF TypeOK, Options
    <3>2. QED
      BY <3>1, <2>1, <2>2, <1>1
         DEF Normalize, VerdictInv, NeverDenied, history
<1>2. CASE EndOfPlan
  BY <1>2, <1>b DEF EndOfPlan, VerdictInv, NeverDenied, history
<1>3. CASE StepCanceled
  BY <1>3, <1>b DEF StepCanceled, Abort, VerdictInv, NeverDenied, history
<1>4. CASE StepBlocked
  BY <1>4, <1>b DEF StepBlocked, ReportBlocked, Abort, Continue, VerdictInv,
                    NeverDenied, history
<1>5. CASE StepUnprompted
  <2>1. i \in DOMAIN plan
    BY <1>5, <1>0 DEF StepUnprompted, TypeOK
  <2>2. plan[i] = Checked(plan[i].command, plan[i].risk)
    BY <2>1, <1>5, <1>b DEF StepUnprompted
  <2>3. plan[i].command \in Command /\ plan[i].risk \in Risk
    BY <2>1, <1>a DEF Step
  <2>4. /\ FirstAttempt(plan[i]).command = plan[i].command
        /\ FirstAttempt(plan[i]).risk >= EffectiveRisk(plan[i].command, Read)
        /\ plan[i].command \notin Denylisted
    BY <2>2, <2>3, <1>5, FirstAttemptSound, ZenonT(30) DEF StepUnprompted
  <2>5. QED
    BY <2>2, <2>4, <1>5, <1>b
       DEF StepUnprompted, RunStep, VerdictInv, NeverDenied, history
<1>6. CASE StepPrompted
  <2>1. i \in DOMAIN plan
    BY <1>6, <1>0 DEF StepPrompted, TypeOK
  <2>2. QED
    BY <2>1, <1>6, <1>b DEF StepPrompted, VerdictInv, NeverDenied, history
<1>7. CASE ShowPrompt
  BY <1>7, <1>b DEF ShowPrompt, VerdictInv, NeverDenied, history
<1>8. CASE PromptCanceled
  BY <1>8, <1>b DEF PromptCanceled, Abort, VerdictInv, NeverDenied, history
<1>9. CASE LaunchFails
  BY <1>9, <1>b DEF LaunchFails, Abort, VerdictInv, NeverDenied, history
<1>10. CASE Launch
  <2> DEFINE s == [index |-> i, command |-> attempt.command,
                   corrected |-> attempt.corrected, late |-> canceled]
             Start == [index : 1..Len(plan), command : Command,
                       corrected : BOOLEAN, late : BOOLEAN]
  <2>1. s \in Start /\ started \in Seq(Start)
    BY <1>10, <1>0 DEF Launch, TypeOK, Attempt
  <2>2. s.command \notin Denylisted
    BY <1>10 DEF Launch, VerdictInv
  <2>3. NeverDenied'
    BY <2>1, <2>2, <1>10, AppendProperties
       DEF Launch, NeverDenied, VerdictInv
  <2>4. QED
    BY <2>3, <1>10, <1>b DEF Launch, VerdictInv
<1>11. CASE CorrectionRefused
  BY <1>11, <1>b DEF CorrectionRefused, Abort, VerdictInv, NeverDenied, history
<1>12. ASSUME NEW c \in Command, NEW r \in Label, Correction(c, r)
       PROVE  VerdictInv'
  <2>1. r \in Risk
    BY RunnerAssumption
  <2>2. c \notin Denylisted
    BY <2>1, <1>12, EvaluateType DEF Correction, Usable
  <2>3. Evaluate(c, r).risk >= EffectiveRisk(c, Read)
    <3>1. EffectiveRisk(c, r) \in Nat /\ EffectiveRisk(c, Read) \in Nat
      BY <2>1, EvaluateType DEF Risk, Read, Destructive
    <3>2. QED
      BY <3>1, <2>1, <2>2, EvaluateType
  <2>4. QED
    BY <2>2, <2>3, <1>12, <1>b DEF Correction, VerdictInv, NeverDenied, history
<1>13. CASE PromptFails
  BY <1>13, <1>b DEF PromptFails, VerdictInv, NeverDenied, history
<1>14. CASE Explain
  BY <1>14, <1>b DEF Explain, VerdictInv, NeverDenied, history
<1>15. ASSUME NEW c \in Command, Edit(c)
       PROVE  VerdictInv'
  <2>1. step.risk = plan[i].risk
    <3>1. step = Checked(step.command, plan[i].risk)
      BY <1>15 DEF Edit, VerdictInv
    <3>2. QED
      BY <3>1 DEF Checked
  <2>2. step' = Checked(step'.command, plan[i].risk)
    BY <2>1, <1>15 DEF Edit, Checked
  <2>3. QED
    BY <2>2, <1>15, <1>b DEF Edit, VerdictInv, NeverDenied, history
<1>16. ASSUME NEW choice \in {"yes", "no", "all"}, Answer(choice)
       PROVE  VerdictInv'
  <2>1. CASE Blocked(step)
    BY <2>1, <1>16, <1>b
       DEF Answer, ReportBlocked, Abort, Continue, VerdictInv, NeverDenied,
           history
  <2>2. CASE ~Blocked(step) /\ choice = "no"
    BY <2>2, <1>16, <1>b
       DEF Answer, Continue, VerdictInv, NeverDenied, history
  <2>3. CASE ~Blocked(step) /\ choice # "no"
    <3>0. i \in DOMAIN plan
      BY <1>16, <1>0 DEF Answer, TypeOK
    <3>1. step = Checked(step.command, plan[i].risk)
      BY <1>16 DEF Answer, VerdictInv
    <3>2. step.command \in Command /\ plan[i].risk \in Risk
      BY <3>0, <1>a, <1>c DEF Step
    <3>3. /\ FirstAttempt(step).command = step.command
          /\ FirstAttempt(step).risk >= EffectiveRisk(step.command, Read)
          /\ step.command \notin Denylisted
      BY <3>1, <3>2, <2>3, FirstAttemptSound
    <3>4. step' = step /\ attempt' = FirstAttempt(step) /\ pc' = "start"
                      /\ plan' = plan /\ i' = i /\ started' = started
      BY <2>3, <1>16 DEF Answer, RunStep, history
    <3>5. QED
      BY <3>1, <3>3, <3>4, <1>16, <1>b DEF Answer, VerdictInv, NeverDenied
  <2>4. QED
    BY <2>1, <2>2, <2>3
<1>17. CASE Succeeds
  BY <1>17, <1>b DEF Succeeds, Continue, VerdictInv, NeverDenied
<1>18. CASE Killed
  BY <1>18, <1>b DEF Killed, Abort, VerdictInv, NeverDenied
<1>19. CASE FailsForGood
  BY <1>19, <1>b DEF FailsForGood, Abort, VerdictInv, NeverDenied
<1>20. CASE FailsOnce
  BY <1>20, <1>b DEF FailsOnce, VerdictInv, NeverDenied
<1>21. CASE Cancel
  BY <1>21 DEF Cancel, VerdictInv, NeverDenied, history
<1>22. CASE UNCHANGED vars
  BY <1>22 DEF vars, VerdictInv, NeverDenied
<1>23. QED
  BY <1>1, <1>2, <1>3, <1>4, <1>5, <1>6, <1>7, <1>8, <1>9, <1>10, <1>11,
     <1>12, <1>13, <1>14, <1>15, <1>16, <1>17, <1>18, <1>19, <1>20, <1>21,
     <1>22
     DEF Next, Proceed, User, Exit, Returned

LEMMA VerdictInit ==
  Init => VerdictInv
<1> SUFFICES ASSUME Init PROVE VerdictInv
  OBVIOUS
<1>1. ASSUME NEW j \in DOMAIN plan
      PROVE  plan[j] \in PlannedStep
  BY RunnerAssumption, LenProperties, ElementOfSeq DEF Init
<1>2. ASSUME NEW j \in DOMAIN plan
      PROVE  \/ plan[j] = Checked(plan[j].command, plan[j].risk)
             \/ plan[j] = Unchecked(plan[j].command, plan[j].risk)
  BY <1>1 DEF PlannedStep, Checked, Unchecked
<1>3. QED
  BY <1>2 DEF Init, VerdictInv, NeverDenied, Engaged, Attempting

(* Execute never hands a denylisted command to the executor, however it    *)
(* came about: planned, left unevaluated by its caller, edited in at the   *)
(* prompt, or proposed as a correction.                                    *)
THEOREM DenylistHolds == Spec => []NeverDenied
<1>1. TypeOK /\ VerdictInv /\ [Next]_vars => VerdictInv'
  BY VerdictStep
<1>2. VerdictInv => NeverDenied
  BY DEF VerdictInv
<1>3. QED
  BY <1>1, <1>2, VerdictInit, TypeCorrect, PTL DEF Spec

-----------------------------------------------------------------------------
(* The corrections of a run share one budget.                              *)

LEMMA LaunchLength ==
  ASSUME TypeOK, Launch
  PROVE  Len(started') = Len(started) + 1
<1> DEFINE s == [index |-> i, command |-> attempt.command,
                 corrected |-> attempt.corrected, late |-> canceled]
           Start == [index : 1..Len(plan), command : Command,
                     corrected : BOOLEAN, late : BOOLEAN]
<1>1. s \in Start /\ started \in Seq(Start)
  BY LenProperties DEF Launch, TypeOK, Attempt
<1>2. Len(Append(started, s)) = Len(started) + 1
  BY <1>1, AppendProperties
<1>3. QED
  BY <1>2 DEF Launch

LEMMA BudgetStep ==
  TypeOK /\ VerdictInv /\ BudgetInv /\ [Next]_vars => BudgetInv'
<1> SUFFICES ASSUME TypeOK, VerdictInv, BudgetInv, [Next]_vars
             PROVE  BudgetInv'
  OBVIOUS
<1>0. /\ Len(plan) \in Nat /\ Len(started) \in Nat
      /\ i \in Nat /\ used \in Nat /\ i <= Len(plan) + 1
  BY LenProperties, RunnerAssumption DEF TypeOK
<1>1. CASE Normalize
  <2>1. Len(started) = 0 /\ i >= 1
    BY <1>1, EmptySeq DEF Normalize, VerdictInv, TypeOK
  <2>2. Len(plan') \in Nat
    <3>1. DOMAIN plan' = 1..Len(plan)
      BY <1>1, LenProperties DEF Normalize, TypeOK
    <3>2. Len(plan') = Len(plan)
      BY <3>1, <1>0, TypeStep, <1>1, LenProperties DEF TypeOK, Next, Proceed
    <3>3. QED
      BY <3>2, <1>0
  <2>3. QED
    BY <2>1, <2>2, <1>0, <1>1 DEF Normalize, BudgetInv, history
<1>2. CASE EndOfPlan
  BY <1>2, <1>0 DEF EndOfPlan, BudgetInv, history
<1>3. CASE StepCanceled
  BY <1>3, <1>0 DEF StepCanceled, Abort, BudgetInv, history
<1>4. CASE StepBlocked
  BY <1>4, <1>0 DEF StepBlocked, ReportBlocked, Abort, Continue, BudgetInv, history
<1>5. CASE StepUnprompted
  BY <1>5, <1>0 DEF StepUnprompted, RunStep, BudgetInv, history
<1>6. CASE StepPrompted
  BY <1>6, <1>0 DEF StepPrompted, BudgetInv, history
<1>7. CASE ShowPrompt
  BY <1>7, <1>0 DEF ShowPrompt, BudgetInv, history
<1>8. CASE PromptCanceled
  BY <1>8, <1>0 DEF PromptCanceled, Abort, BudgetInv, history
<1>9. CASE LaunchFails
  BY <1>9, <1>0 DEF LaunchFails, Abort, BudgetInv, history
<1>10. CASE Launch
  <2>1. Len(started') = Len(started) + 1
    BY <1>10, LaunchLength
  <2>2. i <= Len(plan)
    BY <1>10 DEF Launch, TypeOK
  <2>3. QED
    BY <2>1, <2>2, <1>10, <1>0 DEF Launch, BudgetInv
<1>11. CASE CorrectionRefused
  BY <1>11, <1>0 DEF CorrectionRefused, Abort, BudgetInv, history
<1>12. ASSUME NEW c \in Command, NEW r \in Label, Correction(c, r)
       PROVE  BudgetInv'
  BY <1>12, <1>0 DEF Correction, BudgetInv, history
<1>13. CASE PromptFails
  BY <1>13, <1>0 DEF PromptFails, BudgetInv, history
<1>14. CASE Explain
  BY <1>14, <1>0 DEF Explain, BudgetInv, history
<1>15. ASSUME NEW c \in Command, Edit(c)
       PROVE  BudgetInv'
  BY <1>15, <1>0 DEF Edit, BudgetInv, history
<1>16. ASSUME NEW choice \in {"yes", "no", "all"}, Answer(choice)
       PROVE  BudgetInv'
  BY <1>16, <1>0
     DEF Answer, ReportBlocked, RunStep, Abort, Continue, BudgetInv, history
<1>17. CASE Succeeds
  BY <1>17, <1>0 DEF Succeeds, Continue, BudgetInv
<1>18. CASE Killed
  BY <1>18, <1>0 DEF Killed, Abort, BudgetInv
<1>19. CASE FailsForGood
  BY <1>19, <1>0 DEF FailsForGood, Abort, BudgetInv
<1>20. CASE FailsOnce
  BY <1>20, <1>0 DEF FailsOnce, SpendCorrection, BudgetInv
<1>21. CASE Cancel
  BY <1>21, <1>0 DEF Cancel, BudgetInv, history
<1>22. CASE UNCHANGED vars
  BY <1>22 DEF vars, BudgetInv
<1>23. QED
  BY <1>1, <1>2, <1>3, <1>4, <1>5, <1>6, <1>7, <1>8, <1>9, <1>10, <1>11,
     <1>12, <1>13, <1>14, <1>15, <1>16, <1>17, <1>18, <1>19, <1>20, <1>21,
     <1>22
     DEF Next, Proceed, User, Exit, Returned

(* However the run goes, at most selfCorrectionMaxAttempts commands are    *)
(* started beyond one per step of the plan.                                *)
THEOREM BudgetHolds == Spec => []WithinBudget
<1>1. Init => BudgetInv
  <2> SUFFICES ASSUME Init PROVE BudgetInv
    OBVIOUS
  <2>1. Len(plan) \in Nat /\ Len(started) = 0
    BY PlanType, LenProperties, EmptySeq DEF Init
  <2>2. QED
    BY <2>1 DEF Init, BudgetInv
<1>2. TypeOK /\ BudgetInv => WithinBudget
  <2> SUFFICES ASSUME TypeOK, BudgetInv PROVE WithinBudget
    OBVIOUS
  <2>1. /\ Len(plan) \in Nat /\ Len(started) \in Nat
        /\ i \in Nat /\ used \in Nat /\ used <= MaxCorrections
        /\ MaxCorrections \in Nat
    BY LenProperties, RunnerAssumption DEF TypeOK
  <2>2. QED
    BY <2>1 DEF BudgetInv, WithinBudget
<1>3. QED
  BY <1>1, <1>2, BudgetStep, VerdictStep, VerdictInit, TypeCorrect, PTL
     DEF Spec

-----------------------------------------------------------------------------
(* Consent.                                                                *)

(* Consent, once given, stays given: what authorised a command keeps doing *)
(* so while the plan and the options stay and consent only grows.          *)
LEMMA AuthorisedStays ==
  ASSUME NEW s, Authorised(s),
         plan' = plan, opts' = opts, consent \subseteq consent'
  PROVE  Authorised(s)'
BY DEF Authorised, ApprovedItself, ApprovedBefore, Waived

LEMMA StartsStay ==
  ASSUME StartsAuthorised, started' = started,
         plan' = plan, opts' = opts, consent \subseteq consent'
  PROVE  StartsAuthorised'
<1> SUFFICES ASSUME NEW k \in 1..Len(started), ~started[k].corrected
             PROVE  Authorised(started[k])'
  BY DEF StartsAuthorised
<1>1. Authorised(started[k])
  BY DEF StartsAuthorised
<1>2. QED
  BY <1>1, AuthorisedStays

(* The part of ConsentInv on approveRemaining, for the steps that neither  *)
(* touch it nor go back in the plan.                                       *)
LEMMA ApprovalStays ==
  ASSUME ConsentInv, TypeOK, i' \in Int, i <= i',
         opts' = opts, consent \subseteq consent',
         approveRemaining' => approveRemaining,
         \/ i < i' 
         \/ pc' \in Attempting \cup {"done"} 
         \/ pc \notin Attempting \cup {"done"}
  PROVE  approveRemaining' =>
           /\ opts'.mode = "ask"
           /\ \/ opts'.preApproved
              \/ \E a \in consent' :
                   /\ a.choice = "all"
                   /\ a.index < i' \/ (a.index = i' /\ pc' \in Attempting \cup {"done"})
<1> SUFFICES ASSUME approveRemaining, ~opts.preApproved
             PROVE  /\ opts.mode = "ask"
                    /\ \E a \in consent :
                         /\ a.choice = "all"
                         /\ a.index < i' \/ (a.index = i' /\ pc' \in Attempting \cup {"done"})
  BY DEF ConsentInv
<1>1. PICK a \in consent :
        /\ a.choice = "all"
        /\ a.index < i \/ (a.index = i /\ pc \in Attempting \cup {"done"})
  BY DEF ConsentInv
<1>2. a.index \in Int /\ i \in Int
  BY LenProperties DEF TypeOK
<1>3. a.index < i' \/ (a.index = i' /\ pc' \in Attempting \cup {"done"})
  BY <1>1, <1>2
<1>4. QED
  BY <1>1, <1>3 DEF ConsentInv

(* Together: a step that starts nothing, begins no first attempt and does  *)
(* not touch the plan keeps ConsentInv.                                    *)
LEMMA QuietStep ==
  ASSUME ConsentInv, TypeOK, i' \in Int, i <= i',
         plan' = plan, opts' = opts, consent \subseteq consent',
         started' = started,
         approveRemaining' => approveRemaining,
         \/ i < i' 
         \/ pc' \in Attempting \cup {"done"} 
         \/ pc \notin Attempting \cup {"done"},
         \/ pc' \notin Attempting
         \/ attempt'.corrected
         \/ pc \in Attempting /\ attempt' = attempt /\ i' = i
  PROVE  ConsentInv'
<1>1. StartsAuthorised'
  BY StartsStay DEF ConsentInv
<1>2. (pc \in Attempting /\ ~attempt.corrected =>
         Authorised([index |-> i, command |-> attempt.command]))'
  <2> DEFINE s == [index |-> i, command |-> attempt.command]
  <2> SUFFICES ASSUME pc' \in Attempting, ~attempt'.corrected
               PROVE  Authorised(s)'
    OBVIOUS
  <2>1. Authorised(s)
    BY DEF ConsentInv
  <2>2. s' = s
    OBVIOUS
  <2> HIDE DEF s
  <2>3. QED
    BY <2>1, <2>2 DEF Authorised, ApprovedItself, ApprovedBefore, Waived
<1>3. (approveRemaining =>
         /\ opts.mode = "ask"
         /\ \/ opts.preApproved
            \/ \E a \in consent :
                 /\ a.choice = "all"
                 /\ a.index < i \/ (a.index = i /\ pc \in Attempting \cup {"done"}))'
  BY ApprovalStays
<1>4. QED
  BY <1>1, <1>2, <1>3 DEF ConsentInv

LEMMA ConsentStep ==
  TypeOK /\ VerdictInv /\ ConsentInv /\ [Next]_vars => ConsentInv'
<1> SUFFICES ASSUME TypeOK, VerdictInv, ConsentInv, [Next]_vars
             PROVE  ConsentInv'
  OBVIOUS
<1> USE DEF Attempting
<1>0. /\ Len(plan) \in Nat /\ DOMAIN plan = 1..Len(plan)
      /\ i \in Nat /\ i + 1 \in Int
  BY LenProperties DEF TypeOK
<1>a. \A j \in DOMAIN plan : plan[j] \in Step
  BY <1>0, ElementOfSeq DEF TypeOK
<1>b. step \in Step
  BY DEF TypeOK
<1>1. CASE Normalize
  <2>1. consent = {} /\ started = <<>>
    BY <1>1 DEF Normalize, VerdictInv
  <2>2. StartsAuthorised'
    BY <2>1, <1>1, EmptySeq DEF Normalize, history, StartsAuthorised
  <2>3. QED
    BY <2>1, <2>2, <1>1 DEF Normalize, ConsentInv
<1>2. CASE EndOfPlan
  BY <1>2, <1>0, QuietStep DEF EndOfPlan, history
<1>3. CASE StepCanceled
  BY <1>3, <1>0, QuietStep DEF StepCanceled, Abort, history
<1>4. CASE StepBlocked
  BY <1>4, <1>0, QuietStep
     DEF StepBlocked, ReportBlocked, Abort, Continue, history
<1>5. CASE StepUnprompted
  <2> DEFINE s == [index |-> i, command |-> attempt.command]
  <2>1. i \in DOMAIN plan
    BY <1>5, <1>0 DEF StepUnprompted, TypeOK
  <2>2. plan[i] = Checked(plan[i].command, plan[i].risk)
    BY <2>1, <1>5 DEF StepUnprompted, VerdictInv
  <2>3. plan[i].command \in Command /\ plan[i].risk \in Risk
    BY <2>1, <1>a DEF Step
  <2>4. /\ attempt'.command = plan[i].command
        /\ plan[i].decision = Evaluate(plan[i].command, plan[i].risk)
    BY <2>2, <2>3, <1>5, CheckedType
       DEF StepUnprompted, RunStep, FirstAttempt
  <2>5. /\ plan' = plan /\ opts' = opts /\ consent' = consent /\ i' = i
        /\ started' = started /\ approveRemaining' = approveRemaining
        /\ pc = "top" /\ pc' = "start"
    BY <1>5 DEF StepUnprompted, RunStep, history
  <2>6. plan[i].decision.risk \in Risk
    BY <2>1, <1>a DEF Step, Decision
  <2>7. \/ opts.mode = "ask" /\ approveRemaining
           /\ plan[i].decision.risk < Elevated
        \/ opts.mode # "ask"
           /\ (plan[i].decision.risk < Elevated \/ Waived(plan[i].decision.risk))
    BY <2>6, <1>5
       DEF StepUnprompted, NeedsPrompt, Risk, Read, Elevated, Destructive
  <2>8. opts.mode = "ask" \/ opts.mode = "auto"
    BY <1>5 DEF StepUnprompted, VerdictInv
  <2>9. approveRemaining => ApprovedBefore([index |-> i, command |-> plan[i].command])
    BY <2>5 DEF ConsentInv, ApprovedBefore
  <2>10. Authorised(s)'
    BY <2>4, <2>5, <2>7, <2>8, <2>9
       DEF Authorised, ApprovedBefore, Waived
  <2>11. StartsAuthorised'
    BY <2>5, StartsStay DEF ConsentInv
  <2>12. QED
    BY <2>5, <2>10, <2>11, <1>0, ApprovalStays DEF ConsentInv
<1>6. CASE StepPrompted
  BY <1>6, <1>0, QuietStep DEF StepPrompted, history
<1>7. CASE ShowPrompt
  BY <1>7, <1>0, QuietStep DEF ShowPrompt, history
<1>8. CASE PromptCanceled
  BY <1>8, <1>0, QuietStep DEF PromptCanceled, Abort, history
<1>9. CASE LaunchFails
  BY <1>9, <1>0, QuietStep DEF LaunchFails, Abort, history
<1>10. CASE Launch
  <2> DEFINE s == [index |-> i, command |-> attempt.command,
                   corrected |-> attempt.corrected, late |-> canceled]
             Start == [index : 1..Len(plan), command : Command,
                       corrected : BOOLEAN, late : BOOLEAN]
  <2>1. s \in Start /\ started \in Seq(Start)
    BY <1>10, <1>0 DEF Launch, TypeOK, Attempt
  <2>2. /\ plan' = plan /\ opts' = opts /\ consent' = consent /\ i' = i
        /\ attempt' = attempt /\ approveRemaining' = approveRemaining
        /\ pc = "start" /\ pc' = "running"
        /\ started' = Append(started, s)
    BY <1>10 DEF Launch
  <2>3. ~s.corrected => Authorised(s)
    BY <2>2 DEF ConsentInv, Authorised, ApprovedItself, ApprovedBefore
  <2>4. StartsAuthorised'
    <3> SUFFICES ASSUME NEW k \in 1..Len(started'), ~started'[k].corrected
                 PROVE  Authorised(started'[k])
      BY <2>2 DEF StartsAuthorised, Authorised, ApprovedItself,
                  ApprovedBefore, Waived
    <3>1. Len(started') = Len(started) + 1 /\ Len(started) \in Nat
      BY <2>1, <2>2, AppendProperties, LenProperties
    <3>2. CASE k = Len(started) + 1
      <4>1. started'[k] = s
        BY <3>2, <2>1, <2>2, AppendProperties
      <4>2. QED
        BY <4>1, <2>3
    <3>3. CASE k # Len(started) + 1
      <4>1. k \in 1..Len(started) /\ started'[k] = started[k]
        BY <3>1, <3>3, <2>1, <2>2, AppendProperties
      <4>2. QED
        BY <4>1 DEF ConsentInv, StartsAuthorised
    <3>4. QED
      BY <3>2, <3>3
  <2>5. (pc \in Attempting /\ ~attempt.corrected =>
           Authorised([index |-> i, command |-> attempt.command]))'
    BY <2>2 DEF ConsentInv, Authorised, ApprovedItself, ApprovedBefore, Waived
  <2>6. QED
    BY <2>2, <2>4, <2>5, <1>0, ApprovalStays DEF ConsentInv
<1>11. CASE CorrectionRefused
  BY <1>11, <1>0, QuietStep DEF CorrectionRefused, Abort, history
<1>12. ASSUME NEW c \in Command, NEW r \in Label, Correction(c, r)
       PROVE  ConsentInv'
  BY <1>12, <1>0, QuietStep DEF Correction, history
<1>13. CASE PromptFails
  BY <1>13, <1>0, QuietStep DEF PromptFails, history
<1>14. CASE Explain
  BY <1>14, <1>0, QuietStep DEF Explain, history
<1>15. ASSUME NEW c \in Command, Edit(c)
       PROVE  ConsentInv'
  BY <1>15, <1>0, QuietStep DEF Edit, history
<1>16. ASSUME NEW choice \in {"yes", "no", "all"}, Answer(choice)
       PROVE  ConsentInv'
  <2>0. plan' = plan /\ opts' = opts /\ started' = started /\ pc = "asking"
    BY <1>16 DEF Answer, history
  <2>1. CASE Blocked(step)
    <3>1. consent' = consent /\ approveRemaining' = approveRemaining
      BY <2>1, <1>16 DEF Answer, TypeOK
    <3>2. ReportBlocked
      BY <2>1, <1>16 DEF Answer
    <3>3. pc' \in {"top", "done"} /\ i' \in {i, i + 1} /\ (pc' = "top" => i' = i + 1)
      BY <3>2 DEF ReportBlocked, Abort, Continue
    <3>4. QED
      BY <2>0, <3>1, <3>3, <1>0, QuietStep
  <2>2. CASE ~Blocked(step) /\ choice = "no"
    <3>1. consent' = consent /\ approveRemaining' = approveRemaining
      BY <2>2, <1>16 DEF Answer, TypeOK
    <3>2. pc' = "top" /\ i' = i + 1
      BY <2>2, <1>16 DEF Answer, Continue
    <3>3. QED
      BY <2>0, <3>1, <3>2, <1>0, QuietStep
  <2>3. CASE ~Blocked(step) /\ choice # "no"
    <3> DEFINE a == [index |-> i, command |-> step.command, choice |-> choice]
    <3>1. /\ plan' = plan /\ opts' = opts /\ i' = i /\ started' = started
          /\ pc = "asking" /\ pc' = "start" /\ step' = step
          /\ attempt'.command = step.command
          /\ consent' = consent \cup {a}
          /\ approveRemaining' =
               (approveRemaining \/ (opts.mode = "ask" /\ choice = "all"))
      BY <2>3, <1>16 DEF Answer, RunStep, FirstAttempt, history
    <3>2. (pc \in Attempting /\ ~attempt.corrected =>
             Authorised([index |-> i, command |-> attempt.command]))'
      <4>1. a \in consent' /\ a.index = i' /\ a.command = attempt'.command
        BY <3>1
      <4> HIDE DEF a
      <4>2. QED
        BY <4>1 DEF Authorised, ApprovedItself
    <3>3. StartsAuthorised'
      BY <3>1, StartsStay DEF ConsentInv
    <3>4. CASE approveRemaining' => approveRemaining
      BY <3>1, <3>2, <3>3, <3>4, <1>0, ApprovalStays DEF ConsentInv
    <3>5. CASE opts.mode = "ask" /\ choice = "all"
      <4>1. a \in consent' /\ a.choice = "all" /\ a.index = i'
        BY <3>1, <3>5
      <4> HIDE DEF a
      <4>2. QED
        BY <4>1, <3>1, <3>2, <3>3, <3>5 DEF ConsentInv
    <3>6. QED
      BY <3>1, <3>4, <3>5
  <2>4. QED
    BY <2>1, <2>2, <2>3
<1>17. CASE Succeeds
  BY <1>17, <1>0, QuietStep DEF Succeeds, Continue
<1>18. CASE Killed
  BY <1>18, <1>0, QuietStep DEF Killed, Abort
<1>19. CASE FailsForGood
  BY <1>19, <1>0, QuietStep DEF FailsForGood, Abort
<1>20. CASE FailsOnce
  BY <1>20, <1>0, QuietStep DEF FailsOnce
<1>21. CASE Cancel
  BY <1>21, <1>0, QuietStep DEF Cancel, history
<1>22. CASE UNCHANGED vars
  BY <1>22, <1>0, QuietStep DEF vars
<1>23. QED
  BY <1>1, <1>2, <1>3, <1>4, <1>5, <1>6, <1>7, <1>8, <1>9, <1>10, <1>11,
     <1>12, <1>13, <1>14, <1>15, <1>16, <1>17, <1>18, <1>19, <1>20, <1>21,
     <1>22
     DEF Next, Proceed, User, Exit, Returned

LEMMA ConsentInit ==
  Init => ConsentInv
<1> SUFFICES ASSUME Init PROVE ConsentInv
  OBVIOUS
<1>1. Len(started) = 0
  BY EmptySeq DEF Init
<1>2. approveRemaining => opts.mode = "ask" /\ opts.preApproved
  BY DEF Init
<1>3. pc = "normalize"
  BY DEF Init
<1>4. QED
  BY <1>1, <1>2, <1>3 DEF ConsentInv, Attempting, StartsAuthorised

(* Every planned or edited command that is started was authorised: itself, *)
(* or as a low-risk one after an [a]ll or in auto mode, or by the waiver   *)
(* of exactly its class.                                                   *)
THEOREM ConsentHolds == Spec => []StartsAuthorised
<1>1. ConsentInv => StartsAuthorised
  BY DEF ConsentInv
<1>2. QED
  BY <1>1, ConsentInit, ConsentStep, VerdictStep, VerdictInit, TypeCorrect, PTL
     DEF Spec


-----------------------------------------------------------------------------
(* The commands that ran, as the gate sees them. *)

Start == [index : 1..Len(plan), command : Command, corrected : BOOLEAN,
          late : BOOLEAN]
ThisStart == [index |-> i, command |-> attempt.command,
              corrected |-> attempt.corrected, late |-> canceled]

LEMMA StartsType ==
  ASSUME TypeOK
  PROVE  /\ started \in Seq(Start)
         /\ Len(plan) \in Nat /\ i \in Nat /\ DOMAIN plan = 1..Len(plan)
         /\ Len(started) \in Nat
         /\ started = <<>> <=> Len(started) = 0
<1>1. started \in Seq(Start) /\ plan \in Seq(Step)
  BY DEF TypeOK, Start
<1>2. QED
  BY <1>1, LenProperties, EmptySeq DEF TypeOK

LEMMA LaunchEffect ==
  ASSUME TypeOK, Launch
  PROVE  /\ ThisStart \in Start
         /\ started' = Append(started, ThisStart)
         /\ started' # <<>>
         /\ Gate!LastIndex' = i
         /\ IsFiniteSet(Gate!Retries) =>
              /\ IsFiniteSet(Gate!Retries')
              /\ Cardinality(Gate!Retries') =
                   Cardinality(Gate!Retries) + (IF attempt.corrected THEN 1 ELSE 0)
<1>0. pc = "start"
  BY DEF Launch
<1>1. ThisStart \in Start /\ started' = Append(started, ThisStart)
  BY <1>0, StartsType DEF Launch, TypeOK, Attempt, Start, ThisStart
<1>2. started \in Seq(Start) /\ Len(started) \in Nat
  BY StartsType
<1>3. /\ started' \in Seq(Start) /\ started' # <<>>
      /\ Len(started') = Len(started) + 1
      /\ \A k \in 1..Len(started) : started'[k] = started[k]
      /\ started'[Len(started) + 1] = ThisStart
  BY <1>1, <1>2, AppendProperties
<1>4. Gate!LastIndex' = i
  BY <1>3 DEF Gate!LastIndex, Gate!Last, ThisStart
<1>5. ASSUME IsFiniteSet(Gate!Retries)
      PROVE  /\ IsFiniteSet(Gate!Retries')
             /\ Cardinality(Gate!Retries') =
                  Cardinality(Gate!Retries) + (IF attempt.corrected THEN 1 ELSE 0)
  <2>1. Len(started) + 1 \notin Gate!Retries
    BY <1>2 DEF Gate!Retries
  <2>2. started'[Len(started) + 1].corrected = attempt.corrected
    BY <1>3 DEF ThisStart
  <2>3. CASE attempt.corrected
    <3>1. Gate!Retries' = Gate!Retries \cup {Len(started) + 1}
      <4>1. \A k : k \in 1..Len(started') <=>
                   k \in 1..Len(started) \/ k = Len(started) + 1
        BY <1>2, <1>3
      <4>2. \A k : k \in Gate!Retries' <=>
                   k \in Gate!Retries \/ k = Len(started) + 1
        BY <1>3, <2>2, <2>3, <4>1 DEF Gate!Retries
      <4>3. QED
        BY <4>2
    <3>2. QED
      BY <1>5, <2>1, <2>3, <3>1, FS_AddElement
  <2>4. CASE ~attempt.corrected
    <3>1. Gate!Retries' = Gate!Retries
      BY <1>2, <1>3, <2>2, <2>4 DEF Gate!Retries
    <3>2. QED
      BY <1>5, <2>4, <3>1, FS_CardinalityType
  <2>5. QED
    BY <2>3, <2>4
<1>6. QED
  BY <1>1, <1>3, <1>4, <1>5

-----------------------------------------------------------------------------
(* The order of the steps that ran, and the retries among them. *)

GateInv == OrderInv /\ RetryInv

LEMMA GateInvInit == Init => GateInv
<1> SUFFICES ASSUME Init PROVE GateInv
  OBVIOUS
<1>1. Gate!LastIndex = 0
  BY DEF Init, Gate!LastIndex
<1>2. Gate!Retries = {}
  BY DEF Init, Gate!Retries
<1>3. QED
  BY <1>1, <1>2, FS_EmptySet DEF Init, GateInv, OrderInv, RetryInv, RetryDue

(* The steps that start no command. *)
LEMMA GateInvQuiet ==
  ASSUME TypeOK, GateInv, started' = started,
         i' \in Nat, i <= i', used' \in Nat, used <= used',
         pc # "done",
         pc' \in {"top", "prompt", "asking"} \/ (pc' = "start" /\ ~attempt'.corrected) =>
           i < i' \/ pc \in {"normalize", "top", "prompt", "asking"},
         RetryDue' => (RetryDue \/ used + 1 <= used'),
         pc' \in {"running", "correct"} \/ (pc' = "start" /\ attempt'.corrected) =>
           pc \in {"running", "correct"} /\ i' = i,
         pc' # "normalize"
  PROVE  GateInv'
<1>1. Gate!LastIndex' = Gate!LastIndex /\ Gate!Retries' = Gate!Retries
  BY DEF Gate!LastIndex, Gate!Last, Gate!Retries
<1>2. RetryInv'
  <2>1. Cardinality(Gate!Retries) \in Nat /\ used \in Nat
    BY FS_CardinalityType, RunnerAssumption DEF GateInv, RetryInv, TypeOK
  <2>2. Cardinality(Gate!Retries) + (IF RetryDue' THEN 1 ELSE 0) <= used'
    BY <2>1 DEF GateInv, RetryInv
  <2>3. QED
    BY <1>1, <2>2 DEF GateInv, RetryInv
<1>3. OrderInv'
  <2>1. i \in Nat
    BY StartsType
  <2>2. Gate!LastIndex \in Nat
    <3>1. CASE started = <<>>
      BY <3>1 DEF Gate!LastIndex
    <3>2. CASE started # <<>>
      <4>1. started[Len(started)] \in Start
        BY <3>2, StartsType, ElementOfSeq
      <4>2. QED
        BY <3>2, <4>1, StartsType DEF Gate!LastIndex, Gate!Last, Start
    <3>3. QED
      BY <3>1, <3>2
  <2>3. pc # "done" => Gate!LastIndex <= i
    BY <2>1, <2>2 DEF GateInv, OrderInv, TypeOK
  <2>4. ASSUME pc' \in {"top", "prompt", "asking"} \/ (pc' = "start" /\ ~attempt'.corrected)
        PROVE  Gate!LastIndex < i'
    <3>1. CASE i < i'
      BY <2>1, <2>2, <2>3, <3>1
    <3>2. CASE pc \in {"normalize", "top", "prompt", "asking"}
      BY <2>1, <2>2, <3>2 DEF GateInv, OrderInv
    <3>3. QED
      BY <2>4, <3>1, <3>2
  <2>5. ASSUME pc' \in {"running", "correct"} \/ (pc' = "start" /\ attempt'.corrected)
        PROVE  started # <<>> /\ Gate!LastIndex = i'
    BY <2>5 DEF GateInv, OrderInv
  <2>6. QED
    BY <1>1, <2>4, <2>5 DEF OrderInv
<1>4. QED
  BY <1>2, <1>3 DEF GateInv

LEMMA GateInvStep ==
  TypeOK /\ VerdictInv /\ GateInv /\ [Next]_vars => GateInv'
<1> SUFFICES ASSUME TypeOK, VerdictInv, GateInv, [Next]_vars PROVE GateInv'
  OBVIOUS
<1>0. i \in Nat /\ used \in Nat /\ used + 1 \in Nat /\ i + 1 \in Nat
  BY StartsType, RunnerAssumption DEF TypeOK
<1>1. CASE Normalize \/ EndOfPlan \/ StepPrompted \/ ShowPrompt \/ Explain
  BY <1>0, <1>1, GateInvQuiet
     DEF Normalize, EndOfPlan, StepPrompted, ShowPrompt, Explain, history,
         RetryDue
<1>2. CASE StepCanceled \/ PromptCanceled \/ LaunchFails \/ CorrectionRefused
           \/ PromptFails
  BY <1>0, <1>2, GateInvQuiet
     DEF StepCanceled, PromptCanceled, LaunchFails, CorrectionRefused,
         PromptFails, Abort, history, RetryDue
<1>3. CASE StepBlocked
  BY <1>0, <1>3, GateInvQuiet
     DEF StepBlocked, ReportBlocked, Abort, Continue, history, RetryDue
<1>4. CASE StepUnprompted
  BY <1>0, <1>4, GateInvQuiet
     DEF StepUnprompted, RunStep, FirstAttempt, history, RetryDue
<1>5. CASE Launch
  <2>1. RetryInv'
    <3>1. Cardinality(Gate!Retries) \in Nat
      BY FS_CardinalityType DEF GateInv, RetryInv
    <3>2. used' = used /\ ~RetryDue' /\ (RetryDue <=> attempt.corrected)
      BY <1>5 DEF Launch, RetryDue
    <3>3. QED
      BY <1>0, <1>5, <3>1, <3>2, LaunchEffect DEF GateInv, RetryInv
  <2>2. OrderInv'
    BY <1>5, LaunchEffect DEF Launch, OrderInv
  <2>3. QED
    BY <2>1, <2>2 DEF GateInv
<1>6. ASSUME NEW c \in Command, NEW r \in Label, Correction(c, r)
      PROVE  GateInv'
  BY <1>0, <1>6, GateInvQuiet DEF Correction, history, RetryDue
<1>7. ASSUME NEW c \in Command, Edit(c)
      PROVE  GateInv'
  BY <1>0, <1>7, GateInvQuiet DEF Edit, history, RetryDue
<1>8. ASSUME NEW choice \in {"yes", "no", "all"}, Answer(choice)
      PROVE  GateInv'
  BY <1>0, <1>8, GateInvQuiet
     DEF Answer, ReportBlocked, Abort, Continue, RunStep, FirstAttempt,
         history, RetryDue
<1>9. CASE Succeeds
  BY <1>0, <1>9, GateInvQuiet DEF Succeeds, Continue, RetryDue
<1>10. CASE Killed \/ FailsForGood
  BY <1>0, <1>10, GateInvQuiet DEF Killed, FailsForGood, Abort, RetryDue
<1>11. CASE FailsOnce
  BY <1>0, <1>11, GateInvQuiet DEF FailsOnce, SpendCorrection, RetryDue
<1>12. CASE Cancel \/ UNCHANGED vars
  BY <1>12
     DEF Cancel, vars, history, GateInv, OrderInv, RetryInv, RetryDue,
         Gate!LastIndex, Gate!Last, Gate!Retries
<1>13. QED
  BY <1>1, <1>2, <1>3, <1>4, <1>5, <1>6, <1>7, <1>8, <1>9, <1>10, <1>11, <1>12
     DEF Next, Proceed, User, Exit, Returned

-----------------------------------------------------------------------------
(* Every step of Execute is a step of the gate, or none. *)

LEMMA TermsStay ==
  ASSUME opts' = opts, plan' = plan
  PROVE  UNCHANGED Gate!terms
BY DEF Gate!terms, Waived

LEMMA Stutters ==
  ASSUME UNCHANGED Gate!terms, started' = started, consent' = consent,
         pc # "done", pc' # "done"
  PROVE  UNCHANGED Gate!gateVars
BY DEF Gate!gateVars, Gate!terms

LEMMA Returns ==
  ASSUME UNCHANGED Gate!terms, started' = started, consent' = consent,
         pc # "done", pc' = "done"
  PROVE  Gate!Return
BY DEF Gate!Return

LEMMA StuttersOrReturns ==
  ASSUME UNCHANGED Gate!terms, started' = started, consent' = consent,
         pc # "done"
  PROVE  [Gate!Next]_(Gate!gateVars)
BY Stutters, Returns DEF Gate!Next

(* The gate has the engine and the arithmetic of sets from the same modules. *)
LEMMA SameVerdicts ==
  /\ Gate!Elevated = Elevated
  /\ \A c, r : Gate!EffectiveRisk(c, r) = EffectiveRisk(c, r)
BY DEF Gate!Elevated, Elevated, Gate!EffectiveRisk, EffectiveRisk,
       Gate!Highest, Highest

LEMMA SameCardinality ==
  ASSUME NEW S
  PROVE  Gate!Cardinality(S) = Cardinality(S)
BY DEF Gate!Cardinality, Cardinality

(* The command about to be started is not denied, and a first attempt has  *)
(* the consent the gate asks for.                                          *)
LEMMA LaunchHasConsent ==
  ASSUME TypeOK, VerdictInv, ConsentInv, Launch
  PROVE  /\ i \in DOMAIN plan
         /\ attempt.command \in Command \ Denylisted
         /\ ~attempt.corrected => Gate!ConsentFor(ThisStart)
<1>0. pc = "start" /\ i \in DOMAIN plan
  BY StartsType DEF Launch, TypeOK
<1>1. attempt.command \in Command \ Denylisted
  BY <1>0 DEF VerdictInv, Attempting, TypeOK, Attempt
<1>2. ASSUME ~attempt.corrected
      PROVE  Gate!ConsentFor(ThisStart)
  <2> DEFINE s == [index |-> i, command |-> attempt.command]
             risk == EffectiveRisk(attempt.command, plan[i].risk)
  <2>1. Authorised(s)
    BY <1>0, <1>2 DEF ConsentInv, Attempting
  <2>2. plan[i] \in Step
    BY <1>0, StartsType, ElementOfSeq DEF TypeOK
  <2>3. plan[i].risk \in Risk
    BY <2>2 DEF Step
  <2>4. Evaluate(attempt.command, plan[i].risk).risk = risk /\ risk \in Risk
    BY <1>1, <2>3, EvaluateType
  <2>5. \/ \E a \in consent : a.index = i /\ a.command = attempt.command
        \/ opts.mode = "auto" /\ (risk < Elevated \/ Waived(risk))
        \/ /\ opts.mode = "ask" /\ risk < Elevated
           /\ opts.preApproved \/ \E a \in consent : a.choice = "all" /\ a.index < i
    BY <2>1, <2>4 DEF Authorised, ApprovedItself, ApprovedBefore
  <2> HIDE DEF risk
  <2>6. Waived(risk) => risk \in {r \in Risk : Waived(r)}
    BY <2>4
  <2>7. [j \in DOMAIN plan |-> plan[j].risk][i] = plan[i].risk
    BY <1>0
  <2>8. QED
    BY <2>5, <2>6, <2>7, SameVerdicts DEF Gate!ConsentFor, ThisStart, risk
<1>3. QED
  BY <1>0, <1>1, <1>2

LEMMA GateStep ==
  TypeOK /\ VerdictInv /\ ConsentInv /\ GateInv /\ [Next]_vars
    => [Gate!Next]_(Gate!gateVars)
<1> SUFFICES ASSUME TypeOK, VerdictInv, ConsentInv, GateInv, [Next]_vars
             PROVE  [Gate!Next]_(Gate!gateVars)
  OBVIOUS
<1>1. CASE Normalize
  <2>1. ASSUME NEW j \in DOMAIN plan PROVE plan'[j].risk = plan[j].risk
    BY <1>1 DEF Normalize, Checked
  <2>2. DOMAIN plan' = DOMAIN plan
    BY <1>1 DEF Normalize
  <2>3. [j \in DOMAIN plan |-> plan[j].risk]' = [j \in DOMAIN plan |-> plan[j].risk]
    BY <2>1, <2>2
  <2>4. UNCHANGED Gate!terms
    BY <1>1, <2>3 DEF Normalize, Gate!terms, Waived
  <2>5. QED
    BY <1>1, <2>4, StuttersOrReturns DEF Normalize, history
<1>2. CASE EndOfPlan \/ StepPrompted \/ ShowPrompt \/ Explain \/ PromptFails
  BY <1>2, TermsStay, StuttersOrReturns
     DEF EndOfPlan, StepPrompted, ShowPrompt, Explain, PromptFails, history
<1>3. CASE StepCanceled \/ StepBlocked \/ StepUnprompted \/ PromptCanceled
           \/ LaunchFails \/ CorrectionRefused
  BY <1>3, TermsStay, StuttersOrReturns
     DEF StepCanceled, StepBlocked, StepUnprompted, PromptCanceled,
         LaunchFails, CorrectionRefused, history
<1>4. CASE Launch
  <2>0. /\ started' = Append(started, ThisStart)
        /\ i \in DOMAIN plan /\ canceled \in BOOLEAN
        /\ attempt.command \in Command \ Denylisted
    BY <1>4, LaunchEffect, LaunchHasConsent DEF TypeOK
  <2>1. UNCHANGED Gate!terms /\ consent' = consent
                             /\ pc # "done" /\ pc' # "done"
    BY <1>4, TermsStay DEF Launch
  <2>2. i \in DOMAIN [j \in DOMAIN plan |-> plan[j].risk]
    BY <2>0
  <2>3. CASE ~attempt.corrected
    <3>1. Gate!LastIndex < i
      BY <1>4, <2>3 DEF Launch, GateInv, OrderInv
    <3>2. ThisStart = [index |-> i, command |-> attempt.command,
                       corrected |-> FALSE, late |-> canceled]
      BY <2>3 DEF ThisStart, TypeOK, Attempt
    <3>3. Gate!ConsentFor(ThisStart)
      BY <1>4, <2>3, LaunchHasConsent
    <3>4. Gate!RunFirst
      BY <2>0, <2>1, <2>2, <3>1, <3>2, <3>3 DEF Gate!RunFirst
    <3>5. QED
      BY <3>4 DEF Gate!Next
  <2>4. CASE attempt.corrected
    <3>1. started # <<>> /\ Gate!LastIndex = i
      BY <1>4, <2>4 DEF Launch, GateInv, OrderInv
    <3>2. Cardinality(Gate!Retries) < MaxCorrections
      <4>1. Cardinality(Gate!Retries) \in Nat
        BY FS_CardinalityType DEF GateInv, RetryInv
      <4>2. Cardinality(Gate!Retries) + 1 <= used
        BY <1>4, <2>4 DEF Launch, GateInv, RetryInv, RetryDue
      <4>3. used \in 0..MaxCorrections /\ MaxCorrections \in Nat
        BY RunnerAssumption DEF TypeOK
      <4>4. QED
        BY <4>1, <4>2, <4>3
    <3>3. ThisStart = [index |-> Gate!LastIndex, command |-> attempt.command,
                       corrected |-> TRUE, late |-> canceled]
      BY <2>4, <3>1 DEF ThisStart, TypeOK, Attempt
    <3>4. Gate!Retry
      BY <2>0, <2>1, <3>1, <3>2, <3>3, SameCardinality DEF Gate!Retry
    <3>5. QED
      BY <3>4 DEF Gate!Next
  <2>5. QED
    BY <2>3, <2>4
<1>5. ASSUME NEW c \in Command, NEW r \in Label, Correction(c, r)
      PROVE  [Gate!Next]_(Gate!gateVars)
  BY <1>5, TermsStay, StuttersOrReturns DEF Correction, history
<1>6. ASSUME NEW c \in Command, Edit(c)
      PROVE  [Gate!Next]_(Gate!gateVars)
  BY <1>6, TermsStay, StuttersOrReturns DEF Edit, history
<1>7. ASSUME NEW choice \in {"yes", "no", "all"}, Answer(choice)
      PROVE  [Gate!Next]_(Gate!gateVars)
  <2>1. UNCHANGED Gate!terms /\ started' = started /\ pc = "asking"
    BY <1>7, TermsStay DEF Answer, history
  <2>2. CASE choice = "no" \/ Blocked(step)
    <3>1. consent' = consent
      BY <1>7, <2>2 DEF Answer
    <3>2. QED
      BY <2>1, <3>1, StuttersOrReturns
  <2>3. CASE choice \in {"yes", "all"} /\ ~Blocked(step)
    <3>1. pc' = "start"
      BY <1>7, <2>3 DEF Answer, RunStep
    <3>2. consent' = consent \cup {[index |-> i, command |-> step.command,
                                    choice |-> choice]}
      BY <1>7, <2>3 DEF Answer
    <3>3. i \in DOMAIN plan /\ step.command \in Command
      BY <2>1, StartsType DEF TypeOK, Step
    <3>4. i > Gate!LastIndex
      BY <2>1, StartsType DEF GateInv, OrderInv
    <3>5. i \in DOMAIN [j \in DOMAIN plan |-> plan[j].risk]
      BY <3>3
    <3>6. Gate!Grant
      BY <2>1, <2>3, <3>1, <3>2, <3>3, <3>4, <3>5 DEF Gate!Grant
    <3>7. QED
      BY <3>6 DEF Gate!Next
  <2>4. QED
    BY <2>2, <2>3
<1>8. CASE Succeeds \/ Killed \/ FailsForGood \/ FailsOnce
  BY <1>8, TermsStay, StuttersOrReturns
     DEF Succeeds, Killed, FailsForGood, FailsOnce
<1>9. CASE Cancel
  BY <1>9, TermsStay, StuttersOrReturns DEF Cancel, history
<1>10. CASE UNCHANGED vars
  <2>1. UNCHANGED Gate!terms
    BY <1>10, TermsStay DEF vars
  <2>2. UNCHANGED Gate!gateVars
    BY <1>10, <2>1 DEF vars, Gate!gateVars, Gate!terms
  <2>3. QED
    BY <2>2
<1>11. QED
  BY <1>1, <1>2, <1>3, <1>4, <1>5, <1>6, <1>7, <1>8, <1>9, <1>10
     DEF Next, Proceed, User, Exit, Returned

(* Execute implements ConsentGate: whatever it starts, it starts in plan   *)
(* order, with the consent that command needs or as one of the budgeted    *)
(* retries of the step at hand, and never after it has returned.           *)
THEOREM Implements == Spec => HonoursConsent
<1>1. Init => Gate!Init
  BY DEF Init, Gate!Init
<1>2. Init => ConsentInv
  BY ConsentInit
<1>3. QED
  BY <1>1, <1>2, GateInvInit, GateInvStep, GateStep, VerdictInit, VerdictStep,
     ConsentStep, TypeCorrect, PTL
     DEF Spec, HonoursConsent, Gate!Spec

-----------------------------------------------------------------------------
(* What a launch appends. *)

LEMMA LaunchAppends ==
  ASSUME TypeOK, Launch
  PROVE  /\ Len(started') = Len(started) + 1
         /\ \A k \in 1..Len(started) : started'[k] = started[k]
         /\ started'[Len(started')] = ThisStart
<1>1. /\ started \in Seq(Start) /\ ThisStart \in Start
      /\ started' = Append(started, ThisStart)
  BY StartsType, LaunchEffect
<1>2. QED
  BY <1>1, AppendProperties

LEMMA RecordAppends ==
  ASSUME TypeOK, Record
  PROVE  opts.audit = "sound" =>
           /\ Len(audit') = Len(audit) + 1
           /\ \A k \in 1..Len(audit) : audit'[k] = audit[k]
           /\ audit'[Len(audit')] = AuditEntry
<1> DEFINE Log == [command : Command, risk : Risk]
<1>1. AuditEntry \in Log /\ audit \in Seq(Log)
  BY DEF AuditEntry, TypeOK, Attempt
<1>2. opts.audit = "sound" => audit' = Append(audit, AuditEntry)
  BY DEF Record
<1>3. QED
  BY <1>1, <1>2, AppendProperties

-----------------------------------------------------------------------------
(* Cancellation. *)

LEMMA LateQuiet ==
  ASSUME LateInv, started' = started,
         canceled => canceled',
         pc \in {"running", "top", "done"} /\ canceled =>
           pc' \in {"running", "top", "done"}
  PROVE  LateInv'
BY DEF LateInv, OneLateStart

LEMMA LateStep == TypeOK /\ LateInv /\ [Next]_vars => LateInv'
<1> SUFFICES ASSUME TypeOK, LateInv, [Next]_vars PROVE LateInv'
  OBVIOUS
<1> USE DEF history
<1>1. CASE Launch
  <2>1. Len(started) \in Nat
    BY StartsType
  <2>2. \A k \in 1..Len(started) : ~started[k].late
    BY <1>1 DEF Launch, LateInv
  <2>3. \A k \in 1..Len(started') : started'[k].late => k = Len(started')
    BY <1>1, <2>1, <2>2, LaunchAppends
  <2>4. started'[Len(started')].late = canceled
    BY <1>1, LaunchAppends DEF ThisStart
  <2>5. (\E k \in 1..Len(started') : started'[k].late) => canceled
    BY <2>3, <2>4
  <2>6. canceled' = canceled /\ pc' = "running"
    BY <1>1 DEF Launch
  <2>7. QED
    BY <2>3, <2>5, <2>6 DEF LateInv, OneLateStart
<1>2. CASE Normalize \/ EndOfPlan \/ StepCanceled
  BY <1>2, LateQuiet DEF Normalize, EndOfPlan, StepCanceled, Abort
<1>3. CASE StepBlocked \/ StepUnprompted \/ StepPrompted
  BY <1>3, LateQuiet
     DEF StepBlocked, StepUnprompted, StepPrompted, LoopCanceled
<1>4. CASE ShowPrompt \/ PromptCanceled \/ PromptFails \/ Explain
  BY <1>4, LateQuiet
     DEF ShowPrompt, PromptCanceled, PromptFails, Explain
<1>5. ASSUME NEW c \in Command, Edit(c) PROVE LateInv'
  BY <1>5, LateQuiet DEF Edit
<1>6. ASSUME NEW choice \in {"yes", "no", "all"}, Answer(choice) PROVE LateInv'
  BY <1>6, LateQuiet DEF Answer
<1>7. CASE LaunchFails \/ CorrectionRefused
  BY <1>7, LateQuiet DEF LaunchFails, CorrectionRefused
<1>8. ASSUME NEW c \in Command, NEW r \in Label, Correction(c, r) PROVE LateInv'
  BY <1>8, LateQuiet DEF Correction
<1>9. CASE Succeeds \/ Killed \/ FailsForGood
  BY <1>9, LateQuiet DEF Succeeds, Killed, FailsForGood, Continue, Abort
<1>10. CASE FailsOnce
  BY <1>10, LateQuiet DEF FailsOnce
<1>11. CASE Cancel
  BY <1>11, LateQuiet DEF Cancel
<1>12. CASE UNCHANGED vars
  BY <1>12, LateQuiet DEF vars
<1>13. QED
  BY <1>1, <1>2, <1>3, <1>4, <1>5, <1>6, <1>7, <1>8, <1>9, <1>10, <1>11, <1>12
     DEF Next, Proceed, User, Exit, Returned

(* Once the context is canceled at most one more command is started: the   *)
(* one whose checks had passed before (runner.go: the heads of both loops, *)
(* resolveAskChoice, executeStepWithSelfCorrection).                       *)
THEOREM CancelStops == Spec => []OneLateStart
<1>1. Init => LateInv
  BY EmptySeq DEF Init, LateInv, OneLateStart
<1>2. LateInv => OneLateStart
  BY DEF LateInv
<1>3. QED
  BY <1>1, <1>2, LateStep, TypeCorrect, PTL DEF Spec

-----------------------------------------------------------------------------
(* The audit log. *)

LEMMA AuditQuiet ==
  ASSUME AuditInv, opts' = opts, started' = started, audit' = audit,
         pc # "running", pc' # "running"
  PROVE  AuditInv'
BY DEF AuditInv, AuditComplete

(* The command that ended was the last one started, and is put on record. *)
LEMMA AuditRecords ==
  ASSUME TypeOK, VerdictInv, AuditInv, pc = "running", pc' # "running",
         Record, opts' = opts, started' = started
  PROVE  AuditInv'
<1> SUFFICES ASSUME opts.audit = "sound" PROVE AuditComplete'
  BY DEF AuditInv, AuditComplete
<1>1. /\ Len(audit) \in Nat /\ Len(started) \in Nat
      /\ Len(started) = Len(audit) + 1
  BY StartsType, LenProperties DEF TypeOK, AuditInv, AuditComplete
<1>2. /\ Len(audit') = Len(audit) + 1
      /\ \A k \in 1..Len(audit) : audit'[k] = audit[k]
      /\ audit'[Len(audit')] = AuditEntry
  BY RecordAppends
<1>3. /\ AuditEntry.command = started[Len(started)].command
      /\ AuditEntry.risk >= EffectiveRisk(started[Len(started)].command, Read)
  BY DEF AuditEntry, AuditInv, VerdictInv, Attempting
<1>4. ASSUME NEW k \in 1..Len(audit')
      PROVE  /\ audit'[k].command = started[k].command
             /\ audit'[k].risk >= EffectiveRisk(started[k].command, Read)
  <2>1. CASE k \in 1..Len(audit)
    BY <1>2, <2>1 DEF AuditInv, AuditComplete
  <2>2. CASE k = Len(audit')
    BY <1>1, <1>2, <1>3, <2>2
  <2>3. QED
    BY <1>1, <1>2, <2>1, <2>2
<1>5. QED
  BY <1>1, <1>2, <1>4 DEF AuditComplete

LEMMA AuditStep ==
  TypeOK /\ VerdictInv /\ AuditInv /\ [Next]_vars => AuditInv'
<1> SUFFICES ASSUME TypeOK, VerdictInv, AuditInv, [Next]_vars PROVE AuditInv'
  OBVIOUS
<1> USE DEF history
<1>1. CASE Launch
  <2>1. Len(started) \in Nat /\ Len(audit) \in Nat
    BY StartsType, LenProperties DEF TypeOK
  <2>2. /\ started' # <<>>
        /\ started'[Len(started')].command = attempt.command
        /\ pc' = "running" /\ attempt' = attempt
        /\ audit' = audit /\ opts' = opts
    BY <1>1, LaunchAppends, LaunchEffect DEF Launch, ThisStart
  <2>3. ASSUME opts.audit = "sound"
        PROVE  /\ Len(started') = Len(audit) + 1
               /\ \A k \in 1..Len(audit) : started'[k] = started[k]
    BY <1>1, <2>1, <2>3, LaunchAppends DEF Launch, AuditInv, AuditComplete
  <2>4. QED
    BY <2>2, <2>3 DEF AuditInv, AuditComplete
<1>2. CASE Normalize \/ EndOfPlan \/ StepCanceled \/ StepBlocked
           \/ StepUnprompted \/ StepPrompted
  BY <1>2, AuditQuiet
     DEF Normalize, EndOfPlan, StepCanceled, StepBlocked, StepUnprompted,
         StepPrompted, ReportBlocked, Abort, Continue, RunStep
<1>3. CASE ShowPrompt \/ PromptCanceled \/ PromptFails \/ Explain
  BY <1>3, AuditQuiet
     DEF ShowPrompt, PromptCanceled, PromptFails, Explain, Abort
<1>4. ASSUME NEW c \in Command, Edit(c) PROVE AuditInv'
  BY <1>4, AuditQuiet DEF Edit
<1>5. ASSUME NEW choice \in {"yes", "no", "all"}, Answer(choice) PROVE AuditInv'
  BY <1>5, AuditQuiet DEF Answer, ReportBlocked, Abort, Continue, RunStep
<1>6. CASE LaunchFails \/ CorrectionRefused
  BY <1>6, AuditQuiet DEF LaunchFails, CorrectionRefused, Abort
<1>7. ASSUME NEW c \in Command, NEW r \in Label, Correction(c, r) PROVE AuditInv'
  BY <1>7, AuditQuiet DEF Correction
<1>8. CASE Succeeds \/ Killed \/ FailsForGood \/ FailsOnce
  BY <1>8, AuditRecords
     DEF Succeeds, Killed, FailsForGood, FailsOnce, Continue, Abort
<1>9. CASE Cancel \/ UNCHANGED vars
  BY <1>9 DEF Cancel, vars, AuditInv, AuditComplete
<1>10. QED
  BY <1>1, <1>2, <1>3, <1>4, <1>5, <1>6, <1>7, <1>8, <1>9
     DEF Next, Proceed, User, Exit, Returned

(* With a working log every command that has ended is on record, in the    *)
(* order it ran and with the risk its text deserves (runner.go:            *)
(* runAndRecord, appendAudit).                                             *)
THEOREM LogHolds == Spec => []AuditComplete
<1>1. Init => AuditInv
  BY EmptySeq DEF Init, AuditInv, AuditComplete
<1>2. AuditInv => AuditComplete
  BY DEF AuditInv
<1>3. QED
  BY <1>1, <1>2, AuditStep, VerdictInit, VerdictStep, TypeCorrect, PTL DEF Spec

-----------------------------------------------------------------------------
(* The summary. *)

LEMMA SummaryInit == Init => SummaryInv
<1> SUFFICES ASSUME Init PROVE SummaryInv
  OBVIOUS
<1>1. Len(started) = 0
  BY EmptySeq DEF Init
<1>2. QED
  BY <1>1 DEF Init, SummaryInv, SummaryTruthful, StartsOf

(* The loop goes to another place at the same step, with nothing started   *)
(* and no result recorded.                                                 *)
LEMMA SummaryMoves ==
  ASSUME SummaryInv, started' = started, outcome' = outcome, i' = i,
         DOMAIN plan' = DOMAIN plan, opts' = opts,
         pc # "done",
         \/ pc' \in {"normalize", "top", "prompt", "asking"}
         \/ pc' = "start" /\ ~attempt'.corrected
         => pc \in {"normalize", "top", "prompt", "asking"},
         \/ pc' \in {"running", "correct"}
         \/ pc' = "start" /\ attempt'.corrected
         => pc \in {"running", "correct"}
  PROVE  SummaryInv'
<1>1. StartsOf(i)' = StartsOf(i) /\ \A j : StartsOf(j)' = StartsOf(j)
  BY DEF StartsOf
<1>2. SummaryTruthful'
  BY <1>1 DEF SummaryInv, SummaryTruthful
<1>3. QED
  BY <1>1, <1>2 DEF SummaryInv

(* The loop leaves the step it is at with the result r for it, before      *)
(* (early) or after it has run, and goes to the next one or aborts.        *)
LEMMA SummaryLeaves ==
  ASSUME TypeOK, SummaryInv, started' = started, plan' = plan, opts' = opts,
         pc # "done", i \in DOMAIN plan,
         NEW r \in {"none", "skipped", "blocked", "executed"},
         \/ /\ r \in {"none", "skipped", "blocked"}
            /\ \A k \in 1..Len(started) : started[k].index < i
         \/ r = "none"
         \/ r = "executed" /\ pc \in {"running", "correct"},
         \/ /\ pc' = "top" /\ i' = i + 1
            /\ outcome' = [outcome EXCEPT ![i] = r]
            /\ opts.mode = "auto" => r # "blocked"
         \/ /\ pc' = "done" /\ i' = i
            /\ outcome' = SkipTail([outcome EXCEPT ![i] = r])
  PROVE  SummaryInv'
<1>0. /\ i \in Nat /\ DOMAIN plan = 1..Len(plan) /\ Len(plan) \in Nat
      /\ outcome \in [DOMAIN plan -> Results]
      /\ \A k \in 1..Len(started) : started[k].index \in Nat
  <2>1. \A k \in 1..Len(started) : started[k] \in Start
    BY StartsType, ElementOfSeq
  <2>2. QED
    BY <2>1, StartsType DEF TypeOK, Results, Start
<1>1. \A j : StartsOf(j)' = StartsOf(j)
  BY DEF StartsOf
<1>2. \A k \in 1..Len(started) : started[k].index <= i
  BY DEF SummaryInv
<1>3. ASSUME NEW j \in DOMAIN plan
      PROVE  /\ j < i => outcome'[j] = outcome[j]
             /\ j = i => outcome'[j] = r
             /\ j > i => outcome'[j] \in {"none", "skipped"}
             /\ j > i /\ pc' = "top" => outcome'[j] = "none"
  <2>1. j > i => outcome[j] = "none"
    BY <1>0 DEF SummaryInv
  <2>2. QED
    BY <1>0, <2>1 DEF SkipTail
<1>4. SummaryTruthful'
  <2> SUFFICES ASSUME NEW j \in DOMAIN plan
               PROVE  /\ outcome'[j] \in {"skipped", "blocked"} => StartsOf(j) = {}
                      /\ outcome'[j] = "executed" => StartsOf(j) # {}
                      /\ (opts.mode = "auto" /\ outcome'[j] = "blocked") =>
                           \A k \in 1..Len(started) : started[k].index < j
    BY <1>1 DEF SummaryTruthful
  <2>1. CASE j < i
    BY <1>3, <2>1 DEF SummaryInv, SummaryTruthful
  <2>2. CASE j = i
    <3>1. outcome'[j] = r
      BY <1>3, <2>2
    <3>2. CASE r \in {"skipped", "blocked"}
      <4>1. \A k \in 1..Len(started) : started[k].index < i
        BY <3>2
      <4>2. StartsOf(j) = {}
        BY <1>0, <4>1, <2>2 DEF StartsOf
      <4>3. QED
        BY <3>1, <3>2, <4>1, <4>2, <2>2
    <3>3. CASE r = "executed"
      <4>1. StartsOf(i) # {}
        BY <3>3 DEF SummaryInv
      <4>2. QED
        BY <3>1, <3>3, <4>1, <2>2
    <3>4. CASE r = "none"
      BY <3>1, <3>4
    <3>5. QED
      BY <3>2, <3>3, <3>4
  <2>3. CASE j > i
    <3>1. StartsOf(j) = {}
      BY <1>0, <1>2, <2>3 DEF StartsOf
    <3>2. QED
      BY <1>3, <2>3, <3>1
  <2>4. QED
    BY <1>0, <2>1, <2>2, <2>3
<1>5. CASE pc' = "done"
  BY <1>2, <1>4, <1>5 DEF SummaryInv
<1>6. CASE pc' = "top"
  <2>1. i' = i + 1
    BY <1>6
  <2>2. \A j \in DOMAIN plan : j >= i + 1 => outcome'[j] = "none"
    BY <1>0, <1>3, <1>6
  <2>3. \A k \in 1..Len(started) : started[k].index < i + 1
    BY <1>0, <1>2
  <2>4. \A k \in 1..Len(started) : started[k].index <= i + 1
    BY <1>0, <1>2
  <2>5. \A j \in DOMAIN plan : opts.mode = "auto" => outcome'[j] # "blocked"
    <3> SUFFICES ASSUME NEW j \in DOMAIN plan, opts.mode = "auto"
                 PROVE  outcome'[j] # "blocked"
      OBVIOUS
    <3>1. r # "blocked"
      BY <1>6
    <3>2. outcome[j] # "blocked"
      BY <3>1 DEF SummaryInv
    <3>3. QED
      BY <1>0, <1>3, <1>6, <3>1, <3>2
  <2>6. QED
    BY <1>4, <1>6, <2>1, <2>2, <2>3, <2>4, <2>5 DEF SummaryInv
<1>7. QED
  BY <1>5, <1>6

LEMMA SummaryStep ==
  TypeOK /\ VerdictInv /\ SummaryInv /\ [Next]_vars => SummaryInv'
<1> SUFFICES ASSUME TypeOK, VerdictInv, SummaryInv, [Next]_vars
             PROVE  SummaryInv'
  OBVIOUS
<1> USE DEF history
<1>0. /\ i \in Nat /\ DOMAIN plan = 1..Len(plan) /\ Len(plan) \in Nat
      /\ pc \notin {"normalize", "top", "done"} => i \in DOMAIN plan
      /\ pc = "top" /\ i <= Len(plan) => i \in DOMAIN plan
      /\ outcome \in [DOMAIN plan -> Results]
  BY StartsType DEF TypeOK, Results
<1>a. pc \in {"top", "prompt", "asking"} =>
        \A k \in 1..Len(started) : started[k].index < i
  BY DEF SummaryInv
<1>b. pc # "done" /\ i \in DOMAIN plan =>
        outcome = [outcome EXCEPT ![i] = "none"]
  BY <1>0 DEF SummaryInv
<1>1. CASE Normalize
  BY <1>0, <1>1, SummaryMoves DEF Normalize, SummaryInv, TypeOK
<1>2. CASE EndOfPlan \/ StepUnprompted \/ StepPrompted \/ ShowPrompt \/ Explain
           \/ PromptFails
  BY <1>2, SummaryMoves
     DEF EndOfPlan, StepUnprompted, StepPrompted, ShowPrompt, Explain,
         PromptFails, RunStep, FirstAttempt
<1>3. CASE StepCanceled \/ PromptCanceled \/ LaunchFails
  BY <1>0, <1>3, <1>b, SummaryLeaves
     DEF StepCanceled, PromptCanceled, LaunchFails, Abort
<1>4. ASSUME pc \in {"top", "asking"}, i \in DOMAIN plan, ReportBlocked,
             started' = started, plan' = plan, opts' = opts
      PROVE  SummaryInv'
  BY <1>4, <1>a, SummaryLeaves DEF ReportBlocked, Abort, Continue
<1>5. CASE StepBlocked
  BY <1>0, <1>4, <1>5 DEF StepBlocked
<1>6. CASE Launch
  <2>1. /\ Len(started) \in Nat /\ Len(started') = Len(started) + 1
        /\ \A k \in 1..Len(started) : started'[k] = started[k]
        /\ started'[Len(started')].index = i
        /\ \A k \in 1..Len(started) : started[k] \in Start
    BY <1>6, StartsType, LaunchAppends, ElementOfSeq DEF ThisStart
  <2>2. /\ pc = "start" /\ pc' = "running" /\ i' = i /\ i \in DOMAIN plan
        /\ plan' = plan /\ outcome' = outcome /\ opts' = opts
    BY <1>0, <1>6 DEF Launch
  <2>3. \A k \in 1..Len(started') : started'[k].index <= i
    BY <1>0, <2>1 DEF SummaryInv
  <2>4. \A j \in DOMAIN plan : j # i => StartsOf(j)' = StartsOf(j)
    <3> SUFFICES ASSUME NEW j \in DOMAIN plan, j # i
                 PROVE  StartsOf(j)' = StartsOf(j)
      OBVIOUS
    <3>1. \A k : k \in 1..Len(started') <=>
                 k \in 1..Len(started) \/ k = Len(started) + 1
      BY <2>1
    <3>2. \A k : k \in StartsOf(j)' <=> k \in StartsOf(j)
      BY <2>1, <3>1 DEF StartsOf
    <3>3. QED
      BY <3>2
  <2>5. StartsOf(i)' # {}
    <3>1. Len(started') \in StartsOf(i)'
      BY <2>1, <2>2 DEF StartsOf
    <3>2. QED
      BY <3>1
  <2>6. \A j \in DOMAIN plan : j >= i => outcome[j] = "none"
    BY <2>2 DEF SummaryInv
  <2>7. \A j \in DOMAIN plan : opts.mode = "auto" => outcome[j] # "blocked"
    BY <2>2 DEF SummaryInv
  <2>8. SummaryTruthful'
    <3> SUFFICES ASSUME NEW j \in DOMAIN plan, outcome[j] # "none"
                 PROVE  /\ outcome[j] \in {"skipped", "blocked"} => StartsOf(j)' = {}
                        /\ outcome[j] = "executed" => StartsOf(j)' # {}
                        /\ ~(opts.mode = "auto" /\ outcome[j] = "blocked")
      BY <2>2 DEF SummaryTruthful
    <3>1. j # i
      BY <1>0, <2>6
    <3>2. QED
      BY <2>4, <2>7, <3>1 DEF SummaryInv, SummaryTruthful
  <2>9. QED
    BY <2>2, <2>3, <2>5, <2>6, <2>7, <2>8 DEF SummaryInv
<1>7. ASSUME NEW c \in Command, Edit(c) PROVE SummaryInv'
  BY <1>7, SummaryMoves DEF Edit
<1>8. ASSUME NEW choice \in {"yes", "no", "all"}, Answer(choice) PROVE SummaryInv'
  <2>1. CASE Blocked(step)
    BY <1>0, <1>4, <1>8, <2>1 DEF Answer
  <2>2. CASE ~Blocked(step) /\ choice = "no"
    BY <1>0, <1>8, <1>a, <2>2, SummaryLeaves DEF Answer, Continue
  <2>3. CASE ~Blocked(step) /\ choice # "no"
    BY <1>8, <2>3, SummaryMoves DEF Answer, RunStep, FirstAttempt
  <2>4. QED
    BY <2>1, <2>2, <2>3
<1>9. ASSUME NEW c \in Command, NEW r \in Label, Correction(c, r) PROVE SummaryInv'
  BY <1>9, SummaryMoves DEF Correction
<1>10. CASE Succeeds \/ Killed \/ FailsForGood \/ CorrectionRefused
  BY <1>0, <1>10, SummaryLeaves
     DEF Succeeds, Killed, FailsForGood, CorrectionRefused, Continue, Abort,
         Executed
<1>11. CASE FailsOnce
  BY <1>11, SummaryMoves DEF FailsOnce
<1>12. CASE Cancel \/ UNCHANGED vars
  BY <1>12 DEF Cancel, vars, SummaryInv, SummaryTruthful, StartsOf
<1>13. QED
  BY <1>1, <1>2, <1>3, <1>5, <1>6, <1>7, <1>8, <1>9, <1>10, <1>11, <1>12
     DEF Next, Proceed, User, Exit, Returned

(* A step reported skipped or blocked was never started, one reported      *)
(* executed was, and nothing is started after the Block that ended an auto *)
(* run (runner.go: runAskMode, runAutoMode, fillSkippedTail).              *)
THEOREM SummaryHolds == Spec => []SummaryTruthful
<1>1. SummaryInv => SummaryTruthful
  BY DEF SummaryInv
<1>2. QED
  BY <1>1, SummaryInit, SummaryStep, VerdictInit, VerdictStep, TypeCorrect, PTL
     DEF Spec

=============================================================================
