-------------------------------- MODULE Undo --------------------------------
(***************************************************************************)
(* comrade do, fix and undo as concurrent processes over one audit log:    *)
(* internal/cli/undo_select.go, undo_plan.go and undo.go, with             *)
(* buildAuditSink and the appends of the runs.  Which command a step runs  *)
(* is abstracted to its outcome: it failed, or the table of internal/undo  *)
(* derives its inverse ("known"), derives it for a relative path only      *)
(* ("relative"), or does not know it ("unknown").                          *)
(***************************************************************************)
EXTENDS AuditLog

CONSTANT MaxCommands  \* bound: the commands all processes execute

ASSUME OutcomeAssumption ==
  Outcome \subseteq {"known", "relative", "unknown"} /\ Outcome # {}

VARIABLES
  kind,     \* "run" for do and fix, "undo"
  phase,    \* where each process is
  target,   \* the RunID an undo works on
  default,  \* it was selectUndoTarget's choice, not named with --run
  steps,    \* the entries of the target, as the undo read them
  todo,     \* the steps its plan still has to reverse, in order; 0 is a
            \* command of the LLM that stands for no step
  count,    \* commands this process has executed
  reversed, \* history: the steps it has reversed
  declined, \* history: the steps the user said no to
  blocked   \* history: the steps the safety engine blocked

process == <<kind, phase, target, default, steps, todo, count, reversed,
             declined, blocked>>
vars == <<auditVars, process>>

Init ==
  /\ AuditInit
  /\ kind = [p \in Proc |-> "run"]
  /\ phase = [p \in Proc |-> "idle"]
  /\ target = [p \in Proc |-> Nobody]
  /\ default = [p \in Proc |-> FALSE]
  /\ steps = [p \in Proc |-> <<>>]
  /\ todo = [p \in Proc |-> <<>>]
  /\ count = [p \in Proc |-> 0]
  /\ reversed = [p \in Proc |-> <<>>]
  /\ declined = [p \in Proc |-> {}]
  /\ blocked = [p \in Proc |-> {}]

Goto(p, there) == phase' = [phase EXCEPT ![p] = there]

-----------------------------------------------------------------------------
(* Selection: undo_select.go.                                              *)

StepsOf(entries, r) == Picked(entries, {k \in DOMAIN entries : entries[k].run = r})

(* groupUndoRuns leaves entries without a RunID out.                       *)
Runs(entries) == {e.run : e \in ToSet(entries)} \ {Legacy}

UndoneIfSucceeded(entries) ==  \* mutant
  {e.undoOf : e \in {x \in ToSet(entries) : x.outcome # "failed"}} \ {Nobody}

(* alreadyUndoneRunIDs: what any entry of the log names as its UndoOf.     *)
Undone(entries) == {e.undoOf : e \in ToSet(entries)} \ {Nobody}

LatestOf(entries, r) == Last(StepsOf(entries, r)).time
FirstSeen(entries, r) ==
  CHOOSE k \in DOMAIN entries :
    /\ entries[k].run = r
    /\ \A j \in 1..(k - 1) : entries[j].run # r

(* selectUndoTarget: the newest run that is not undone, the one that       *)
(* appeared later in the log on a tie.                                     *)
Candidates(entries) == Runs(entries) \ Undone(entries)
Newer(entries, a, b) ==
  \/ LatestOf(entries, a) > LatestOf(entries, b)
  \/ /\ LatestOf(entries, a) = LatestOf(entries, b)
     /\ FirstSeen(entries, a) > FirstSeen(entries, b)
DefaultTarget(entries) ==
  CHOOSE r \in Candidates(entries) :
    \A s \in Candidates(entries) \ {r} : Newer(entries, r, s)

-----------------------------------------------------------------------------
(* Planning: undo_plan.go.                                                 *)

(* A step that failed never took effect and is skipped.                    *)
Eligible(es) == Picked(es, {k \in DOMAIN es : es[k].outcome # "failed"})

(* deriveStepsForRun: an inverse on a relative path counts only in the     *)
(* directory the step ran in.                                              *)
Derived(e, moved) == e.outcome = "known" \/ (e.outcome = "relative" /\ ~moved)

(* buildUndoPlan: the newest step first, or the LLM's plan over all of     *)
(* them when any one has no inverse.                                       *)
Heuristic(es, moved) ==
  \A k \in DOMAIN Eligible(es) : Derived(Eligible(es)[k], moved)
InOrder(es) == [k \in DOMAIN es |-> es[k].step]  \* mutant

InReverse(es) == [k \in DOMAIN Reverse(es) |-> Reverse(es)[k].step]

(* DeriveUndo: commands that belong to no step; none at all is a refusal.  *)
LLMPlans == {[k \in 1..n |-> 0] : n \in 0..MaxSteps}

Plans(es, moved) ==
  IF Eligible(es) = <<>> THEN {<<>>}
  ELSE IF Heuristic(es, moved) THEN {InReverse(Eligible(es))}
  ELSE LLMPlans

-----------------------------------------------------------------------------
(* A process from its start to the cleanup of buildAuditSink.              *)

StartRun(p) ==
  /\ phase[p] = "idle"
  /\ Goto(p, "retention")
  /\ UNCHANGED <<auditVars, kind, target, default, steps, todo, count,
                 reversed, declined, blocked>>

(* runUndo reads the log and picks the target; --run takes any run, even   *)
(* one that was undone.  An undo with --list or without a target is over.  *)
StartUndo(p, named) ==
  /\ phase[p] = "idle"
  /\ kind' = [kind EXCEPT ![p] = "undo"]
  /\ IF named
     THEN \E r \in Runs(ReadAll) : target' = [target EXCEPT ![p] = r]
     ELSE /\ Candidates(ReadAll) # {}
          /\ target' = [target EXCEPT ![p] = DefaultTarget(ReadAll)]
  /\ default' = [default EXCEPT ![p] = ~named]
  /\ steps' = [steps EXCEPT ![p] = StepsOf(ReadAll, target'[p])]
  /\ Goto(p, "retention")
  /\ UNCHANGED <<auditVars, todo, count, reversed, declined, blocked>>

(* What comes after the cleanup: a run has its plan from the LLM, an undo  *)
(* derives it from the steps it read before the cleanup; --dry-run and an  *)
(* empty plan end it there.                                                *)
Prepare(p) ==
  IF kind[p] = "run"
  THEN Goto(p, "execute") /\ UNCHANGED todo
  ELSE \E moved \in BOOLEAN : \E plan \in Plans(steps[p], moved) :
         /\ todo' = [todo EXCEPT ![p] = plan]
         /\ Goto(p, IF plan = <<>> THEN "over" ELSE "execute")

ReadToClean(p) ==
  /\ phase[p] = "retention"
  /\ ReadForRetention(p)
  /\ Goto(p, "rewrite")
  /\ UNCHANGED <<kind, target, default, steps, todo, count, reversed, declined,
                 blocked>>

(* Nothing to drop, or a cleanup that fails at once, which is not fatal.   *)
SkipCleaning(p) ==
  /\ phase[p] = "retention"
  /\ NothingExpired
  /\ Prepare(p)
  /\ UNCHANGED <<auditVars, kind, target, default, steps, count, reversed,
                 declined, blocked>>

Cleaned(p) ==
  /\ phase[p] = "rewrite"
  /\ Rename(p) \/ Abandon(p)
  /\ Prepare(p)
  /\ UNCHANGED <<kind, target, default, steps, count, reversed, declined, blocked>>

-----------------------------------------------------------------------------
(* Executing, with one append per executed command.                        *)

Commands == FoldFunction(LAMBDA n, sum : n + sum, 0, count)

(* The executor ran a command and appendAudit opens the log.  A step whose *)
(* command failed stays for the self-correction, or is where the run ends. *)
Execute(p, outcome) ==
  /\ phase[p] \in {"execute", "retry"}
  /\ count[p] < MaxSteps /\ Commands < MaxCommands
  /\ kind[p] = "undo" => todo[p] # <<>>
  /\ count' = [count EXCEPT ![p] = @ + 1]
  /\ Open(p, [run |-> p, step |-> count[p] + 1, undoOf |-> target[p],
              time |-> now, outcome |-> outcome])
  /\ IF kind[p] = "undo" /\ outcome # "failed"
     THEN /\ todo' = [todo EXCEPT ![p] = Tail(@)]
          /\ reversed' = [reversed EXCEPT ![p] = Append(@, Head(todo[p]))]
     ELSE UNCHANGED <<todo, reversed>>
  /\ Goto(p, "append")
  /\ UNCHANGED <<kind, target, default, steps, declined, blocked>>

(* A [n]o to one step goes on with the next one.                           *)
Decline(p) ==
  /\ phase[p] = "execute"
  /\ kind[p] = "undo"
  /\ todo[p] # <<>>
  /\ todo' = [todo EXCEPT ![p] = Tail(@)]
  /\ declined' = [declined EXCEPT ![p] = @ \cup {Head(todo[p])}]
  /\ UNCHANGED <<auditVars, kind, phase, target, default, steps, count,
                 reversed, blocked>>

(* The safety engine blocks the inverse of a step, or what the user made   *)
(* of it with [e]dit: the user's denylist may name it.  The run goes on    *)
(* with the next step, and for an inverse of the plan nobody is asked.     *)
PassBlocked(p) ==
  /\ phase[p] = "execute"
  /\ kind[p] = "undo"
  /\ todo[p] # <<>>
  /\ todo' = [todo EXCEPT ![p] = Tail(@)]
  /\ blocked' = [blocked EXCEPT ![p] = @ \cup {Head(todo[p])}]
  /\ UNCHANGED <<auditVars, kind, phase, target, default, steps, count,
                 reversed, declined>>

(* A failed append is only reported.                                       *)
Record(p) ==
  /\ phase[p] = "append"
  /\ Write(p) \/ WriteTorn(p)
  /\ Goto(p, IF pending[p].outcome = "failed" THEN "retry" ELSE "execute")
  /\ UNCHANGED <<kind, target, default, steps, todo, count, reversed, declined,
                 blocked>>

(* The process dies in an append or in a rewrite: a torn line, or a        *)
(* temporary file that nobody will rename.  Dying or finishing elsewhere   *)
(* is never to be scheduled again, which Spec allows at any point.         *)
Die(p) ==
  /\ \/ phase[p] = "rewrite" /\ Abandon(p)
     \/ phase[p] = "append" /\ WriteTorn(p)
  /\ Goto(p, "over")
  /\ UNCHANGED <<kind, target, default, steps, todo, count, reversed, declined,
                 blocked>>

Next ==
  \/ \E p \in Proc :
       \/ StartRun(p) \/ StartUndo(p, TRUE) \/ StartUndo(p, FALSE)
       \/ ReadToClean(p) \/ SkipCleaning(p) \/ Cleaned(p)
       \/ \E outcome \in Outcome \cup {"failed"} : Execute(p, outcome)
       \/ Decline(p) \/ PassBlocked(p) \/ Record(p) \/ Die(p)
  \/ Tick /\ UNCHANGED process

Spec == Init /\ [][Next]_vars

-----------------------------------------------------------------------------
(* Properties.                                                             *)

Settled == {e.undoOf : e \in {x \in acked \ exposed : ~Expired(x)}} \ {Nobody}

(* An undo without --run that starts after a command of another undo was   *)
(* recorded does not pick the run that one works on: the marker outlives   *)
(* cleanups, later appends and crashes until it is older than the          *)
(* retention.  Excepted is a marker that was written while another process *)
(* cleaned up or behind a torn line, which can be lost; and two undos that *)
(* both chose before either had recorded a command may choose the same     *)
(* run: nothing reserves it.                                               *)
NeverOfferedAgain ==
  [][\A p \in Proc :
       (phase[p] = "idle" /\ default'[p]) => target'[p] \notin Settled]_vars

(* The steps an undo reverses are steps of its target that succeeded, the  *)
(* newest first, and none is passed over in between but those the user     *)
(* said no to and those the safety engine blocked, past which executeAsk   *)
(* goes on: the user's denylist may leave a hole that nobody asked for.    *)
ReversesInOrder ==
  \A p \in Proc :
    LET mine == Without(reversed[p], 0)
        good == {e.step : e \in {x \in ToSet(steps[p]) : x.outcome # "failed"}}
    IN  /\ \A j, k \in DOMAIN mine : j < k => mine[j] > mine[k]
        /\ ToSet(mine) \subseteq good
        /\ \A s \in good, k \in ToSet(mine) :
             s > k => s \in ToSet(mine) \cup declined[p] \cup blocked[p]

=============================================================================
