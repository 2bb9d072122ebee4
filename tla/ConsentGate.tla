---------------------------- MODULE ConsentGate -----------------------------
(***************************************************************************)
(* What one call of Execute promises the user, whatever its loops, prompts *)
(* and retries look like: consent is given, commands are run in plan order *)
(* under the consent they need, failures are retried within one budget,    *)
(* and after the call returned nothing happens any more.                   *)
(***************************************************************************)
EXTENDS Safety, Sequences, FiniteSets

CONSTANT MaxCorrections

VARIABLES
  mode,         \* "info", "ask" or "auto"
  waived,       \* the risk classes config and --yolo waive in auto mode
  preApproved,  \* the plan was approved as a whole in the review
  declared,     \* the risk declared for each step
  granted,      \* what the user approved: step, command and how
  ran,          \* the commands that were started, in order
  over          \* the call has returned

terms == <<mode, waived, preApproved, declared>>
gateVars == <<mode, waived, preApproved, declared, granted, ran, over>>

Last(s) == s[Len(s)]
LastIndex == IF ran = <<>> THEN 0 ELSE Last(ran).index
Retries == {k \in 1..Len(ran) : ran[k].corrected}

ConsentFor(s) ==
  LET risk == EffectiveRisk(s.command, declared[s.index])
      byName == \E a \in granted : a.index = s.index /\ a.command = s.command
      byAll == preApproved \/ \E a \in granted :
                                a.choice = "all" /\ a.index < s.index
  IN  \/ byName
      \/ mode = "auto" /\ (risk < Elevated \/ risk \in waived)
      \/ mode = "ask" /\ risk < Elevated /\ byAll

Init ==
  /\ granted = {}
  /\ ran = <<>>
  /\ over = FALSE

(* Consent names a step that has not run yet. *)
Grant ==
  /\ ~over
  /\ \E j \in DOMAIN declared, c \in Command, how \in {"yes", "all"} :
       /\ j > LastIndex
       /\ granted' = granted \cup {[index |-> j, command |-> c, choice |-> how]}
  /\ UNCHANGED <<terms, ran, over>>

(* The first attempt at a step: later than every step run before. *)
RunFirst ==
  /\ ~over
  /\ \E j \in DOMAIN declared, c \in Command \ Denylisted, l \in BOOLEAN :
       LET s == [index |-> j, command |-> c, corrected |-> FALSE, late |-> l]
       IN  j > LastIndex /\ ConsentFor(s) /\ ran' = Append(ran, s)
  /\ UNCHANGED <<terms, granted, over>>

(* A retry replaces the command of the step that ran last. *)
Retry ==
  /\ ~over
  /\ ran # <<>>
  /\ Cardinality(Retries) < MaxCorrections
  /\ \E c \in Command \ Denylisted, l \in BOOLEAN :
       ran' = Append(ran, [index |-> LastIndex, command |-> c,
                           corrected |-> TRUE, late |-> l])
  /\ UNCHANGED <<terms, granted, over>>

Return ==
  /\ ~over
  /\ over' = TRUE
  /\ UNCHANGED <<terms, granted, ran>>

Next == Grant \/ RunFirst \/ Retry \/ Return

Spec == Init /\ [][Next]_gateVars

=============================================================================
