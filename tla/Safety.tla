------------------------------- MODULE Safety -------------------------------
(***************************************************************************)
(* internal/safety: the verdict the safety engine gives on one command.    *)
(* The text of the command is abstracted to a member of Command; what the  *)
(* denylist, the escalation rules and the shell analysis find in that text *)
(* are constants of the model.                                             *)
(***************************************************************************)
EXTENDS Naturals

CONSTANTS
  Command,      \* the commands a plan, an edit or a correction can name
  Denylisted,   \* those a built-in or a user denylist rule matches
  RuleRisk,     \* the highest risk of the escalation rules that match
  EffectRisk    \* the risk the analysis of the shell text finds

(* RiskClass: the integer order is the order of severity. *)
Read        == 0
Write       == 1
Network     == 2
Elevated    == 3
Destructive == 4
Risk == Read .. Destructive

ASSUME SafetyAssumption ==
  /\ Denylisted \subseteq Command
  /\ RuleRisk \in [Command -> Risk]
  /\ EffectRisk \in [Command -> Risk]

Decision == [action : {"allow", "confirm", "block"}, risk : Risk,
             evaluated : BOOLEAN]

(* The Go zero value: what a step carries that never met the engine. *)
ZeroDecision == [action |-> "allow", risk |-> Read, evaluated |-> FALSE]

Highest(a, b) == IF a > b THEN a ELSE b

(* Rules and analysis only ever raise what the model declared. *)
EffectiveRisk(c, declared) ==
  Highest(declared, Highest(RuleRisk[c], EffectRisk[c]))

Evaluate(c, declared) ==
  LET risk == IF c \in Denylisted THEN Destructive
                                  ELSE EffectiveRisk(c, declared)
      action == IF c \in Denylisted THEN "block"
                ELSE IF risk >= Elevated THEN "confirm" ELSE "allow"
  IN  [action |-> action, risk |-> risk, evaluated |-> TRUE]

=============================================================================
