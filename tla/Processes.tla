------------------------------ MODULE Processes ------------------------------
(* The comrade processes of one user. Each runs one command; the modules that *)
(* extend this one say what the steps of a family of commands do to the files *)
(* they share, and Home puts them together.                                   *)
EXTENDS Naturals, Sequences, FiniteSets, TLC

CONSTANT Proc

VARIABLES cmd,  \* the command of each process, a record with a field "do"
          pc    \* where it stands: "start", a label of its family, "done", "dead"

Does(p, kinds) == cmd[p].do \in kinds
Ended(p) == pc[p] \in {"done", "dead"}
Goto(p, label) == pc' = [pc EXCEPT ![p] = label]
Step(p, kinds, from, to) == Does(p, kinds) /\ pc[p] = from /\ Goto(p, to)

NoMap == <<>>
=============================================================================
