------------------------------- MODULE MCUndo -------------------------------
(***************************************************************************)
(* Undo for TLC: two interchangeable processes over one of two logs: an    *)
(* entry older than undo and a run of two steps, or a run that went on     *)
(* after an undo of it had failed.                                         *)
(***************************************************************************)
EXTENDS Undo

Past(run, step, undoOf, time, outcome) ==
  [run |-> run, step |-> step, undoOf |-> undoOf, time |-> time,
   outcome |-> outcome]

MCPastLogs ==
  {<<Past(Legacy, 0, Nobody, 0, "failed"),
     Past("x", 1, Nobody, 0, "relative"), Past("x", 2, Nobody, 1, "relative")>>,
   <<Past("x", 1, Nobody, 0, "failed"), Past("y", 1, "x", 0, "failed"),
     Past("x", 2, Nobody, 1, "relative")>>}

Symmetry == Permutations(Proc)

=============================================================================
