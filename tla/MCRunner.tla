------------------------------ MODULE MCRunner ------------------------------
(***************************************************************************)
(* The instance of Runner that TLC checks: four commands, one of each kind *)
(* the verdict tells apart, and all plans of at most two steps out of five *)
(* kinds of step, two of which never met the safety engine.                *)
(***************************************************************************)
EXTENDS RunnerGate

MCCommand == {"ls", "sudo", "rm", "mkfs"}
MCDenylisted == {"mkfs"}
MCRuleRisk == [c \in MCCommand |->
                 IF c = "ls" THEN Read ELSE IF c = "sudo" THEN Elevated
                 ELSE Destructive]
MCEffectRisk == [c \in MCCommand |-> IF c = "rm" THEN Destructive ELSE Read]
MCLabel == {Read, Destructive}

MCStep == {Checked("ls", Read), Checked("ls", Destructive),
           Checked("sudo", Read), Unchecked("rm", Read),
           Unchecked("mkfs", Read)}
MCPlans == UNION {[1..n -> MCStep] : n \in 0..2}

Ask(pre, log) ==
  [mode |-> "ask", confirmDestructive |-> FALSE, confirmElevated |-> FALSE,
   yolo |-> TRUE, preApproved |-> pre, audit |-> log]

Auto(destructive, elevated, yolo) ==
  [mode |-> "auto", confirmDestructive |-> destructive,
   confirmElevated |-> elevated, yolo |-> yolo, preApproved |-> FALSE,
   audit |-> "sound"]

Info == [Ask(FALSE, "off") EXCEPT !.mode = "info"]

MCOptions ==
  {Info, Ask(FALSE, "sound"), Ask(TRUE, "failing"),
   Auto(TRUE, TRUE, TRUE), Auto(FALSE, TRUE, TRUE), Auto(TRUE, FALSE, TRUE),
   Auto(FALSE, FALSE, FALSE)}

=============================================================================
