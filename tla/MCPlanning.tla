----------------------------- MODULE MCPlanning -----------------------------
(***************************************************************************)
(* Planning for TLC: a harmless, a dangerous, a denylisted and an empty    *)
(* command, and responses of up to three steps where two are the limit.    *)
(***************************************************************************)
EXTENDS Planning

MCCommand == {"", "ls", "rm", "mkfs"}
MCDenylisted == {"mkfs"}
MCRuleRisk == [c \in MCCommand |-> IF c = "rm" THEN Destructive ELSE Read]
MCEffectRisk == [c \in MCCommand |-> Read]
MCLabel == {Read, Unknown}

Raw(c, l) == [command |-> c, label |-> l]
MCRawPlans ==
  {<<>>, <<Raw("", Read)>>, <<Raw("ls", Unknown)>>,
   <<Raw("ls", Read), Raw("mkfs", Read)>>,
   <<Raw("rm", Read), Raw("ls", Unknown), Raw("ls", Read)>>}

Call(source, mode, planReview, review) ==
  [source |-> source, mode |-> mode, planReview |-> planReview,
   review |-> review, terminal |-> TRUE]
MCSettings ==
  {Call("do", "ask", TRUE, "unset"), Call("do", "auto", TRUE, "unset"),
   Call("fix", "auto", FALSE, "on"), Call("fix", "ask", TRUE, "off"),
   Call("undo", "ask", TRUE, "unset")}

=============================================================================
