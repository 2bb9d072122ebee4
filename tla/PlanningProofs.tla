--------------------------- MODULE PlanningProofs ---------------------------
(***************************************************************************)
(* What holds of Planning for responses of any length, any number of       *)
(* passes of the review and any editing in them: the verdicts are the      *)
(* engine's, what runs is what was shown, and nothing is cut unannounced.  *)
(***************************************************************************)
EXTENDS Planning, ListsProofs

-----------------------------------------------------------------------------
(* What Unskipped returns.                                                 *)

(* They are rows of rs that are not skipped, in the order they have there. *)
LEMMA UnskippedOf ==
  ASSUME NEW R, NEW rs \in Seq(R)
  PROVE  /\ Unskipped(rs) \in Seq(R)
         /\ \E at \in [DOMAIN Unskipped(rs) -> DOMAIN rs] :
              /\ \A k \in DOMAIN Unskipped(rs) : Unskipped(rs)[k] = rs[at[k]]
              /\ \A j, k \in DOMAIN Unskipped(rs) : j < k => at[j] < at[k]
<1> DEFINE us == Unskipped(rs)
           ks == {k \in DOMAIN rs : ~rs[k].skipped} \cap DOMAIN rs
<1>1. us \in Seq(R) /\ Follows(us, rs, ks)
  BY PickedFollows DEF Unskipped
<1>2. ks \subseteq DOMAIN rs
  OBVIOUS
<1> HIDE DEF us, ks
<1>3. DOMAIN us = 1..Len(us)
  BY <1>1
<1>4. QED
  BY <1>1, <1>2, <1>3 DEF Follows, us

-----------------------------------------------------------------------------
(* The invariant.                                                          *)

Planned == {"review", "handed", "approved"}

(* The response in use is the one answered, or as much of it as do takes.  *)
AnswerInv ==
  /\ raw \in Seq(RawStep) /\ answer \in Seq(RawStep) /\ truncated \in BOOLEAN
  /\ pc \in {"request", "again", "consolidate"} => ~truncated
  /\ pc = "consolidate" => raw = answer /\ MaxAutoSteps > 0
  /\ pc \in Planned \cup {"convert"} =>
       /\ Len(raw) <= Len(answer) /\ \A k \in 1..Len(raw) : raw[k] = answer[k]
       /\ setting.source = "do" => /\ MaxAutoSteps > 0 => Len(raw) <= MaxAutoSteps
                                   /\ Len(raw) < Len(answer) <=> truncated

RequestInv ==
  /\ setting \in Setting /\ requests \in Nat
  /\ pc \in Planned \cup {"request", "again", "consolidate", "convert", "failed"}
  /\ pc = "request" => requests = 0
  /\ pc = "again" => requests = 1 /\ setting.source = "do"
  /\ pc = "consolidate" => requests <= 2 /\ setting.source = "do"
  /\ requests <= IF setting.source = "do" THEN 3 ELSE 1

PlanInv ==
  /\ pc \in Planned => plan = ToPlan(raw)
  /\ pc = "handed" => given = plan

(* A row leads to the step it came from, by way of the screen's index; one *)
(* that was ever refused is marked, and marked rows have the command that  *)
(* was refused.                                                            *)
RowRec == [command : Command, original : Nat, of : Nat, blocked : BOOLEAN, skipped : BOOLEAN]
Blocks(command, i) == Evaluate(command, Declared(raw[i].label)).action = "block"
RowSound(r) ==
  /\ r.original \in DOMAIN origIdx /\ r.of = origIdx[r.original]
  /\ r.of \in refused => r.blocked
  /\ r.blocked => Blocks(r.command, r.of)

ReviewInv ==
  pc = "review" =>
    /\ rows \in Seq(RowRec) /\ origIdx \in Seq(DOMAIN raw)
    /\ \A k \in DOMAIN rows : RowSound(rows[k])
    /\ \A j, k \in DOMAIN rows : rows[j].of = rows[k].of => j = k

ApprovedInv == pc = "approved" => VerdictsTrue /\ RunsWhatWasShown

PlanningInv == AnswerInv /\ RequestInv /\ PlanInv /\ ReviewInv /\ ApprovedInv

-----------------------------------------------------------------------------
(* Asking, and converting the answer.                                      *)

(* Nothing has been asked at the start.                                    *)
LEMMA PlanningStarts == Init => PlanningInv
<1> SUFFICES ASSUME Init PROVE PlanningInv
  OBVIOUS
<1>1. setting \in Setting
  BY PlanningAssumption DEF Init
<1>2. AnswerInv
  <2>1. pc = "request" /\ raw = <<>> /\ answer = <<>> /\ ~truncated /\ truncated \in BOOLEAN
    BY DEF Init
  <2>2. QED
    BY <2>1 DEF AnswerInv, Planned
<1>3. RequestInv
  BY <1>1 DEF Init, RequestInv, Planned
<1>4. QED
  BY <1>2, <1>3 DEF Init, PlanningInv, PlanInv, ReviewInv, ApprovedInv, Planned

(* What a step that asks leaves does not concern the review.               *)
LEMMA AskingAlone ==
  ASSUME pc' \notin Planned
  PROVE  PlanInv' /\ ReviewInv' /\ ApprovedInv'
BY DEF PlanInv, ReviewInv, ApprovedInv, Planned

(* One request to the model, answered or failed.                           *)
LEMMA AskKeeps ==
  ASSUME PlanningInv, Request \/ RequestAgain \/ RequestFails
  PROVE  PlanningInv'
<1>1. /\ pc \in {"request", "again"} /\ requests' = requests + 1
      /\ UNCHANGED <<setting, truncated>>
  BY DEF Request, RequestAgain, RequestFails
<1>2. /\ setting \in Setting /\ requests \in Nat /\ ~truncated /\ MaxAutoSteps \in Nat
      /\ raw \in Seq(RawStep) /\ answer \in Seq(RawStep) /\ truncated \in BOOLEAN
      /\ pc = "request" => requests = 0
      /\ pc = "again" => requests = 1 /\ setting.source = "do"
  BY <1>1, PlanningAssumption DEF PlanningInv, AnswerInv, RequestInv
<1>3. CASE \E response \in RawPlans : Use(response)
  <2>1. PICK response \in RawPlans : Use(response)
    BY <1>3
  <2>2. /\ raw' = response /\ answer' = response /\ response \in Seq(RawStep)
        /\ pc' = IF TooLong(response) THEN "consolidate" ELSE "convert"
    BY <2>1, PlanningAssumption DEF Use
  <2>3. AnswerInv'
    BY <1>1, <1>2, <2>2 DEF AnswerInv, TooLong, Planned
  <2>4. RequestInv'
    BY <1>1, <1>2, <2>2 DEF RequestInv, TooLong, Planned
  <2>5. QED
    BY <2>2, <2>3, <2>4, AskingAlone DEF PlanningInv, Planned
<1>4. CASE pc' = "failed" \/ (pc' = "again" /\ pc = "request" /\ setting.source = "do")
  <2>1. CASE UNCHANGED <<raw, answer>>
    <3>1. AnswerInv'
      BY <1>1, <1>2, <1>4, <2>1 DEF AnswerInv, Planned
    <3>2. RequestInv'
      BY <1>1, <1>2, <1>4 DEF RequestInv, Planned
    <3>3. QED
      BY <1>4, <3>1, <3>2, AskingAlone DEF PlanningInv, Planned
  <2>2. CASE \E response \in RawPlans : Use(response)
    BY <1>3, <2>2
  <2>3. QED
    BY <2>1, <2>2 DEF Request, RequestAgain, RequestFails
<1>5. QED
  BY <1>3, <1>4 DEF Request, RequestAgain, RequestFails

(* The request for a shorter plan, and the cut of what is still too long.  *)
LEMMA ConsolidateKeeps == ASSUME PlanningInv, Consolidate PROVE PlanningInv'
<1>1. /\ setting \in Setting /\ requests \in Nat /\ requests <= 2 /\ MaxAutoSteps \in Nat /\ MaxAutoSteps > 0
      /\ raw \in Seq(RawStep) /\ setting.source = "do"
  BY PlanningAssumption DEF Consolidate, PlanningInv, AnswerInv, RequestInv
<1>2. PICK best \in Seq(RawStep) : answer' = best /\ raw' = Cut(best).steps /\ truncated' = Cut(best).marked
  BY <1>1, PlanningAssumption DEF Consolidate
<1>3. pc' = "convert" /\ requests' = requests + 1 /\ setting' = setting
  BY DEF Consolidate
<1>4. AnswerInv'
  <2>1. CASE Len(best) > MaxAutoSteps
    <3>1. raw' = SubSeq(best, 1, MaxAutoSteps) /\ truncated' = TRUE
      BY <1>2, <2>1 DEF Cut
    <3>2. raw' \in Seq(RawStep) /\ Len(raw') = MaxAutoSteps /\ \A k \in 1..MaxAutoSteps : raw'[k] = best[k]
      BY <1>1, <1>2, <2>1, <3>1
    <3>3. /\ Len(raw') <= Len(answer') /\ \A k \in 1..Len(raw') : raw'[k] = answer'[k]
          /\ Len(raw') <= MaxAutoSteps /\ Len(raw') < Len(answer') /\ truncated'
      BY <1>1, <1>2, <2>1, <3>1, <3>2
    <3>4. QED
      BY <1>2, <1>3, <3>1, <3>2, <3>3 DEF AnswerInv, Planned
  <2>2. CASE ~(Len(best) > MaxAutoSteps)
    <3>1. raw' = best /\ truncated' = FALSE
      BY <1>2, <2>2 DEF Cut
    <3>2. /\ Len(raw') <= Len(answer') /\ \A k \in 1..Len(raw') : raw'[k] = answer'[k]
          /\ Len(raw') <= MaxAutoSteps /\ ~(Len(raw') < Len(answer')) /\ ~truncated'
      BY <1>1, <1>2, <2>2, <3>1
    <3>3. QED
      BY <1>2, <1>3, <3>1, <3>2 DEF AnswerInv, Planned
  <2>3. QED
    BY <2>1, <2>2
<1>5. RequestInv'
  BY <1>1, <1>3 DEF RequestInv, Planned
<1>6. QED
  BY <1>3, <1>4, <1>5, AskingAlone DEF PlanningInv, Planned

(* What toPlan and the engine make of the response.                        *)
LEMMA PlanIs ==
  ASSUME raw \in Seq(RawStep)
  PROVE  /\ DOMAIN ToPlan(raw) = 1..Len(raw) /\ Len(ToPlan(raw)) = Len(raw)
         /\ \A k \in 1..Len(raw) :
              /\ ToPlan(raw)[k].command = raw[k].command /\ ToPlan(raw)[k].from = k
              /\ ToPlan(raw)[k].risk = Declared(raw[k].label)
              /\ ToPlan(raw)[k].decision = Evaluate(raw[k].command, Declared(raw[k].label))
BY DEF ToPlan, Step

(* A step is blocked as the engine says of its command.                    *)
LEMMA BlocksIs ==
  /\ \A c, i : Blocks(c, i) \in BOOLEAN
  /\ \A s, c, i : s.decision = Evaluate(c, Declared(raw[i].label)) => Blocked(s) = Blocks(c, i)
BY DEF Blocks, Blocked

(* The plan is handed over at once, or put on the screen with every row at *)
(* its own step.                                                           *)
LEMMA ConvertKeeps == ASSUME PlanningInv, Convert PROVE PlanningInv'
<1>1. pc = "convert" /\ UNCHANGED <<setting, requests, raw, answer, truncated>> /\ raw \in Seq(RawStep)
  BY DEF Convert, model, PlanningInv, AnswerInv
<1>2. pc' \in {"failed", "review", "handed"}
  BY DEF Convert
<1>3. AnswerInv'
  BY <1>1, <1>2 DEF PlanningInv, AnswerInv, Planned
<1>4. RequestInv'
  BY <1>1, <1>2 DEF PlanningInv, RequestInv, Planned
<1>5. CASE pc' = "failed"
  BY <1>3, <1>4, <1>5, AskingAlone DEF PlanningInv, Planned
<1>6. CASE pc' = "handed"
  <2>1. plan' = ToPlan(raw') /\ given' = plan'
    BY <1>1, <1>6 DEF Convert
  <2>2. QED
    BY <1>3, <1>4, <1>6, <2>1 DEF PlanningInv, PlanInv, ReviewInv, ApprovedInv
<1>7. CASE pc' = "review"
  <2> DEFINE p == ToPlan(raw)
  <2>1. /\ plan' = p /\ rows' = RowsOf(p) /\ origIdx' = [k \in DOMAIN p |-> k]
        /\ refused' = ShownBlocked(RowsOf(p))
    BY <1>1, <1>7 DEF Convert
  <2>2. DOMAIN p = 1..Len(raw) /\ Len(raw) \in Nat /\ DOMAIN raw = 1..Len(raw)
    BY <1>1, PlanIs
  <2>3. \A k \in 1..Len(raw) :
           /\ rows'[k] = [command |-> raw[k].command, original |-> k, of |-> k,
                          blocked |-> Blocks(raw[k].command, k), skipped |-> FALSE]
           /\ origIdx'[k] = k /\ raw[k].command \in Command
    <3> SUFFICES ASSUME NEW k \in 1..Len(raw)
                 PROVE  /\ rows'[k] = Row(raw[k].command, k, k, Blocks(raw[k].command, k))
                        /\ origIdx'[k] = k /\ raw[k].command \in Command
      BY DEF Row
    <3>1. raw[k] \in RawStep
      BY <1>1
    <3>2. rows'[k] = Row(p[k].command, k, p[k].from, Blocked(p[k])) /\ origIdx'[k] = k
      BY <2>1, <2>2 DEF RowsOf
    <3>3. p[k].command = raw[k].command /\ p[k].from = k
          /\ p[k].decision = Evaluate(raw[k].command, Declared(raw[k].label))
      BY <1>1, PlanIs
    <3> HIDE DEF p
    <3>4. QED
      BY <3>1, <3>2, <3>3, BlocksIs DEF RawStep
  <2>4. DOMAIN rows' = 1..Len(raw) /\ DOMAIN origIdx' = 1..Len(raw)
    BY <2>1, <2>2 DEF RowsOf
  <2>5. rows' \in Seq(RowRec) /\ origIdx' \in Seq(DOMAIN raw)
    <3>1. rows' = [k \in 1..Len(raw) |-> rows'[k]] /\ origIdx' = [k \in 1..Len(raw) |-> k]
      BY <2>1, <2>2, <2>4 DEF RowsOf
    <3>2. \A c \in Command, k \in Nat, b \in BOOLEAN :
             [command |-> c, original |-> k, of |-> k, blocked |-> b, skipped |-> FALSE] \in RowRec
      BY DEF RowRec
    <3>3. ASSUME NEW k \in 1..Len(raw) PROVE rows'[k] \in RowRec
      <4> DEFINE b == Blocks(raw[k].command, k)
      <4>1. b \in BOOLEAN
        BY BlocksIs
      <4>2. rows'[k] = [command |-> raw[k].command, original |-> k, of |-> k, blocked |-> b, skipped |-> FALSE]
        BY <2>3
      <4> HIDE DEF b
      <4>3. raw[k] \in RawStep
        BY <1>1
      <4>4. raw[k].command \in Command /\ k \in Nat
        BY <4>3 DEF RawStep
      <4>5. QED
        BY <3>2, <4>1, <4>2, <4>4
    <3>4. QED
      BY <2>2, <3>1, <3>3
  <2>6. ASSUME NEW k \in 1..Len(raw) PROVE RowSound(rows[k])'
    <3>1. k \in refused' => rows'[k].blocked
      <4> SUFFICES ASSUME k \in refused' PROVE rows'[k].blocked
        OBVIOUS
      <4>1. PICK r \in ToSet(RowsOf(p)) : r.blocked /\ r.of = k
        BY <2>1 DEF ShownBlocked
      <4>2. PICK j \in DOMAIN rows' : rows'[j] = r
        BY <2>1, <4>1 DEF ToSet
      <4>3. j = k
        BY <2>3, <2>4, <4>1, <4>2
      <4>4. QED
        BY <4>1, <4>2, <4>3
    <3>2. rows'[k].original = k /\ rows'[k].of = k /\ rows'[k].command = raw[k].command
          /\ rows'[k].blocked = Blocks(raw[k].command, k)
      <4> DEFINE b == Blocks(raw[k].command, k)
      <4>1. rows'[k] = [command |-> raw[k].command, original |-> k, of |-> k, blocked |-> b, skipped |-> FALSE]
        BY <2>3
      <4> HIDE DEF b
      <4>2. rows'[k].blocked = b /\ rows'[k].original = k /\ rows'[k].of = k /\ rows'[k].command = raw[k].command
        BY <4>1
      <4>3. QED
        BY <4>2 DEF b
    <3>3. raw' = raw /\ Blocks(raw[k].command, k)' = Blocks(raw[k].command, k)
      BY <1>1 DEF Blocks
    <3>4. (RowSound(rows[k]))' <=> /\ rows'[k].original \in DOMAIN origIdx'
                                   /\ rows'[k].of = origIdx'[rows'[k].original]
                                   /\ rows'[k].of \in refused' => rows'[k].blocked
                                   /\ rows'[k].blocked => Blocks(rows'[k].command, rows'[k].of)
      BY <1>1 DEF RowSound, Blocks
    <3>5. QED
      BY <2>3, <2>4, <3>1, <3>2, <3>4
  <2>7. \A j, k \in DOMAIN rows' : rows'[j].of = rows'[k].of => j = k
    BY <2>3, <2>4
  <2>8. ReviewInv'
    BY <1>1, <2>4, <2>5, <2>6, <2>7 DEF ReviewInv
  <2>9. QED
    BY <1>1, <1>3, <1>4, <1>7, <2>1, <2>8 DEF PlanningInv, PlanInv, ApprovedInv
<1>8. QED
  BY <1>2, <1>5, <1>6, <1>7

-----------------------------------------------------------------------------
(* The screen.                                                             *)

(* Rows that were there, each at most once, are as sound as they were: a   *)
(* marked row keeps its command, and every row its origin.                 *)
LEMMA RowsKept ==
  ASSUME PlanningInv, NEW new \in Seq(RowRec), Reviewing(new),
         NEW at \in [DOMAIN new -> DOMAIN rows],
         \A j, k \in DOMAIN new : at[j] = at[k] => j = k,
         \A k \in DOMAIN new :
            /\ new[k].original = rows[at[k]].original /\ new[k].of = rows[at[k]].of
            /\ new[k].blocked = rows[at[k]].blocked
            /\ rows[at[k]].blocked => new[k].command = rows[at[k]].command
  PROVE  PlanningInv'
<1>1. /\ pc = "review" /\ rows' = new
      /\ UNCHANGED <<setting, pc, requests, raw, answer, truncated, plan, origIdx, given, approved, refused>>
  BY DEF Reviewing, model
<1>2. ReviewInv'
  <2>1. /\ origIdx \in Seq(DOMAIN raw)
        /\ \A k \in DOMAIN rows : RowSound(rows[k])
        /\ \A j, k \in DOMAIN rows : rows[j].of = rows[k].of => j = k
    BY <1>1 DEF PlanningInv, ReviewInv
  <2>2. ASSUME NEW k \in DOMAIN new PROVE RowSound(rows[k])'
    <3>1. at[k] \in DOMAIN rows /\ RowSound(rows[at[k]])
      BY <2>1
    <3>2. Blocks(new[k].command, new[k].of)' <=> Blocks(new[k].command, new[k].of)
      BY <1>1 DEF Blocks
    <3>3. QED
      BY <1>1, <3>1, <3>2 DEF RowSound, Blocks
  <2>3. \A j, k \in DOMAIN new : new[j].of = new[k].of => j = k
    BY <2>1
  <2>4. QED
    BY <1>1, <2>1, <2>2, <2>3 DEF ReviewInv
<1>3. AnswerInv' /\ RequestInv' /\ PlanInv' /\ ApprovedInv'
  BY <1>1 DEF PlanningInv, AnswerInv, RequestInv, PlanInv, ApprovedInv, ToPlan, Planned
<1>4. QED
  BY <1>2, <1>3 DEF PlanningInv

(* What the invariant says during the review.                              *)
LEMMA ReviewRows ==
  ASSUME PlanningInv, pc = "review"
  PROVE  /\ rows \in Seq(RowRec) /\ DOMAIN rows = 1..Len(rows) /\ Len(rows) \in Nat
         /\ raw \in Seq(RawStep) /\ plan = ToPlan(raw) /\ origIdx \in Seq(DOMAIN raw)
         /\ \A k \in DOMAIN rows : rows[k] \in RowRec /\ RowSound(rows[k])
         /\ \A j, k \in DOMAIN rows : rows[j].of = rows[k].of => j = k
BY DEF PlanningInv, AnswerInv, PlanInv, ReviewInv, Planned

(* Two rows change places.                                                 *)
LEMMA MoveKeeps == ASSUME PlanningInv, NEW k \in DOMAIN rows, Move(k) PROVE PlanningInv'
<1> DEFINE new == [rows EXCEPT ![k] = rows[k + 1], ![k + 1] = rows[k]]
           at == [j \in DOMAIN new |-> IF j = k THEN k + 1 ELSE IF j = k + 1 THEN k ELSE j]
<1>1. k + 1 \in DOMAIN rows /\ Reviewing(new) /\ pc = "review"
  BY DEF Move, Reviewing
<1>2. rows \in Seq(RowRec) /\ DOMAIN rows = 1..Len(rows) /\ Len(rows) \in Nat
  BY <1>1, ReviewRows
<1>3. DOMAIN new = DOMAIN rows /\ new \in Seq(RowRec)
  BY <1>1, <1>2
<1>4. \A j \in DOMAIN rows : new[j] = IF j = k THEN rows[k + 1] ELSE IF j = k + 1 THEN rows[k] ELSE rows[j]
  BY <1>1, <1>2
<1> HIDE DEF new
<1>5. at \in [DOMAIN new -> DOMAIN rows] /\ \A i, j \in DOMAIN new : at[i] = at[j] => i = j
  BY <1>1, <1>2, <1>3
<1>6. \A j \in DOMAIN new : new[j] = rows[at[j]]
  BY <1>3, <1>4
<1> HIDE DEF at
<1>7. QED
  BY <1>1, <1>3, <1>5, <1>6, RowsKept

(* A row goes, and those below it move up.                                 *)
LEMMA DeleteKeeps == ASSUME PlanningInv, NEW k \in DOMAIN rows, Delete(k) PROVE PlanningInv'
<1> DEFINE new == RemoveAt(rows, k)
           at == [j \in DOMAIN new |-> IF j < k THEN j ELSE j + 1]
<1>1. Reviewing(new) /\ pc = "review"
  BY DEF Delete, Reviewing
<1>2. rows \in Seq(RowRec) /\ DOMAIN rows = 1..Len(rows) /\ Len(rows) \in Nat
  BY <1>1, ReviewRows
<1>3. new \in Seq(RowRec) /\ DOMAIN new = 1..(Len(rows) - 1)
      /\ \A j \in 1..(Len(rows) - 1) : new[j] = rows[IF j < k THEN j ELSE j + 1]
  <2> DEFINE a == SubSeq(rows, 1, k - 1)
             b == SubSeq(rows, k + 1, Len(rows))
  <2>1. new = a \o b
    BY DEF RemoveAt
  <2>2. a \in Seq(RowRec) /\ Len(a) = k - 1 /\ \A j \in 1..(k - 1) : a[j] = rows[j]
    BY <1>2
  <2>3. b \in Seq(RowRec) /\ Len(b) = Len(rows) - k /\ \A j \in 1..(Len(rows) - k) : b[j] = rows[k + j]
    BY <1>2
  <2> HIDE DEF a, b, new
  <2>4. new \in Seq(RowRec) /\ Len(new) = Len(rows) - 1 /\ DOMAIN new = 1..(Len(rows) - 1)
    <3>1. a \o b \in Seq(RowRec) /\ Len(a \o b) = Len(a) + Len(b)
      <4>1. a \in Seq(RowRec) /\ b \in Seq(RowRec)
        BY <2>2, <2>3
      <4> HIDE DEF RowRec
      <4>2. QED
        BY <4>1
    <3>2. (k - 1) + (Len(rows) - k) = Len(rows) - 1
      BY <1>2
    <3>3. QED
      BY <2>1, <2>2, <2>3, <3>1, <3>2
  <2>5. ASSUME NEW j \in 1..(Len(rows) - 1) PROVE new[j] = rows[IF j < k THEN j ELSE j + 1]
    <3>1. CASE j < k
      <4>1. j \in 1..(k - 1) /\ new[j] = a[j]
        BY <1>2, <2>1, <2>2, <2>3, <3>1
      <4>2. QED
        BY <2>2, <3>1, <4>1
    <3>2. CASE ~(j < k)
      <4>1. j - (k - 1) \in 1..(Len(rows) - k) /\ new[j] = b[j - (k - 1)] /\ k + (j - (k - 1)) = j + 1
        BY <1>2, <2>1, <2>2, <2>3, <3>2
      <4>2. QED
        BY <2>3, <3>2, <4>1
    <3>3. QED
      BY <3>1, <3>2
  <2>6. QED
    BY <2>4, <2>5
<1> HIDE DEF new
<1>4. at \in [DOMAIN new -> DOMAIN rows] /\ \A i, j \in DOMAIN new : at[i] = at[j] => i = j
  BY <1>2, <1>3
<1>5. \A j \in DOMAIN new : new[j] = rows[at[j]]
  BY <1>3
<1> HIDE DEF at
<1>6. QED
  BY <1>1, <1>3, <1>4, <1>5, RowsKept

(* One row is changed, but for its origin and its mark.                    *)
LEMMA RowChanged ==
  ASSUME PlanningInv, NEW k \in DOMAIN rows, pc = "review", NEW r \in RowRec,
         r.original = rows[k].original, r.of = rows[k].of, r.blocked = rows[k].blocked,
         rows[k].blocked => r.command = rows[k].command,
         Reviewing([rows EXCEPT ![k] = r])
  PROVE  PlanningInv'
<1> DEFINE new == [rows EXCEPT ![k] = r]
           at == [j \in DOMAIN new |-> j]
<1>1. rows \in Seq(RowRec) /\ DOMAIN new = DOMAIN rows /\ new \in Seq(RowRec) /\ Reviewing(new)
  BY ReviewRows
<1>2. \A j \in DOMAIN rows : new[j] = IF j = k THEN r ELSE rows[j]
  BY <1>1
<1> HIDE DEF new
<1>3. at \in [DOMAIN new -> DOMAIN rows] /\ \A j \in DOMAIN new : at[j] = j
  BY <1>1
<1> HIDE DEF at
<1>4. QED
  BY <1>1, <1>2, <1>3, RowsKept

(* A row is skipped, or gets another command if it is not marked.          *)
LEMMA SkipOrEditKeeps ==
  ASSUME PlanningInv, NEW k \in DOMAIN rows, ToggleSkip(k) \/ \E command \in Command : Edit(k, command)
  PROVE  PlanningInv'
<1>1. pc = "review" /\ rows[k] \in RowRec
  BY ReviewRows DEF ToggleSkip, Edit, Reviewing
<1>2. CASE ToggleSkip(k)
  <2> DEFINE r == [rows[k] EXCEPT !.skipped = ~@]
  <2>1. /\ r \in RowRec /\ r.original = rows[k].original /\ r.of = rows[k].of
        /\ r.blocked = rows[k].blocked /\ r.command = rows[k].command
    BY <1>1 DEF RowRec
  <2>2. Reviewing([rows EXCEPT ![k] = r])
    BY <1>2 DEF ToggleSkip
  <2> HIDE DEF r
  <2>3. QED
    BY <1>1, <2>1, <2>2, RowChanged
<1>3. CASE \E command \in Command : Edit(k, command)
  <2>1. PICK command \in Command : Edit(k, command)
    BY <1>3
  <2> DEFINE r == [rows[k] EXCEPT !.command = command]
  <2>2. /\ r \in RowRec /\ r.original = rows[k].original /\ r.of = rows[k].of
        /\ r.blocked = rows[k].blocked
    BY <1>1 DEF RowRec
  <2>3. Reviewing([rows EXCEPT ![k] = r]) /\ ~rows[k].blocked
    BY <2>1 DEF Edit, CanEdit
  <2> HIDE DEF r
  <2>4. QED
    BY <1>1, <2>2, <2>3, RowChanged
<1>4. QED
  BY <1>2, <1>3

-----------------------------------------------------------------------------
(* The approval.                                                           *)

(* The step a row becomes: its own command, on the origin's risk, with the *)
(* verdict of the engine, asked again only if the command was edited.      *)
LEMMA ResolvedIs ==
  ASSUME PlanningInv, pc = "review", NEW r \in RowRec, RowSound(r)
  PROVE  /\ r.of \in 1..Len(raw) /\ r.original \in DOMAIN origIdx /\ origIdx[r.original] = r.of
         /\ Resolved(r).command = r.command /\ Resolved(r).from = r.of
         /\ Resolved(r).risk = Declared(raw[r.of].label)
         /\ Resolved(r).decision = Evaluate(r.command, Declared(raw[r.of].label))
         /\ Blocked(Resolved(r)) = Blocks(r.command, r.of)
<1>1. r.original \in DOMAIN origIdx /\ r.of = origIdx[r.original] /\ r.of \in 1..Len(raw)
  BY ReviewRows DEF RowSound
<1> DEFINE original == plan[origIdx[r.original]]
<1>2. /\ original.command = raw[r.of].command /\ original.from = r.of
      /\ original.risk = Declared(raw[r.of].label)
      /\ original.decision = Evaluate(raw[r.of].command, Declared(raw[r.of].label))
  BY <1>1, ReviewRows, PlanIs
<1>3. Verdict(r.command, original) = Evaluate(r.command, Declared(raw[r.of].label))
  BY <1>2 DEF Verdict
<1>4. Resolved(r) = Step(r.command, original.risk, original.from, Verdict(r.command, original))
  BY DEF Resolved
<1> HIDE DEF original
<1>5. /\ Resolved(r).command = r.command /\ Resolved(r).from = r.of
      /\ Resolved(r).risk = Declared(raw[r.of].label)
      /\ Resolved(r).decision = Evaluate(r.command, Declared(raw[r.of].label))
  BY <1>2, <1>3, <1>4 DEF Step
<1>6. QED
  BY <1>1, <1>5, BlocksIs

(* The screen is put up again with the rows that were kept, or they run as *)
(* they are: then none is blocked, and so none was ever refused.           *)
LEMMA ApproveKeeps == ASSUME PlanningInv, Approve PROVE PlanningInv'
<1> DEFINE kept == Unskipped(rows)
           final == Final(kept)
           again == [k \in DOMAIN kept |-> Row(kept[k].command, k, kept[k].of, Blocked(final[k]))]
<1>1. pc = "review" /\ UNCHANGED <<setting, requests, raw, answer, truncated, plan>>
  BY DEF Approve, model
<1>2. IF \E k \in DOMAIN final : Blocked(final[k])
      THEN /\ rows' = again /\ origIdx' = NextIndex(kept) /\ refused' = refused \cup ShownBlocked(again)
           /\ UNCHANGED <<pc, given, approved>>
      ELSE pc' = "approved" /\ given' = final /\ approved' = kept /\ UNCHANGED <<rows, origIdx, refused>>
  BY DEF Approve
<1>3. PICK at \in [DOMAIN kept -> DOMAIN rows] :
         /\ \A k \in DOMAIN kept : kept[k] = rows[at[k]]
         /\ \A j, k \in DOMAIN kept : j < k => at[j] < at[k]
  BY <1>1, ReviewRows, UnskippedOf
<1>4. kept \in Seq(RowRec) /\ DOMAIN kept = 1..Len(kept) /\ Len(kept) \in Nat
  BY <1>1, ReviewRows, UnskippedOf
<1> HIDE DEF kept
<1>5. \A k \in DOMAIN kept : kept[k] \in RowRec /\ RowSound(kept[k])
  BY <1>1, <1>3, ReviewRows
<1>6. \A j, k \in DOMAIN kept : kept[j].of = kept[k].of => j = k
  <2> SUFFICES ASSUME NEW j \in DOMAIN kept, NEW k \in DOMAIN kept, kept[j].of = kept[k].of PROVE j = k
    OBVIOUS
  <2>1. at[j] = at[k] /\ at[j] \in Nat /\ at[k] \in Nat
    BY <1>1, <1>3, ReviewRows
  <2>2. ~(j < k) /\ ~(k < j)
    BY <1>3, <2>1
  <2>3. QED
    BY <1>4, <2>2
<1>7. DOMAIN final = DOMAIN kept /\ \A k \in DOMAIN kept : final[k] = Resolved(kept[k])
  BY DEF Final
<1>8. \A k \in DOMAIN kept :
         /\ kept[k].of \in 1..Len(raw) /\ kept[k].original \in DOMAIN origIdx
         /\ origIdx[kept[k].original] = kept[k].of
         /\ final[k].command = kept[k].command /\ final[k].from = kept[k].of
         /\ final[k].risk = Declared(raw[kept[k].of].label)
         /\ final[k].decision = Evaluate(kept[k].command, Declared(raw[kept[k].of].label))
         /\ Blocked(final[k]) = Blocks(kept[k].command, kept[k].of)
  BY <1>1, <1>5, <1>7, ResolvedIs
<1>9. CASE \E k \in DOMAIN final : Blocked(final[k])
  <2>1. /\ pc' = "review" /\ rows' = again /\ origIdx' = NextIndex(kept)
        /\ refused' = refused \cup ShownBlocked(again)
    BY <1>1, <1>2, <1>9
  <2>2. DOMAIN again = DOMAIN kept
        /\ \A k \in DOMAIN kept : again[k] = Row(kept[k].command, k, kept[k].of, Blocks(kept[k].command, kept[k].of))
    BY <1>8
  <2> HIDE DEF final
  <2>3. \A k \in DOMAIN kept : /\ again[k].command = kept[k].command /\ again[k].original = k
                               /\ again[k].of = kept[k].of
                               /\ again[k].blocked = Blocks(kept[k].command, kept[k].of)
    <3> SUFFICES ASSUME NEW k \in DOMAIN kept
                 PROVE  /\ again[k].command = kept[k].command /\ again[k].original = k
                        /\ again[k].of = kept[k].of
                        /\ again[k].blocked = Blocks(kept[k].command, kept[k].of)
      OBVIOUS
    <3> DEFINE b == Blocks(kept[k].command, kept[k].of)
    <3>1. again[k] = Row(kept[k].command, k, kept[k].of, b)
      BY <2>2
    <3> HIDE DEF b, again
    <3>2. /\ again[k].command = kept[k].command /\ again[k].original = k
          /\ again[k].of = kept[k].of /\ again[k].blocked = b
      BY <3>1 DEF Row
    <3>3. QED
      BY <3>2 DEF b
  <2>4. again \in Seq(RowRec)
    <3>1. ASSUME NEW k \in DOMAIN kept PROVE again[k] \in RowRec
      <4> DEFINE b == Blocks(kept[k].command, kept[k].of)
      <4>1. b \in BOOLEAN
        BY BlocksIs
      <4>2. again[k] = Row(kept[k].command, k, kept[k].of, b)
        BY <2>2
      <4> HIDE DEF b, again
      <4>3. kept[k].command \in Command /\ k \in Nat /\ kept[k].of \in Nat
        BY <1>4, <1>5 DEF RowRec
      <4>4. QED
        BY <4>1, <4>2, <4>3 DEF Row, RowRec
    <3>2. again = [k \in 1..Len(kept) |-> again[k]]
      BY <1>4
    <3> HIDE DEF again
    <3>3. QED
      BY <1>4, <3>1, <3>2
  <2> HIDE DEF again
  <2>5. origIdx' \in Seq(DOMAIN raw) /\ DOMAIN origIdx' = DOMAIN kept
        /\ \A k \in DOMAIN kept : origIdx'[k] = kept[k].of
    <3>1. origIdx' = [k \in 1..Len(kept) |-> origIdx[kept[k].original]]
      BY <1>4, <2>1 DEF NextIndex
    <3>2. \A k \in 1..Len(kept) : origIdx[kept[k].original] = kept[k].of /\ kept[k].of \in DOMAIN raw
      BY <1>1, <1>4, <1>8, ReviewRows
    <3>3. QED
      BY <1>4, <3>1, <3>2
  <2>6. ASSUME NEW k \in DOMAIN kept PROVE RowSound(rows[k])'
    <3>1. again[k].of \in refused' => again[k].blocked
      <4>1. CASE kept[k].of \in refused
        <5>1. Blocks(kept[k].command, kept[k].of)
          BY <1>5, <4>1 DEF RowSound
        <5>2. QED
          BY <2>3, <5>1
      <4>2. CASE kept[k].of \in ShownBlocked(again)
        <5>1. PICK j \in DOMAIN kept : again[j].blocked /\ again[j].of = kept[k].of
          BY <2>2, <4>2 DEF ShownBlocked, ToSet
        <5>2. j = k
          BY <1>6, <2>3, <5>1
        <5>3. QED
          BY <5>1, <5>2
      <4>3. QED
        BY <2>1, <2>3, <4>1, <4>2
    <3>2. (RowSound(rows[k]))' <=> /\ again[k].original \in DOMAIN origIdx'
                                   /\ again[k].of = origIdx'[again[k].original]
                                   /\ again[k].of \in refused' => again[k].blocked
                                   /\ again[k].blocked => Blocks(again[k].command, again[k].of)
      BY <1>1, <2>1 DEF RowSound, Blocks
    <3>3. QED
      BY <2>3, <2>5, <3>1, <3>2
  <2>7. ReviewInv'
    <3>1. \A j, k \in DOMAIN again : again[j].of = again[k].of => j = k
      BY <1>6, <2>2, <2>3
    <3>2. QED
      BY <1>1, <2>1, <2>2, <2>4, <2>5, <2>6, <3>1 DEF ReviewInv
  <2>8. AnswerInv' /\ RequestInv' /\ PlanInv' /\ ApprovedInv'
    BY <1>1, <2>1 DEF PlanningInv, AnswerInv, RequestInv, PlanInv, ApprovedInv, ToPlan, Planned
  <2>9. QED
    BY <2>7, <2>8 DEF PlanningInv
<1>10. CASE ~ \E k \in DOMAIN final : Blocked(final[k])
  <2>1. pc' = "approved" /\ given' = final /\ approved' = kept /\ refused' = refused
    BY <1>2, <1>10
  <2>2. final = [k \in 1..Len(kept) |-> Resolved(kept[k])]
    BY <1>4 DEF Final
  <2>3. Len(final) = Len(kept) /\ DOMAIN final = 1..Len(kept)
    BY <1>4, <2>2
  <2> HIDE DEF final
  <2>4. VerdictsTrue'
    <3>1. \A k \in 1..Len(kept) : answer[kept[k].of] = raw[kept[k].of]
      BY <1>1, <1>4, <1>8 DEF PlanningInv, AnswerInv, Planned
    <3>2. QED
      BY <1>1, <1>4, <1>8, <2>1, <2>3, <3>1 DEF VerdictsTrue, Declared
  <2>5. RunsWhatWasShown'
    <3>1. ASSUME NEW k \in DOMAIN kept, kept[k].of \in refused PROVE FALSE
      <4>1. Blocks(kept[k].command, kept[k].of)
        BY <1>5, <3>1 DEF RowSound
      <4>2. QED
        BY <1>7, <1>8, <1>10, <4>1
    <3>2. QED
      BY <1>4, <1>8, <2>1, <2>3, <3>1 DEF RunsWhatWasShown
  <2>6. AnswerInv' /\ RequestInv' /\ PlanInv' /\ ReviewInv'
    BY <1>1, <2>1 DEF PlanningInv, AnswerInv, RequestInv, PlanInv, ReviewInv, ToPlan, Planned
  <2>7. QED
    BY <2>1, <2>4, <2>5, <2>6 DEF PlanningInv, ApprovedInv
<1>11. QED
  BY <1>9, <1>10

(* Every step keeps the invariant.                                         *)
LEMMA PlanningKeeps == PlanningInv /\ [Next]_vars => PlanningInv'
<1> SUFFICES ASSUME PlanningInv, [Next]_vars PROVE PlanningInv'
  OBVIOUS
<1>1. CASE UNCHANGED vars
  BY <1>1 DEF vars, PlanningInv, AnswerInv, RequestInv, PlanInv, ReviewInv, ApprovedInv, Planned, RowSound,
              Blocks, ToPlan, VerdictsTrue, RunsWhatWasShown, Handed
<1>2. CASE CancelReview
  <2>1. pc' = "failed" /\ UNCHANGED <<setting, requests, raw, answer, truncated>>
    BY <1>2 DEF CancelReview, model
  <2>2. AnswerInv' /\ RequestInv'
    BY <2>1 DEF PlanningInv, AnswerInv, RequestInv, Planned
  <2>3. QED
    BY <2>1, <2>2, AskingAlone DEF PlanningInv, Planned
<1>3. QED
  BY <1>1, <1>2, AskKeeps, ConsolidateKeeps, ConvertKeeps, MoveKeeps, DeleteKeeps, SkipOrEditKeeps,
     ApproveKeeps DEF Next, Done

(* A plan that is handed over without a review has been checked as it is.  *)
LEMMA InvSuffices == PlanningInv => VerdictsTrue /\ RunsWhatWasShown /\ NothingCutSilently
<1> SUFFICES ASSUME PlanningInv PROVE VerdictsTrue /\ RunsWhatWasShown /\ NothingCutSilently
  OBVIOUS
<1>1. raw \in Seq(RawStep) /\ MaxAutoSteps \in Nat
  BY PlanningAssumption DEF PlanningInv, AnswerInv
<1>2. VerdictsTrue
  <2>1. CASE pc = "handed"
    <3>1. given = ToPlan(raw) /\ \A k \in 1..Len(raw) : raw[k] = answer[k]
      BY <2>1 DEF PlanningInv, PlanInv, AnswerInv, Planned
    <3>2. QED
      BY <1>1, <3>1, PlanIs DEF VerdictsTrue, Declared
  <2>2. QED
    BY <2>1 DEF PlanningInv, ApprovedInv, VerdictsTrue, Handed
<1>3. RunsWhatWasShown
  BY DEF PlanningInv, ApprovedInv, RunsWhatWasShown
<1>4. NothingCutSilently
  <2>1. requests <= IF setting.source = "do" THEN 3 ELSE 1
    BY DEF PlanningInv, RequestInv
  <2>2. Handed => Len(plan) = Len(raw)
    BY <1>1, PlanIs DEF PlanningInv, PlanInv, Handed, Planned
  <2>3. Handed /\ setting.source = "do" => /\ MaxAutoSteps > 0 => Len(raw) <= MaxAutoSteps
                                           /\ Len(raw) < Len(answer) <=> truncated
    BY DEF PlanningInv, AnswerInv, Handed, Planned
  <2>4. QED
    BY <2>1, <2>2, <2>3 DEF NothingCutSilently
<1>5. QED
  BY <1>2, <1>3, <1>4

(* Every step Execute is given carries the engine's own verdict.           *)
THEOREM VerdictsHold == Spec => []VerdictsTrue
<1>1. QED
  BY PlanningStarts, PlanningKeeps, InvSuffices, PTL DEF Spec

(* What runs after a review is what the screen showed, and nothing of it   *)
(* was ever refused.                                                       *)
THEOREM ReviewHolds == Spec => []RunsWhatWasShown
<1>1. QED
  BY PlanningStarts, PlanningKeeps, InvSuffices, PTL DEF Spec

(* No plan is longer than allowed or shortened unannounced.                *)
THEOREM CutsHold == Spec => []NothingCutSilently
<1>1. QED
  BY PlanningStarts, PlanningKeeps, InvSuffices, PTL DEF Spec
=============================================================================
