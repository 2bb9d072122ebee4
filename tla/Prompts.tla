-------------------------------- MODULE Prompts --------------------------------
(* The two screens of internal/tui that ask before anything runs, key by key: *)
(* the confirm prompt and the plan review. Planning has what the review makes *)
(* of a plan, with the cursor on any row; here is which row and which action  *)
(* a key reaches, under the legend the user reads.                            *)
EXTENDS Naturals, Sequences

CONSTANTS Plans,  \* the plans put on a screen: for each step, whether it is blocked
          Typed   \* what an edit can leave in the input line, as typed

ASSUME PromptsAssumption == Plans \subseteq Seq(BOOLEAN)

VARIABLES screen,   \* "confirm" or "review"; "" is none
          lang,     \* "en" or "tr"
          rows,     \* the rows shown: [id, blocked, skipped, text], id being originalIndex
          cursor,   \* the marked row, 0 when none is left
          editing,  \* the input line is on the screen
          input,    \* its text
          answer,   \* what the screen returns: NoAnswer, or [choice, text]
          pressed   \* ghost: the last key

promptVars == <<screen, lang, rows, cursor, editing, input, answer, pressed>>

NoAnswer == [choice |-> "", text |-> ""]
Answer(choice, text) == [choice |-> choice, text |-> text]

(* Mutant: one switch for both languages, the Turkish keys first.             *)
MapKeyOfBoth(l) == [e |-> "yes", h |-> "no", d |-> "edit", a |-> "explain", t |-> "all",
                    y |-> "yes", n |-> "no", x |-> "explain"]

(* mapKey and mapPlanReviewKey, a switch for each language.                   *)
MapKey(l) == IF l = "tr" THEN [e |-> "yes", h |-> "no", d |-> "edit", a |-> "explain", t |-> "all"]
             ELSE [y |-> "yes", n |-> "no", e |-> "edit", x |-> "explain", a |-> "all"]
MapPlanReviewKey(l) ==
    IF l = "tr" THEN [y |-> "up", a |-> "down", d |-> "edit", s |-> "delete", t |-> "approve"]
    ELSE [u |-> "up", d |-> "down", e |-> "edit", r |-> "delete", a |-> "approve"]

(* The legends of the catalog: the letter in brackets and the word around it. *)
Legend(s, l) ==
    CASE s = "confirm" /\ l = "en" -> [y |-> "yes", n |-> "no", e |-> "edit", x |-> "explain", a |-> "all"]
      [] s = "confirm" /\ l = "tr" -> [e |-> "evet", h |-> "hayir", d |-> "duzenle", a |-> "acikla", t |-> "tumu"]
      [] s = "review" /\ l = "en" -> [u |-> "up", d |-> "down", e |-> "edit", r |-> "remove", a |-> "approve all"]
      [] s = "review" /\ l = "tr" -> [y |-> "yukari", a |-> "asagi", d |-> "duzenle", s |-> "sil", t |-> "tumunu onayla"]
      [] OTHER -> <<>>

(* The keys a screen tells of: while the input line is there, none.           *)
View == IF editing THEN <<>> ELSE Legend(screen, lang)

(* What a reader of the language takes the words for.                         *)
Sense(word) ==
    CASE word = "evet" -> "yes" [] word = "hayir" -> "no" [] word = "duzenle" -> "edit"
      [] word = "acikla" -> "explain" [] word = "tumu" -> "all"
      [] word = "yukari" -> "up" [] word = "asagi" -> "down" [] word \in {"remove", "sil"} -> "delete"
      [] word \in {"approve all", "tumunu onayla"} -> "approve" [] OTHER -> word

Letters == UNION {DOMAIN Legend(s, l) : s \in {"confirm", "review"}, l \in {"en", "tr"}}
Special == {"ctrl+c", "enter", "esc", "arrow up", "arrow down", "space"}

(* convertChoice: what the engine is told.                                    *)
ConvertChoice(c) == IF c \in {"yes", "edit", "explain", "all"} THEN c ELSE "no"

PromptsIdle == /\ screen = "" /\ lang = "en" /\ rows = <<>> /\ cursor = 0 /\ editing = FALSE
               /\ input = "" /\ answer = NoAnswer /\ pressed = ""

(* newConfirmModel and newPlanReviewModel.                                    *)
PromptsInit ==
    \E plan \in Plans :
      /\ lang \in {"en", "tr"} /\ screen \in {"confirm", "review"}
      /\ screen = "confirm" => Len(plan) = 1
      /\ rows = [k \in DOMAIN plan |-> [id |-> k, blocked |-> plan[k], skipped |-> FALSE, text |-> "as planned"]]
      /\ input = IF screen = "confirm" THEN "as planned" ELSE ""
      /\ cursor = 1 /\ editing = FALSE /\ answer = NoAnswer /\ pressed = ""

(* ----------------------------- the rows' functions -------------------------- *)

MoveCursorUp(k) == IF k <= 1 THEN k ELSE k - 1
MoveCursorDown(k) == IF k >= Len(rows) THEN k ELSE k + 1

Swap(list, i, j) == [list EXCEPT ![i] = list[j], ![j] = list[i]]
MoveRowUp(k) == IF k \in DOMAIN rows /\ k > 1 THEN rows' = Swap(rows, k, k - 1) /\ cursor' = k - 1
                ELSE UNCHANGED <<rows, cursor>>
MoveRowDown(k) == IF k \in DOMAIN rows /\ k < Len(rows) THEN rows' = Swap(rows, k, k + 1) /\ cursor' = k + 1
                  ELSE UNCHANGED <<rows, cursor>>
ToggleRowSkip(k) == rows' = IF k \in DOMAIN rows THEN [rows EXCEPT ![k].skipped = ~@] ELSE rows
RemoveRow(list, k) == [j \in 1..(Len(list) - 1) |-> list[IF j < k THEN j ELSE j + 1]]
(* Mutant: the cursor stays behind the last row.                              *)
DeleteRowUnclamped(k) ==
    IF k \in DOMAIN rows THEN rows' = RemoveRow(rows, k) /\ cursor' = k ELSE UNCHANGED <<rows, cursor>>
DeleteRow(k) ==
    IF k \in DOMAIN rows
    THEN /\ rows' = RemoveRow(rows, k)
         /\ cursor' = IF k > Len(rows) - 1 THEN Len(rows) - 1 ELSE k
    ELSE UNCHANGED <<rows, cursor>>
CanEditRow(k) == k \in DOMAIN rows /\ ~rows[k].blocked
ApplyRowEdit(k) == rows' = IF k \in DOMAIN rows THEN [rows EXCEPT ![k].text = input] ELSE rows

(* ----------------------------------- Update --------------------------------- *)

Press(key) == screen /= "" /\ answer = NoAnswer /\ pressed' = key /\ UNCHANGED <<screen, lang>>
Waits == UNCHANGED <<rows, cursor, editing, input, answer>>
Gives(choice, text) == answer' = Answer(choice, text) /\ UNCHANGED <<rows, cursor, editing, input>>

(* Ctrl-C is "no", or cancels the review, during an edit as well; so is a     *)
(* context that ends.                                                         *)
Break(key) == /\ key \in {"ctrl+c", "context"} /\ Press(key)
              /\ Gives(IF screen = "confirm" THEN ConvertChoice("no") ELSE "cancel", "")

(* Any other key of an edit is text.                                          *)
EditKey(key) ==
    /\ Press(key) /\ editing /\ key /= "ctrl+c"
    /\ CASE key = "enter" /\ screen = "confirm" -> Gives(ConvertChoice("edit"), input)
         [] key = "enter" /\ screen = "review" ->
              ApplyRowEdit(cursor) /\ editing' = FALSE /\ UNCHANGED <<cursor, input, answer>>
         [] key = "esc" -> editing' = FALSE /\ UNCHANGED <<rows, cursor, input, answer>>
         [] OTHER -> /\ \E text \in Typed : input' = text
                     /\ UNCHANGED <<rows, cursor, editing, answer>>

ConfirmKey(key) ==
    /\ Press(key) /\ screen = "confirm" /\ ~editing /\ key /= "ctrl+c"
    /\ IF key \notin DOMAIN MapKey(lang) THEN Waits
       ELSE IF MapKey(lang)[key] = "edit"
            THEN editing' = TRUE /\ UNCHANGED <<rows, cursor, input, answer>>
            ELSE Gives(ConvertChoice(MapKey(lang)[key]), "")

ReviewKey(key) ==
    /\ Press(key) /\ screen = "review" /\ ~editing /\ key \in Special \ {"ctrl+c"}
    /\ CASE key = "arrow up" -> cursor' = MoveCursorUp(cursor) /\ UNCHANGED <<rows, editing, input, answer>>
         [] key = "arrow down" -> cursor' = MoveCursorDown(cursor) /\ UNCHANGED <<rows, editing, input, answer>>
         [] key = "space" -> ToggleRowSkip(cursor) /\ UNCHANGED <<cursor, editing, input, answer>>
         [] key = "esc" -> Gives("cancel", "")
         [] OTHER -> Waits

ReviewLetter(key) ==
    /\ Press(key) /\ screen = "review" /\ ~editing /\ key \in Letters
    /\ LET action == IF key \in DOMAIN MapPlanReviewKey(lang) THEN MapPlanReviewKey(lang)[key] ELSE ""
       IN  CASE action = "up" -> MoveRowUp(cursor) /\ UNCHANGED <<editing, input, answer>>
             [] action = "down" -> MoveRowDown(cursor) /\ UNCHANGED <<editing, input, answer>>
             [] action = "delete" -> DeleteRow(cursor) /\ UNCHANGED <<editing, input, answer>>
             [] action = "edit" /\ CanEditRow(cursor) ->
                  editing' = TRUE /\ input' = rows[cursor].text /\ UNCHANGED <<rows, cursor, answer>>
             [] action = "approve" -> Gives("approve", "")
             [] OTHER -> Waits

PromptsNext ==
    \/ \E key \in Letters \cup Special : EditKey(key) \/ ConfirmKey(key) \/ ReviewKey(key) \/ ReviewLetter(key)
    \/ \E key \in {"ctrl+c", "context"} : Break(key)

(* -------------------------------- properties -------------------------------- *)

(* The rows on a screen, and the one the user sees marked.                    *)
Shown(list) == {list[k].id : k \in DOMAIN list}
Marked(list, k) == IF k \in DOMAIN list THEN {list[k].id} ELSE {}

(* Of the rows but those in moved, one that stands above another stood there. *)
InOrder(new, old, moved) ==
    \A i, j \in DOMAIN new : i < j /\ {new[i].id, new[j].id} \cap moved = {} =>
       \E k, l \in DOMAIN old : k < l /\ old[k].id = new[i].id /\ old[l].id = new[j].id

(* What a key means to someone who reads the screen.                          *)
Meant(key) == IF key \in DOMAIN View THEN Sense(View[key]) ELSE key

(* A prompt answers what its legend says of the key, an edit what stands in   *)
(* the input line, and Ctrl-C or the end of the context nothing that runs.    *)
AnswerAsShown ==
    LET key == Meant(pressed')
    IN  answer' /= answer =>
          answer' \in CASE editing /\ key = "enter" -> {Answer("edit", input)}
                        [] key \in {"ctrl+c", "context", "esc"} ->
                             {Answer(IF screen = "confirm" THEN "no" ELSE "cancel", "")}
                        [] key \in {"yes", "no", "explain", "all", "approve"} -> {Answer(key, "")}
                        [] OTHER -> {}

(* A row goes only when the marked row is asked to; only a row that is moved  *)
(* changes its place, up or down as the legend says, and stays marked.        *)
PlacesAsShown ==
    LET key == Meant(pressed')
        marked == Marked(rows, cursor)
    IN  /\ Shown(rows') = Shown(rows) \ (IF key = "delete" THEN marked ELSE {})
        /\ \A i, j \in DOMAIN rows' : rows'[i].id = rows'[j].id => i = j
        /\ InOrder(rows', rows, IF key \in {"up", "down"} THEN marked ELSE {})
        /\ key \in {"up", "down"} => Marked(rows', cursor') = marked
        /\ key = "up" => cursor' <= cursor
        /\ key = "down" => cursor' >= cursor
        /\ rows' /= <<>> => cursor' \in DOMAIN rows'

(* A row keeps what it says, except that the marked one is skipped by a space *)
(* and, unless it is blocked, edited to what stands in the input line.        *)
RowsAsShown ==
    LET key == Meant(pressed')
        marked == Marked(rows, cursor)
    IN  \A k \in DOMAIN rows, j \in DOMAIN rows' : rows[k].id = rows'[j].id =>
          /\ rows'[j].blocked = rows[k].blocked
          /\ rows'[j].skipped /= rows[k].skipped => ~editing /\ key = "space" /\ rows[k].id \in marked
          /\ rows'[j].text /= rows[k].text =>
               /\ ~rows[k].blocked /\ editing /\ key = "enter" /\ rows[k].id \in marked
               /\ rows'[j].text = input

(* Whatever is pressed, in either language, before, in and after an edit, it  *)
(* does what the screen says, and nothing else.                               *)
KeysDoAsShown == [][AnswerAsShown /\ PlacesAsShown /\ RowsAsShown]_promptVars
=============================================================================
