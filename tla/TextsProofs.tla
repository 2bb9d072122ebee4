------------------------------ MODULE TextsProofs ------------------------------
(* Theorems about the readers of text that MCTexts checks on an instance: the *)
(* keys of the two screens; the shell analysis, for every program of the      *)
(* syntax; and the JSON object of an answer, whatever stands around it.       *)
EXTENDS ShellEffect, Prompts, Reply, ListsProofs, FiniteSetTheorems

(* ------------------------------------ keys ----------------------------------- *)

PromptsSpec == PromptsInit /\ [][PromptsNext]_promptVars

Texts == Typed \cup {"as planned"}
Row == [id : Nat, blocked : BOOLEAN, skipped : BOOLEAN, text : Texts]

ScreenInv ==
    /\ screen \in {"", "confirm", "review"} /\ lang \in {"en", "tr"} /\ editing \in BOOLEAN
    /\ input \in Texts \cup {""}

(* There are rows of a kind, each once, and while there are any one is marked.*)
RowsInv ==
    /\ rows \in Seq(Row) /\ cursor \in Nat
    /\ rows /= <<>> => cursor \in DOMAIN rows
    /\ \A i, j \in DOMAIN rows : rows[i].id = rows[j].id => i = j

(* An edit in the review is of a row that may be edited.                      *)
EditInv == /\ editing /\ screen = "review" => CanEditRow(cursor)
           /\ editing \/ screen = "confirm" => input \in Texts

PromptsInv == ScreenInv /\ RowsInv /\ EditInv

(* -------------------------------- the legends -------------------------------- *)

LEMMA LettersAre ==
    /\ Letters = {"y", "n", "e", "x", "a", "h", "d", "t", "u", "r", "s"}
    /\ \A s \in {"confirm", "review"}, l \in {"en", "tr"} : DOMAIN Legend(s, l) \subseteq Letters
<1>1. DOMAIN Legend("confirm", "en") = {"y", "n", "e", "x", "a"}
  BY DEF Legend
<1>2. DOMAIN Legend("confirm", "tr") = {"e", "h", "d", "a", "t"}
  BY DEF Legend
<1>3. DOMAIN Legend("review", "en") = {"u", "d", "e", "r", "a"}
  BY DEF Legend
<1>4. DOMAIN Legend("review", "tr") = {"y", "a", "d", "s", "t"}
  BY DEF Legend
<1>5. Letters = DOMAIN Legend("confirm", "en") \cup DOMAIN Legend("confirm", "tr")
                \cup DOMAIN Legend("review", "en") \cup DOMAIN Legend("review", "tr")
  BY DEF Letters
<1>6. QED
  BY <1>1, <1>2, <1>3, <1>4, <1>5

(* The prompt's keys are those of its legend, and mean what stands there.     *)
LEMMA ConfirmSays == \A l \in {"en", "tr"} :
    /\ DOMAIN MapKey(l) = DOMAIN Legend("confirm", l)
    /\ \A k \in DOMAIN MapKey(l) : Sense(Legend("confirm", l)[k]) = MapKey(l)[k]
<1>1. /\ DOMAIN MapKey("en") = DOMAIN Legend("confirm", "en")
      /\ \A k \in DOMAIN MapKey("en") : Sense(Legend("confirm", "en")[k]) = MapKey("en")[k]
  <2>1. DOMAIN MapKey("en") = {"y", "n", "e", "x", "a"} /\ DOMAIN Legend("confirm", "en") = {"y", "n", "e", "x", "a"}
    BY DEF MapKey, Legend
  <2>2. Sense(Legend("confirm", "en")["y"]) = MapKey("en")["y"]
    BY DEF MapKey, Legend, Sense
  <2>3. Sense(Legend("confirm", "en")["n"]) = MapKey("en")["n"]
    BY DEF MapKey, Legend, Sense
  <2>4. Sense(Legend("confirm", "en")["e"]) = MapKey("en")["e"]
    BY DEF MapKey, Legend, Sense
  <2>5. Sense(Legend("confirm", "en")["x"]) = MapKey("en")["x"]
    BY DEF MapKey, Legend, Sense
  <2>6. Sense(Legend("confirm", "en")["a"]) = MapKey("en")["a"]
    BY DEF MapKey, Legend, Sense
  <2>7. QED
    BY <2>1, <2>2, <2>3, <2>4, <2>5, <2>6
<1>2. /\ DOMAIN MapKey("tr") = DOMAIN Legend("confirm", "tr")
      /\ \A k \in DOMAIN MapKey("tr") : Sense(Legend("confirm", "tr")[k]) = MapKey("tr")[k]
  <2>1. DOMAIN MapKey("tr") = {"e", "h", "d", "a", "t"} /\ DOMAIN Legend("confirm", "tr") = {"e", "h", "d", "a", "t"}
    BY DEF MapKey, Legend
  <2>2. Sense(Legend("confirm", "tr")["e"]) = MapKey("tr")["e"]
    BY DEF MapKey, Legend, Sense
  <2>3. Sense(Legend("confirm", "tr")["h"]) = MapKey("tr")["h"]
    BY DEF MapKey, Legend, Sense
  <2>4. Sense(Legend("confirm", "tr")["d"]) = MapKey("tr")["d"]
    BY DEF MapKey, Legend, Sense
  <2>5. Sense(Legend("confirm", "tr")["a"]) = MapKey("tr")["a"]
    BY DEF MapKey, Legend, Sense
  <2>6. Sense(Legend("confirm", "tr")["t"]) = MapKey("tr")["t"]
    BY DEF MapKey, Legend, Sense
  <2>7. QED
    BY <2>1, <2>2, <2>3, <2>4, <2>5, <2>6
<1>3. QED
  BY <1>1, <1>2

LEMMA ReviewSays == \A l \in {"en", "tr"} :
    /\ DOMAIN MapPlanReviewKey(l) = DOMAIN Legend("review", l)
    /\ \A k \in DOMAIN MapPlanReviewKey(l) : Sense(Legend("review", l)[k]) = MapPlanReviewKey(l)[k]
<1>1. /\ DOMAIN MapPlanReviewKey("en") = DOMAIN Legend("review", "en")
      /\ \A k \in DOMAIN MapPlanReviewKey("en") : Sense(Legend("review", "en")[k]) = MapPlanReviewKey("en")[k]
  <2>1. DOMAIN MapPlanReviewKey("en") = {"u", "d", "e", "r", "a"} /\ DOMAIN Legend("review", "en") = {"u", "d", "e", "r", "a"}
    BY DEF MapPlanReviewKey, Legend
  <2>2. Sense(Legend("review", "en")["u"]) = MapPlanReviewKey("en")["u"]
    BY DEF MapPlanReviewKey, Legend, Sense
  <2>3. Sense(Legend("review", "en")["d"]) = MapPlanReviewKey("en")["d"]
    BY DEF MapPlanReviewKey, Legend, Sense
  <2>4. Sense(Legend("review", "en")["e"]) = MapPlanReviewKey("en")["e"]
    BY DEF MapPlanReviewKey, Legend, Sense
  <2>5. Sense(Legend("review", "en")["r"]) = MapPlanReviewKey("en")["r"]
    BY DEF MapPlanReviewKey, Legend, Sense
  <2>6. Sense(Legend("review", "en")["a"]) = MapPlanReviewKey("en")["a"]
    BY DEF MapPlanReviewKey, Legend, Sense
  <2>7. QED
    BY <2>1, <2>2, <2>3, <2>4, <2>5, <2>6
<1>2. /\ DOMAIN MapPlanReviewKey("tr") = DOMAIN Legend("review", "tr")
      /\ \A k \in DOMAIN MapPlanReviewKey("tr") : Sense(Legend("review", "tr")[k]) = MapPlanReviewKey("tr")[k]
  <2>1. DOMAIN MapPlanReviewKey("tr") = {"y", "a", "d", "s", "t"} /\ DOMAIN Legend("review", "tr") = {"y", "a", "d", "s", "t"}
    BY DEF MapPlanReviewKey, Legend
  <2>2. Sense(Legend("review", "tr")["y"]) = MapPlanReviewKey("tr")["y"]
    BY DEF MapPlanReviewKey, Legend, Sense
  <2>3. Sense(Legend("review", "tr")["a"]) = MapPlanReviewKey("tr")["a"]
    BY DEF MapPlanReviewKey, Legend, Sense
  <2>4. Sense(Legend("review", "tr")["d"]) = MapPlanReviewKey("tr")["d"]
    BY DEF MapPlanReviewKey, Legend, Sense
  <2>5. Sense(Legend("review", "tr")["s"]) = MapPlanReviewKey("tr")["s"]
    BY DEF MapPlanReviewKey, Legend, Sense
  <2>6. Sense(Legend("review", "tr")["t"]) = MapPlanReviewKey("tr")["t"]
    BY DEF MapPlanReviewKey, Legend, Sense
  <2>7. QED
    BY <2>1, <2>2, <2>3, <2>4, <2>5, <2>6
<1>3. QED
  BY <1>1, <1>2

LEMMA ChoicesAre == \A l \in {"en", "tr"} : \A k \in DOMAIN MapKey(l) :
    MapKey(l)[k] \in {"yes", "no", "edit", "explain", "all"}
BY DEF MapKey

LEMMA ActionsAre == \A l \in {"en", "tr"} : \A k \in DOMAIN MapPlanReviewKey(l) :
    MapPlanReviewKey(l)[k] \in {"up", "down", "edit", "delete", "approve"}
BY DEF MapPlanReviewKey

LEMMA NoKeys == DOMAIN <<>> = {}
<1>1. <<>> \in Seq({}) /\ Len(<<>>) = 0
  OBVIOUS
<1>2. QED
  BY <1>1

(* What has no letter means itself, and so does every key of an edit.         *)
LEMMA ItselfMeant ==
    ASSUME NEW key, key \in Letters \cup Special \cup {"context"}, screen \in {"", "confirm", "review"}, lang \in {"en", "tr"},
           editing \/ key \notin Letters
    PROVE  Meant(key) = key
<1>1. key \notin DOMAIN View
  <2>1. CASE editing
    BY NoKeys, <2>1 DEF View
  <2>2. CASE ~editing /\ screen = ""
    <3>1. Legend(screen, lang) = <<>>
      BY <2>2 DEF Legend
    <3>2. QED
      BY NoKeys, <2>2, <3>1 DEF View
  <2>3. CASE ~editing /\ screen \in {"confirm", "review"}
    <3>1. DOMAIN Legend(screen, lang) \subseteq Letters
      BY <2>3, LettersAre
    <3>2. QED
      BY <2>3, <3>1 DEF View
  <2>4. QED
    BY <2>1, <2>2, <2>3
<1>2. QED
  BY <1>1 DEF Meant

(* A letter on a screen means what it does there, or nothing.                 *)
LEMMA LetterMeant ==
    ASSUME NEW key \in Letters, ~editing, lang \in {"en", "tr"}
    PROVE  /\ screen = "confirm" => Meant(key) = IF key \in DOMAIN MapKey(lang) THEN MapKey(lang)[key] ELSE key
           /\ screen = "review" =>
                Meant(key) = IF key \in DOMAIN MapPlanReviewKey(lang) THEN MapPlanReviewKey(lang)[key] ELSE key
<1>1. View = Legend(screen, lang)
  BY DEF View
<1>2. ASSUME screen = "confirm"
      PROVE  Meant(key) = IF key \in DOMAIN MapKey(lang) THEN MapKey(lang)[key] ELSE key
  BY <1>1, <1>2, ConfirmSays DEF Meant
<1>3. ASSUME screen = "review"
      PROVE  Meant(key) = IF key \in DOMAIN MapPlanReviewKey(lang) THEN MapPlanReviewKey(lang)[key] ELSE key
  BY <1>1, <1>3, ReviewSays DEF Meant
<1>4. QED
  BY <1>2, <1>3

(* ---------------------------------- the rows --------------------------------- *)

Once(r) == \A i, j \in DOMAIN r : r[i].id = r[j].id => i = j

(* The rows of q that were in r are as they were.                             *)
SaysAsBefore(q, r) == \A k \in DOMAIN r, l \in DOMAIN q : r[k].id = q[l].id => q[l] = r[k]

LEMMA RowsAre == \A r \in Seq(Row) :
    /\ Len(r) \in Nat /\ DOMAIN r = 1..Len(r) /\ \A k \in 1..Len(r) : r[k] \in Row
    /\ r = <<>> <=> Len(r) = 0
BY EmptySeq

(* Rows that keep their places.                                               *)
LEMMA PlacesKept ==
    ASSUME NEW r, NEW q, DOMAIN q = DOMAIN r, \A k \in DOMAIN r : q[k].id = r[k].id, Once(r)
    PROVE  Shown(q) = Shown(r) /\ Once(q) /\ \A moved : InOrder(q, r, moved)
<1>1. Shown(q) = Shown(r)
  BY DEF Shown
<1>2. Once(q)
  BY DEF Once
<1>3. \A moved : InOrder(q, r, moved)
  BY DEF InOrder
<1>4. QED
  BY <1>1, <1>2, <1>3

LEMMA Ordered ==
    ASSUME NEW r, NEW q, NEW moved, NEW f,
           \A l \in DOMAIN q : f[l] \in DOMAIN r /\ r[f[l]].id = q[l].id,
           \A k, l \in DOMAIN q : k < l /\ q[k].id \notin moved /\ q[l].id \notin moved => f[k] < f[l]
    PROVE  InOrder(q, r, moved)
<1> SUFFICES ASSUME NEW i \in DOMAIN q, NEW j \in DOMAIN q, i < j, {q[i].id, q[j].id} \cap moved = {}
             PROVE  \E k, l \in DOMAIN r : k < l /\ r[k].id = q[i].id /\ r[l].id = q[j].id
  BY DEF InOrder
<1>1. q[i].id \notin moved /\ q[j].id \notin moved
  OBVIOUS
<1>2. f[i] < f[j]
  BY <1>1
<1>3. QED
  BY <1>2

Neighbours(i, j) == j = i + 1 \/ i = j + 1

(* Two neighbours that change places.                                         *)
LEMMA Swapped ==
    \A r \in Seq(Row) : \A i, j \in 1..Len(r) : \A q :
      Once(r) /\ Neighbours(i, j) /\ q = Swap(r, i, j) =>
        /\ q \in Seq(Row) /\ Len(q) = Len(r) /\ Once(q) /\ Shown(q) = Shown(r)
        /\ q[j] = r[i] /\ InOrder(q, r, {r[i].id})
        /\ SaysAsBefore(q, r)
<1> SUFFICES ASSUME NEW r \in Seq(Row), NEW i \in 1..Len(r), NEW j \in 1..Len(r), NEW q,
                    Once(r), Neighbours(i, j), q = Swap(r, i, j)
             PROVE  /\ q \in Seq(Row) /\ Len(q) = Len(r) /\ Once(q) /\ Shown(q) = Shown(r)
                    /\ q[j] = r[i] /\ InOrder(q, r, {r[i].id})
                    /\ SaysAsBefore(q, r)
  BY Zenon
<1> DEFINE at(l) == IF l = i THEN j ELSE IF l = j THEN i ELSE l
<1>1. Len(r) \in Nat /\ DOMAIN r = 1..Len(r) /\ \A k \in 1..Len(r) : r[k] \in Row
  BY RowsAre
<1>2. /\ q \in Seq(Row) /\ Len(q) = Len(r) /\ DOMAIN q = 1..Len(r)
      /\ \A l \in 1..Len(r) : q[l] = r[at(l)] /\ at(l) \in 1..Len(r)
  BY <1>1 DEF Swap
<1>3. \A l \in 1..Len(r) : at(at(l)) = l
  BY <1>1
<1>4. \A k, l \in 1..Len(r) : k < l /\ k /= j /\ l /= j => at(k) < at(l)
  BY <1>1 DEF Neighbours
<1>5. q[j] = r[i]
  BY <1>1, <1>2
<1> HIDE DEF at
<1>6. Once(q)
  <2> SUFFICES ASSUME NEW k \in 1..Len(r), NEW l \in 1..Len(r), q[k].id = q[l].id PROVE k = l
    BY <1>2 DEF Once
  <2>1. /\ at(k) \in DOMAIN r /\ at(l) \in DOMAIN r
        /\ r[at(k)].id = r[at(l)].id
    <3>1. q[k] = r[at(k)] /\ q[l] = r[at(l)]
      BY <1>2
    <3>2. QED
      BY <3>1, <1>1, <1>2
  <2>2. at(k) = at(l)
    BY <2>1, Zenon DEF Once
  <2>3. QED
    BY <2>2, <1>3
<1>7. Shown(q) = Shown(r)
  <2>1. \A l \in 1..Len(r) : q[l].id \in Shown(r)
    BY <1>1, <1>2 DEF Shown
  <2>2. ASSUME NEW l \in 1..Len(r) PROVE r[l].id \in Shown(q)
    <3>1. q[at(l)] = r[l] /\ at(l) \in DOMAIN q
      BY <1>2, <1>3
    <3>2. QED
      BY <3>1 DEF Shown
  <2>3. QED
    <3>1. Shown(q) \subseteq Shown(r)
      BY <2>1, <1>2 DEF Shown
    <3>2. Shown(r) \subseteq Shown(q)
      BY <2>2, <1>1 DEF Shown
    <3>3. QED
      BY <3>1, <3>2
<1>8. InOrder(q, r, {r[i].id})
  <2> DEFINE f == [l \in DOMAIN q |-> at(l)]
  <2>1. \A l \in DOMAIN q : f[l] \in DOMAIN r /\ r[f[l]].id = q[l].id
    BY <1>1, <1>2
  <2>2. \A k, l \in DOMAIN q : k < l /\ q[k].id \notin {r[i].id} /\ q[l].id \notin {r[i].id} => f[k] < f[l]
    BY <1>1, <1>2, <1>4, <1>5
  <2> HIDE DEF f
  <2>3. QED
    BY <2>1, <2>2, Ordered
<1>9. SaysAsBefore(q, r)
  <2>1. ASSUME NEW k \in DOMAIN r, NEW l \in DOMAIN q, r[k].id = q[l].id PROVE q[l] = r[k]
    BY <1>1, <1>2, <2>1 DEF Once
  <2>2. QED
    BY <2>1 DEF SaysAsBefore
<1>10. QED
  BY <1>2, <1>5, <1>6, <1>7, <1>8, <1>9

(* A row that is removed.                                                     *)
LEMMA Removed ==
    \A r \in Seq(Row) : \A i \in 1..Len(r) : \A q :
      Once(r) /\ q = RemoveRow(r, i) =>
        /\ q \in Seq(Row) /\ Len(q) = Len(r) - 1 /\ Once(q) /\ Shown(q) = Shown(r) \ {r[i].id}
        /\ InOrder(q, r, {})
        /\ SaysAsBefore(q, r)
<1> SUFFICES ASSUME NEW r \in Seq(Row), NEW i \in 1..Len(r), NEW q,
                    Once(r), q = RemoveRow(r, i)
             PROVE  /\ q \in Seq(Row) /\ Len(q) = Len(r) - 1 /\ Once(q) /\ Shown(q) = Shown(r) \ {r[i].id}
                    /\ InOrder(q, r, {})
                    /\ SaysAsBefore(q, r)
  OBVIOUS
<1> DEFINE at(l) == IF l < i THEN l ELSE l + 1
<1>1. Len(r) \in Nat /\ DOMAIN r = 1..Len(r) /\ \A k \in 1..Len(r) : r[k] \in Row
  BY RowsAre
<1>2. /\ q \in Seq(Row) /\ Len(q) = Len(r) - 1 /\ DOMAIN q = 1..(Len(r) - 1)
      /\ \A l \in 1..(Len(r) - 1) : q[l] = r[at(l)] /\ at(l) \in 1..Len(r) /\ at(l) /= i
  BY <1>1 DEF RemoveRow
<1>3. \A k, l \in 1..(Len(r) - 1) : k < l => at(k) < at(l)
  BY <1>1
<1>4. \A k, l \in 1..(Len(r) - 1) : at(k) = at(l) => k = l
  BY <1>1
<1>5. \A k \in 1..Len(r) : k /= i => \E l \in 1..(Len(r) - 1) : at(l) = k
  <2> SUFFICES ASSUME NEW k \in 1..Len(r), k /= i PROVE \E l \in 1..(Len(r) - 1) : at(l) = k
    OBVIOUS
  <2>1. CASE k < i
    <3>1. k \in 1..(Len(r) - 1) /\ at(k) = k
      BY <2>1, <1>1
    <3>2. QED
      BY <3>1
  <2>2. CASE k > i
    <3>1. k - 1 \in 1..(Len(r) - 1) /\ at(k - 1) = k
      BY <2>2, <1>1
    <3>2. QED
      BY <3>1
  <2>3. QED
    BY <2>1, <2>2, <1>1
<1> HIDE DEF at
<1>6. Once(q)
  <2> SUFFICES ASSUME NEW k \in 1..(Len(r) - 1), NEW l \in 1..(Len(r) - 1), q[k].id = q[l].id PROVE k = l
    BY <1>2 DEF Once
  <2>1. at(k) = at(l)
    BY <1>1, <1>2 DEF Once
  <2>2. QED
    BY <2>1, <1>4
<1>7. Shown(q) = Shown(r) \ {r[i].id}
  <2>1. ASSUME NEW l \in 1..(Len(r) - 1) PROVE q[l].id \in Shown(r) \ {r[i].id}
    BY <1>1, <1>2 DEF Shown, Once
  <2>2. ASSUME NEW k \in 1..Len(r), r[k].id /= r[i].id PROVE r[k].id \in Shown(q)
    <3>1. PICK l \in 1..(Len(r) - 1) : at(l) = k
      BY <1>5, <2>2
    <3>2. q[l] = r[k] /\ l \in DOMAIN q
      BY <1>2, <3>1
    <3>3. QED
      BY <3>2 DEF Shown
  <2>3. QED
    <3>1. Shown(q) \subseteq Shown(r) \ {r[i].id}
      BY <2>1, <1>2 DEF Shown
    <3>2. Shown(r) \ {r[i].id} \subseteq Shown(q)
      BY <2>2, <1>1 DEF Shown
    <3>3. QED
      BY <3>1, <3>2
<1>8. InOrder(q, r, {})
  <2> DEFINE f == [l \in DOMAIN q |-> at(l)]
  <2>1. \A l \in DOMAIN q : f[l] \in DOMAIN r /\ r[f[l]].id = q[l].id
    BY <1>1, <1>2
  <2>2. \A k, l \in DOMAIN q : k < l /\ q[k].id \notin {} /\ q[l].id \notin {} => f[k] < f[l]
    BY <1>1, <1>2, <1>3
  <2> HIDE DEF f
  <2>3. QED
    BY <2>1, <2>2, Ordered
<1>9. SaysAsBefore(q, r)
  <2>1. ASSUME NEW k \in DOMAIN r, NEW l \in DOMAIN q, r[k].id = q[l].id PROVE q[l] = r[k]
    BY <1>1, <1>2, <2>1 DEF Once
  <2>2. QED
    BY <2>1 DEF SaysAsBefore
<1>10. QED
  BY <1>2, <1>6, <1>7, <1>8, <1>9

(* ---------------------------------- the steps -------------------------------- *)

(* What a step may do to the row at k without moving any.                     *)
SaysTheSame(k, key) ==
    /\ rows'[k].id = rows[k].id /\ rows'[k].blocked = rows[k].blocked
    /\ rows'[k].skipped /= rows[k].skipped => ~editing /\ key = "space" /\ k = cursor
    /\ rows'[k].text /= rows[k].text =>
         ~rows[k].blocked /\ editing /\ key = "enter" /\ k = cursor /\ rows'[k].text = input

LEMMA NoneMoved ==
    ASSUME RowsInv, NEW key, key = Meant(pressed'),
           rows' \in Seq(Row), DOMAIN rows' = DOMAIN rows, \A k \in DOMAIN rows : SaysTheSame(k, key),
           cursor' \in Nat, rows /= <<>> => cursor' \in DOMAIN rows,
           key \in {"up", "down"} => cursor' = cursor, key = "delete" => rows = <<>>
    PROVE  RowsInv' /\ PlacesAsShown /\ RowsAsShown
<1>1. PICK r, q : r = rows /\ q = rows'
  OBVIOUS
<1>2. /\ r \in Seq(Row) /\ q \in Seq(Row) /\ DOMAIN q = DOMAIN r /\ Once(r)
      /\ \A k \in DOMAIN r : q[k].id = r[k].id
  BY <1>1 DEF RowsInv, Once, SaysTheSame
<1>3. Shown(q) = Shown(r) /\ Once(q) /\ \A moved : InOrder(q, r, moved)
  BY <1>2, PlacesKept
<1>4. r = <<>> <=> q = <<>>
  BY <1>2, RowsAre
<1>5. Marked(q, cursor) = Marked(r, cursor)
  BY <1>2 DEF Marked
<1>6. RowsInv'
  <2>1. rows' \in Seq(Row) /\ cursor' \in Nat
    OBVIOUS
  <2>2. rows' /= <<>> => cursor' \in DOMAIN rows'
    BY <1>1, <1>2, <1>4
  <2>3. \A i, j \in DOMAIN rows' : rows'[i].id = rows'[j].id => i = j
    BY <1>1, <1>3 DEF Once
  <2>4. QED
    BY <2>1, <2>2, <2>3 DEF RowsInv
<1>7. PlacesAsShown
  <2>1. Shown(r) = Shown(r) \ (IF key = "delete" THEN Marked(r, cursor) ELSE {})
    <3>1. CASE key = "delete"
      <4>1. DOMAIN r = {}
        BY <3>1, <1>1, NoKeys
      <4>2. QED
        BY <4>1 DEF Shown
    <3>2. QED
      BY <3>1
  <2>2. Shown(rows') = Shown(rows) \ (IF key = "delete" THEN Marked(rows, cursor) ELSE {})
    BY <2>1, <1>1, <1>3
  <2>3. InOrder(rows', rows, IF key \in {"up", "down"} THEN Marked(rows, cursor) ELSE {})
    BY <1>1, <1>3
  <2>4. key \in {"up", "down"} => Marked(rows', cursor') = Marked(rows, cursor)
    BY <1>1, <1>5
  <2>5. (key = "up" => cursor' <= cursor) /\ (key = "down" => cursor' >= cursor)
    BY DEF RowsInv
  <2>6. QED
    BY <1>6, <2>2, <2>3, <2>4, <2>5 DEF PlacesAsShown, RowsInv
<1>8. RowsAsShown
  <2>1. ASSUME NEW k \in DOMAIN r, NEW j \in DOMAIN q, r[k].id = q[j].id
        PROVE  k = j
    BY <2>1, <1>2 DEF Once
  <2>2. \A k \in DOMAIN rows, j \in DOMAIN rows' : rows[k].id = rows'[j].id => k = j
    BY <2>1, <1>1
  <2>3. cursor \in DOMAIN rows => Marked(rows, cursor) = {rows[cursor].id}
    BY DEF Marked
  <2>4. QED
    BY <2>2, <2>3 DEF RowsAsShown, SaysTheSame
<1>9. QED
  BY <1>6, <1>7, <1>8

LEMMA NothingMoved ==
    ASSUME RowsInv, rows' = rows, cursor' \in Nat, rows /= <<>> => cursor' \in DOMAIN rows,
           Meant(pressed') \in {"up", "down"} => cursor' = cursor, Meant(pressed') = "delete" => rows = <<>>
    PROVE  RowsInv' /\ PlacesAsShown /\ RowsAsShown
<1>1. PICK key : key = Meant(pressed')
  OBVIOUS
<1>2. \A k \in DOMAIN rows : SaysTheSame(k, key)
  BY DEF SaysTheSame
<1>3. rows' \in Seq(Row) /\ DOMAIN rows' = DOMAIN rows
  BY DEF RowsInv
<1>4. /\ key \in {"up", "down"} => cursor' = cursor
      /\ key = "delete" => rows = <<>>
  BY <1>1
<1>5. QED
  BY <1>1, <1>2, <1>3, <1>4, NoneMoved

(* The screen and the language stay; a key is pressed while there is a screen.*)
LEMMA PressKeeps ==
    ASSUME ScreenInv, NEW key, Press(key), editing' \in BOOLEAN, input' \in Texts \cup {""}
    PROVE  ScreenInv' /\ screen \in {"confirm", "review"} /\ screen' = screen /\ pressed' = key
BY DEF ScreenInv, Press

LEMMA BreakKeeps ==
    ASSUME PromptsInv, NEW key, Break(key)
    PROVE  PromptsInv' /\ AnswerAsShown /\ PlacesAsShown /\ RowsAsShown
<1>1. /\ key \in {"ctrl+c", "context"} /\ Press(key) /\ UNCHANGED <<rows, cursor, editing, input>>
      /\ answer' = Answer(IF screen = "confirm" THEN ConvertChoice("no") ELSE "cancel", "")
  BY DEF Break, Gives
<1>2. ScreenInv' /\ screen' = screen /\ pressed' = key
  BY <1>1, PressKeeps DEF PromptsInv, ScreenInv
<1>3. Meant(key) = key
  BY <1>1, ItselfMeant, LettersAre DEF PromptsInv, ScreenInv, Special
<1>4. RowsInv' /\ PlacesAsShown /\ RowsAsShown
  BY <1>1, <1>2, <1>3, NothingMoved DEF PromptsInv, RowsInv
<1>5. EditInv'
  BY <1>1, <1>2 DEF PromptsInv, EditInv, CanEditRow
<1>6. AnswerAsShown
  BY <1>1, <1>2, <1>3 DEF AnswerAsShown, ConvertChoice
<1>7. QED
  BY <1>2, <1>4, <1>5, <1>6 DEF PromptsInv

LEMMA EditKeyKeeps ==
    ASSUME PromptsInv, NEW key \in Letters \cup Special, EditKey(key)
    PROVE  PromptsInv' /\ AnswerAsShown /\ PlacesAsShown /\ RowsAsShown
<1>1. Press(key) /\ editing /\ key /= "ctrl+c" /\ input \in Texts
  BY DEF EditKey, PromptsInv, EditInv
<1>2. Meant(key) = key /\ pressed' = key /\ screen' = screen /\ screen \in {"confirm", "review"}
  BY <1>1, ItselfMeant, PressKeeps DEF PromptsInv, ScreenInv, Press
<1>3. key \notin {"up", "down", "delete"}
  BY LettersAre DEF Special
<1>4. CASE key = "enter" /\ screen = "confirm"
  <2>1. answer' = Answer("edit", input) /\ UNCHANGED <<rows, cursor, editing, input>>
    BY <1>4 DEF EditKey, Gives, ConvertChoice
  <2>2. ScreenInv'
    BY <1>1, <2>1, PressKeeps DEF PromptsInv, ScreenInv
  <2>3. RowsInv' /\ PlacesAsShown /\ RowsAsShown
    BY <1>2, <1>3, <2>1, NothingMoved DEF PromptsInv, RowsInv
  <2>4. EditInv'
    BY <1>2, <2>1 DEF PromptsInv, EditInv, CanEditRow
  <2>5. AnswerAsShown
    BY <1>1, <1>2, <1>4, <2>1 DEF AnswerAsShown
  <2>6. QED
    BY <2>2, <2>3, <2>4, <2>5 DEF PromptsInv
<1>5. CASE key = "enter" /\ screen = "review"
  <2>1. ApplyRowEdit(cursor) /\ editing' = FALSE /\ UNCHANGED <<cursor, input, answer>>
    BY <1>5 DEF EditKey
  <2>2. ScreenInv'
    BY <1>1, <2>1, PressKeeps DEF PromptsInv, ScreenInv
  <2>3. cursor \in DOMAIN rows /\ ~rows[cursor].blocked /\ rows' = [rows EXCEPT ![cursor].text = input]
    BY <1>1, <1>5, <2>1 DEF PromptsInv, EditInv, CanEditRow, ApplyRowEdit
  <2>4. rows' \in Seq(Row) /\ DOMAIN rows' = DOMAIN rows
    <3>1. [rows[cursor] EXCEPT !.text = input] \in Row
      <4>1. rows[cursor] \in Row
        BY <2>3, RowsAre DEF PromptsInv, RowsInv
      <4>2. QED
        BY <4>1, <1>1 DEF Row
    <3>2. rows' = [rows EXCEPT ![cursor] = [rows[cursor] EXCEPT !.text = input]]
      BY <2>3
    <3>3. QED
      BY <2>3, <3>1, <3>2, RowsAre DEF PromptsInv, RowsInv
  <2>5. ASSUME NEW k \in DOMAIN rows PROVE SaysTheSame(k, key)
    <3>1. rows[k] \in Row
      BY RowsAre DEF PromptsInv, RowsInv
    <3>2. k /= cursor => rows'[k] = rows[k]
      BY <2>3
    <3>3. k = cursor => rows'[k] = [rows[k] EXCEPT !.text = input]
      BY <2>3
    <3>4. CASE k /= cursor
      BY <3>2, <3>4 DEF SaysTheSame
    <3>5. CASE k = cursor
      <4>1. /\ rows'[k].id = rows[k].id /\ rows'[k].blocked = rows[k].blocked
            /\ rows'[k].skipped = rows[k].skipped /\ rows'[k].text = input
        BY <3>1, <3>3, <3>5 DEF Row
      <4>2. QED
        BY <4>1, <1>1, <1>5, <2>3, <3>5 DEF SaysTheSame
    <3>6. QED
      BY <3>4, <3>5
  <2>6. RowsInv' /\ PlacesAsShown /\ RowsAsShown
    <3>1. RowsInv /\ cursor' \in Nat /\ (rows /= <<>> => cursor' \in DOMAIN rows)
      BY <2>1 DEF PromptsInv, RowsInv
    <3>2. QED
      BY <1>2, <1>3, <2>4, <2>5, <3>1, NoneMoved
  <2>7. EditInv'
    BY <1>2, <1>5, <2>1 DEF EditInv
  <2>8. AnswerAsShown
    BY <2>1 DEF AnswerAsShown
  <2>9. QED
    BY <2>2, <2>6, <2>7, <2>8 DEF PromptsInv
<1>6. CASE key /= "enter"
  <2>1. /\ UNCHANGED <<rows, cursor, answer>>
        /\ \/ editing' = FALSE /\ input' = input
           \/ editing' = editing /\ input' \in Texts
    BY <1>6 DEF EditKey, Texts
  <2>2. ScreenInv'
    BY <1>1, <2>1, PressKeeps DEF PromptsInv, ScreenInv
  <2>3. RowsInv' /\ PlacesAsShown /\ RowsAsShown
    BY <1>2, <1>3, <2>1, NothingMoved DEF PromptsInv, RowsInv
  <2>4. EditInv'
    BY <1>2, <2>1 DEF PromptsInv, EditInv, CanEditRow
  <2>5. AnswerAsShown
    BY <2>1 DEF AnswerAsShown
  <2>6. QED
    BY <2>2, <2>3, <2>4, <2>5 DEF PromptsInv
<1>7. QED
  BY <1>2, <1>4, <1>5, <1>6

LEMMA ConfirmKeyKeeps ==
    ASSUME PromptsInv, NEW key \in Letters \cup Special, ConfirmKey(key)
    PROVE  PromptsInv' /\ AnswerAsShown /\ PlacesAsShown /\ RowsAsShown
<1>1. Press(key) /\ screen = "confirm" /\ ~editing /\ key /= "ctrl+c"
  BY DEF ConfirmKey
<1>2. pressed' = key /\ screen' = screen /\ lang \in {"en", "tr"} /\ UNCHANGED <<rows, cursor>>
  BY <1>1 DEF ConfirmKey, Press, Waits, Gives, PromptsInv, ScreenInv
<1>3. DOMAIN MapKey(lang) \subseteq Letters
  BY <1>2, ConfirmSays, LettersAre
<1>4. Meant(key) = IF key \in DOMAIN MapKey(lang) THEN MapKey(lang)[key] ELSE key
  <2>1. CASE key \in Letters
    BY <1>1, <1>2, <2>1, LetterMeant
  <2>2. CASE key \notin Letters
    BY <1>1, <1>2, <1>3, <2>2, ItselfMeant
  <2>3. QED
    BY <2>1, <2>2
<1>5. Meant(key) \notin {"up", "down", "delete"}
  <2>1. key \notin {"up", "down", "delete"}
    BY LettersAre DEF Special
  <2>2. key \in DOMAIN MapKey(lang) => MapKey(lang)[key] \notin {"up", "down", "delete"}
    BY <1>2, ChoicesAre
  <2>3. QED
    BY <1>4, <2>1, <2>2
<1>6. RowsInv' /\ PlacesAsShown /\ RowsAsShown
  BY <1>2, <1>5, NothingMoved DEF PromptsInv, RowsInv
<1>7. input' = input /\ editing' \in BOOLEAN
  <2>1. editing \in BOOLEAN
    BY DEF PromptsInv, ScreenInv
  <2>2. input' = input /\ (editing' = TRUE \/ editing' = editing)
    BY DEF ConfirmKey, Waits, Gives
  <2>3. QED
    BY <2>1, <2>2
<1>8. ScreenInv'
  BY <1>1, <1>7, PressKeeps DEF PromptsInv, ScreenInv
<1>9. AnswerAsShown
  <2>1. CASE answer' = answer
    BY <2>1 DEF AnswerAsShown
  <2>2. CASE answer' /= answer
    <3>1. /\ key \in DOMAIN MapKey(lang) /\ MapKey(lang)[key] /= "edit"
          /\ answer' = Answer(ConvertChoice(MapKey(lang)[key]), "")
      BY <2>2 DEF ConfirmKey, Waits, Gives
    <3>2. PICK c : c = MapKey(lang)[key]
      OBVIOUS
    <3>3. c \in {"yes", "no", "explain", "all"} /\ Meant(key) = c
      BY <3>1, <3>2, <1>2, <1>4, ChoicesAre
    <3>4. answer' = Answer(c, "")
      BY <3>1, <3>2, <3>3 DEF ConvertChoice
    <3>5. QED
      BY <1>1, <1>2, <3>3, <3>4 DEF AnswerAsShown
  <2>3. QED
    BY <2>1, <2>2
<1>10. EditInv'
  <2>1. screen' = "confirm"
    BY <1>1, <1>2
  <2>2. input' \in Texts
    BY <1>1, <1>7 DEF PromptsInv, EditInv
  <2>3. QED
    BY <1>7, <2>1, <2>2 DEF EditInv
<1>11. QED
  BY <1>6, <1>8, <1>9, <1>10 DEF PromptsInv

LEMMA ReviewKeyKeeps ==
    ASSUME PromptsInv, NEW key \in Letters \cup Special, ReviewKey(key)
    PROVE  PromptsInv' /\ AnswerAsShown /\ PlacesAsShown /\ RowsAsShown
<1>1. Press(key) /\ screen = "review" /\ ~editing /\ key \in Special /\ key /= "ctrl+c"
  BY DEF ReviewKey
<1>2. pressed' = key /\ screen' = screen /\ lang \in {"en", "tr"} /\ editing' = editing /\ input' = input
  BY <1>1 DEF ReviewKey, Press, Waits, Gives, PromptsInv, ScreenInv
<1>3. Meant(key) = key /\ key \notin {"up", "down", "delete"}
  <2>1. key \notin Letters /\ key \notin {"up", "down", "delete"}
    BY <1>1, LettersAre DEF Special
  <2>2. QED
    BY <1>1, <1>2, <2>1, ItselfMeant
<1>4. ScreenInv' /\ EditInv'
  BY <1>1, <1>2, PressKeeps DEF PromptsInv, ScreenInv, EditInv
<1>5. rows \in Seq(Row) /\ cursor \in Nat /\ (rows /= <<>> => cursor \in DOMAIN rows) /\ RowsInv
  BY DEF PromptsInv, RowsInv
<1>6. Len(rows) \in Nat /\ DOMAIN rows = 1..Len(rows) /\ (rows = <<>> <=> Len(rows) = 0)
  BY <1>5, RowsAre
<1>7. AnswerAsShown
  <2>1. CASE answer' = answer
    BY <2>1 DEF AnswerAsShown
  <2>2. CASE answer' /= answer
    <3>1. key = "esc" /\ answer' = Answer("cancel", "")
      BY <2>2 DEF ReviewKey, Gives, Waits
    <3>2. QED
      BY <3>1, <1>1, <1>2, <1>3 DEF AnswerAsShown
  <2>3. QED
    BY <2>1, <2>2
<1>8. CASE key = "space"
  <2>1. rows' = (IF cursor \in DOMAIN rows THEN [rows EXCEPT ![cursor].skipped = ~@] ELSE rows) /\ cursor' = cursor
    BY <1>8 DEF ReviewKey, ToggleRowSkip
  <2>2. CASE cursor \notin DOMAIN rows
    BY <1>2, <1>3, <1>4, <1>5, <1>7, <2>1, <2>2, NothingMoved DEF PromptsInv
  <2>3. CASE cursor \in DOMAIN rows
    <3>1. rows[cursor] \in Row /\ [rows[cursor] EXCEPT !.skipped = ~rows[cursor].skipped] \in Row
      <4>1. rows[cursor] \in Row
        BY <1>5, <2>3, RowsAre
      <4>2. rows[cursor].skipped \in BOOLEAN /\ (~rows[cursor].skipped) \in BOOLEAN
        BY <4>1 DEF Row
      <4>3. QED
        BY <4>1, <4>2 DEF Row
    <3>2. rows' = [rows EXCEPT ![cursor] = [rows[cursor] EXCEPT !.skipped = ~rows[cursor].skipped]]
      BY <2>1, <2>3
    <3>3. rows' \in Seq(Row) /\ DOMAIN rows' = DOMAIN rows
      BY <1>5, <2>3, <3>1, <3>2, RowsAre
    <3>4. ASSUME NEW k \in DOMAIN rows PROVE SaysTheSame(k, key)
      <4>1. CASE k /= cursor
        BY <3>2, <4>1 DEF SaysTheSame
      <4>2. CASE k = cursor
        <5>1. rows'[k] = [rows[k] EXCEPT !.skipped = ~rows[k].skipped]
          BY <3>2, <4>2
        <5>2. /\ rows'[k].id = rows[k].id /\ rows'[k].blocked = rows[k].blocked
              /\ rows'[k].text = rows[k].text
          BY <3>1, <4>2, <5>1 DEF Row
        <5>3. QED
          BY <5>2, <1>1, <1>8, <4>2 DEF SaysTheSame
      <4>3. QED
        BY <4>1, <4>2
    <3>5. cursor' \in Nat /\ (rows /= <<>> => cursor' \in DOMAIN rows)
      BY <1>5, <2>1
    <3>6. RowsInv' /\ PlacesAsShown /\ RowsAsShown
      BY <1>2, <1>3, <1>5, <3>3, <3>4, <3>5, NoneMoved
    <3>7. QED
      BY <1>4, <1>7, <3>6 DEF PromptsInv
  <2>4. QED
    BY <2>2, <2>3
<1>9. CASE key /= "space"
  <2>1. rows' = rows /\ cursor' \in {cursor, MoveCursorUp(cursor), MoveCursorDown(cursor)}
    BY <1>1, <1>9 DEF ReviewKey, Gives, Waits, Special
  <2>2. cursor' \in Nat /\ (rows /= <<>> => cursor' \in DOMAIN rows)
    BY <1>5, <1>6, <2>1 DEF MoveCursorUp, MoveCursorDown
  <2>3. RowsInv' /\ PlacesAsShown /\ RowsAsShown
    BY <1>2, <1>3, <1>5, <2>1, <2>2, NothingMoved
  <2>4. QED
    BY <1>4, <1>7, <2>3 DEF PromptsInv
<1>10. QED
  BY <1>8, <1>9

(* A row that changes places with its neighbour, by the key for it.           *)
LEMMA MoveKeeps ==
    ASSUME RowsInv, NEW j \in DOMAIN rows, cursor \in DOMAIN rows, j = cursor + 1 \/ cursor = j + 1,
           rows' = Swap(rows, cursor, j), cursor' = j,
           Meant(pressed') = IF j < cursor THEN "up" ELSE "down"
    PROVE  RowsInv' /\ PlacesAsShown /\ RowsAsShown
<1>1. PICK r, q, i : r = rows /\ q = rows' /\ i = cursor
  OBVIOUS
<1>2. /\ r \in Seq(Row) /\ DOMAIN r = 1..Len(r) /\ Len(r) \in Nat /\ Once(r)
      /\ q = Swap(r, i, j) /\ i \in 1..Len(r) /\ j \in 1..Len(r)
      /\ Neighbours(i, j)
  <2>1. r \in Seq(Row) /\ Once(r)
    BY <1>1 DEF RowsInv, Once
  <2>2. DOMAIN r = 1..Len(r) /\ Len(r) \in Nat
    BY <2>1, RowsAre
  <2>3. q = Swap(r, i, j)
    BY <1>1
  <2>4. i \in DOMAIN r /\ j \in DOMAIN r /\ Neighbours(i, j)
    BY <1>1 DEF Neighbours
  <2>5. QED
    BY <2>1, <2>2, <2>3, <2>4
<1>3. /\ q \in Seq(Row) /\ Len(q) = Len(r) /\ Once(q) /\ Shown(q) = Shown(r)
      /\ q[j] = r[i] /\ InOrder(q, r, {r[i].id})
      /\ SaysAsBefore(q, r)
  <2> DEFINE Says(a, b, x) == /\ x \in Seq(Row) /\ Len(x) = Len(r) /\ Once(x) /\ Shown(x) = Shown(r)
                              /\ x[b] = r[a] /\ InOrder(x, r, {r[a].id}) /\ SaysAsBefore(x, r)
  <2>1. \A a, b \in 1..Len(r) : \A x : Once(r) /\ Neighbours(a, b) /\ x = Swap(r, a, b) => Says(a, b, x)
    BY <1>2, Swapped
  <2> HIDE DEF Says
  <2>2. Says(i, j, q)
    BY <1>2, <2>1
  <2>3. QED
    BY <2>2 DEF Says
<1>4. DOMAIN q = 1..Len(r)
  BY <1>2, <1>3, RowsAre
<1>5. Marked(r, i) = {r[i].id} /\ Marked(q, j) = {r[i].id}
  BY <1>2, <1>3, <1>4 DEF Marked
<1>6. RowsInv'
  <2>1. rows' \in Seq(Row) /\ cursor' \in Nat /\ cursor' \in DOMAIN rows'
    BY <1>1, <1>2, <1>3, <1>4
  <2>2. \A k, l \in DOMAIN rows' : rows'[k].id = rows'[l].id => k = l
    BY <1>1, <1>3 DEF Once
  <2>3. QED
    BY <2>1, <2>2 DEF RowsInv
<1>7. PlacesAsShown
  <2>1. PICK key : key = Meant(pressed') /\ key \in {"up", "down"}
    OBVIOUS
  <2>2. Shown(rows') = Shown(rows) \ (IF key = "delete" THEN Marked(rows, cursor) ELSE {})
    BY <1>1, <1>3, <2>1
  <2>3. InOrder(rows', rows, IF key \in {"up", "down"} THEN Marked(rows, cursor) ELSE {})
    BY <1>1, <1>3, <1>5, <2>1
  <2>4. Marked(rows', cursor') = Marked(rows, cursor)
    BY <1>1, <1>5
  <2>5. (key = "up" => cursor' <= cursor) /\ (key = "down" => cursor' >= cursor)
    BY <1>1, <1>2, <2>1
  <2>6. QED
    BY <1>6, <2>1, <2>2, <2>3, <2>4, <2>5 DEF PlacesAsShown, RowsInv
<1>8. RowsAsShown
  BY <1>1, <1>3 DEF RowsAsShown, SaysAsBefore
<1>9. QED
  BY <1>6, <1>7, <1>8

LEMMA DeleteKeeps ==
    ASSUME RowsInv, cursor \in DOMAIN rows, DeleteRow(cursor), Meant(pressed') = "delete"
    PROVE  RowsInv' /\ PlacesAsShown /\ RowsAsShown
<1>1. PICK r, q, i : r = rows /\ q = rows' /\ i = cursor
  OBVIOUS
<1>2. /\ r \in Seq(Row) /\ DOMAIN r = 1..Len(r) /\ Len(r) \in Nat /\ Once(r) /\ i \in 1..Len(r)
      /\ q = RemoveRow(r, i)
  <2>1. r \in Seq(Row) /\ Once(r)
    BY <1>1 DEF RowsInv, Once
  <2>2. DOMAIN r = 1..Len(r) /\ Len(r) \in Nat
    BY <2>1, RowsAre
  <2>3. i \in DOMAIN r
    BY <1>1
  <2>4. rows' = RemoveRow(rows, cursor)
    BY DEF DeleteRow
  <2>5. q = RemoveRow(r, i)
    BY <1>1, <2>4
  <2>6. QED
    BY <2>1, <2>2, <2>3, <2>5
<1>3. /\ q \in Seq(Row) /\ Len(q) = Len(r) - 1 /\ Once(q) /\ Shown(q) = Shown(r) \ {r[i].id}
      /\ InOrder(q, r, {})
      /\ SaysAsBefore(q, r)
  BY <1>2, Removed, Zenon
<1>4. DOMAIN q = 1..(Len(r) - 1) /\ (q = <<>> <=> Len(r) = 1)
  BY <1>2, <1>3, RowsAre
<1>5. cursor' = IF i > Len(r) - 1 THEN Len(r) - 1 ELSE i
  BY <1>1 DEF DeleteRow
<1>6. RowsInv'
  <2>1. rows' \in Seq(Row) /\ cursor' \in Nat /\ (rows' /= <<>> => cursor' \in DOMAIN rows')
    BY <1>1, <1>2, <1>3, <1>4, <1>5
  <2>2. \A k, l \in DOMAIN rows' : rows'[k].id = rows'[l].id => k = l
    BY <1>1, <1>3 DEF Once
  <2>3. QED
    BY <2>1, <2>2 DEF RowsInv
<1>7. PlacesAsShown
  <2>1. Marked(rows, cursor) = {r[i].id}
    BY <1>1 DEF Marked
  <2>2. Shown(rows') = Shown(rows) \ Marked(rows, cursor) /\ InOrder(rows', rows, {})
    BY <1>1, <1>3, <2>1
  <2>3. QED
    BY <1>6, <2>2 DEF PlacesAsShown, RowsInv
<1>8. RowsAsShown
  BY <1>1, <1>3 DEF RowsAsShown, SaysAsBefore
<1>9. QED
  BY <1>6, <1>7, <1>8

LEMMA ReviewLetterKeeps ==
    ASSUME PromptsInv, NEW key \in Letters \cup Special, ReviewLetter(key)
    PROVE  PromptsInv' /\ AnswerAsShown /\ PlacesAsShown /\ RowsAsShown
<1>1. Press(key) /\ screen = "review" /\ ~editing /\ key \in Letters
  BY DEF ReviewLetter
<1>2. pressed' = key /\ screen' = screen /\ lang \in {"en", "tr"} /\ screen' = "review"
  BY <1>1 DEF Press, PromptsInv, ScreenInv
<1>3. PICK action : action = IF key \in DOMAIN MapPlanReviewKey(lang) THEN MapPlanReviewKey(lang)[key] ELSE ""
  OBVIOUS
<1>4. /\ action \in {"up", "down", "edit", "delete", "approve", ""}
      /\ action /= "" => Meant(key) = action
      /\ action = "" => Meant(key) \notin {"up", "down", "delete"}
  <2>1. key \notin {"up", "down", "delete"}
    BY <1>1, LettersAre
  <2>2. Meant(key) = IF key \in DOMAIN MapPlanReviewKey(lang) THEN MapPlanReviewKey(lang)[key] ELSE key
    BY <1>1, <1>2, LetterMeant
  <2>3. key \in DOMAIN MapPlanReviewKey(lang) => action \in {"up", "down", "edit", "delete", "approve"}
    BY <1>2, <1>3, ActionsAre
  <2>4. QED
    BY <1>3, <2>1, <2>2, <2>3
<1>5. (CASE action = "up" -> MoveRowUp(cursor) /\ UNCHANGED <<editing, input, answer>>
        [] action = "down" -> MoveRowDown(cursor) /\ UNCHANGED <<editing, input, answer>>
        [] action = "delete" -> DeleteRow(cursor) /\ UNCHANGED <<editing, input, answer>>
        [] action = "edit" /\ CanEditRow(cursor) ->
             editing' = TRUE /\ input' = rows[cursor].text /\ UNCHANGED <<rows, cursor, answer>>
        [] action = "approve" -> Gives("approve", "")
        [] OTHER -> Waits)
  BY <1>3, Zenon DEF ReviewLetter
<1>6. /\ rows \in Seq(Row) /\ cursor \in Nat /\ (rows /= <<>> => cursor \in DOMAIN rows) /\ RowsInv
      /\ editing \in BOOLEAN /\ input \in Texts \cup {""}
  BY DEF PromptsInv, RowsInv, ScreenInv
<1>7. Len(rows) \in Nat /\ DOMAIN rows = 1..Len(rows) /\ (rows = <<>> <=> Len(rows) = 0)
  BY <1>6, RowsAre
<1>8. ASSUME UNCHANGED <<editing, input>> PROVE ScreenInv' /\ EditInv'
  BY <1>1, <1>2, <1>6, <1>8, PressKeeps DEF PromptsInv, EditInv
<1>9. ASSUME rows' = rows, cursor' = cursor, Meant(key) = "delete" => rows = <<>>
      PROVE  RowsInv' /\ PlacesAsShown /\ RowsAsShown
  BY <1>2, <1>6, <1>9, NothingMoved
<1>10. CASE action = "up"
  <2>1. MoveRowUp(cursor) /\ UNCHANGED <<editing, input, answer>>
    BY <1>5, <1>10
  <2>2. Meant(pressed') = "up"
    BY <1>2, <1>4, <1>10
  <2>3. RowsInv' /\ PlacesAsShown /\ RowsAsShown
    <3>1. CASE cursor \in DOMAIN rows /\ cursor > 1
      <4>0. cursor \in 1..Len(rows) /\ Len(rows) \in Nat
        BY <1>7, <3>1
      <4>1. PICK j \in 1..Len(rows) : j = cursor - 1
        BY <4>0, <3>1
      <4>2. j \in DOMAIN rows /\ cursor = j + 1 /\ j < cursor
        BY <1>7, <4>0, <4>1
      <4>3. rows' = Swap(rows, cursor, j) /\ cursor' = j
        BY <2>1, <3>1, <4>1 DEF MoveRowUp
      <4>4. QED
        BY <1>6, <2>2, <3>1, <4>2, <4>3, MoveKeeps
    <3>2. CASE ~(cursor \in DOMAIN rows /\ cursor > 1)
      BY <1>2, <1>9, <2>1, <2>2, <3>2 DEF MoveRowUp
    <3>3. QED
      BY <3>1, <3>2
  <2>4. QED
    BY <1>8, <2>1, <2>3 DEF PromptsInv, AnswerAsShown
<1>11. CASE action = "down"
  <2>1. MoveRowDown(cursor) /\ UNCHANGED <<editing, input, answer>>
    BY <1>5, <1>11
  <2>2. Meant(pressed') = "down"
    BY <1>2, <1>4, <1>11
  <2>3. RowsInv' /\ PlacesAsShown /\ RowsAsShown
    <3>1. CASE cursor \in DOMAIN rows /\ cursor < Len(rows)
      <4>0. cursor \in 1..Len(rows) /\ Len(rows) \in Nat
        BY <1>7, <3>1
      <4>1. PICK j \in 1..Len(rows) : j = cursor + 1
        BY <4>0, <3>1
      <4>2. j \in DOMAIN rows /\ ~(j < cursor)
        BY <1>7, <4>0, <4>1
      <4>3. rows' = Swap(rows, cursor, j) /\ cursor' = j
        BY <2>1, <3>1, <4>1 DEF MoveRowDown
      <4>4. QED
        BY <1>6, <2>2, <3>1, <4>1, <4>2, <4>3, MoveKeeps
    <3>2. CASE ~(cursor \in DOMAIN rows /\ cursor < Len(rows))
      BY <1>2, <1>9, <2>1, <2>2, <3>2 DEF MoveRowDown
    <3>3. QED
      BY <3>1, <3>2
  <2>4. QED
    BY <1>8, <2>1, <2>3 DEF PromptsInv, AnswerAsShown
<1>12. CASE action = "delete"
  <2>1. DeleteRow(cursor) /\ UNCHANGED <<editing, input, answer>>
    BY <1>5, <1>12
  <2>2. Meant(pressed') = "delete"
    BY <1>2, <1>4, <1>12
  <2>3. RowsInv' /\ PlacesAsShown /\ RowsAsShown
    <3>1. CASE cursor \in DOMAIN rows
      BY <1>6, <2>1, <2>2, <3>1, DeleteKeeps
    <3>2. CASE cursor \notin DOMAIN rows
      BY <1>6, <1>9, <2>1, <3>2 DEF DeleteRow
    <3>3. QED
      BY <3>1, <3>2
  <2>4. QED
    BY <1>8, <2>1, <2>3 DEF PromptsInv, AnswerAsShown
<1>13. CASE action = "edit" /\ CanEditRow(cursor)
  <2>1. editing' = TRUE /\ input' = rows[cursor].text /\ UNCHANGED <<rows, cursor, answer>>
    BY <1>5, <1>13
  <2>2. rows[cursor] \in Row
    BY <1>6, <1>13, RowsAre DEF CanEditRow
  <2>3. input' \in Texts
    BY <2>1, <2>2 DEF Row
  <2>4. ScreenInv' /\ EditInv'
    BY <1>1, <1>2, <1>13, <2>1, <2>3, PressKeeps DEF PromptsInv, EditInv, CanEditRow
  <2>5. RowsInv' /\ PlacesAsShown /\ RowsAsShown
    BY <1>4, <1>9, <1>13, <2>1
  <2>6. QED
    BY <2>1, <2>4, <2>5 DEF PromptsInv, AnswerAsShown
<1>14. CASE action = "approve"
  <2>1. answer' = Answer("approve", "") /\ UNCHANGED <<rows, cursor, editing, input>>
    BY <1>5, <1>14 DEF Gives
  <2>2. Meant(pressed') = "approve"
    BY <1>2, <1>4, <1>14
  <2>3. AnswerAsShown
    BY <1>1, <2>1, <2>2 DEF AnswerAsShown
  <2>4. RowsInv' /\ PlacesAsShown /\ RowsAsShown
    BY <1>2, <1>9, <2>1, <2>2
  <2>5. QED
    BY <1>8, <2>1, <2>3, <2>4 DEF PromptsInv
<1>15. CASE action = "" \/ (action = "edit" /\ ~CanEditRow(cursor))
  <2>1. UNCHANGED <<rows, cursor, editing, input, answer>>
    BY <1>5, <1>15 DEF Waits
  <2>2. RowsInv' /\ PlacesAsShown /\ RowsAsShown
    BY <1>4, <1>9, <1>15, <2>1
  <2>3. QED
    BY <1>8, <2>1, <2>2 DEF PromptsInv, AnswerAsShown
<1>16. QED
  BY <1>4, <1>10, <1>11, <1>12, <1>13, <1>14, <1>15

LEMMA PromptsStarts == PromptsInit => PromptsInv
<1> SUFFICES ASSUME PromptsInit PROVE PromptsInv
  OBVIOUS
<1>1. PICK plan \in Plans :
        /\ lang \in {"en", "tr"} /\ screen \in {"confirm", "review"}
        /\ rows = [k \in DOMAIN plan |-> [id |-> k, blocked |-> plan[k], skipped |-> FALSE, text |-> "as planned"]]
        /\ input = (IF screen = "confirm" THEN "as planned" ELSE "")
        /\ cursor = 1 /\ editing = FALSE
  BY DEF PromptsInit
<1>2. plan \in Seq(BOOLEAN)
  BY PromptsAssumption
<1>3. Len(plan) \in Nat /\ DOMAIN plan = 1..Len(plan) /\ \A k \in 1..Len(plan) : plan[k] \in BOOLEAN
  BY <1>2
<1>4. \A k \in 1..Len(plan) : rows[k] \in Row /\ rows[k].id = k
  <2> SUFFICES ASSUME NEW k \in 1..Len(plan) PROVE rows[k] \in Row /\ rows[k].id = k
    OBVIOUS
  <2>1. rows[k] = [id |-> k, blocked |-> plan[k], skipped |-> FALSE, text |-> "as planned"]
    BY <1>1, <1>3
  <2>2. k \in Nat /\ plan[k] \in BOOLEAN /\ FALSE \in BOOLEAN /\ "as planned" \in Texts
    BY <1>3 DEF Texts
  <2>3. PICK row : row = rows[k]
    OBVIOUS
  <2>4. row = [id |-> k, blocked |-> plan[k], skipped |-> FALSE, text |-> "as planned"]
    BY <2>1, <2>3
  <2>5. row \in Row /\ row.id = k
    BY <2>2, <2>4 DEF Row
  <2>6. QED
    BY <2>3, <2>5
<1>5. rows \in Seq(Row) /\ DOMAIN rows = 1..Len(plan) /\ Len(rows) = Len(plan)
  <2>1. rows = [k \in 1..Len(plan) |-> rows[k]]
    BY <1>1, <1>3
  <2>2. rows \in [1..Len(plan) -> Row]
    BY <1>4, <2>1
  <2>3. rows \in Seq(Row) /\ DOMAIN rows = 1..Len(plan)
    <3>1. PICK n \in Nat : n = Len(plan)
      BY <1>3
    <3>2. rows \in [1..n -> Row]
      BY <2>2, <3>1
    <3>3. rows \in Seq(Row)
      BY <3>2
    <3>4. QED
      BY <2>2, <3>3
  <2>4. QED
    BY <1>3, <2>3, RowsAre
<1>6. rows /= <<>> => cursor \in DOMAIN rows
  <2>1. Len(rows) /= 0 => 1 \in 1..Len(plan)
    BY <1>3, <1>5
  <2>2. QED
    BY <1>1, <1>5, <2>1, RowsAre
<1>7. RowsInv
  BY <1>1, <1>4, <1>5, <1>6 DEF RowsInv
<1>8. ScreenInv /\ EditInv
  BY <1>1 DEF ScreenInv, EditInv, Texts
<1>9. QED
  BY <1>7, <1>8 DEF PromptsInv

LEMMA PromptsSteps ==
    PromptsInv /\ [PromptsNext]_promptVars =>
      PromptsInv' /\ [AnswerAsShown /\ PlacesAsShown /\ RowsAsShown]_promptVars
<1> SUFFICES ASSUME PromptsInv, [PromptsNext]_promptVars
             PROVE  PromptsInv' /\ [AnswerAsShown /\ PlacesAsShown /\ RowsAsShown]_promptVars
  OBVIOUS
<1>1. CASE UNCHANGED promptVars
  BY <1>1 DEF promptVars, PromptsInv, ScreenInv, RowsInv, EditInv, CanEditRow
<1>2. ASSUME NEW key \in Letters \cup Special, EditKey(key) \/ ConfirmKey(key) \/ ReviewKey(key) \/ ReviewLetter(key)
      PROVE  PromptsInv' /\ AnswerAsShown /\ PlacesAsShown /\ RowsAsShown
  BY <1>2, EditKeyKeeps, ConfirmKeyKeeps, ReviewKeyKeeps, ReviewLetterKeeps
<1>3. ASSUME NEW key, Break(key) PROVE PromptsInv' /\ AnswerAsShown /\ PlacesAsShown /\ RowsAsShown
  BY <1>3, BreakKeeps
<1>4. QED
  BY <1>1, <1>2, <1>3 DEF PromptsNext

(* Whatever is pressed, in either language, before, in and after an edit,     *)
(* each key does what the screen says of it: what Update of both models does, *)
(* for plans of any length.                                                   *)
THEOREM KeysHold == PromptsSpec => KeysDoAsShown
<1>1. PromptsInit => PromptsInv
  BY PromptsStarts
<1>2. PromptsInv /\ [PromptsNext]_promptVars =>
        PromptsInv' /\ [AnswerAsShown /\ PlacesAsShown /\ RowsAsShown]_promptVars
  BY PromptsSteps
<1>3. QED
  BY <1>1, <1>2, PTL DEF PromptsSpec, KeysDoAsShown

(* ---------------------------------- the shell -------------------------------- *)

(* ------------------------------- the shell's steps --------------------------- *)

Env == [Vars -> Literals \cup {Unknown}]
Values(w, e) == IF w.kind = "lit" THEN {w.of} ELSE IF w.kind = "var" THEN {e[w.of]} ELSE Literals \cup {Unknown}
Stage(list, e) == IF IsCommand(list) THEN Values(list[1].w, e) ELSE {}

(* What the shell has under way is an environment and a stack. What may come  *)
(* of it in one step:                                                         *)
Puts(s, e) ==
    CASE s.op = "assign" -> {<<[e EXCEPT ![s.x] = c], <<>>>> : c \in Values(s.w, e)}
      [] s.op = "append" -> {<<[e EXCEPT ![s.x] = c], <<>>>> : c \in Literals}
      [] s.op = "call" -> {<<e, <<>>>>}
      [] s.op = "andor" -> {<<e, s.left \o <<>>>>, <<e, s.left \o s.right>>}
      [] s.op = "pipe" -> {<<e, [i \in DOMAIN s.stages |-> [op |-> "subshell", body |-> s.stages[i]]]>>}
      [] s.op = "if" -> {<<e, IF s.links = <<>> THEN <<>>
                              ELSE Head(s.links).cond \o <<[op |-> "test", links |-> s.links]>>>>}
      [] s.op = "test" -> {<<e, Head(s.links).body>>}
                          \cup {<<e, <<[op |-> "if", links |-> Tail(s.links)]>>>>}
      [] s.op = "while" -> {<<e, s.cond \o <<[op |-> "again", loop |-> s]>>>>}
      [] s.op = "again" -> {<<e, <<>>>>, <<e, Append(s.loop.body, s.loop)>>}
      [] s.op = "for" -> {<<e, <<>>>>} \cup {<<[e EXCEPT ![s.x] = c], Append(s.body, s)>> : c \in Literals \cup {Unknown}}
      [] s.op = "case" -> {<<e, l>> : l \in ToSet(s.items) \cup {<<>>}}
      [] s.op = "block" -> {<<e, s.body>>}
      [] s.op = "subshell" -> {<<e, Append(s.body, [op |-> "leave", env |-> e])>>}
      [] s.op = "leave" -> {<<s.env, <<>>>>}

Succ(c) == {<<d[1], d[2] \o Tail(c[2])>> : d \in Puts(Head(c[2]), c[1])}

Fetches(s, e) == \E i \in 2..Len(s.stages) : /\ Stage(s.stages[1], e) \cap Fetchers /= {}
                                              /\ Stage(s.stages[i], e) \cap Interpreters /= {}

(* What a step shows is in the verdict.                                       *)
Shows(s, e, v) ==
    /\ s.op = "call" => Values(s.w, e) \ {Unknown} \subseteq v.words
    /\ s.op = "pipe" /\ Fetches(s, e) => v.found
Covered(c, v) == c[2] /= <<>> /\ Shows(Head(c[2]), c[1], v)

(* S can not be left but to T, and all its steps are covered.                 *)
Closed(S, T, v) == \A c \in S : Covered(c, v) /\ Succ(c) \subseteq S \cup T
(* From c on all steps are covered until T is reached, if it ever is.         *)
Within(c, T, v) == c \in T \/ \E S : c \in S /\ Closed(S, T, v)

LEMMA WithinStep ==
    ASSUME NEW c, NEW T, NEW v, Within(c, T, v), c \notin T
    PROVE  Covered(c, v) /\ \A d \in Succ(c) : Within(d, T, v)
<1>1. PICK S : c \in S /\ Closed(S, T, v)
  BY DEF Within
<1>2. Covered(c, v) /\ Succ(c) \subseteq S \cup T
  BY <1>1 DEF Closed
<1>3. QED
  BY <1>1, <1>2 DEF Within

(* A set whose steps all lead back to it, or to T, is one to stay in.         *)
LEMMA Coinduction ==
    ASSUME NEW A, NEW T, NEW v,
           \A c \in A : Covered(c, v) /\ \A d \in Succ(c) : Within(d, A \cup T, v)
    PROVE  \A c \in A : Within(c, T, v)
<1> DEFINE Next1 == UNION {Succ(c) : c \in A}
           In(d) == CHOOSE S : d \in S /\ Closed(S, A \cup T, v)
           D == {d \in Next1 : d \notin A \cup T}
           All == A \cup UNION {In(d) : d \in D}
<1>1. ASSUME NEW d \in D PROVE d \in In(d) /\ Closed(In(d), A \cup T, v)
  <2>1. PICK c \in A : d \in Succ(c)
    OBVIOUS
  <2>2. \E S : d \in S /\ Closed(S, A \cup T, v)
    BY <2>1 DEF Within
  <2>3. QED
    BY <2>2
<1> HIDE DEF In
<1>2. ASSUME NEW c \in All PROVE Covered(c, v) /\ Succ(c) \subseteq All \cup T
  <2>1. CASE c \in A
    <3>1. ASSUME NEW d \in Succ(c) PROVE d \in All \cup T
      <4>1. CASE d \in A \cup T
        BY <4>1
      <4>2. CASE d \notin A \cup T
        <5>1. d \in D
          BY <2>1, <4>2
        <5>2. QED
          BY <5>1, <1>1
      <4>3. QED
        BY <4>1, <4>2
    <3>2. QED
      BY <2>1, <3>1
  <2>2. CASE c \notin A
    <3>1. PICK d \in D : c \in In(d)
      BY <2>2
    <3>2. Covered(c, v) /\ Succ(c) \subseteq In(d) \cup (A \cup T)
      BY <1>1, <3>1 DEF Closed
    <3>3. In(d) \subseteq All
      OBVIOUS
    <3>4. QED
      BY <3>2, <3>3
  <2>3. QED
    BY <2>1, <2>2
<1>3. Closed(All, T, v)
  <2> HIDE DEF All
  <2>1. QED
    BY <1>2 DEF Closed
<1>4. A \subseteq All
  OBVIOUS
<1> HIDE DEF All
<1>5. QED
  BY <1>3, <1>4 DEF Within

(* What leads to T leads to where all of T lead.                              *)
LEMMA WithinTrans ==
    ASSUME NEW c, NEW T, NEW U, NEW v, Within(c, T, v), \A t \in T : Within(t, U, v)
    PROVE  Within(c, U, v)
<1>1. CASE c \in T
  BY <1>1
<1>2. CASE c \notin T
  <2>1. PICK S : c \in S /\ Closed(S, T, v)
    BY <1>2 DEF Within
  <2> DEFINE A == S \cup {t \in T : t \notin U}
  <2>2. ASSUME NEW d \in A PROVE Covered(d, v) /\ \A f \in Succ(d) : Within(f, A \cup U, v)
    <3>1. CASE d \in S
      <4>1. Covered(d, v) /\ Succ(d) \subseteq S \cup T
        BY <2>1, <3>1 DEF Closed
      <4>2. S \cup T \subseteq A \cup U
        OBVIOUS
      <4> HIDE DEF A
      <4>3. QED
        BY <4>1, <4>2 DEF Within
    <3>2. CASE d \in T /\ d \notin U
      <4>1. Covered(d, v) /\ \A f \in Succ(d) : Within(f, U, v)
        BY <3>2, WithinStep
      <4>2. ASSUME NEW f, Within(f, U, v) PROVE Within(f, A \cup U, v)
        <5> HIDE DEF A
        <5>1. CASE f \in U
          BY <5>1 DEF Within
        <5>2. CASE f \notin U
          <6>1. PICK R : f \in R /\ Closed(R, U, v)
            BY <4>2, <5>2 DEF Within
          <6>2. Closed(R, A \cup U, v)
            BY <6>1 DEF Closed
          <6>3. QED
            BY <6>1, <6>2 DEF Within
        <5>3. QED
          BY <5>1, <5>2
      <4>3. QED
        BY <4>1, <4>2
    <3>3. QED
      BY <3>1, <3>2
  <2>3. c \in A
    BY <2>1
  <2> HIDE DEF A
  <2>4. QED
    BY <2>2, <2>3, Coinduction
<1>3. QED
  BY <1>1, <1>2

(* One step more.                                                             *)
LEMMA WithinOne ==
    ASSUME NEW c, NEW T, NEW v, Covered(c, v), \A d \in Succ(c) : Within(d, T, v)
    PROVE  Within(c, T, v)
<1>1. ASSUME NEW d, Within(d, T, v) PROVE Within(d, {c} \cup T, v)
  <2>1. CASE d \in T
    BY <2>1 DEF Within
  <2>2. CASE d \notin T
    <3>1. PICK R : d \in R /\ Closed(R, T, v)
      BY <1>1, <2>2 DEF Within
    <3>2. Closed(R, {c} \cup T, v)
      BY <3>1 DEF Closed
    <3>3. QED
      BY <3>1, <3>2 DEF Within
  <2>3. QED
    BY <2>1, <2>2
<1>2. \A b \in {c} : Covered(b, v) /\ \A d \in Succ(b) : Within(d, {c} \cup T, v)
  BY <1>1
<1>3. \A b \in {c} : Within(b, T, v)
  BY <1>2, Coinduction
<1>4. QED
  BY <1>3

(* ---------------------------- lists that do as expected ---------------------- *)

Loops == {s \in Syntax[MaxDepth] : s.op = "while"}
Frames == Syntax[MaxDepth]
          \cup [op : {"test"}, links : Seq([cond : Seq(Syntax[MaxDepth]), body : Seq(Syntax[MaxDepth])])]
          \cup [op : {"again"}, loop : Loops] \cup [op : {"leave"}, env : Env]
Stack == Seq(Frames)

(* known is true of an environment; and says less than another one.           *)
Fits(e, known) == \A x \in Vars : known[x] \in {Unknown, e[x]}
Exits(rest, known) == {<<e, rest>> : e \in {f \in Env : Fits(f, known)}}

(* From an environment before fits, list is covered and leaves one after fits.*)
Correct(list, before, after, v) ==
    \A rest \in Stack, e \in Env : Fits(e, before) => Within(<<e, list \o rest>>, Exits(rest, after), v)

LEMMA FitsLess == ASSUME NEW e, NEW K, NEW L, Fits(e, K), Fits(K, L) PROVE Fits(e, L)
  BY DEF Fits

LEMMA CorrectLess ==
    ASSUME NEW list, NEW K \in Env, NEW L \in Env, NEW M \in Env, NEW N \in Env, NEW v,
           Fits(K, L), Correct(list, L, M, v), Fits(M, N)
    PROVE  Correct(list, K, N, v)
<1> SUFFICES ASSUME NEW rest \in Stack, NEW e \in Env, Fits(e, K)
             PROVE  Within(<<e, list \o rest>>, Exits(rest, N), v)
  BY DEF Correct
<1>1. Within(<<e, list \o rest>>, Exits(rest, M), v)
  BY FitsLess DEF Correct
<1>2. ASSUME NEW t \in Exits(rest, M) PROVE Within(t, Exits(rest, N), v)
  <2>1. t \in Exits(rest, N)
    BY FitsLess DEF Exits
  <2>2. QED
    BY <2>1 DEF Within
<1>3. QED
  BY <1>1, <1>2, WithinTrans

LEMMA CorrectNone ==
    ASSUME NEW K \in Env, NEW L \in Env, NEW v, Fits(K, L)
    PROVE  Correct(<<>>, K, L, v)
<1> SUFFICES ASSUME NEW rest \in Stack, NEW e \in Env, Fits(e, K)
             PROVE  Within(<<e, <<>> \o rest>>, Exits(rest, L), v)
  BY DEF Correct
<1>1. <<>> \o rest = rest
  BY DEF Stack
<1>2. <<e, rest>> \in Exits(rest, L)
  BY FitsLess DEF Exits
<1>3. QED
  BY <1>1, <1>2 DEF Within

LEMMA CorrectBoth ==
    ASSUME NEW l1 \in Stack, NEW l2 \in Stack, NEW K \in Env, NEW L \in Env, NEW M \in Env, NEW v,
           Correct(l1, K, L, v), Correct(l2, L, M, v)
    PROVE  Correct(l1 \o l2, K, M, v)
<1> SUFFICES ASSUME NEW rest \in Stack, NEW e \in Env, Fits(e, K)
             PROVE  Within(<<e, (l1 \o l2) \o rest>>, Exits(rest, M), v)
  BY DEF Correct
<1>1. (l1 \o l2) \o rest = l1 \o (l2 \o rest) /\ l2 \o rest \in Stack
  BY DEF Stack
<1>2. Within(<<e, l1 \o (l2 \o rest)>>, Exits(l2 \o rest, L), v)
  BY <1>1 DEF Correct
<1>3. ASSUME NEW t \in Exits(l2 \o rest, L) PROVE Within(t, Exits(rest, M), v)
  BY DEF Exits, Correct
<1>4. QED
  BY <1>1, <1>2, <1>3, WithinTrans

(* A statement is correct if each of its steps leads to what is.              *)
LEMMA CorrectStep ==
    ASSUME NEW s \in Frames, NEW K \in Env, NEW L \in Env, NEW v,
           \A e \in Env : Fits(e, K) =>
              /\ Shows(s, e, v)
              /\ \A d \in Puts(s, e) : d[1] \in Env /\ d[2] \in Stack
                    /\ \E M \in Env : Fits(d[1], M) /\ Correct(d[2], M, L, v)
    PROVE  Correct(<<s>>, K, L, v)
<1> SUFFICES ASSUME NEW rest \in Stack, NEW e \in Env, Fits(e, K)
             PROVE  Within(<<e, <<s>> \o rest>>, Exits(rest, L), v)
  BY DEF Correct
<1> DEFINE c == <<e, <<s>> \o rest>>
<1>1. c[2] /= <<>> /\ Head(c[2]) = s /\ Tail(c[2]) = rest /\ c[1] = e
  BY DEF Stack
<1> HIDE DEF c
<1>2. Covered(c, v)
  BY <1>1 DEF Covered
<1>3. ASSUME NEW d \in Succ(c) PROVE Within(d, Exits(rest, L), v)
  <2>1. PICK f \in Puts(s, e) : d = <<f[1], f[2] \o rest>>
    BY <1>1 DEF Succ
  <2>2. PICK M \in Env : Fits(f[1], M) /\ Correct(f[2], M, L, v)
    OBVIOUS
  <2>3. f[1] \in Env
    OBVIOUS
  <2>4. QED
    BY <2>1, <2>2, <2>3 DEF Correct
<1>4. QED
  BY <1>2, <1>3, WithinOne DEF c

(* -------------------------------- by statement ------------------------------- *)

LEMMA WordIs ==
    ASSUME NEW w \in Words
    PROVE  \/ w.kind = "lit" /\ w.of \in Literals
           \/ w.kind = "var" /\ w.of \in Vars
           \/ w.kind = "subst"
<1>1. CASE w \in [kind : {"lit"}, of : Literals]
  BY <1>1
<1>2. CASE w \in [kind : {"var"}, of : Vars]
  BY <1>2
<1>3. CASE w = Subst
  BY <1>3 DEF Subst
<1>4. QED
  BY <1>1, <1>2, <1>3 DEF Words

LEMMA CorrectAssign ==
    ASSUME NEW s \in Frames, NEW K \in Env, NEW v, s.op = "assign", s.x \in Vars, s.w \in Words, Resolvable(s.w, K)
    PROVE  Correct(<<s>>, K, [K EXCEPT ![s.x] = Resolve(s.w, K)], v)
<1> DEFINE L == [K EXCEPT ![s.x] = Resolve(s.w, K)]
<1>1. (s.w.kind = "lit" /\ s.w.of \in Literals) \/ (s.w.kind = "var" /\ s.w.of \in Vars /\ K[s.w.of] /= Unknown)
  BY WordIs DEF Resolvable
<1>2. L \in Env
  BY <1>1 DEF Env, Resolve
<1>3. ASSUME NEW e \in Env, Fits(e, K)
      PROVE  /\ Shows(s, e, v)
             /\ \A d \in Puts(s, e) : d[1] \in Env /\ d[2] \in Stack
                   /\ \E M \in Env : Fits(d[1], M) /\ Correct(d[2], M, L, v)
  <2>1. Shows(s, e, v)
    BY DEF Shows
  <2>2. Values(s.w, e) = {Resolve(s.w, K)}
    BY <1>1, <1>3 DEF Values, Resolve, Fits
  <2>3. Puts(s, e) = {<<[e EXCEPT ![s.x] = c], <<>>>> : c \in Values(s.w, e)}
    BY DEF Puts
  <2>4. Resolve(s.w, K) \in Literals \cup {Unknown}
    BY <1>1 DEF Resolve, Env
  <2>5. ASSUME NEW d \in Puts(s, e) PROVE d[1] \in Env /\ d[2] = <<>> /\ Fits(d[1], L)
    <3>1. d = <<[e EXCEPT ![s.x] = Resolve(s.w, K)], <<>>>>
      BY <2>2, <2>3
    <3>2. [e EXCEPT ![s.x] = Resolve(s.w, K)] \in Env
      BY <2>4 DEF Env
    <3>3. Fits([e EXCEPT ![s.x] = Resolve(s.w, K)], L)
      BY <1>3, <2>4 DEF Fits, Env
    <3>4. QED
      BY <3>1, <3>2, <3>3
  <2>6. Correct(<<>>, L, L, v) /\ <<>> \in Stack
    BY <1>2, CorrectNone DEF Fits, Stack
  <2> HIDE DEF L
  <2>7. QED
    BY <1>2, <2>1, <2>5, <2>6
<1> HIDE DEF L
<1>4. QED
  BY <1>2, <1>3, CorrectStep DEF L

LEMMA CorrectCall ==
    ASSUME NEW s \in Frames, NEW K \in Env, NEW v, s.op = "call", s.w \in Words, Resolvable(s.w, K),
           Resolve(s.w, K) \in v.words
    PROVE  Correct(<<s>>, K, K, v)
<1>1. (s.w.kind = "lit" /\ s.w.of \in Literals) \/ (s.w.kind = "var" /\ s.w.of \in Vars /\ K[s.w.of] /= Unknown)
  BY WordIs DEF Resolvable
<1>3. ASSUME NEW e \in Env, Fits(e, K)
      PROVE  /\ Shows(s, e, v)
             /\ \A d \in Puts(s, e) : d[1] \in Env /\ d[2] \in Stack
                   /\ \E M \in Env : Fits(d[1], M) /\ Correct(d[2], M, K, v)
  <2>1. Values(s.w, e) = {Resolve(s.w, K)}
    BY <1>1, <1>3 DEF Values, Resolve, Fits
  <2>2. Shows(s, e, v)
    BY <2>1 DEF Shows
  <2>3. Puts(s, e) = {<<e, <<>>>>}
    BY DEF Puts
  <2>4. Correct(<<>>, K, K, v) /\ <<>> \in Stack
    BY CorrectNone DEF Fits, Stack
  <2>5. QED
    BY <1>3, <2>2, <2>3, <2>4
<1>4. QED
  BY <1>3, CorrectStep

LEMMA CorrectBlock ==
    ASSUME NEW s \in Frames, NEW K \in Env, NEW L \in Env, NEW v, s.op = "block", s.body \in Stack,
           Correct(s.body, K, L, v)
    PROVE  Correct(<<s>>, K, L, v)
<1>1. ASSUME NEW e \in Env, Fits(e, K)
      PROVE  /\ Shows(s, e, v)
             /\ \A d \in Puts(s, e) : d[1] \in Env /\ d[2] \in Stack
                   /\ \E M \in Env : Fits(d[1], M) /\ Correct(d[2], M, L, v)
  <2>1. Shows(s, e, v)
    BY DEF Shows
  <2>2. Puts(s, e) = {<<e, s.body>>}
    BY DEF Puts
  <2>3. QED
    BY <1>1, <2>1, <2>2
<1>2. QED
  BY <1>1, CorrectStep

LEMMA CorrectLeave ==
    ASSUME NEW s \in Frames, NEW K \in Env, NEW L \in Env, NEW v, s.op = "leave", s.env \in Env, Fits(s.env, L)
    PROVE  Correct(<<s>>, K, L, v)
<1>1. ASSUME NEW e \in Env, Fits(e, K)
      PROVE  /\ Shows(s, e, v)
             /\ \A d \in Puts(s, e) : d[1] \in Env /\ d[2] \in Stack
                   /\ \E M \in Env : Fits(d[1], M) /\ Correct(d[2], M, L, v)
  <2>1. Shows(s, e, v)
    BY DEF Shows
  <2>2. Puts(s, e) = {<<s.env, <<>>>>}
    BY DEF Puts
  <2>3. Correct(<<>>, L, L, v) /\ <<>> \in Stack
    BY CorrectNone DEF Fits, Stack
  <2>4. QED
    BY <1>1, <2>1, <2>2, <2>3
<1>2. QED
  BY <1>1, CorrectStep

LEMMA CorrectSubshell ==
    ASSUME NEW s \in Frames, NEW K \in Env, NEW L \in Env, NEW v, s.op = "subshell", s.body \in Stack,
           Correct(s.body, K, L, v)
    PROVE  Correct(<<s>>, K, K, v)
<1>1. ASSUME NEW e \in Env, Fits(e, K)
      PROVE  /\ Shows(s, e, v)
             /\ \A d \in Puts(s, e) : d[1] \in Env /\ d[2] \in Stack
                   /\ \E M \in Env : Fits(d[1], M) /\ Correct(d[2], M, K, v)
  <2> DEFINE f == [op |-> "leave", env |-> e]
  <2>1. Shows(s, e, v)
    BY DEF Shows
  <2>2. Puts(s, e) = {<<e, Append(s.body, f)>>}
    BY DEF Puts
  <2>3. f \in Frames /\ f.op = "leave" /\ f.env = e
    BY DEF Frames
  <2> HIDE DEF f
  <2>4. Correct(<<f>>, L, K, v)
    BY <1>1, <2>3, CorrectLeave
  <2>5. Append(s.body, f) = s.body \o <<f>> /\ <<f>> \in Stack /\ Append(s.body, f) \in Stack
    BY <2>3 DEF Stack
  <2>6. Correct(Append(s.body, f), K, K, v)
    BY <2>4, <2>5, CorrectBoth
  <2>7. QED
    BY <1>1, <2>1, <2>2, <2>5, <2>6
<1>2. QED
  BY <1>1, CorrectStep

LEMMA CorrectAndOr ==
    ASSUME NEW s \in Frames, NEW K \in Env, NEW L \in Env, NEW v, s.op = "andor", s.left \in Stack, s.right \in Stack,
           Correct(s.left, K, L, v), Correct(s.right, L, L, v)
    PROVE  Correct(<<s>>, K, L, v)
<1>1. ASSUME NEW e \in Env, Fits(e, K)
      PROVE  /\ Shows(s, e, v)
             /\ \A d \in Puts(s, e) : d[1] \in Env /\ d[2] \in Stack
                   /\ \E M \in Env : Fits(d[1], M) /\ Correct(d[2], M, L, v)
  <2>1. Shows(s, e, v)
    BY DEF Shows
  <2>2. Puts(s, e) = {<<e, s.left \o <<>>>>, <<e, s.left \o s.right>>}
    BY DEF Puts
  <2>3. s.left \o <<>> = s.left /\ s.left \o s.right \in Stack
    BY DEF Stack
  <2>4. Correct(s.left \o s.right, K, L, v)
    BY CorrectBoth
  <2>5. QED
    BY <1>1, <2>1, <2>2, <2>3, <2>4
<1>2. QED
  BY <1>1, CorrectStep

LEMMA CorrectCase ==
    ASSUME NEW s \in Frames, NEW K \in Env, NEW L \in Env, NEW v, s.op = "case", s.items \in Seq(Stack),
           Fits(K, L), \A i \in DOMAIN s.items : Correct(s.items[i], K, L, v)
    PROVE  Correct(<<s>>, K, L, v)
<1>1. ASSUME NEW e \in Env, Fits(e, K)
      PROVE  /\ Shows(s, e, v)
             /\ \A d \in Puts(s, e) : d[1] \in Env /\ d[2] \in Stack
                   /\ \E M \in Env : Fits(d[1], M) /\ Correct(d[2], M, L, v)
  <2>1. Shows(s, e, v)
    BY DEF Shows
  <2>2. Puts(s, e) = {<<e, l>> : l \in ToSet(s.items) \cup {<<>>}}
    BY DEF Puts
  <2>3. \A l \in ToSet(s.items) \cup {<<>>} : l \in Stack /\ Correct(l, K, L, v)
    <3>1. Correct(<<>>, K, L, v) /\ <<>> \in Stack
      BY CorrectNone DEF Stack
    <3>2. QED
      BY <3>1 DEF ToSet
  <2>4. QED
    BY <1>1, <2>1, <2>2, <2>3
<1>2. QED
  BY <1>1, CorrectStep

LEMMA StackTop ==
    ASSUME NEW s \in Frames, NEW rest \in Stack
    PROVE  /\ <<s>> \in Stack /\ <<s>> \o rest \in Stack /\ <<s>> \o rest /= <<>> /\ <<>> \o rest = rest
           /\ Head(<<s>> \o rest) = s /\ Tail(<<s>> \o rest) = rest
  BY DEF Stack

LEMMA StackPut ==
    ASSUME NEW body \in Stack, NEW s \in Frames, NEW rest \in Stack
    PROVE  /\ Append(body, s) = body \o <<s>> /\ Append(body, s) \in Stack
           /\ Append(body, s) \o rest = body \o (<<s>> \o rest)
<1>1. Append(body, s) = body \o <<s>> /\ <<s>> \in Stack /\ Append(body, s) \in Stack
  BY AppendIsConcat DEF Stack
<1>2. (body \o <<s>>) \o rest = body \o (<<s>> \o rest)
  <2>1. \A a, b, c \in Stack : (a \o b) \o c = a \o (b \o c)
    BY ConcatThree DEF Stack
  <2>2. QED
    BY <1>1, <2>1
<1>3. QED
  BY <1>1, <1>2

(* A loop: knowns are the environments it is come to with; each of its steps  *)
(* leads back to it in one of them, or past it.                               *)
Back(s, rest, knowns) == UNION {Exits(<<s>> \o rest, M) : M \in knowns}

LEMMA CorrectLoop ==
    ASSUME NEW s \in Frames, NEW knowns \in SUBSET Env, NEW L \in Env, NEW v,
           \A K \in knowns, rest \in Stack, e \in Env : Fits(e, K) =>
              /\ Shows(s, e, v)
              /\ \A d \in Puts(s, e) : Within(<<d[1], d[2] \o rest>>, Back(s, rest, knowns) \cup Exits(rest, L), v)
    PROVE  \A K \in knowns : Correct(<<s>>, K, L, v)
<1> SUFFICES ASSUME NEW N \in knowns, NEW rest \in Stack, NEW e \in Env, Fits(e, N)
             PROVE  Within(<<e, <<s>> \o rest>>, Exits(rest, L), v)
  BY DEF Correct
<1> DEFINE A == Back(s, rest, knowns)
           T == Exits(rest, L)
<1>1. ASSUME NEW c \in A PROVE Covered(c, v) /\ \A d \in Succ(c) : Within(d, A \cup T, v)
  <2>1. PICK f \in Env, K \in knowns : Fits(f, K) /\ c = <<f, <<s>> \o rest>>
    BY DEF Back, Exits
  <2>2. c[2] /= <<>> /\ Head(c[2]) = s /\ Tail(c[2]) = rest /\ c[1] = f
    BY <2>1, StackTop
  <2>3. Covered(c, v)
    BY <2>1, <2>2 DEF Covered
  <2>4. Succ(c) = {<<d[1], d[2] \o rest>> : d \in Puts(s, f)}
    BY <2>2 DEF Succ
  <2>5. \A d \in Puts(s, f) : Within(<<d[1], d[2] \o rest>>, A \cup T, v)
    BY <2>1
  <2> HIDE DEF A, T
  <2>6. QED
    BY <2>3, <2>4, <2>5
<1>2. <<e, <<s>> \o rest>> \in A
  BY DEF Back, Exits
<1> HIDE DEF A
<1>3. QED
  BY <1>1, <1>2, Coinduction

(* The body of a loop, and then the loop again.                               *)
LEMMA LoopBodyBack ==
    ASSUME NEW s \in Frames, NEW knowns \in SUBSET Env, NEW L \in Env, NEW v, NEW rest \in Stack, NEW body \in Stack,
           NEW K \in Env, NEW e \in Env, Fits(e, K), \E M \in knowns : Correct(body, K, M, v)
    PROVE  Within(<<e, Append(body, s) \o rest>>, Back(s, rest, knowns) \cup Exits(rest, L), v)
<1> DEFINE again == <<s>> \o rest
<1>1. Append(body, s) \o rest = body \o again /\ again \in Stack
  BY StackTop, StackPut
<1>2. PICK M \in knowns : Correct(body, K, M, v)
  OBVIOUS
<1>3. Exits(again, M) \subseteq Back(s, rest, knowns) \cup Exits(rest, L)
  BY DEF Back
<1> HIDE DEF again
<1>4. Within(<<e, body \o again>>, Exits(again, M), v)
  BY <1>1, <1>2 DEF Correct
<1>5. QED
  BY <1>1, <1>3, <1>4, WithinTrans DEF Within

(* A for gives x a value of which nothing is known.                           *)
LEMMA CorrectFor ==
    ASSUME NEW s \in Frames, NEW knowns \in SUBSET Env, NEW L \in Env, NEW v, s.op = "for", s.body \in Stack, s.x \in Vars,
           \A K \in knowns : K[s.x] = Unknown /\ Fits(K, L) /\ \E M \in knowns : Correct(s.body, K, M, v)
    PROVE  \A K \in knowns : Correct(<<s>>, K, L, v)
<1>1. ASSUME NEW K \in knowns, NEW rest \in Stack, NEW e \in Env, Fits(e, K)
      PROVE  /\ Shows(s, e, v)
             /\ \A d \in Puts(s, e) : Within(<<d[1], d[2] \o rest>>, Back(s, rest, knowns) \cup Exits(rest, L), v)
  <2> DEFINE T == Back(s, rest, knowns) \cup Exits(rest, L)
  <2>1. Shows(s, e, v)
    BY DEF Shows
  <2>2. Puts(s, e) = {<<e, <<>>>>} \cup {<<[e EXCEPT ![s.x] = c], Append(s.body, s)>> : c \in Literals \cup {Unknown}}
    BY DEF Puts
  <2>3. ASSUME NEW c \in Literals \cup {Unknown} PROVE Within(<<[e EXCEPT ![s.x] = c], Append(s.body, s) \o rest>>, T, v)
    <3>1. [e EXCEPT ![s.x] = c] \in Env /\ K \in Env
      BY DEF Env
    <3>2. Fits([e EXCEPT ![s.x] = c], K)
      BY <1>1 DEF Fits, Env
    <3>3. \E M \in knowns : Correct(s.body, K, M, v)
      OBVIOUS
    <3> DEFINE f == [e EXCEPT ![s.x] = c]
    <3> HIDE DEF f, T
    <3>4. f \in Env /\ Fits(f, K)
      BY <3>1, <3>2 DEF f
    <3>5. Within(<<f, Append(s.body, s) \o rest>>, T, v)
      BY <3>1, <3>3, <3>4, LoopBodyBack DEF T
    <3>6. QED
      BY <3>5 DEF f
  <2>4. Within(<<e, <<>> \o rest>>, T, v)
    BY <1>1, FitsLess, StackTop DEF Within, Exits
  <2> HIDE DEF T
  <2>5. ASSUME NEW d \in Puts(s, e) PROVE Within(<<d[1], d[2] \o rest>>, T, v)
    <3>1. CASE d = <<e, <<>>>>
      BY <2>4, <3>1
    <3>2. CASE \E c \in Literals \cup {Unknown} : d = <<[e EXCEPT ![s.x] = c], Append(s.body, s)>>
      <4>1. PICK c \in Literals \cup {Unknown} : d = <<[e EXCEPT ![s.x] = c], Append(s.body, s)>>
        BY <3>2
      <4>2. d[1] = [e EXCEPT ![s.x] = c] /\ d[2] = Append(s.body, s)
        BY <4>1
      <4>3. QED
        BY <2>3, <4>2
    <3>3. QED
      BY <2>2, <3>1, <3>2
  <2>6. QED
    BY <2>1, <2>5 DEF T
<1>2. QED
  BY <1>1, CorrectLoop

(* A while: heads are the environments its condition is come to with, knowns  *)
(* those it leaves.                                                           *)
LEMMA CorrectWhile ==
    ASSUME NEW s \in Frames, NEW heads \in SUBSET Env, NEW knowns \in SUBSET Env, NEW L \in Env, NEW v,
           s.op = "while", s.body \in Stack, s.cond \in Stack, [op |-> "again", loop |-> s] \in Frames,
           \A H \in heads : \E K \in knowns : Correct(s.cond, H, K, v),
           \A K \in knowns : Fits(K, L) /\ \E H \in heads : Correct(s.body, K, H, v)
    PROVE  \A H \in heads : Correct(<<s>>, H, L, v)
<1> DEFINE g == [op |-> "again", loop |-> s]
<1>g. g \in Frames /\ g.op = "again" /\ g.loop = s
  OBVIOUS
<1>1. ASSUME NEW H \in heads, NEW rest \in Stack, NEW e \in Env, Fits(e, H)
      PROVE  /\ Shows(s, e, v)
             /\ \A d \in Puts(s, e) : Within(<<d[1], d[2] \o rest>>, Back(s, rest, heads) \cup Exits(rest, L), v)
  <2> DEFINE T == Back(s, rest, heads) \cup Exits(rest, L)
             test == <<g>> \o rest
  <2>1. Shows(s, e, v)
    BY DEF Shows
  <2>2. Puts(s, e) = {<<e, s.cond \o <<g>>>>}
    BY DEF Puts
  <2>k. PICK K \in knowns : Correct(s.cond, H, K, v)
    OBVIOUS
  <2>b. K \in Env /\ Fits(K, L) /\ \E M \in heads : Correct(s.body, K, M, v)
    OBVIOUS
  <2> HIDE DEF g
  <2>3. (s.cond \o <<g>>) \o rest = s.cond \o test /\ test \in Stack
    <3>1. Append(s.cond, g) = s.cond \o <<g>> /\ Append(s.cond, g) \o rest = s.cond \o (<<g>> \o rest)
      <4>1. s.cond \in Stack /\ g \in Frames /\ rest \in Stack
        BY <1>g
      <4>2. QED
        BY <4>1, StackPut
    <3>2. <<g>> \o rest \in Stack
      BY <1>g, StackTop
    <3>3. QED
      BY <3>1, <3>2
  <2>4. test /= <<>> /\ Head(test) = g /\ Tail(test) = rest
    BY <1>g, StackTop
  <2>5. ASSUME NEW t \in Exits(test, K) PROVE Within(t, T, v)
    <3>1. PICK f \in Env : Fits(f, K) /\ t = <<f, test>>
      BY DEF Exits
    <3>2. t[2] = test /\ t[1] = f
      BY <3>1
    <3>3. Puts(g, f) = {<<f, <<>>>>, <<f, Append(s.body, s)>>}
      BY <1>g DEF Puts
    <3>4. Within(<<f, Append(s.body, s) \o rest>>, T, v)
      BY <2>b, <3>1, LoopBodyBack
    <3>5. Within(<<f, <<>> \o rest>>, T, v)
      BY <2>b, <3>1, FitsLess, StackTop DEF Within, Exits
    <3>6. Covered(t, v)
      BY <1>g, <3>2, <2>4 DEF Covered, Shows
    <3> HIDE DEF T, test
    <3>7. Succ(t) = {<<d[1], d[2] \o rest>> : d \in Puts(g, f)}
      BY <2>4, <3>2 DEF Succ
    <3>8. \A d \in Succ(t) : Within(d, T, v)
      <4>1. ASSUME NEW p \in Puts(g, f) PROVE Within(<<p[1], p[2] \o rest>>, T, v)
        <5>1. p = <<f, <<>>>> \/ p = <<f, Append(s.body, s)>>
          BY <3>3
        <5>2. CASE p = <<f, <<>>>>
          BY <5>2, <3>5
        <5>3. CASE p = <<f, Append(s.body, s)>>
          <6>1. p[1] = f /\ p[2] = Append(s.body, s)
            BY <5>3
          <6>2. QED
            BY <6>1, <3>4
        <5>4. QED
          BY <5>1, <5>2, <5>3
      <4>2. QED
        BY <3>7, <4>1
    <3>9. QED
      BY <3>6, <3>8, WithinOne
  <2> HIDE DEF T, test
  <2>6. Within(<<e, s.cond \o test>>, Exits(test, K), v)
    BY <1>1, <2>k, <2>3 DEF Correct
  <2>7. Within(<<e, (s.cond \o <<g>>) \o rest>>, T, v)
    BY <2>3, <2>5, <2>6, WithinTrans
  <2>8. QED
    BY <2>1, <2>2, <2>7 DEF T
<1> HIDE DEF g
<1>2. QED
  BY <1>1, CorrectLoop

(* The links of an if, from the one after i on. N[i] is known after the first *)
(* i of them, M[i] after the condition of the i-th.                           *)
LinksFrom(links, i) == SubSeq(links, i + 1, Len(links))
If(links) == [op |-> "if", links |-> links]
Test(links) == [op |-> "test", links |-> links]

LEMMA LinksFromIs ==
    ASSUME NEW R, NEW links \in Seq(R), NEW i \in 0..Len(links)
    PROVE  /\ LinksFrom(links, i) \in Seq(R) /\ LinksFrom(links, 0) = links
           /\ i = Len(links) => LinksFrom(links, i) = <<>>
           /\ i < Len(links) => /\ LinksFrom(links, i) /= <<>> /\ Head(LinksFrom(links, i)) = links[i + 1]
                                /\ Tail(LinksFrom(links, i)) = LinksFrom(links, i + 1)
<1>1. LinksFrom(links, i) \in Seq(R) /\ (i = Len(links) => LinksFrom(links, i) = <<>>)
  BY DEF LinksFrom
<1>2. LinksFrom(links, 0) = links
  <2>1. SubSeq(links, 1, Len(links)) = links
    OBVIOUS
  <2>2. QED
    BY <2>1 DEF LinksFrom
<1>3. ASSUME i < Len(links)
      PROVE  /\ LinksFrom(links, i) /= <<>> /\ Head(LinksFrom(links, i)) = links[i + 1]
             /\ Tail(LinksFrom(links, i)) = LinksFrom(links, i + 1)
  <2> DEFINE t == LinksFrom(links, i)
             u == LinksFrom(links, i + 1)
  <2>1. Len(t) = Len(links) - i /\ \A k \in 1..(Len(links) - i) : t[k] = links[i + k]
    BY <1>3 DEF LinksFrom
  <2>2. u \in Seq(R) /\ Len(u) = Len(links) - i - 1 /\ \A k \in 1..(Len(links) - i - 1) : u[k] = links[i + 1 + k]
    BY <1>3 DEF LinksFrom
  <2>3. t \in Seq(R)
    BY <1>1
  <2> HIDE DEF t, u
  <2>4. t /= <<>> /\ Head(t) = links[i + 1]
    BY <1>3, <2>1, <2>3
  <2>5. Tail(t) \in Seq(R) /\ Len(Tail(t)) = Len(links) - i - 1
        /\ \A k \in 1..(Len(links) - i - 1) : Tail(t)[k] = t[k + 1]
    BY <1>3, <2>1, <2>3, <2>4
  <2>6. \A k \in 1..(Len(links) - i - 1) : Tail(t)[k] = u[k]
    BY <1>3, <2>1, <2>2, <2>5
  <2>7. Tail(t) = u
    BY <2>2, <2>5, <2>6, SeqEqual
  <2>8. QED
    BY <2>4, <2>7 DEF t, u
<1>4. QED
  BY <1>1, <1>2, <1>3

LEMMA CorrectLink ==
    ASSUME NEW links \in Seq([cond : Stack, body : Stack]), links /= <<>>, If(links) \in Frames, Test(links) \in Frames,
           If(Tail(links)) \in Frames, NEW K \in Env, NEW M \in Env, NEW L \in Env, NEW v,
           Correct(Head(links).cond, K, M, v), Correct(Head(links).body, M, L, v), Correct(<<If(Tail(links))>>, M, L, v)
    PROVE  Correct(<<If(links)>>, K, L, v)
<1> DEFINE s == If(links)
           g == Test(links)
           u == If(Tail(links))
<1>1. /\ s.op = "if" /\ s.links = links /\ g.op = "test" /\ g.links = links /\ g = [op |-> "test", links |-> links]
      /\ u = [op |-> "if", links |-> Tail(links)] /\ s \in Frames /\ g \in Frames /\ u \in Frames
  BY DEF If, Test
<1>2. Head(links) \in [cond : Stack, body : Stack]
  BY HeadTailProperties
<1>3. Head(links).cond \in Stack /\ Head(links).body \in Stack
  BY <1>2
<1>4. <<u>> \in Stack
  BY <1>1 DEF Stack
<1>5. Correct(<<u>>, M, L, v)
  OBVIOUS
<1> HIDE DEF s, g, u
<1>6. Correct(<<g>>, M, L, v)
  <2>1. ASSUME NEW e \in Env, Fits(e, M)
        PROVE  /\ Shows(g, e, v)
               /\ \A d \in Puts(g, e) : d[1] \in Env /\ d[2] \in Stack
                     /\ \E N \in Env : Fits(d[1], N) /\ Correct(d[2], N, L, v)
    <3>1. Shows(g, e, v)
      BY <1>1 DEF Shows
    <3>2. Puts(g, e) = {<<e, Head(links).body>>} \cup {<<e, <<u>>>>}
      BY <1>1 DEF Puts
    <3>3. QED
      BY <1>3, <1>4, <1>5, <2>1, <3>1, <3>2
  <2>2. QED
    BY <1>1, <2>1, CorrectStep
<1>7. ASSUME NEW e \in Env, Fits(e, K)
      PROVE  /\ Shows(s, e, v)
             /\ \A d \in Puts(s, e) : d[1] \in Env /\ d[2] \in Stack
                   /\ \E N \in Env : Fits(d[1], N) /\ Correct(d[2], N, L, v)
  <2>1. Shows(s, e, v)
    BY <1>1 DEF Shows
  <2>2. Puts(s, e) = {<<e, Head(links).cond \o <<g>>>>}
    BY <1>1 DEF Puts
  <2>3. <<g>> \in Stack
    BY <1>1 DEF Stack
  <2>4. Head(links).cond \o <<g>> \in Stack
    BY <1>3, <2>3 DEF Stack
  <2>5. Correct(Head(links).cond \o <<g>>, K, L, v)
    BY <1>3, <1>6, <2>3, CorrectBoth
  <2>6. QED
    BY <1>7, <2>1, <2>2, <2>4, <2>5
<1>8. Correct(<<s>>, K, L, v)
  BY <1>1, <1>7, CorrectStep
<1>9. QED
  BY <1>8 DEF s

LEMMA CorrectNoLinks ==
    ASSUME If(<<>>) \in Frames, NEW K \in Env, NEW L \in Env, Fits(K, L), NEW v
    PROVE  Correct(<<If(<<>>)>>, K, L, v)
<1> DEFINE s == If(<<>>)
<1>1. s.op = "if" /\ s.links = <<>> /\ s \in Frames
  BY DEF If
<1> HIDE DEF s
<1>2. ASSUME NEW e \in Env, Fits(e, K)
      PROVE  /\ Shows(s, e, v)
             /\ \A d \in Puts(s, e) : d[1] \in Env /\ d[2] \in Stack
                   /\ \E N \in Env : Fits(d[1], N) /\ Correct(d[2], N, L, v)
  <2>1. Shows(s, e, v)
    BY <1>1 DEF Shows
  <2>2. Puts(s, e) = {<<e, <<>>>>}
    BY <1>1 DEF Puts
  <2>3. Correct(<<>>, K, L, v) /\ <<>> \in Stack
    BY CorrectNone DEF Stack
  <2>4. QED
    BY <1>2, <2>1, <2>2, <2>3
<1>3. QED
  BY <1>1, <1>2, CorrectStep DEF s

LEMMA CorrectIf ==
    ASSUME NEW links \in Seq([cond : Stack, body : Stack]), NEW m \in Nat, m = Len(links),
           NEW N, \A i \in 0..m : N[i] \in Env, NEW M, \A i \in 1..m : M[i] \in Env, NEW v,
           \A i \in 0..m : If(LinksFrom(links, i)) \in Frames /\ Test(LinksFrom(links, i)) \in Frames,
           \A i \in 1..m : /\ Correct(links[i].cond, N[i - 1], M[i], v) /\ Correct(links[i].body, M[i], N[i], v)
                           /\ Fits(M[i], N[i]) /\ (i > 1 => Fits(N[i - 1], M[i]))
    PROVE  Correct(<<If(links)>>, N[0], N[m], v)
<1> DEFINE S == {j \in Nat : j <= m => /\ Correct(<<If(LinksFrom(links, m - j))>>, N[m - j], N[m], v)
                                       /\ (m - j > 0 => Fits(N[m - j], N[m]))}
<1>1. 0 \in S
  <2>1. m - 0 = m /\ LinksFrom(links, m) = <<>> /\ m \in 0..m /\ Fits(N[m], N[m])
    BY LinksFromIs DEF Fits
  <2>2. Correct(<<If(<<>>)>>, N[m], N[m], v)
    BY <2>1, CorrectNoLinks
  <2>3. QED
    BY <2>1, <2>2
<1>2. ASSUME NEW j \in Nat, j \in S PROVE j + 1 \in S
  <2> SUFFICES ASSUME j + 1 <= m
               PROVE  /\ Correct(<<If(LinksFrom(links, m - (j + 1)))>>, N[m - (j + 1)], N[m], v)
                      /\ (m - (j + 1) > 0 => Fits(N[m - (j + 1)], N[m]))
    OBVIOUS
  <2> DEFINE i == m - j
             t == LinksFrom(links, i - 1)
  <2>1. i \in 1..m /\ i - 1 \in 0..m /\ m - (j + 1) = i - 1 /\ i > 0 /\ i \in 0..m /\ i - 1 < m /\ (i - 1) + 1 = i
    OBVIOUS
  <2>2. Correct(<<If(LinksFrom(links, i))>>, N[i], N[m], v) /\ Fits(N[i], N[m])
    BY <1>2, <2>1
  <2> HIDE DEF i
  <2>3. /\ t \in Seq([cond : Stack, body : Stack]) /\ t /= <<>> /\ Head(t) = links[i] /\ Tail(t) = LinksFrom(links, i)
        /\ If(t) \in Frames /\ Test(t) \in Frames /\ If(Tail(t)) \in Frames
    <3>1. t \in Seq([cond : Stack, body : Stack]) /\ t /= <<>> /\ Head(t) = links[i] /\ Tail(t) = LinksFrom(links, i)
      BY <2>1, LinksFromIs
    <3>2. QED
      BY <3>1, <2>1
  <2>4. /\ Correct(links[i].cond, N[i - 1], M[i], v) /\ Correct(links[i].body, M[i], N[i], v) /\ Fits(M[i], N[i])
        /\ (i > 1 => Fits(N[i - 1], M[i])) /\ M[i] \in Env /\ N[i] \in Env /\ N[i - 1] \in Env /\ N[m] \in Env
    BY <2>1
  <2>5. Fits(M[i], N[m])
    BY <2>2, <2>4, FitsLess
  <2>6. Correct(links[i].body, M[i], N[m], v) /\ Correct(<<If(LinksFrom(links, i))>>, M[i], N[m], v)
    <3>1. Fits(M[i], M[i]) /\ Fits(N[m], N[m])
      BY DEF Fits
    <3>2. QED
      BY <2>2, <2>4, <3>1, CorrectLess
  <2> HIDE DEF t
  <2>7. Correct(<<If(t)>>, N[i - 1], N[m], v)
    <3>1. Correct(Head(t).cond, N[i - 1], M[i], v) /\ Correct(Head(t).body, M[i], N[m], v)
          /\ Correct(<<If(Tail(t))>>, M[i], N[m], v)
      BY <2>3, <2>4, <2>6
    <3>2. QED
      BY <2>3, <2>4, <3>1, CorrectLink
  <2>8. i - 1 > 0 => Fits(N[i - 1], N[m])
    BY <2>1, <2>4, <2>5, FitsLess
  <2>9. QED
    BY <2>1, <2>7, <2>8 DEF t
<1>3. m \in S
  <2> HIDE DEF S
  <2>1. QED
    BY <1>1, <1>2, Inductive
<1>4. m - m = 0 /\ LinksFrom(links, 0) = links /\ m <= m
  BY LinksFromIs
<1>5. QED
  BY <1>3, <1>4

(* ------------------ the recursive functions of the analysis ------------------ *)

(* What Through and Syntax and Resolver define exists.                           *)
IsThrough(f, r, step, m) == f = [n \in 0..m |-> IF n = 0 THEN r ELSE LET a == f[n - 1] IN Then(a, step[n][a])]

LEMMA ThroughExists ==
    ASSUME NEW r, NEW step, NEW m \in Nat
    PROVE  \E f : IsThrough(f, r, step, m)
<1> DEFINE G(p, n) == IF n = 0 THEN r ELSE LET a == p IN Then(a, step[n][a])
           Is(f, n) == f = [i \in 0..n |-> G(f[i - 1], i)]
           S == {n \in Nat : \E f : Is(f, n)}
<1>1. \A p, q : G(p, 0) = G(q, 0)
  OBVIOUS
<1>2. \A f : Is(f, m) => IsThrough(f, r, step, m)
  BY DEF IsThrough
<1> HIDE DEF G
<1>3. 0 \in S
  <2> DEFINE k == [i \in 0..0 |-> G(0, 0)]
  <2>1. \A i \in 0..0 : G(0, 0) = G(k[i - 1], i)
    BY <1>1
  <2>2. k = [i \in 0..0 |-> G(k[i - 1], i)]
    <3> DEFINE h == [i \in 0..0 |-> G(k[i - 1], i)]
    <3>1. \A i \in 0..0 : h[i] = G(0, 0)
      BY <2>1
    <3>2. h = [i \in 0..0 |-> G(0, 0)]
      <4> HIDE DEF k
      <4>1. h = [i \in 0..0 |-> h[i]]
        OBVIOUS
      <4> HIDE DEF h
      <4>2. QED
        BY <3>1, <4>1
    <3>3. QED
      BY <3>2
  <2>3. QED
    BY <2>2
<1>4. ASSUME NEW n \in Nat, n \in S PROVE n + 1 \in S
  <2>1. PICK f : Is(f, n)
    BY <1>4
  <2> DEFINE next == G(f[n], n + 1)
             g == [i \in 0..(n + 1) |-> IF i <= n THEN f[i] ELSE next]
  <2>2. \A i \in 0..n : g[i] = f[i]
    OBVIOUS
  <2>3. \A i \in 0..n : f[i] = G(f[i - 1], i)
    BY <2>1
  <2>4. \A i \in 0..(n + 1) : g[i] = G(g[i - 1], i)
    <3> SUFFICES ASSUME NEW i \in 0..(n + 1) PROVE g[i] = G(g[i - 1], i)
      OBVIOUS
    <3>1. CASE i = 0
      <4>1. 0 \in 0..n
        OBVIOUS
      <4>2. g[0] = G(f[0 - 1], 0)
        BY <4>1, <2>2, <2>3
      <4>3. G(f[0 - 1], 0) = G(g[0 - 1], 0)
        BY <1>1
      <4> HIDE DEF g
      <4>4. QED
        BY <3>1, <4>2, <4>3
    <3>2. CASE i \in 1..n
      <4>1. i - 1 \in 0..n /\ i \in 0..n
        BY <3>2
      <4>2. g[i] = f[i] /\ g[i - 1] = f[i - 1]
        BY <4>1, <2>2
      <4> HIDE DEF g
      <4>3. QED
        BY <4>1, <4>2, <2>3
    <3>3. CASE i = n + 1
      <4>1. g[i] = next /\ i - 1 = n /\ n \in 0..n
        BY <3>3
      <4>2. g[i - 1] = f[n]
        BY <4>1, <2>2
      <4> HIDE DEF g
      <4>3. QED
        BY <3>3, <4>1, <4>2
    <3>4. QED
      BY <3>1, <3>2, <3>3
  <2>5. Is(g, n + 1)
    <3> HIDE DEF next
    <3>1. g = [i \in 0..(n + 1) |-> g[i]]
      OBVIOUS
    <3> HIDE DEF g
    <3>2. QED
      BY <2>4, <3>1
  <2>6. n + 1 \in Nat
    OBVIOUS
  <2> HIDE DEF g
  <2>7. QED
    BY <2>5, <2>6
<1>5. m \in S
  <2> HIDE DEF S
  <2>1. QED
    BY <1>3, <1>4, Inductive
<1>6. QED
  BY <1>2, <1>5

IsSyntax(f, m) == f = [n \in 0..m |-> IF n = 0 THEN Plain ELSE Plain \cup Constructs(Seq(f[n - 1]))]

LEMMA SyntaxExists ==
    ASSUME NEW m \in Nat
    PROVE  \E f : IsSyntax(f, m)
<1> DEFINE G(p, n) == IF n = 0 THEN Plain ELSE Plain \cup Constructs(Seq(p))
           Is(f, n) == f = [i \in 0..n |-> G(f[i - 1], i)]
           S == {n \in Nat : \E f : Is(f, n)}
<1>1. \A p, q : G(p, 0) = G(q, 0)
  OBVIOUS
<1>2. \A f : Is(f, m) => IsSyntax(f, m)
  BY DEF IsSyntax
<1> HIDE DEF G
<1>3. 0 \in S
  <2> DEFINE k == [i \in 0..0 |-> G(0, 0)]
  <2>1. \A i \in 0..0 : G(0, 0) = G(k[i - 1], i)
    BY <1>1
  <2>2. k = [i \in 0..0 |-> G(k[i - 1], i)]
    <3> DEFINE h == [i \in 0..0 |-> G(k[i - 1], i)]
    <3>1. \A i \in 0..0 : h[i] = G(0, 0)
      BY <2>1
    <3>2. h = [i \in 0..0 |-> G(0, 0)]
      <4> HIDE DEF k
      <4>1. h = [i \in 0..0 |-> h[i]]
        OBVIOUS
      <4> HIDE DEF h
      <4>2. QED
        BY <3>1, <4>1
    <3>3. QED
      BY <3>2
  <2>3. QED
    BY <2>2
<1>4. ASSUME NEW n \in Nat, n \in S PROVE n + 1 \in S
  <2>1. PICK f : Is(f, n)
    BY <1>4
  <2> DEFINE next == G(f[n], n + 1)
             g == [i \in 0..(n + 1) |-> IF i <= n THEN f[i] ELSE next]
  <2>2. \A i \in 0..n : g[i] = f[i]
    OBVIOUS
  <2>3. \A i \in 0..n : f[i] = G(f[i - 1], i)
    BY <2>1
  <2>4. \A i \in 0..(n + 1) : g[i] = G(g[i - 1], i)
    <3> SUFFICES ASSUME NEW i \in 0..(n + 1) PROVE g[i] = G(g[i - 1], i)
      OBVIOUS
    <3>1. CASE i = 0
      <4>1. 0 \in 0..n
        OBVIOUS
      <4>2. g[0] = G(f[0 - 1], 0)
        BY <4>1, <2>2, <2>3
      <4>3. G(f[0 - 1], 0) = G(g[0 - 1], 0)
        BY <1>1
      <4> HIDE DEF g
      <4>4. QED
        BY <3>1, <4>2, <4>3
    <3>2. CASE i \in 1..n
      <4>1. i - 1 \in 0..n /\ i \in 0..n
        BY <3>2
      <4>2. g[i] = f[i] /\ g[i - 1] = f[i - 1]
        BY <4>1, <2>2
      <4> HIDE DEF g
      <4>3. QED
        BY <4>1, <4>2, <2>3
    <3>3. CASE i = n + 1
      <4>1. g[i] = next /\ i - 1 = n /\ n \in 0..n
        BY <3>3
      <4>2. g[i - 1] = f[n]
        BY <4>1, <2>2
      <4> HIDE DEF g
      <4>3. QED
        BY <3>3, <4>1, <4>2
    <3>4. QED
      BY <3>1, <3>2, <3>3
  <2>5. Is(g, n + 1)
    <3> HIDE DEF next
    <3>1. g = [i \in 0..(n + 1) |-> g[i]]
      OBVIOUS
    <3> HIDE DEF g
    <3>2. QED
      BY <2>4, <3>1
  <2>6. n + 1 \in Nat
    OBVIOUS
  <2> HIDE DEF g
  <2>7. QED
    BY <2>5, <2>6
<1>5. m \in S
  <2> HIDE DEF S
  <2>1. QED
    BY <1>3, <1>4, Inductive
<1>6. QED
  BY <1>2, <1>5

IsResolver(f, m) == f = [n \in 0..m |-> [list \in Seq(Syntax[n]) |-> [r \in State |->
        Statements(list, r, IF n = 0 THEN <<>> ELSE f[n - 1])]]]

LEMMA ResolverExists ==
    ASSUME NEW m \in Nat
    PROVE  \E f : IsResolver(f, m)
<1> DEFINE G(p, n) == [list \in Seq(Syntax[n]) |-> [r \in State |->
        Statements(list, r, IF n = 0 THEN <<>> ELSE p)]]
           Is(f, n) == f = [i \in 0..n |-> G(f[i - 1], i)]
           S == {n \in Nat : \E f : Is(f, n)}
<1>1. \A p, q : G(p, 0) = G(q, 0)
  OBVIOUS
<1>2. \A f : Is(f, m) => IsResolver(f, m)
  BY DEF IsResolver
<1> HIDE DEF G
<1>3. 0 \in S
  <2> DEFINE k == [i \in 0..0 |-> G(0, 0)]
  <2>1. \A i \in 0..0 : G(0, 0) = G(k[i - 1], i)
    BY <1>1
  <2>2. k = [i \in 0..0 |-> G(k[i - 1], i)]
    <3> DEFINE h == [i \in 0..0 |-> G(k[i - 1], i)]
    <3>1. \A i \in 0..0 : h[i] = G(0, 0)
      BY <2>1
    <3>2. h = [i \in 0..0 |-> G(0, 0)]
      <4> HIDE DEF k
      <4>1. h = [i \in 0..0 |-> h[i]]
        OBVIOUS
      <4> HIDE DEF h
      <4>2. QED
        BY <3>1, <4>1
    <3>3. QED
      BY <3>2
  <2>3. QED
    BY <2>2
<1>4. ASSUME NEW n \in Nat, n \in S PROVE n + 1 \in S
  <2>1. PICK f : Is(f, n)
    BY <1>4
  <2> DEFINE next == G(f[n], n + 1)
             g == [i \in 0..(n + 1) |-> IF i <= n THEN f[i] ELSE next]
  <2>2. \A i \in 0..n : g[i] = f[i]
    OBVIOUS
  <2>3. \A i \in 0..n : f[i] = G(f[i - 1], i)
    BY <2>1
  <2>4. \A i \in 0..(n + 1) : g[i] = G(g[i - 1], i)
    <3> SUFFICES ASSUME NEW i \in 0..(n + 1) PROVE g[i] = G(g[i - 1], i)
      OBVIOUS
    <3>1. CASE i = 0
      <4>1. 0 \in 0..n
        OBVIOUS
      <4>2. g[0] = G(f[0 - 1], 0)
        BY <4>1, <2>2, <2>3
      <4>3. G(f[0 - 1], 0) = G(g[0 - 1], 0)
        BY <1>1
      <4> HIDE DEF g
      <4>4. QED
        BY <3>1, <4>2, <4>3
    <3>2. CASE i \in 1..n
      <4>1. i - 1 \in 0..n /\ i \in 0..n
        BY <3>2
      <4>2. g[i] = f[i] /\ g[i - 1] = f[i - 1]
        BY <4>1, <2>2
      <4> HIDE DEF g
      <4>3. QED
        BY <4>1, <4>2, <2>3
    <3>3. CASE i = n + 1
      <4>1. g[i] = next /\ i - 1 = n /\ n \in 0..n
        BY <3>3
      <4>2. g[i - 1] = f[n]
        BY <4>1, <2>2
      <4> HIDE DEF g
      <4>3. QED
        BY <3>3, <4>1, <4>2
    <3>4. QED
      BY <3>1, <3>2, <3>3
  <2>5. Is(g, n + 1)
    <3> HIDE DEF next
    <3>1. g = [i \in 0..(n + 1) |-> g[i]]
      OBVIOUS
    <3> HIDE DEF g
    <3>2. QED
      BY <2>4, <3>1
  <2>6. n + 1 \in Nat
    OBVIOUS
  <2> HIDE DEF g
  <2>7. QED
    BY <2>5, <2>6
<1>5. m \in S
  <2> HIDE DEF S
  <2>1. QED
    BY <1>3, <1>4, Inductive
<1>6. QED
  BY <1>2, <1>5

LEMMA ThroughIs ==
    ASSUME NEW r, NEW step, NEW m \in Nat
    PROVE  /\ Through(r, step, m)[0] = r
           /\ \A k \in 1..m : Through(r, step, m)[k] =
                Then(Through(r, step, m)[k - 1], step[k][Through(r, step, m)[k - 1]])
<1> DEFINE f == Through(r, step, m)
<1>1. IsThrough(f, r, step, m)
  <2>1. \E g : IsThrough(g, r, step, m)
    BY ThroughExists
  <2>2. f = CHOOSE g : IsThrough(g, r, step, m)
    BY DEF Through, IsThrough
  <2> HIDE DEF f
  <2>3. QED
    BY <2>1, <2>2
<1> HIDE DEF f
<1>2. \A k \in 0..m : f[k] = IF k = 0 THEN r ELSE Then(f[k - 1], step[k][f[k - 1]])
  BY <1>1 DEF IsThrough
<1>3. f[0] = r /\ \A k \in 1..m : f[k] = Then(f[k - 1], step[k][f[k - 1]])
  BY <1>2
<1>4. QED
  BY <1>3 DEF f

LEMMA SyntaxIs ==
    \A n \in 0..MaxDepth : Syntax[n] = IF n = 0 THEN Plain ELSE Plain \cup Constructs(Seq(Syntax[n - 1]))
<1>1. IsSyntax(Syntax, MaxDepth)
  <2>1. \E g : IsSyntax(g, MaxDepth)
    BY ShellAssumption, SyntaxExists
  <2>2. Syntax = CHOOSE g : IsSyntax(g, MaxDepth)
    BY DEF Syntax, IsSyntax
  <2>3. QED
    BY <2>1, <2>2
<1>2. QED
  BY <1>1 DEF IsSyntax

LEMMA ResolverIs ==
    \A n \in 0..MaxDepth : \A list \in Seq(Syntax[n]), r \in State :
        Resolver[n][list][r] = Statements(list, r, IF n = 0 THEN <<>> ELSE Resolver[n - 1])
<1>1. IsResolver(Resolver, MaxDepth)
  <2>1. \E g : IsResolver(g, MaxDepth)
    BY ShellAssumption, ResolverExists
  <2>2. Resolver = CHOOSE g : IsResolver(g, MaxDepth)
    BY DEF Resolver, IsResolver
  <2>3. QED
    BY <2>1, <2>2
<1>2. \A n \in 0..MaxDepth : Resolver[n] =
        [list \in Seq(Syntax[n]) |-> [r \in State |-> Statements(list, r, IF n = 0 THEN <<>> ELSE Resolver[n - 1])]]
  BY <1>1 DEF IsResolver
<1>3. SUFFICES ASSUME NEW n \in 0..MaxDepth, NEW list \in Seq(Syntax[n]), NEW r \in State
               PROVE  Resolver[n][list][r] = Statements(list, r, IF n = 0 THEN <<>> ELSE Resolver[n - 1])
  OBVIOUS
<1> DEFINE sub == IF n = 0 THEN <<>> ELSE Resolver[n - 1]
<1>4. Resolver[n] = [l \in Seq(Syntax[n]) |-> [q \in State |-> Statements(l, q, sub)]]
  BY <1>2
<1> HIDE DEF sub
<1>5. Resolver[n][list] = [q \in State |-> Statements(list, q, sub)]
  BY <1>4
<1>6. Resolver[n][list][r] = Statements(list, r, sub)
  BY <1>5
<1>7. QED
  BY <1>6 DEF sub

(* ------------------------------ sound analyses ------------------------------- *)

Grows(r, a) ==
    a \in State /\ (a.ok => r.ok /\ r.words \subseteq a.words /\ (r.found => a.found) /\ (r.blind => a.blind))
Heeded(a, v) == a.ok /\ ~a.blind /\ a.words \subseteq v.words /\ (a.found => v.found)

(* What the analysis makes of list, from r, is right if v is what it comes to.*)
SoundFor(list, r, a, v) == Grows(r, a) /\ (Heeded(a, v) => Correct(list, r.known, a.known, v))

LEMMA GrowsTrans == ASSUME NEW a, NEW b, NEW c, Grows(a, b), Grows(b, c) PROVE Grows(a, c)
  BY DEF Grows

LEMMA HeededEarlier == ASSUME NEW a, NEW b, NEW v, Grows(a, b), Heeded(b, v) PROVE Heeded(a, v)
  BY DEF Grows, Heeded

LEMMA StateIs == ASSUME NEW r \in State
                 PROVE  /\ r.known \in Env /\ r.words \in SUBSET Literals /\ r.forks \in Nat
                        /\ r.found \in BOOLEAN /\ r.ok \in BOOLEAN /\ r.blind \in BOOLEAN
  BY DEF State, Env

LEMMA GrowsSelf == ASSUME NEW r \in State PROVE Grows(r, r)
  BY DEF Grows

LEMMA SoundGiveUp == ASSUME NEW r, NEW b \in State, NEW list, NEW v PROVE SoundFor(list, r, GiveUp(b), v)
<1>1. GiveUp(b) \in State /\ ~GiveUp(b).ok
  BY DEF State, GiveUp
<1>2. QED
  BY <1>1 DEF SoundFor, Grows, Heeded

LEMMA BlindIs ==
    ASSUME NEW a \in State, NEW missed \in BOOLEAN
    PROVE  /\ Blind(a, missed) \in State /\ Blind(a, missed).known = a.known /\ Blind(a, missed).words = a.words
           /\ Blind(a, missed).found = a.found /\ Blind(a, missed).ok = a.ok
           /\ Blind(a, missed).blind <=> a.blind \/ missed
  BY DEF Blind, State

LEMMA SoundBlind ==
    ASSUME NEW list, NEW r, NEW a, NEW missed \in BOOLEAN, NEW v,
           Grows(r, a), Heeded(a, v) /\ ~missed => Correct(list, r.known, a.known, v)
    PROVE  SoundFor(list, r, Blind(a, missed), v)
<1> DEFINE b == Blind(a, missed)
<1>1. /\ b \in State /\ b.known = a.known /\ b.words = a.words /\ b.found = a.found /\ b.ok = a.ok
      /\ b.blind <=> a.blind \/ missed
  BY BlindIs DEF Grows
<1> HIDE DEF b
<1>2. Grows(r, b)
  BY <1>1 DEF Grows
<1>3. ASSUME Heeded(b, v) PROVE Correct(list, r.known, b.known, v)
  <2>1. Heeded(a, v) /\ ~missed
    BY <1>1, <1>3 DEF Heeded
  <2>2. QED
    BY <1>1, <2>1
<1>4. QED
  BY <1>2, <1>3 DEF SoundFor, b

LEMMA SoundThen ==
    ASSUME NEW r \in State, NEW b, NEW n, NEW l1 \in Stack, NEW l2 \in Stack, NEW v,
           SoundFor(l1, r, b, v), b.ok => SoundFor(l2, b, n, v)
    PROVE  SoundFor(l1 \o l2, r, Then(b, n), v)
<1>1. CASE b.ok
  <2>1. Then(b, n) = n
    BY <1>1 DEF Then
  <2>2. Grows(r, n) /\ Grows(b, n)
    BY <1>1, GrowsTrans DEF SoundFor
  <2>3. ASSUME Heeded(n, v) PROVE Correct(l1 \o l2, r.known, n.known, v)
    <3>1. Heeded(b, v)
      BY <2>2, <2>3, HeededEarlier
    <3>2. Correct(l1, r.known, b.known, v) /\ Correct(l2, b.known, n.known, v)
      BY <1>1, <2>3, <3>1 DEF SoundFor
    <3>3. r.known \in Env /\ b.known \in Env /\ n.known \in Env
      BY <1>1, StateIs DEF SoundFor, Grows
    <3>4. QED
      BY <3>2, <3>3, CorrectBoth
  <2>4. QED
    BY <2>1, <2>2, <2>3 DEF SoundFor
<1>2. CASE ~b.ok
  <2>1. Then(b, n) = b
    BY <1>2 DEF Then
  <2>2. QED
    BY <1>2, <2>1 DEF SoundFor, Heeded, Grows
<1>3. QED
  BY <1>1, <1>2

LEMMA ForkIs ==
    ASSUME NEW r \in State
    PROVE  /\ Fork(r) \in State /\ Grows(r, Fork(r)) /\ (Fork(r).ok => r.ok)
           /\ Fork(r).known = r.known /\ Fork(r).words = r.words /\ Fork(r).found = r.found /\ Fork(r).blind = r.blind
<1>1. CASE MayFork(r)
  <2>1. Fork(r) = [r EXCEPT !.forks = r.forks - 1] /\ r.forks - 1 \in Nat
    BY <1>1, StateIs DEF Fork, MayFork
  <2>2. QED
    BY <2>1 DEF State, Grows
<1>2. CASE ~MayFork(r)
  <2>1. Fork(r) = [r EXCEPT !.ok = FALSE]
    BY <1>2 DEF Fork, GiveUp
  <2>2. QED
    BY <2>1 DEF State, Grows
<1>3. QED
  BY <1>1, <1>2

LEMMA AssignIs ==
    ASSUME NEW r \in State, NEW x \in Vars, NEW w \in Words
    PROVE  /\ Assign(r, x, w) \in State /\ (Assign(r, x, w).ok => r.ok /\ Resolvable(w, r.known))
           /\ Assign(r, x, w).words = r.words /\ Assign(r, x, w).found = r.found /\ Assign(r, x, w).blind = r.blind
           /\ Assign(r, x, w).ok => Assign(r, x, w).known = [r.known EXCEPT ![x] = Resolve(w, r.known)]
<1>1. CASE Resolvable(w, r.known)
  <2>1. Resolve(w, r.known) \in Literals \cup {Unknown}
    BY <1>1, WordIs, StateIs DEF Resolve, Resolvable, Env
  <2>2. Assign(r, x, w) = [r EXCEPT !.known = [r.known EXCEPT ![x] = Resolve(w, r.known)]]
    <3>1. Assign(r, x, w) = [r EXCEPT !.known[x] = Resolve(w, r.known)]
      BY <1>1 DEF Assign
    <3>2. QED
      BY <3>1 DEF State
  <2> DEFINE k == [r.known EXCEPT ![x] = Resolve(w, r.known)]
  <2>3. k \in [Vars -> Literals \cup {Unknown}]
    BY <2>1, StateIs DEF Env
  <2> HIDE DEF k
  <2>4. QED
    BY <1>1, <2>2, <2>3 DEF State, k
<1>2. CASE ~Resolvable(w, r.known)
  <2>1. Assign(r, x, w) = [r EXCEPT !.ok = FALSE]
    BY <1>2 DEF Assign, GiveUp
  <2>2. QED
    BY <2>1 DEF State
<1>3. QED
  BY <1>1, <1>2

LEMMA SoundAssign ==
    ASSUME NEW s \in Frames, s.op = "assign", s.x \in Vars, s.w \in Words, NEW r \in State, NEW v
    PROVE  SoundFor(<<s>>, r, Assign(r, s.x, s.w), v)
<1> DEFINE a == Assign(r, s.x, s.w)
<1>1. /\ a \in State /\ (a.ok => r.ok /\ Resolvable(s.w, r.known))
      /\ a.words = r.words /\ a.found = r.found /\ a.blind = r.blind
      /\ a.ok => a.known = [r.known EXCEPT ![s.x] = Resolve(s.w, r.known)]
  BY AssignIs
<1>2. r.known \in Env
  BY StateIs
<1> HIDE DEF a
<1>3. a.ok => Correct(<<s>>, r.known, a.known, v)
  BY <1>1, <1>2, CorrectAssign
<1>4. QED
  BY <1>1, <1>3 DEF SoundFor, Grows, Heeded, a

(* The states a fold goes through.                                            *)
LEMMA ThroughGrows ==
    ASSUME NEW r \in State, NEW step, NEW m \in Nat,
           \A k \in 1..m : \A a \in State : a.ok => Grows(a, step[k][a])
    PROVE  \A k \in 0..m : /\ Through(r, step, m)[k] \in State
                           /\ \A j \in 0..k : Grows(Through(r, step, m)[j], Through(r, step, m)[k])
<1> DEFINE at == Through(r, step, m)
<1>1. at[0] = r /\ \A k \in 1..m : at[k] = Then(at[k - 1], step[k][at[k - 1]])
  BY ThroughIs
<1> HIDE DEF at
<1> DEFINE S == {k \in Nat : k <= m => at[k] \in State /\ \A j \in 0..k : Grows(at[j], at[k])}
<1>2. 0 \in S
  BY <1>1, GrowsSelf
<1>3. ASSUME NEW k \in Nat, k \in S PROVE k + 1 \in S
  <2> SUFFICES ASSUME k + 1 <= m
               PROVE  at[k + 1] \in State /\ \A j \in 0..(k + 1) : Grows(at[j], at[k + 1])
    OBVIOUS
  <2>1. at[k] \in State /\ \A j \in 0..k : Grows(at[j], at[k])
    BY <1>3
  <2>2. k + 1 \in 1..m /\ (k + 1) - 1 = k
    OBVIOUS
  <2>3. at[k + 1] = Then(at[k], step[k + 1][at[k]])
    BY <1>1, <2>2
  <2>4. Grows(at[k], at[k + 1])
    BY <2>1, <2>2, <2>3, GrowsSelf DEF Then
  <2>5. at[k + 1] \in State
    BY <2>4 DEF Grows
  <2>6. ASSUME NEW j \in 0..(k + 1) PROVE Grows(at[j], at[k + 1])
    <3>1. CASE j = k + 1
      BY <2>5, <3>1, GrowsSelf
    <3>2. CASE j \in 0..k
      BY <2>1, <2>4, <3>2, GrowsTrans
    <3>3. QED
      BY <3>1, <3>2
  <2>7. QED
    BY <2>5, <2>6
<1>4. ASSUME NEW k \in 0..m PROVE at[k] \in State /\ \A j \in 0..k : Grows(at[j], at[k])
  <2>1. k \in S
    <3> HIDE DEF S
    <3>1. QED
      BY <1>2, <1>3, Inductive
  <2>2. QED
    BY <2>1
<1>5. QED
  BY <1>4 DEF at

LEMMA ThroughHeeded ==
    ASSUME NEW r \in State, NEW step, NEW m \in Nat, NEW v,
           \A k \in 1..m : \A a \in State : a.ok => Grows(a, step[k][a]),
           NEW n \in 0..m, Heeded(Through(r, step, m)[n], v)
    PROVE  /\ \A k \in 0..n : Heeded(Through(r, step, m)[k], v) /\ Through(r, step, m)[k] \in State
           /\ \A k \in 1..n : Through(r, step, m)[k] = step[k][Through(r, step, m)[k - 1]]
<1> DEFINE at == Through(r, step, m)
<1>1. \A k \in 1..m : at[k] = Then(at[k - 1], step[k][at[k - 1]])
  BY ThroughIs
<1>2. \A k \in 0..n : at[k] \in State /\ Grows(at[k], at[n])
  BY ThroughGrows
<1> HIDE DEF at
<1>3. Heeded(at[n], v)
  BY DEF at
<1>4. ASSUME NEW k \in 0..n PROVE Heeded(at[k], v) /\ at[k] \in State
  BY <1>2, <1>3, HeededEarlier
<1>5. ASSUME NEW k \in 1..n PROVE at[k] = step[k][at[k - 1]]
  <2>1. k - 1 \in 0..n /\ k \in 1..m
    OBVIOUS
  <2>2. at[k - 1].ok
    BY <1>4, <2>1 DEF Heeded
  <2>3. QED
    BY <1>1, <2>1, <2>2 DEF Then
<1>6. QED
  BY <1>4, <1>5 DEF at

LEMMA CallIs == ASSUME NEW s \in Calls PROVE s.op = "call" /\ s.w \in Words /\ s.pre \in Seq([x : Vars, w : Words])
  BY DEF Calls

LEMMA SeqIs == \A R : \A q \in Seq(R) : DOMAIN q = 1..Len(q) /\ Len(q) \in Nat /\ \A k \in 1..Len(q) : q[k] \in R
  OBVIOUS

(* A command's word is known, unless the analysis gave up or missed something. *)
WordKnown(s, r, a) == a.ok /\ ~a.blind => Resolvable(s.w, r.known)

LEMMA SoundCall ==
    ASSUME NEW s \in Calls, s \in Frames, NEW r \in State, NEW v
    PROVE  SoundFor(<<s>>, r, Call(r, s), v) /\ WordKnown(s, r, Call(r, s))
<1> DEFINE set == [i \in DOMAIN s.pre |-> [a \in State |-> Assign(a, s.pre[i].x, s.pre[i].w)]]
           q == IF s.pre = <<>> THEN r ELSE Fork(r)
           m == Len(s.pre)
           at == Through(q, set, m)
           own == at[m]
<1>1. q \in State /\ (q.ok => r.ok) /\ q.known = r.known /\ q.words = r.words /\ q.found = r.found /\ q.blind = r.blind
  BY ForkIs
<1>2. m \in Nat /\ \A k \in 1..m : s.pre[k].x \in Vars /\ s.pre[k].w \in Words
  <2>1. DOMAIN s.pre = 1..m /\ m \in Nat /\ \A k \in 1..m : s.pre[k] \in [x : Vars, w : Words]
    BY CallIs, SeqIs
  <2>2. QED
    BY <2>1, CallIs
<1>3. \A k \in 1..m : \A a \in State : set[k][a] = Assign(a, s.pre[k].x, s.pre[k].w)
  BY CallIs
<1>4. Call(r, s) = Then(own, IF Resolvable(s.w, own.known)
                  THEN Blind([own EXCEPT !.words = @ \cup {Resolve(s.w, own.known)}, !.known = r.known],
                             s.w.kind = "var" /\ own.known[s.w.of] /= r.known[s.w.of])
                  ELSE GiveUp(own))
  BY DEF Call, After
<1>5. at[0] = q /\ \A k \in 1..m : at[k] = Then(at[k - 1], set[k][at[k - 1]])
  <2> HIDE DEF q, set
  <2>1. QED
    BY <1>2, ThroughIs
<1>6. s.op = "call" /\ s.w \in Words /\ m \in Nat
  BY <1>2, CallIs
<1> DEFINE Same(a) == /\ a \in State /\ (a.ok => r.ok) /\ a.words = r.words /\ a.found = r.found /\ a.blind = r.blind
           S == {k \in Nat : k <= m => Same(at[k])}
<1> HIDE DEF at, q, set, m
<1>7. 0 \in S
  BY <1>1, <1>5
<1>8. ASSUME NEW k \in Nat, k \in S PROVE k + 1 \in S
  <2> SUFFICES ASSUME k + 1 <= m PROVE Same(at[k + 1])
    OBVIOUS
  <2>1. Same(at[k])
    BY <1>2, <1>8
  <2>2. k + 1 \in 1..m /\ (k + 1) - 1 = k
    BY <1>2
  <2>3. at[k + 1] = Then(at[k], Assign(at[k], s.pre[k + 1].x, s.pre[k + 1].w))
    BY <1>3, <1>5, <2>1, <2>2
  <2> DEFINE b == Assign(at[k], s.pre[k + 1].x, s.pre[k + 1].w)
  <2>4. b \in State /\ (b.ok => at[k].ok) /\ b.words = at[k].words /\ b.found = at[k].found /\ b.blind = at[k].blind
    <3>1. at[k] \in State /\ s.pre[k + 1].x \in Vars /\ s.pre[k + 1].w \in Words
      BY <1>2, <2>1, <2>2
    <3>2. ASSUME NEW a \in State, NEW x \in Vars, NEW w \in Words
          PROVE  /\ Assign(a, x, w) \in State /\ (Assign(a, x, w).ok => a.ok) /\ Assign(a, x, w).words = a.words
                 /\ Assign(a, x, w).found = a.found /\ Assign(a, x, w).blind = a.blind
      <4>1. Assign(a, x, w) \in State /\ (Assign(a, x, w).ok => a.ok)
        BY <3>2, AssignIs
      <4>2. Assign(a, x, w).words = a.words /\ Assign(a, x, w).found = a.found /\ Assign(a, x, w).blind = a.blind
        BY <3>2, AssignIs
      <4>3. QED
        BY <4>1, <4>2
    <3>3. QED
      BY <3>1, <3>2
  <2> HIDE DEF b
  <2>6. Same(b)
    BY <2>1, <2>4
  <2>7. QED
    BY <2>1, <2>3, <2>6 DEF Then, b
<1>9. Same(own)
  <2>1. m \in S
    <3> HIDE DEF S
    <3>1. QED
      BY <1>6, <1>7, <1>8, Inductive
  <2>2. QED
    BY <1>6, <2>1
<1> HIDE DEF own
<1>10. CASE ~own.ok
  <2>1. Call(r, s) = own
    BY <1>4, <1>10 DEF Then
  <2>2. QED
    BY <1>9, <1>10, <2>1 DEF SoundFor, Grows, Heeded, WordKnown
<1>11. CASE own.ok /\ ~Resolvable(s.w, own.known)
  <2>1. Call(r, s) = GiveUp(own)
    BY <1>4, <1>11 DEF Then
  <2>2. SoundFor(<<s>>, r, GiveUp(own), v)
    BY <1>9, SoundGiveUp
  <2>3. ~GiveUp(own).ok
    BY <1>9 DEF GiveUp, State
  <2>4. QED
    BY <2>1, <2>2, <2>3 DEF WordKnown
<1>12. CASE own.ok /\ Resolvable(s.w, own.known)
  <2> DEFINE c == Resolve(s.w, own.known)
             b == [own EXCEPT !.words = @ \cup {c}, !.known = r.known]
             missed == s.w.kind = "var" /\ own.known[s.w.of] /= r.known[s.w.of]
  <2>1. Call(r, s) = Blind(b, missed) /\ missed \in BOOLEAN
    BY <1>4, <1>12 DEF Then
  <2>2. ~missed => Resolvable(s.w, r.known) /\ c = Resolve(s.w, r.known)
    BY <1>9, <1>12 DEF Resolvable, Resolve
  <2>3. c \in Literals
    BY <1>6, <1>9, <1>12, WordIs, StateIs DEF Resolvable, Resolve, Env
  <2> HIDE DEF c, missed
  <2>4. /\ b \in State /\ b.words = r.words \cup {c} /\ b.found = r.found /\ b.known = r.known /\ b.ok
        /\ b.blind = r.blind
    BY <1>9, <1>12, <2>3 DEF State
  <2> HIDE DEF b
  <2>5. Heeded(b, v) /\ ~missed => Correct(<<s>>, r.known, b.known, v)
    <3>1. r.known \in Env
      BY StateIs
    <3>2. QED
      BY <1>6, <2>2, <2>4, <3>1, CorrectCall DEF Heeded
  <2>6. Grows(r, b)
    BY <1>9, <1>12, <2>4 DEF Grows
  <2>7. SoundFor(<<s>>, r, Blind(b, missed), v)
    BY <2>1, <2>5, <2>6, SoundBlind
  <2>8. WordKnown(s, r, Blind(b, missed))
    BY <2>1, <2>2, <2>4, BlindIs DEF WordKnown
  <2>9. QED
    BY <2>1, <2>7, <2>8
<1>13. QED
  BY <1>10, <1>11, <1>12

(* What is assumed of the analysis of the lists within a construct.           *)
Nested(lists) == lists \subseteq Seq(Syntax[MaxDepth]) /\ Constructs(lists) \subseteq Syntax[MaxDepth]
Sound(lists, sub, v) ==
    \A list \in lists, r \in State : /\ SoundFor(list, r, sub[list][r], v)
                                     /\ IsCommand(list) => WordKnown(list[1], r, sub[list][r])

LEMMA NestedIn == ASSUME NEW lists, Nested(lists)
                  PROVE  lists \subseteq Stack /\ Constructs(lists) \subseteq Frames
<1>1. Syntax[MaxDepth] \subseteq Frames
  BY DEF Frames
<1>2. \A q \in Seq(Syntax[MaxDepth]) : q \in Seq(Frames)
  BY <1>1
<1>3. QED
  BY <1>1, <1>2 DEF Nested, Stack

(* A body resolved in a clone.                                                *)
LEMMA SoundFork ==
    ASSUME NEW lists, NEW sub, NEW v, Nested(lists), Sound(lists, sub, v), NEW list \in lists, NEW r \in State
    PROVE  SoundFor(list, r, Then(Fork(r), sub[list][Fork(r)]), v)
<1> DEFINE own == Fork(r)
           child == sub[list][own]
<1>1. own \in State /\ Grows(r, own) /\ own.known = r.known
  BY ForkIs
<1> HIDE DEF own
<1>2. SoundFor(list, own, child, v)
  BY <1>1 DEF Sound
<1> HIDE DEF child
<1>3. CASE own.ok
  BY <1>1, <1>2, <1>3, GrowsTrans DEF SoundFor, Then, own, child
<1>4. CASE ~own.ok
  <2>1. Then(own, child) = own
    BY <1>4 DEF Then
  <2>2. SoundFor(list, r, own, v)
    BY <1>1, <1>4 DEF SoundFor, Heeded
  <2>3. QED
    BY <2>1, <2>2 DEF own, child
<1>5. QED
  BY <1>3, <1>4

LEMMA AgreedFits ==
    ASSUME NEW K \in Env, NEW L \in Env
    PROVE  Agreed(K, L) \in Env /\ Fits(K, Agreed(K, L)) /\ Fits(L, Agreed(K, L))
  BY DEF Agreed, Env, Fits

LEMMA SoundMayNotExecute ==
    ASSUME NEW lists, NEW sub, NEW v, Nested(lists), Sound(lists, sub, v), NEW list \in lists, NEW r \in State
    PROVE  /\ SoundFor(list, r, MayNotExecute(list, r, sub), v)
           /\ MayNotExecute(list, r, sub).ok => Fits(r.known, MayNotExecute(list, r, sub).known)
<1> DEFINE child == Then(Fork(r), sub[list][Fork(r)])
           a == [child EXCEPT !.known = Agreed(r.known, child.known)]
<1>1. SoundFor(list, r, child, v)
  BY SoundFork
<1>2. MayNotExecute(list, r, sub) = Then(child, a)
  BY DEF MayNotExecute
<1> HIDE DEF child
<1>3. child \in State
  BY <1>1 DEF SoundFor, Grows
<1>4. CASE ~child.ok
  BY <1>1, <1>2, <1>4 DEF Then
<1>5. CASE child.ok
  <2>1. MayNotExecute(list, r, sub) = a
    BY <1>2, <1>5 DEF Then
  <2> DEFINE L == Agreed(r.known, child.known)
  <2>2. L \in Env /\ Fits(r.known, L) /\ Fits(child.known, L) /\ r.known \in Env /\ child.known \in Env
    BY <1>3, StateIs, AgreedFits
  <2>3. a = [child EXCEPT !.known = L]
    OBVIOUS
  <2> HIDE DEF L
  <2>4. a \in State /\ a.known = L /\ a.words = child.words /\ a.found = child.found /\ a.ok = child.ok /\ a.blind = child.blind
    BY <1>3, <2>2, <2>3 DEF State, Env
  <2> HIDE DEF a
  <2>5. ASSUME Heeded(a, v) PROVE Correct(list, r.known, L, v)
    <3>1. Correct(list, r.known, child.known, v)
      BY <1>1, <2>4, <2>5 DEF SoundFor, Heeded
    <3>2. Fits(r.known, r.known)
      BY DEF Fits
    <3>3. QED
      BY <2>2, <3>1, <3>2, CorrectLess
  <2>6. Grows(r, a)
    BY <1>1, <2>4 DEF SoundFor, Grows
  <2>7. QED
    BY <2>1, <2>2, <2>4, <2>5, <2>6 DEF SoundFor
<1>6. QED
  BY <1>4, <1>5

LEMMA SoundScoped ==
    ASSUME NEW lists, NEW sub, NEW v, Nested(lists), Sound(lists, sub, v), NEW s \in Constructs(lists),
           s.op = "subshell", s.body \in lists, NEW r \in State
    PROVE  SoundFor(<<s>>, r, Scoped(s.body, r, sub), v)
<1> DEFINE child == Then(Fork(r), sub[s.body][Fork(r)])
           a == [child EXCEPT !.known = r.known]
<1>1. SoundFor(s.body, r, child, v)
  BY SoundFork
<1>2. Scoped(s.body, r, sub) = Then(child, a)
  BY DEF Scoped
<1> HIDE DEF child
<1>3. child \in State /\ r.known \in Env
  BY <1>1, StateIs DEF SoundFor, Grows
<1>4. CASE ~child.ok
  BY <1>1, <1>2, <1>4 DEF Then, SoundFor, Heeded
<1>5. CASE child.ok
  <2>1. Scoped(s.body, r, sub) = a
    BY <1>2, <1>5 DEF Then
  <2>2. /\ a \in State /\ a.known = r.known /\ a.words = child.words /\ a.found = child.found /\ a.ok = child.ok
        /\ a.blind = child.blind
    BY <1>3 DEF State, Env
  <2> HIDE DEF a
  <2>3. s \in Frames /\ s.body \in Stack /\ child.known \in Env
    BY <1>3, NestedIn, StateIs
  <2>4. ASSUME Heeded(a, v) PROVE Correct(<<s>>, r.known, r.known, v)
    <3>1. Correct(s.body, r.known, child.known, v)
      BY <1>1, <2>2, <2>4 DEF SoundFor, Heeded
    <3>2. QED
      BY <1>3, <2>3, <3>1, CorrectSubshell
  <2>5. Grows(r, a)
    BY <1>1, <2>2 DEF SoundFor, Grows
  <2>6. QED
    BY <2>1, <2>2, <2>4, <2>5 DEF SoundFor
<1>6. QED
  BY <1>4, <1>5

(* The rounds of a loop's body up to the one that changes nothing: what is    *)
(* known before and after each, of which a keeps what they agree on.          *)
LoopRounds(body, at, last, a, v) ==
    /\ last \in 1..MaxPasses
    /\ \A k \in 0..last : k \in Passes(at) /\ at[k] \in State /\ Heeded(at[k], v) /\ Fits(at[k].known, a.known)
    /\ \A k \in 1..last : Correct(body, at[k - 1].known, at[k].known, v)
    /\ at[last].known = at[last - 1].known
LoopSound(body, r, at, a, v) ==
    /\ at[0] = r /\ Grows(r, a)
    /\ Heeded(a, v) => \E last : LoopRounds(body, at, last, a, v)

LEMMA SoundLoopBody ==
    ASSUME NEW lists, NEW sub, NEW v, Nested(lists), Sound(lists, sub, v), NEW body \in lists, NEW r \in State
    PROVE  LoopSound(body, r, Rounds(body, r, sub), LoopBody(body, r, sub), v)
<1> DEFINE m == MaxPasses
           one(a) == Then(Fork(a), sub[body][Fork(a)])
           pass == [i \in 1..m |-> [a \in State |-> one(a)]]
           at == Rounds(body, r, sub)
           last == CHOOSE i \in Passes(at) \ {0} : Stable(at, i)
           Stays(x) == \A k \in 0..last : at[k].known[x] = r.known[x]
           L == [x \in Vars |-> IF Stays(x) THEN r.known[x] ELSE Unknown]
           done == [at[last] EXCEPT !.known = L]
<1>1. m \in Nat
  BY ShellAssumption
<1>2. LoopBody(body, r, sub) = IF \E i \in 1..m : Stable(at, i) THEN done ELSE GiveUp(r)
  BY DEF LoopBody
<1>3. ASSUME NEW k \in 1..m, NEW a \in State PROVE pass[k][a] = one(a) /\ SoundFor(body, a, pass[k][a], v)
  <2>1. SoundFor(body, a, one(a), v)
    BY SoundFork
  <2> HIDE DEF one
  <2>2. QED
    BY <2>1
<1>a. at = Through(r, pass, m)
  BY DEF Rounds
<1> HIDE DEF m, pass, at
<1>4. \A k \in 1..m : \A a \in State : a.ok => Grows(a, pass[k][a])
  BY <1>3 DEF SoundFor
<1>5. \A k \in 0..m : at[k] \in State /\ \A j \in 0..k : Grows(at[j], at[k])
  BY <1>1, <1>4, <1>a, ThroughGrows
<1>6. \A n \in 0..m : Heeded(at[n], v) =>
        /\ \A k \in 0..n : Heeded(at[k], v) /\ at[k] \in State
        /\ \A k \in 1..n : at[k] = pass[k][at[k - 1]]
  BY <1>1, <1>4, <1>a, ThroughHeeded
<1>7. at[0] = r
  BY <1>1, <1>a, ThroughIs
<1>8. CASE ~\E i \in 1..m : Stable(at, i)
  <2>1. LoopBody(body, r, sub) = GiveUp(r)
    BY <1>2, <1>8
  <2>2. Grows(r, GiveUp(r)) /\ ~Heeded(GiveUp(r), v)
    BY DEF GiveUp, State, Grows, Heeded
  <2>3. QED
    BY <1>7, <2>1, <2>2 DEF LoopSound, at
<1>9. CASE \E i \in 1..m : Stable(at, i)
  <2>1. last \in Passes(at) \ {0} /\ Stable(at, last)
    <3> DEFINE I == {i \in 1..m : Stable(at, i)}
    <3>1. I \in SUBSET Nat /\ I # {}
      BY <1>1, <1>9
    <3>2. PICK i \in I : \A j \in I : i <= j
      <4> HIDE DEF I
      <4>1. QED
        BY <3>1, Least
    <3>3. ASSUME NEW j \in 1..(i - 1), Stable(at, j) PROVE FALSE
      <4>1. j \in I
        BY <1>1, <3>3, <3>2
      <4>2. i <= j /\ i \in Nat /\ j \in Nat /\ j <= i - 1
        BY <1>1, <4>1, <3>2
      <4>3. QED
        BY <4>2
    <3>4. i \in 0..m /\ i # 0 /\ Stable(at, i)
      BY <1>1, <3>2
    <3>5. i \in Passes(at)
      BY <3>3, <3>4 DEF Passes, m
    <3> HIDE DEF I
    <3>6. QED
      BY <3>4, <3>5
  <2>2. LoopBody(body, r, sub) = done
    BY <1>2, <1>9
  <2> HIDE DEF last
  <2>p. last \in 1..m /\ \A k \in 1..(last - 1) : ~Stable(at, k)
    BY <1>1, <2>1 DEF Passes, m
  <2>3. 0 \in 0..last /\ last \in 0..m /\ last - 1 \in 0..last /\ \A k \in 0..last : k \in 0..m
    BY <1>1, <2>p
  <2>q. \A k \in 0..last : k \in Passes(at)
    <3>1. ASSUME NEW k \in 0..last PROVE k \in Passes(at)
      <4>1. k \in 0..m /\ \A j \in 1..(k - 1) : j \in 1..(last - 1)
        BY <1>1, <2>p
      <4>2. QED
        BY <2>p, <4>1 DEF Passes, m
    <3>2. QED
      BY <3>1
  <2>4. at[last] \in State /\ Grows(r, at[last]) /\ r.known \in Env
    BY <1>5, <1>7, <2>3, StateIs
  <2>5. L \in Env
    BY <2>4 DEF Env
  <2>6. \A k \in 0..last : at[k].known \in Env /\ Fits(at[k].known, L)
    <3>1. ASSUME NEW k \in 0..last PROVE at[k].known \in Env /\ Fits(at[k].known, L)
      <4>1. at[k].known \in Env
        BY <1>5, <2>3, StateIs
      <4>2. \A x \in Vars : L[x] \in {Unknown, at[k].known[x]}
        OBVIOUS
      <4>3. QED
        BY <4>1, <4>2 DEF Fits
    <3>2. QED
      BY <3>1
  <2> HIDE DEF L
  <2>7. /\ done \in State /\ done.known = L /\ done.words = at[last].words /\ done.found = at[last].found
        /\ done.ok = at[last].ok /\ done.blind = at[last].blind
    BY <2>4, <2>5 DEF State, Env
  <2> HIDE DEF done
  <2>8. Grows(r, done)
    BY <2>4, <2>7 DEF Grows
  <2>9. ASSUME Heeded(done, v) PROVE LoopRounds(body, at, last, done, v)
    <3>1. Heeded(at[last], v)
      BY <2>7, <2>9 DEF Heeded
    <3>2. /\ \A k \in 0..last : Heeded(at[k], v) /\ at[k] \in State
          /\ \A k \in 1..last : at[k] = pass[k][at[k - 1]]
      BY <1>6, <2>3, <3>1
    <3>3. ASSUME NEW k \in 1..last PROVE Correct(body, at[k - 1].known, at[k].known, v)
      <4>1. k - 1 \in 0..last /\ k \in 0..last /\ k \in 1..m
        BY <1>1, <2>p
      <4>2. SoundFor(body, at[k - 1], at[k], v)
        BY <1>3, <3>2, <4>1
      <4>3. QED
        BY <3>2, <4>1, <4>2 DEF SoundFor
    <3>4. at[last].known = at[last - 1].known
      BY <2>1 DEF Stable
    <3>5. last \in 1..MaxPasses
      BY <2>p DEF m
    <3>6. \A k \in 0..last : k \in Passes(at) /\ at[k] \in State /\ Heeded(at[k], v) /\ Fits(at[k].known, done.known)
      BY <2>6, <2>7, <2>q, <3>2
    <3>7. QED
      BY <3>3, <3>4, <3>5, <3>6 DEF LoopRounds
  <2>10. LoopSound(body, r, at, done, v)
    BY <1>7, <2>8, <2>9 DEF LoopSound
  <2>11. QED
    BY <2>2, <2>10 DEF at
<1>10. QED
  BY <1>8, <1>9

(* From each of them there is a next one.                                     *)
LEMMA NextRound ==
    ASSUME NEW body, NEW at, NEW last, NEW a, NEW v, LoopRounds(body, at, last, a, v), NEW k \in 0..last
    PROVE  \E j \in 1..last : Correct(body, at[k].known, at[j].known, v)
<1>1. last \in 1..MaxPasses /\ MaxPasses \in Nat
  BY ShellAssumption DEF LoopRounds
<1>2. CASE k = last
  <2>1. last \in 1..last /\ at[last].known = at[last - 1].known
    BY <1>1 DEF LoopRounds
  <2>2. Correct(body, at[last - 1].known, at[last].known, v)
    BY <2>1 DEF LoopRounds
  <2>3. QED
    BY <1>2, <2>1, <2>2
<1>3. CASE k < last
  <2>1. k + 1 \in 1..last /\ (k + 1) - 1 = k
    BY <1>1, <1>3
  <2>2. Correct(body, at[(k + 1) - 1].known, at[k + 1].known, v)
    BY <2>1 DEF LoopRounds
  <2>3. QED
    BY <2>1, <2>2
<1>4. k = last \/ k < last
  BY <1>1
<1>5. QED
  BY <1>2, <1>3, <1>4

LEMMA SoundForLoop ==
    ASSUME NEW lists, NEW sub, NEW v, Nested(lists), Sound(lists, sub, v), NEW s \in Constructs(lists),
           s.op = "for", s.x \in Vars, s.body \in lists, NEW r \in State
    PROVE  SoundFor(<<s>>, r, ForClause(s, r, sub), v)
<1> DEFINE a == LoopBody(s.body, r, sub)
           at == Rounds(s.body, r, sub)
           missed == \E i \in Passes(at) : at[i].known[s.x] /= Unknown
<1>1. LoopSound(s.body, r, at, a, v)
  BY SoundLoopBody
<1>2. ForClause(s, r, sub) = Blind(a, missed) /\ missed \in BOOLEAN
  BY DEF ForClause
<1>3. s \in Frames /\ s.body \in Stack
  BY NestedIn
<1>4. \A i \in Passes(at) : ~missed => at[i].known[s.x] = Unknown
  OBVIOUS
<1> HIDE DEF a, at, missed
<1>5. Grows(r, a) /\ at[0] = r
  BY <1>1 DEF LoopSound
<1>6. ASSUME Heeded(a, v), ~missed PROVE Correct(<<s>>, r.known, a.known, v)
  <2>1. PICK last : LoopRounds(s.body, at, last, a, v)
    BY <1>1, <1>6 DEF LoopSound
  <2>2. /\ 0 \in 0..last /\ \A j \in 1..last : j \in 0..last
        /\ \A k \in 0..last : k \in Passes(at) /\ at[k] \in State /\ Fits(at[k].known, a.known)
    <3>1. last \in 1..MaxPasses /\ MaxPasses \in Nat
      BY <2>1, ShellAssumption DEF LoopRounds
    <3>2. QED
      BY <2>1, <3>1 DEF LoopRounds
  <2> DEFINE knowns == {at[k].known : k \in 0..last}
  <2>3. knowns \in SUBSET Env /\ r.known \in knowns
    BY <1>5, <2>2, StateIs
  <2>4. ASSUME NEW k \in 0..last
        PROVE  /\ at[k].known[s.x] = Unknown /\ Fits(at[k].known, a.known)
               /\ \E M \in knowns : Correct(s.body, at[k].known, M, v)
    <3>1. at[k].known[s.x] = Unknown /\ Fits(at[k].known, a.known)
      BY <1>4, <1>6, <2>2
    <3>2. PICK j \in 1..last : Correct(s.body, at[k].known, at[j].known, v)
      BY <2>1, NextRound
    <3>3. QED
      BY <2>2, <3>1, <3>2
  <2>5. \A K \in knowns : K[s.x] = Unknown /\ Fits(K, a.known) /\ \E M \in knowns : Correct(s.body, K, M, v)
    BY <2>4
  <2>6. a.known \in Env
    BY <1>5, StateIs DEF Grows
  <2> HIDE DEF knowns
  <2>7. \A K \in knowns : Correct(<<s>>, K, a.known, v)
    BY <1>3, <2>3, <2>5, <2>6, CorrectFor
  <2>8. QED
    BY <2>3, <2>7
<1>7. QED
  BY <1>2, <1>5, <1>6, SoundBlind

LEMMA FirstNext ==
    ASSUME NEW R, NEW list \in Seq(R), NEW k \in Nat, k + 1 \in 1..Len(list)
    PROVE  /\ SubSeq(list, 1, k + 1) = SubSeq(list, 1, k) \o <<list[k + 1]>>
           /\ SubSeq(list, 1, k) \in Seq(R) /\ Len(SubSeq(list, 1, k)) = k
<1> DEFINE a == SubSeq(list, 1, k)
           b == SubSeq(list, 1, k + 1)
           c == a \o <<list[k + 1]>>
<1>1. /\ a \in Seq(R) /\ Len(a) = k /\ \A i \in 1..k : a[i] = list[i]
      /\ b \in Seq(R) /\ Len(b) = k + 1 /\ \A i \in 1..(k + 1) : b[i] = list[i]
  OBVIOUS
<1>2. <<list[k + 1]>> \in Seq(R) /\ Len(<<list[k + 1]>>) = 1 /\ <<list[k + 1]>>[1] = list[k + 1]
  OBVIOUS
<1> HIDE DEF a, b
<1>3. c \in Seq(R) /\ Len(c) = k + 1 /\ \A i \in 1..(k + 1) : c[i] = IF i <= k THEN a[i] ELSE <<list[k + 1]>>[i - k]
  BY <1>1, <1>2, ConcatIs
<1>4. \A i \in 1..(k + 1) : c[i] = list[i]
  <2>1. \A i \in 1..(k + 1) : i \in 1..k \/ i = k + 1
    OBVIOUS
  <2>2. (k + 1) - k = 1 /\ ~(k + 1 <= k) /\ \A i \in 1..k : i <= k
    OBVIOUS
  <2> HIDE DEF c
  <2>3. QED
    BY <1>1, <1>2, <1>3, <2>1, <2>2
<1> HIDE DEF c
<1>5. b = c
  BY <1>1, <1>3, <1>4, SeqEqual
<1>6. QED
  BY <1>1, <1>5 DEF a, b, c

(* Statements that each leave what is known as it was.                        *)
LEMMA CorrectList ==
    ASSUME NEW list \in Stack, NEW K \in Env, NEW v, \A i \in DOMAIN list : Correct(<<list[i]>>, K, K, v)
    PROVE  Correct(list, K, K, v)
<1> DEFINE m == Len(list)
           S == {k \in Nat : k <= m => Correct(SubSeq(list, 1, k), K, K, v)}
<1>1. DOMAIN list = 1..m /\ m \in Nat /\ \A k \in 1..m : list[k] \in Frames
  BY SeqIs DEF Stack
<1>2. \A k \in 1..m : <<list[k]>> \in Stack /\ Correct(<<list[k]>>, K, K, v)
  BY <1>1 DEF Stack
<1>3. 0 \in S
  <2>1. SubSeq(list, 1, 0) = <<>>
    BY DEF Stack
  <2>2. QED
    BY <2>1, CorrectNone DEF Fits
<1>4. ASSUME NEW k \in Nat, k \in S PROVE k + 1 \in S
  <2> SUFFICES ASSUME k + 1 <= m PROVE Correct(SubSeq(list, 1, k + 1), K, K, v)
    OBVIOUS
  <2>1. Correct(SubSeq(list, 1, k), K, K, v) /\ k + 1 \in 1..m
    BY <1>1, <1>4
  <2>2. SubSeq(list, 1, k + 1) = SubSeq(list, 1, k) \o <<list[k + 1]>> /\ SubSeq(list, 1, k) \in Stack
    BY <1>1, <2>1, FirstNext DEF Stack
  <2>3. QED
    BY <1>2, <2>1, <2>2, CorrectBoth
<1>5. m \in S
  <2> HIDE DEF S
  <2>1. QED
    BY <1>1, <1>3, <1>4, Inductive
<1>6. SubSeq(list, 1, m) = list
  BY DEF Stack
<1>7. Correct(SubSeq(list, 1, m), K, K, v)
  BY <1>1, <1>5
<1> HIDE DEF m
<1>8. QED
  BY <1>6, <1>7

(* A pipe whose stages each leave what is known as it was.                    *)
LEMMA CorrectPipe ==
    ASSUME NEW s \in Frames, NEW K \in Env, NEW v, s.op = "pipe", s.stages \in Seq(Stack),
           \A i \in DOMAIN s.stages : /\ [op |-> "subshell", body |-> s.stages[i]] \in Frames
                                      /\ Correct(s.stages[i], K, K, v),
           \A e \in Env : Fits(e, K) => Shows(s, e, v)
    PROVE  Correct(<<s>>, K, K, v)
<1> DEFINE sh(i) == [op |-> "subshell", body |-> s.stages[i]]
           list == [i \in DOMAIN s.stages |-> sh(i)]
<1>1. DOMAIN s.stages = 1..Len(s.stages) /\ Len(s.stages) \in Nat /\ \A i \in 1..Len(s.stages) : s.stages[i] \in Stack
  BY SeqIs
<1>2. /\ DOMAIN list = 1..Len(s.stages)
      /\ \A i \in 1..Len(s.stages) : /\ list[i] \in Frames /\ list[i].op = "subshell"
                                     /\ list[i].body = s.stages[i]
  BY <1>1
<1>3. \A e : Puts(s, e) = {<<e, list>>}
  BY DEF Puts
<1>4. list \in Stack
  <2>1. \A i \in 1..Len(s.stages) : sh(i) \in Frames
    BY <1>1
  <2> HIDE DEF sh
  <2>2. list \in [1..Len(s.stages) -> Frames]
    BY <1>1, <2>1
  <2>3. \A R : \A n \in Nat : \A q \in [1..n -> R] : q \in Seq(R)
    OBVIOUS
  <2> HIDE DEF list
  <2>4. QED
    BY <1>1, <2>2, <2>3 DEF Stack
<1> HIDE DEF list
<1>5. ASSUME NEW i \in DOMAIN list PROVE Correct(<<list[i]>>, K, K, v)
  <2>1. list[i] \in Frames /\ list[i].op = "subshell" /\ list[i].body \in Stack /\ Correct(list[i].body, K, K, v)
    BY <1>1, <1>2
  <2>2. QED
    BY <2>1, CorrectSubshell
<1>6. Correct(list, K, K, v)
  BY <1>4, <1>5, CorrectList
<1>7. ASSUME NEW e \in Env, Fits(e, K)
      PROVE  /\ Shows(s, e, v)
             /\ \A d \in Puts(s, e) : d[1] \in Env /\ d[2] \in Stack
                   /\ \E M \in Env : Fits(d[1], M) /\ Correct(d[2], M, K, v)
  BY <1>3, <1>4, <1>6, <1>7
<1>8. QED
  BY <1>7, CorrectStep

LEMMA SoundWhile ==
    ASSUME NEW lists, NEW sub, NEW v, Nested(lists), Sound(lists, sub, v), NEW s \in Constructs(lists),
           s.op = "while", s.body \in lists, s.cond \in lists, NEW r \in State
    PROVE  SoundFor(<<s>>, r, WhileClause(s, r, sub), v)
<1> DEFINE cond == sub[s.cond][r]
           at == Rounds(s.body, cond, sub)
           a == LoopBody(s.body, cond, sub)
           Again(i) == sub[s.cond][[at[i] EXCEPT !.forks = r.forks]]
           missed == \E i \in Passes(at) \ {0} : ~Foreseen(Again(i), at[i], a)
<1>1. SoundFor(s.cond, r, cond, v)
  BY DEF Sound
<1>2. WhileClause(s, r, sub) = Then(cond, Blind(a, missed)) /\ missed \in BOOLEAN
  BY DEF WhileClause
<1>3. \A i \in Passes(at) \ {0} : ~missed => Foreseen(Again(i), at[i], a)
  OBVIOUS
<1> HIDE DEF cond, missed
<1>4. cond \in State /\ Grows(r, cond)
  BY <1>1 DEF SoundFor, Grows
<1>5. LoopSound(s.body, cond, at, a, v)
  BY <1>4, SoundLoopBody
<1> HIDE DEF a, at
<1>6. s \in Frames /\ s.body \in Stack /\ s.cond \in Stack /\ [op |-> "again", loop |-> s] \in Frames
  <2>1. s \in Frames /\ s.body \in Stack /\ s.cond \in Stack /\ s \in Syntax[MaxDepth]
    BY NestedIn DEF Nested
  <2>2. [op |-> "again", loop |-> s] \in Frames
    BY <2>1 DEF Frames, Loops
  <2>3. QED
    BY <2>1, <2>2
<1>7. Grows(cond, a) /\ at[0] = cond
  BY <1>5 DEF LoopSound
<1>8. CASE ~cond.ok
  BY <1>1, <1>2, <1>8 DEF SoundFor, Heeded, Then
<1>9. CASE cond.ok
  <2>1. WhileClause(s, r, sub) = Blind(a, missed) /\ Grows(r, a)
    BY <1>2, <1>4, <1>7, <1>9, GrowsTrans DEF Then
  <2>2. ASSUME Heeded(a, v), ~missed PROVE Correct(<<s>>, r.known, a.known, v)
    <3>1. PICK last : LoopRounds(s.body, at, last, a, v)
      BY <1>5, <2>2 DEF LoopSound
    <3>2. /\ 0 \in 0..last /\ \A j \in 1..last : j \in 0..last /\ j # 0
          /\ \A k \in 0..last : k = 0 \/ k \in 1..last
          /\ \A k \in 0..last : k \in Passes(at) /\ at[k] \in State /\ Fits(at[k].known, a.known)
      <4>1. last \in 1..MaxPasses /\ MaxPasses \in Nat
        BY <3>1, ShellAssumption DEF LoopRounds
      <4>2. QED
        BY <3>1, <4>1 DEF LoopRounds
    <3> DEFINE knowns == {at[k].known : k \in 0..last}
               heads == {r.known} \cup {at[k].known : k \in 1..last}
    <3>3. ASSUME NEW k \in 1..last PROVE Correct(s.cond, at[k].known, at[k].known, v)
      <4> DEFINE q == [at[k] EXCEPT !.forks = r.forks]
                 c == sub[s.cond][q]
      <4>1. at[k] \in State /\ k \in Passes(at) \ {0}
        BY <3>2
      <4>2. q \in State /\ q.known = at[k].known
        BY <4>1, StateIs DEF State
      <4>3. Foreseen(c, at[k], a)
        BY <1>3, <2>2, <4>1
      <4> HIDE DEF q
      <4>4. SoundFor(s.cond, q, c, v)
        BY <4>2 DEF Sound
      <4> HIDE DEF c
      <4>5. Heeded(c, v) /\ c.known = at[k].known
        BY <2>2, <4>3 DEF Foreseen, Heeded
      <4>6. QED
        BY <4>2, <4>4, <4>5 DEF SoundFor
    <3>4. Correct(s.cond, r.known, cond.known, v)
      <4>1. Heeded(cond, v)
        BY <1>7, <2>2, HeededEarlier
      <4>2. QED
        BY <1>1, <4>1 DEF SoundFor
    <3>5. knowns \in SUBSET Env /\ cond.known \in knowns /\ heads \in SUBSET Env /\ r.known \in heads
      BY <1>7, <3>2, StateIs
    <3>6. \A H \in heads : \E K \in knowns : Correct(s.cond, H, K, v)
      <4>1. ASSUME NEW k \in 1..last PROVE \E K \in knowns : Correct(s.cond, at[k].known, K, v)
        BY <3>2, <3>3
      <4>2. \E K \in knowns : Correct(s.cond, r.known, K, v)
        BY <3>4, <3>5
      <4>3. QED
        BY <4>1, <4>2
    <3>7. \A K \in knowns : Fits(K, a.known) /\ \E H \in heads : Correct(s.body, K, H, v)
      <4>1. ASSUME NEW k \in 0..last PROVE \E H \in heads : Correct(s.body, at[k].known, H, v)
        <5>1. PICK j \in 1..last : Correct(s.body, at[k].known, at[j].known, v)
          BY <3>1, NextRound
        <5>2. QED
          BY <5>1
      <4>2. QED
        BY <3>2, <4>1
    <3>8. a.known \in Env
      BY <2>1, StateIs DEF Grows
    <3> HIDE DEF knowns, heads
    <3>9. \A H \in heads : Correct(<<s>>, H, a.known, v)
      BY <1>6, <3>5, <3>6, <3>7, <3>8, CorrectWhile
    <3>10. QED
      BY <3>5, <3>9
  <2>3. QED
    BY <1>2, <2>1, <2>2, SoundBlind
<1>10. QED
  BY <1>8, <1>9

LEMMA SoundCase ==
    ASSUME NEW lists, NEW sub, NEW v, Nested(lists), Sound(lists, sub, v), NEW s \in Constructs(lists),
           s.op = "case", s.items \in Seq(lists), NEW r \in State, r.ok
    PROVE  SoundFor(<<s>>, r, CaseClause(s, r, sub), v)
<1> DEFINE items == s.items
           m == Len(items)
           item == [i \in DOMAIN items |-> [a \in State |-> MayNotExecute(items[i], a, sub)]]
           at == Through(r, item, m)
           a == at[m]
<1>1. DOMAIN items = 1..m /\ m \in Nat /\ \A i \in 1..m : items[i] \in lists
  BY SeqIs
<1>2. CaseClause(s, r, sub) = a
  BY DEF CaseClause, After
<1>3. ASSUME NEW k \in 1..m, NEW b \in State
      PROVE  /\ SoundFor(items[k], b, item[k][b], v) /\ Grows(b, item[k][b])
             /\ item[k][b].ok => Fits(b.known, item[k][b].known)
  <2>1. items[k] \in lists /\ item[k][b] = MayNotExecute(items[k], b, sub)
    BY <1>1
  <2> HIDE DEF item, items
  <2>2. QED
    BY <2>1, SoundMayNotExecute DEF SoundFor
<1>4. s \in Frames /\ items \in Seq(Stack)
  <2>1. s \in Frames /\ lists \subseteq Stack
    BY NestedIn
  <2>2. QED
    BY <2>1
<1> HIDE DEF items, item, m
<1>5. \A k \in 0..m : at[k] \in State /\ \A j \in 0..k : Grows(at[j], at[k])
  BY <1>1, <1>3, ThroughGrows
<1>6. \A n \in 0..m : Heeded(at[n], v) =>
        /\ \A k \in 0..n : Heeded(at[k], v) /\ at[k] \in State
        /\ \A k \in 1..n : at[k] = item[k][at[k - 1]]
  BY <1>1, <1>3, ThroughHeeded
<1>7. at[0] = r /\ m \in 0..m /\ 0 \in 0..m
  BY <1>1, ThroughIs
<1> HIDE DEF at
<1>8. Grows(r, a)
  BY <1>5, <1>7
<1>9. ASSUME Heeded(a, v) PROVE Correct(<<s>>, r.known, a.known, v)
  <2>1. /\ \A k \in 0..m : Heeded(at[k], v) /\ at[k] \in State /\ at[k].known \in Env
        /\ \A k \in 1..m : at[k] = item[k][at[k - 1]]
    BY <1>6, <1>7, <1>9, StateIs
  <2>2. ASSUME NEW k \in 1..m
        PROVE  Correct(items[k], at[k - 1].known, at[k].known, v) /\ Fits(at[k - 1].known, at[k].known)
    <3>1. k - 1 \in 0..m /\ k \in 0..m
      BY <1>1
    <3>2. SoundFor(items[k], at[k - 1], at[k], v) /\ (at[k].ok => Fits(at[k - 1].known, at[k].known))
      BY <1>3, <2>1, <3>1
    <3>3. QED
      BY <2>1, <3>1, <3>2 DEF SoundFor, Heeded
  <2> DEFINE S == {k \in Nat : k <= m => /\ Fits(r.known, at[k].known)
                                         /\ \A j \in 1..k : Correct(items[j], r.known, at[k].known, v)}
  <2>3. 0 \in S
    BY <1>7 DEF Fits
  <2>4. ASSUME NEW k \in Nat, k \in S PROVE k + 1 \in S
    <3> SUFFICES ASSUME k + 1 <= m
                 PROVE  /\ Fits(r.known, at[k + 1].known)
                        /\ \A j \in 1..(k + 1) : Correct(items[j], r.known, at[k + 1].known, v)
      OBVIOUS
    <3>1. Fits(r.known, at[k].known) /\ \A j \in 1..k : Correct(items[j], r.known, at[k].known, v)
      BY <1>1, <2>4
    <3>2. k + 1 \in 1..m /\ (k + 1) - 1 = k /\ k \in 0..m /\ k + 1 \in 0..m
      BY <1>1
    <3>3. /\ Correct(items[k + 1], at[k].known, at[k + 1].known, v) /\ Fits(at[k].known, at[k + 1].known)
          /\ at[k].known \in Env /\ at[k + 1].known \in Env /\ r.known \in Env
      BY <1>7, <2>1, <2>2, <3>2
    <3>4. Fits(r.known, r.known) /\ Fits(at[k + 1].known, at[k + 1].known)
      BY DEF Fits
    <3>5. ASSUME NEW j \in 1..(k + 1) PROVE Correct(items[j], r.known, at[k + 1].known, v)
      <4>1. CASE j = k + 1
        BY <3>1, <3>3, <3>4, <4>1, CorrectLess
      <4>2. CASE j \in 1..k
        BY <3>1, <3>3, <3>4, <4>2, CorrectLess
      <4>3. QED
        BY <4>1, <4>2
    <3>6. QED
      BY <3>1, <3>3, <3>5, FitsLess
  <2>5. m \in S
    <3> HIDE DEF S
    <3>1. QED
      BY <1>1, <2>3, <2>4, Inductive
  <2>6. Fits(r.known, a.known) /\ \A j \in DOMAIN items : Correct(items[j], r.known, a.known, v)
    BY <1>1, <2>5
  <2>7. r.known \in Env /\ a.known \in Env
    BY <1>7, <2>1
  <2> HIDE DEF a
  <2>8. QED
    BY <1>4, <2>6, <2>7, CorrectCase DEF items
<1>10. QED
  BY <1>2, <1>8, <1>9 DEF SoundFor

LEMMA LinksIn ==
    ASSUME NEW lists, Nested(lists), NEW links \in Seq([cond : lists, body : lists])
    PROVE  /\ links \in Seq([cond : Stack, body : Stack])
           /\ \A i \in 0..Len(links) : If(LinksFrom(links, i)) \in Frames /\ Test(LinksFrom(links, i)) \in Frames
<1> DEFINE R == [cond : lists, body : lists]
           Q == [cond : Seq(Syntax[MaxDepth]), body : Seq(Syntax[MaxDepth])]
           P == [cond : Stack, body : Stack]
<1>1. lists \subseteq Stack /\ lists \subseteq Seq(Syntax[MaxDepth]) /\ Constructs(lists) \subseteq Frames
  BY NestedIn DEF Nested
<1>2. R \subseteq Q /\ R \subseteq P
  BY <1>1
<1>3. \A i \in 0..Len(links) : LinksFrom(links, i) \in Seq(R)
  BY LinksFromIs
<1>4. \A t \in Seq(R) : If(t) \in Frames
  BY <1>1 DEF If, Constructs
<1>5. \A t \in Seq(Q) : Test(t) \in Frames
  BY DEF Test, Frames
<1> HIDE DEF R, Q, P
<1>6. \A t \in Seq(R) : t \in Seq(Q) /\ t \in Seq(P)
  BY <1>2
<1>7. links \in Seq(P)
  BY <1>6 DEF R
<1>8. QED
  BY <1>3, <1>4, <1>5, <1>6, <1>7 DEF P

LEMMA SoundIf ==
    ASSUME NEW lists, NEW sub, NEW v, Nested(lists), Sound(lists, sub, v),
           NEW s, NEW links \in Seq([cond : lists, body : lists]), s = If(links), NEW r \in State, r.ok
    PROVE  SoundFor(<<s>>, r, IfClause(s, r, sub), v)
<1> DEFINE m == Len(links)
           test(i, a) == IF i = 1 THEN sub[links[i].cond][a] ELSE MayNotExecute(links[i].cond, a, sub)
           link == [i \in DOMAIN links |-> [a \in State |->
                     Then(test(i, a), MayNotExecute(links[i].body, test(i, a), sub))]]
           at == Through(r, link, m)
           a == at[m]
<1>1. DOMAIN links = 1..m /\ m \in Nat /\ \A i \in 1..m : links[i] \in [cond : lists, body : lists]
  BY SeqIs
<1>2. \A i \in 1..m : links[i].cond \in lists /\ links[i].body \in lists
  BY <1>1
<1>3. IfClause(s, r, sub) = a
  <2>1. s.links = links
    BY DEF If
  <2>2. QED
    BY <2>1 DEF IfClause, After
<1>4. ASSUME NEW k \in 1..m, NEW b \in State
      PROVE  /\ link[k][b] = Then(test(k, b), MayNotExecute(links[k].body, test(k, b), sub))
             /\ SoundFor(links[k].cond, b, test(k, b), v) /\ test(k, b) \in State /\ Grows(b, link[k][b])
             /\ k > 1 /\ test(k, b).ok => Fits(b.known, test(k, b).known)
             /\ SoundFor(links[k].body, test(k, b), MayNotExecute(links[k].body, test(k, b), sub), v)
             /\ MayNotExecute(links[k].body, test(k, b), sub).ok =>
                  Fits(test(k, b).known, MayNotExecute(links[k].body, test(k, b), sub).known)
  <2>1. link[k][b] = Then(test(k, b), MayNotExecute(links[k].body, test(k, b), sub))
    BY <1>1
  <2>2. SoundFor(links[k].cond, b, test(k, b), v) /\ (k > 1 /\ test(k, b).ok => Fits(b.known, test(k, b).known))
    <3>1. CASE k = 1
      BY <1>2, <3>1 DEF Sound
    <3>2. CASE k > 1
      <4>1. test(k, b) = MayNotExecute(links[k].cond, b, sub)
        BY <1>1, <3>2
      <4> HIDE DEF test
      <4>2. QED
        BY <1>2, <4>1, SoundMayNotExecute
    <3>3. QED
      BY <1>1, <3>1, <3>2
  <2> HIDE DEF test, link
  <2>3. test(k, b) \in State
    BY <2>2 DEF SoundFor, Grows
  <2>4. /\ SoundFor(links[k].body, test(k, b), MayNotExecute(links[k].body, test(k, b), sub), v)
        /\ MayNotExecute(links[k].body, test(k, b), sub).ok =>
             Fits(test(k, b).known, MayNotExecute(links[k].body, test(k, b), sub).known)
    BY <1>2, <2>3, SoundMayNotExecute
  <2>5. Grows(b, link[k][b])
    BY <2>1, <2>2, <2>4, GrowsTrans DEF SoundFor, Then
  <2>6. QED
    BY <2>1, <2>2, <2>3, <2>4, <2>5
<1>5. /\ links \in Seq([cond : Stack, body : Stack])
      /\ \A i \in 0..m : If(LinksFrom(links, i)) \in Frames /\ Test(LinksFrom(links, i)) \in Frames
  BY LinksIn
<1> HIDE DEF link, m
<1>g. \A k \in 1..m : \A b \in State : b.ok => Grows(b, link[k][b])
  BY <1>4
<1>6. \A k \in 0..m : at[k] \in State /\ \A j \in 0..k : Grows(at[j], at[k])
  BY <1>1, <1>g, ThroughGrows
<1>7. \A n \in 0..m : Heeded(at[n], v) =>
        /\ \A k \in 0..n : Heeded(at[k], v) /\ at[k] \in State
        /\ \A k \in 1..n : at[k] = link[k][at[k - 1]]
  BY <1>1, <1>g, ThroughHeeded
<1>8. at[0] = r /\ m \in 0..m /\ 0 \in 0..m
  BY <1>1, ThroughIs
<1> HIDE DEF at, test
<1>9. Grows(r, a)
  BY <1>6, <1>8
<1>10. ASSUME Heeded(a, v) PROVE Correct(<<s>>, r.known, a.known, v)
  <2> DEFINE N == [i \in 0..m |-> at[i].known]
             M == [i \in 1..m |-> test(i, at[i - 1]).known]
  <2>1. /\ \A k \in 0..m : Heeded(at[k], v) /\ at[k] \in State /\ at[k].known \in Env
        /\ \A k \in 1..m : at[k] = link[k][at[k - 1]]
    BY <1>7, <1>8, <1>10, StateIs
  <2>2. ASSUME NEW i \in 1..m
        PROVE  /\ Correct(links[i].cond, N[i - 1], M[i], v) /\ Correct(links[i].body, M[i], N[i], v)
               /\ Fits(M[i], N[i]) /\ (i > 1 => Fits(N[i - 1], M[i])) /\ M[i] \in Env
    <3> DEFINE b == at[i - 1]
               c == test(i, b)
               n == MayNotExecute(links[i].body, c, sub)
    <3>1. i - 1 \in 0..m /\ i \in 0..m
      BY <1>1
    <3>2. b \in State /\ N[i - 1] = b.known /\ N[i] = at[i].known /\ M[i] = c.known
      BY <2>1, <3>1
    <3>3. /\ at[i] = Then(c, n) /\ SoundFor(links[i].cond, b, c, v) /\ c \in State
          /\ i > 1 /\ c.ok => Fits(b.known, c.known)
          /\ SoundFor(links[i].body, c, n, v) /\ (n.ok => Fits(c.known, n.known))
      BY <1>4, <2>1, <3>2
    <3>4. Heeded(at[i], v)
      BY <2>1, <3>1
    <3> HIDE DEF b, c, n, N, M
    <3>5. c.ok /\ at[i] = n
      BY <3>3, <3>4 DEF Then, Heeded
    <3>6. Heeded(n, v) /\ Heeded(c, v)
      BY <3>3, <3>4, <3>5, HeededEarlier DEF SoundFor
    <3>7. Correct(links[i].cond, b.known, c.known, v) /\ Correct(links[i].body, c.known, n.known, v)
      BY <3>3, <3>6 DEF SoundFor
    <3>8. Fits(c.known, n.known) /\ (i > 1 => Fits(b.known, c.known)) /\ c.known \in Env
      BY <3>3, <3>5, <3>6, StateIs DEF Heeded
    <3>9. QED
      BY <3>2, <3>5, <3>7, <3>8
  <2>3. (\A i \in 0..m : N[i] \in Env) /\ N[0] = r.known /\ N[m] = a.known
    BY <1>8, <2>1
  <2> HIDE DEF N, M
  <2>4. \A i \in 1..m : /\ Correct(links[i].cond, N[i - 1], M[i], v) /\ Correct(links[i].body, M[i], N[i], v)
                        /\ Fits(M[i], N[i]) /\ (i > 1 => Fits(N[i - 1], M[i])) /\ M[i] \in Env
    BY <2>2
  <2>5. Correct(<<If(links)>>, N[0], N[m], v)
    BY <1>1, <1>5, <2>3, <2>4, CorrectIf DEF m
  <2>6. QED
    BY <2>3, <2>5
<1>11. QED
  BY <1>3, <1>9, <1>10 DEF SoundFor

(* Of the statements, the calls are those that say so.                        *)
LEMMA CallsAre ==
    ASSUME NEW n \in 0..MaxDepth, NEW s \in Syntax[n], s.op = "call"
    PROVE  s \in Calls
<1>1. s \in Plain => s \in Calls
  BY DEF Plain
<1>2. \A lists : s \notin Constructs(lists)
  BY DEF Constructs
<1>3. s \in Plain
  BY <1>2, SyntaxIs
<1>4. QED
  BY <1>1, <1>3

LEMMA SoundAndOr ==
    ASSUME NEW lists, NEW sub, NEW v, Nested(lists), Sound(lists, sub, v), NEW s \in Constructs(lists),
           s.op = "andor", s.left \in lists, s.right \in lists, NEW r \in State
    PROVE  SoundFor(<<s>>, r, AndOr(s, r, sub), v)
<1> DEFINE left == sub[s.left][r]
           right == sub[s.right][left]
           missed == right.known /= left.known
<1>1. AndOr(s, r, sub) = Then(left, Blind(right, missed)) /\ missed \in BOOLEAN
  BY DEF AndOr
<1>2. SoundFor(s.left, r, left, v) /\ left \in State
  BY DEF Sound, SoundFor, Grows
<1>3. SoundFor(s.right, left, right, v)
  BY <1>2 DEF Sound
<1>4. ~missed => right.known = left.known
  OBVIOUS
<1> HIDE DEF left, right, missed
<1>5. CASE ~left.ok
  BY <1>1, <1>2, <1>5 DEF SoundFor, Heeded, Then
<1>6. CASE left.ok
  <2>1. AndOr(s, r, sub) = Blind(right, missed) /\ Grows(r, right) /\ Grows(left, right)
    BY <1>1, <1>2, <1>3, <1>6, GrowsTrans DEF Then, SoundFor
  <2>2. ASSUME Heeded(right, v), ~missed PROVE Correct(<<s>>, r.known, right.known, v)
    <3>1. Heeded(left, v)
      BY <2>1, <2>2, HeededEarlier
    <3>2. Correct(s.left, r.known, left.known, v) /\ Correct(s.right, left.known, left.known, v)
      BY <1>2, <1>3, <1>4, <2>2, <3>1 DEF SoundFor
    <3>3. s \in Frames /\ s.left \in Stack /\ s.right \in Stack
      BY NestedIn
    <3>4. r.known \in Env /\ left.known \in Env
      BY <1>2, StateIs
    <3>5. QED
      BY <1>4, <2>2, <3>2, <3>3, <3>4, CorrectAndOr
  <2>3. QED
    BY <1>1, <2>1, <2>2, SoundBlind
<1>7. QED
  BY <1>5, <1>6

LEMMA StageIs ==
    ASSUME NEW list, IsCommand(list), list[1].w \in Words, NEW K \in Env, NEW e \in Env, Fits(e, K),
           Resolvable(list[1].w, K)
    PROVE  Stage(list, e) = {StageWord(list, K)}
<1>1. Values(list[1].w, e) = {Resolve(list[1].w, K)}
  BY WordIs DEF Values, Resolve, Resolvable, Fits
<1>2. QED
  BY <1>1 DEF Stage, StageWord

LEMMA SoundPipeline ==
    ASSUME NEW lists, NEW sub, NEW v, Nested(lists), Sound(lists, sub, v), NEW s \in Constructs(lists),
           s.op = "pipe", s.stages \in Seq(lists), NEW r \in State, r.ok
    PROVE  SoundFor(<<s>>, r, Pipeline(s, r, sub), v)
<1> DEFINE stages == s.stages
           m == Len(stages)
           of(i, a) == sub[stages[i]][a]
           stage == [i \in DOMAIN stages |-> [a \in State |-> LET b == of(i, a) IN Blind(b, b.known /= a.known)]]
           f == FetcherPipeline(r, s)
           at == Through(f, stage, m)
           a == at[m]
           K == r.known
<1>1. DOMAIN stages = 1..m /\ m \in Nat /\ \A i \in 1..m : stages[i] \in lists
  BY SeqIs
<1>2. Pipeline(s, r, sub) = a
  BY DEF Pipeline, After
<1>f. /\ f \in State /\ f.known = K /\ K \in Env /\ Grows(r, f)
      /\ \A i \in 2..m : StageWord(stages[1], K) \in Fetchers /\ StageWord(stages[i], K) \in Interpreters => f.found
  BY StateIs DEF FetcherPipeline, State, Grows
<1>3. ASSUME NEW k \in 1..m, NEW b \in State
      PROVE  /\ SoundFor(stages[k], b, of(k, b), v) /\ stage[k][b] = Blind(of(k, b), of(k, b).known /= b.known)
             /\ IsCommand(stages[k]) => WordKnown(stages[k][1], b, of(k, b))
  <2>1. stages[k] \in lists /\ stage[k][b] = Blind(of(k, b), of(k, b).known /= b.known)
    BY <1>1
  <2> HIDE DEF stage, stages
  <2>2. QED
    BY <2>1 DEF Sound
<1>4. s \in Frames /\ stages \in Seq(Stack) /\ \A i \in 1..m : [op |-> "subshell", body |-> stages[i]] \in Frames
  <2>1. s \in Frames /\ lists \subseteq Stack /\ Constructs(lists) \subseteq Frames
    BY NestedIn
  <2>2. \A l \in lists : [op |-> "subshell", body |-> l] \in Constructs(lists)
    BY DEF Constructs
  <2>3. QED
    BY <1>1, <2>1, <2>2
<1>w. \A i \in 1..m : IsCommand(stages[i]) => stages[i][1].w \in Words
  <2>1. ASSUME NEW i \in 1..m, IsCommand(stages[i]) PROVE stages[i][1].w \in Words
    <3>1. stages[i] \in Seq(Syntax[MaxDepth]) /\ Len(stages[i]) = 1 /\ stages[i][1].op = "call"
      BY <1>1, <2>1 DEF Nested, IsCommand
    <3>2. stages[i][1] \in Syntax[MaxDepth]
      BY <3>1
    <3>3. MaxDepth \in 0..MaxDepth
      BY ShellAssumption
    <3>4. stages[i][1] \in Calls
      BY <3>1, <3>2, <3>3, CallsAre
    <3>5. QED
      BY <3>4, CallIs
  <2>2. QED
    BY <2>1
<1> HIDE DEF stages, stage, m, of, f
<1>5. \A k \in 1..m : \A b \in State : b.ok => Grows(b, stage[k][b])
  <2>1. ASSUME NEW k \in 1..m, NEW b \in State PROVE Grows(b, stage[k][b])
    <3> DEFINE c == of(k, b)
               missed == c.known /= b.known
    <3>1. Grows(b, c) /\ stage[k][b] = Blind(c, missed) /\ c \in State /\ missed \in BOOLEAN
      BY <1>3 DEF SoundFor, Grows
    <3> HIDE DEF c, missed
    <3>2. QED
      BY <3>1, BlindIs DEF Grows
  <2>2. QED
    BY <2>1
<1>6. \A k \in 0..m : at[k] \in State /\ \A j \in 0..k : Grows(at[j], at[k])
  BY <1>1, <1>5, <1>f, ThroughGrows
<1>7. \A n \in 0..m : Heeded(at[n], v) =>
        /\ \A k \in 0..n : Heeded(at[k], v) /\ at[k] \in State
        /\ \A k \in 1..n : at[k] = stage[k][at[k - 1]]
  BY <1>1, <1>5, <1>f, ThroughHeeded
<1>8. at[0] = f /\ m \in 0..m /\ 0 \in 0..m
  BY <1>1, ThroughIs
<1> HIDE DEF at
<1>9. Grows(f, a) /\ Grows(r, a)
  BY <1>6, <1>8, <1>f, GrowsTrans
<1>10. ASSUME Heeded(a, v) PROVE Correct(<<s>>, K, a.known, v)
  <2>1. /\ \A k \in 0..m : Heeded(at[k], v) /\ at[k] \in State
        /\ \A k \in 1..m : at[k] = stage[k][at[k - 1]]
    BY <1>7, <1>8, <1>10
  <2> DEFINE Stays(k) == /\ at[k].known = at[k - 1].known /\ Correct(stages[k], at[k - 1].known, at[k - 1].known, v)
                         /\ IsCommand(stages[k]) => Resolvable(stages[k][1].w, at[k - 1].known)
  <2>2. ASSUME NEW k \in 1..m PROVE Stays(k)
    <3> DEFINE b == at[k - 1]
               c == of(k, b)
               missed == c.known /= b.known
    <3>1. k - 1 \in 0..m /\ k \in 0..m
      BY <1>1
    <3>2. b \in State /\ at[k] = Blind(c, missed) /\ missed \in BOOLEAN
      BY <1>3, <2>1, <3>1
    <3>3. SoundFor(stages[k], b, c, v) /\ c \in State /\ (IsCommand(stages[k]) => WordKnown(stages[k][1], b, c))
      BY <1>3, <3>2 DEF SoundFor, Grows
    <3>4. ~missed => c.known = b.known
      OBVIOUS
    <3>5. Heeded(at[k], v)
      BY <2>1, <3>1
    <3> HIDE DEF b, c, missed
    <3>6. Heeded(c, v) /\ ~missed /\ at[k].known = c.known
      BY <3>2, <3>3, <3>5, BlindIs DEF Heeded
    <3>7. at[k].known = b.known /\ Correct(stages[k], b.known, b.known, v)
      BY <3>3, <3>4, <3>6 DEF SoundFor
    <3>8. IsCommand(stages[k]) => Resolvable(stages[k][1].w, b.known)
      BY <3>3, <3>6 DEF WordKnown, Heeded
    <3>9. QED
      BY <3>7, <3>8 DEF b
  <2> DEFINE S == {k \in Nat : k <= m => at[k].known = K}
  <2>3. 0 \in S
    BY <1>8, <1>f
  <2>4. ASSUME NEW k \in Nat, k \in S PROVE k + 1 \in S
    <3> SUFFICES ASSUME k + 1 <= m PROVE at[k + 1].known = K
      OBVIOUS
    <3>1. k + 1 \in 1..m /\ (k + 1) - 1 = k /\ at[k].known = K
      BY <1>1, <2>4
    <3>2. at[k + 1].known = at[(k + 1) - 1].known
      BY <2>2, <3>1
    <3>3. QED
      BY <3>1, <3>2
  <2>5. \A k \in Nat : k \in S
    <3> HIDE DEF S
    <3>1. QED
      BY <2>3, <2>4, Inductive
  <2>6. ASSUME NEW k \in 1..m
        PROVE  Correct(stages[k], K, K, v) /\ (IsCommand(stages[k]) => Resolvable(stages[k][1].w, K))
    <3>1. k - 1 \in Nat /\ k - 1 <= m
      BY <1>1
    <3>2. at[k - 1].known = K
      BY <2>5, <3>1
    <3> HIDE DEF K
    <3>3. QED
      BY <2>2, <3>2
  <2>7. a.known = K
    BY <1>1, <2>5
  <2>8. ASSUME NEW e \in Env, Fits(e, K) PROVE Shows(s, e, v)
    <3> SUFFICES ASSUME Fetches(s, e) PROVE v.found
      BY DEF Shows
    <3>1. PICK i \in 2..m : Stage(stages[1], e) \cap Fetchers /= {} /\ Stage(stages[i], e) \cap Interpreters /= {}
      BY DEF Fetches, stages, m
    <3>2. 1 \in 1..m /\ i \in 1..m
      BY <1>1
    <3>3. IsCommand(stages[1]) /\ IsCommand(stages[i])
      BY <3>1 DEF Stage
    <3>4. ASSUME NEW k \in 1..m, IsCommand(stages[k]) PROVE Stage(stages[k], e) = {StageWord(stages[k], K)}
      <4> DEFINE l == stages[k]
      <4>1. IsCommand(l) /\ l[1].w \in Words /\ Resolvable(l[1].w, K) /\ K \in Env
        BY <1>f, <1>w, <2>6, <3>4
      <4> HIDE DEF l, K
      <4>2. Stage(l, e) = {StageWord(l, K)}
        BY <2>8, <4>1, StageIs
      <4>3. QED
        BY <4>2 DEF l
    <3>5. f.found
      BY <1>f, <3>1, <3>2, <3>3, <3>4
    <3>6. QED
      BY <1>9, <1>10, <3>5 DEF Grows, Heeded
  <2> HIDE DEF K
  <2>9. /\ s.stages \in Seq(Stack)
        /\ \A i \in DOMAIN s.stages : /\ [op |-> "subshell", body |-> s.stages[i]] \in Frames
                                     /\ Correct(s.stages[i], K, K, v)
    BY <1>1, <1>4, <2>6 DEF stages
  <2>10. Correct(<<s>>, K, K, v)
    BY <1>4, <1>f, <2>8, <2>9, CorrectPipe
  <2>11. QED
    BY <2>7, <2>10
<1>11. QED
  BY <1>2, <1>9, <1>10 DEF SoundFor

(* Any statement.                                                             *)
LEMMA SoundPlain ==
    ASSUME NEW s \in Plain, NEW r \in State, NEW sub, NEW v
    PROVE  /\ SoundFor(<<s>>, r, Statement(s, r, sub), v)
           /\ s \in Calls => WordKnown(s, r, Statement(s, r, sub))
<1>1. s \in Frames
  <2>1. MaxDepth \in 0..MaxDepth
    BY ShellAssumption
  <2>2. Plain \subseteq Syntax[MaxDepth]
    BY <2>1, SyntaxIs
  <2>3. QED
    BY <2>2 DEF Frames
<1>2. CASE s \in [op : {"assign"}, x : Vars, w : Words]
  <2>1. s.op = "assign" /\ s.x \in Vars /\ s.w \in Words /\ Statement(s, r, sub) = Assign(r, s.x, s.w)
    BY <1>2 DEF Statement
  <2>2. s \notin Calls
    BY <2>1, CallIs
  <2>3. QED
    BY <1>1, <2>1, <2>2, SoundAssign
<1>3. CASE s \in [op : {"append"}, x : Vars]
  <2>1. s.op = "append" /\ Statement(s, r, sub) = GiveUp(r)
    BY <1>3 DEF Statement
  <2>2. s \notin Calls
    BY <2>1, CallIs
  <2>3. QED
    BY <2>1, <2>2, SoundGiveUp
<1>4. CASE s \in Calls
  <2>1. s.op = "call"
    BY <1>4, CallIs
  <2>2. Statement(s, r, sub) = Call(r, s)
    BY <2>1 DEF Statement
  <2>3. QED
    BY <1>1, <1>4, <2>2, SoundCall
<1>5. QED
  BY <1>2, <1>3, <1>4 DEF Plain

LEMMA SoundConstruct ==
    ASSUME NEW lists, NEW sub, NEW v, Nested(lists), Sound(lists, sub, v), NEW s \in Constructs(lists),
           NEW r \in State, r.ok
    PROVE  SoundFor(<<s>>, r, Statement(s, r, sub), v)
<1>1. CASE s \in [op : {"if"}, links : Seq([cond : lists, body : lists])]
  <2>1. s.op = "if" /\ s.links \in Seq([cond : lists, body : lists]) /\ s = If(s.links)
    BY <1>1 DEF If
  <2>2. Statement(s, r, sub) = IfClause(s, r, sub)
    BY <2>1 DEF Statement
  <2>3. QED
    BY <2>1, <2>2, SoundIf
<1>2. CASE s \in [op : {"while"}, cond : lists, body : lists]
  <2>1. s.op = "while" /\ s.cond \in lists /\ s.body \in lists
    BY <1>2
  <2>2. Statement(s, r, sub) = WhileClause(s, r, sub)
    BY <2>1 DEF Statement
  <2>3. QED
    BY <2>1, <2>2, SoundWhile
<1>8. CASE s \in [op : {"for"}, x : Vars, body : lists]
  <2>1. s.op = "for" /\ s.x \in Vars /\ s.body \in lists
    BY <1>8
  <2>2. Statement(s, r, sub) = ForClause(s, r, sub)
    BY <2>1 DEF Statement
  <2>3. QED
    BY <2>1, <2>2, SoundForLoop
<1>3. CASE s \in [op : {"block", "subshell"}, body : lists]
  <2>1. s.body \in lists /\ s.op \in {"block", "subshell"}
    BY <1>3
  <2>3. CASE s.op = "block"
    <3>1. Statement(s, r, sub) = sub[s.body][r]
      BY <2>3 DEF Statement
    <3> DEFINE a == sub[s.body][r]
    <3>2. SoundFor(s.body, r, a, v)
      BY <2>1 DEF Sound
    <3>3. s \in Frames /\ s.body \in Stack
      BY <2>1, NestedIn
    <3> HIDE DEF a
    <3>4. r.known \in Env /\ (a.ok => a.known \in Env)
      BY <3>2, StateIs DEF SoundFor, Grows
    <3>5. Heeded(a, v) => Correct(<<s>>, r.known, a.known, v)
      BY <2>3, <3>2, <3>3, <3>4, CorrectBlock DEF SoundFor, Heeded
    <3>6. SoundFor(<<s>>, r, a, v)
      BY <3>2, <3>5 DEF SoundFor
    <3>7. QED
      BY <3>1, <3>6 DEF a
  <2>4. CASE s.op = "subshell"
    <3>1. Statement(s, r, sub) = Scoped(s.body, r, sub)
      BY <2>4 DEF Statement
    <3>2. QED
      BY <2>1, <2>4, <3>1, SoundScoped
  <2>5. QED
    BY <2>1, <2>3, <2>4
<1>4. CASE s \in [op : {"case"}, items : Seq(lists)]
  <2>1. s.op = "case" /\ s.items \in Seq(lists)
    BY <1>4
  <2>2. Statement(s, r, sub) = CaseClause(s, r, sub)
    BY <2>1 DEF Statement
  <2>3. QED
    BY <2>1, <2>2, SoundCase
<1>5. CASE s \in [op : {"andor"}, left : lists, right : lists]
  <2>1. s.op = "andor" /\ s.left \in lists /\ s.right \in lists
    BY <1>5
  <2>2. Statement(s, r, sub) = AndOr(s, r, sub)
    BY <2>1 DEF Statement
  <2>3. QED
    BY <2>1, <2>2, SoundAndOr
<1>6. CASE s \in [op : {"pipe"}, stages : Seq(lists)]
  <2>1. s.op = "pipe" /\ s.stages \in Seq(lists)
    BY <1>6
  <2>2. Statement(s, r, sub) = Pipeline(s, r, sub)
    BY <2>1 DEF Statement
  <2>3. QED
    BY <2>1, <2>2, SoundPipeline
<1>7. QED
  BY <1>1, <1>2, <1>3, <1>4, <1>5, <1>6, <1>8 DEF Constructs

(* Lists of statements, each right.                                           *)
LEMMA SoundStatements ==
    ASSUME NEW R, R \subseteq Frames, NEW sub, NEW v,
           \A s \in R, a \in State : a.ok => SoundFor(<<s>>, a, Statement(s, a, sub), v),
           NEW list \in Seq(R), NEW r \in State
    PROVE  SoundFor(list, r, Statements(list, r, sub), v)
<1> DEFINE m == Len(list)
           one == [i \in DOMAIN list |-> [a \in State |-> Statement(list[i], a, sub)]]
           at == Through(r, one, m)
           S == {k \in Nat : k <= m => SoundFor(SubSeq(list, 1, k), r, at[k], v)}
<1>1. DOMAIN list = 1..m /\ m \in Nat /\ \A k \in 1..m : list[k] \in R
  BY SeqIs
<1>2. Statements(list, r, sub) = at[m]
  BY DEF Statements, After
<1>3. ASSUME NEW k \in 1..m, NEW b \in State
      PROVE  b.ok => SoundFor(<<list[k]>>, b, one[k][b], v)
  <2>1. one[k][b] = Statement(list[k], b, sub)
    BY <1>1
  <2> HIDE DEF one
  <2>2. QED
    BY <1>1, <2>1
<1>4. list \in Stack
  <2>1. list \in Seq(Frames)
    BY <1>1
  <2>2. QED
    BY <2>1 DEF Stack
<1>5. \A k \in 1..m : <<list[k]>> \in Stack
  BY <1>1 DEF Stack
<1> HIDE DEF one, m
<1>6. \A k \in 0..m : at[k] \in State
  <2>1. \A k \in 1..m : \A b \in State : b.ok => Grows(b, one[k][b])
    BY <1>3 DEF SoundFor
  <2>2. QED
    BY <1>1, <2>1, ThroughGrows
<1>7. at[0] = r /\ \A k \in 1..m : at[k] = Then(at[k - 1], one[k][at[k - 1]])
  BY <1>1, ThroughIs
<1> HIDE DEF at
<1>8. 0 \in S
  <2>1. SubSeq(list, 1, 0) = <<>>
    BY <1>4 DEF Stack
  <2>2. r.known \in Env
    BY StateIs
  <2>3. Correct(<<>>, r.known, r.known, v)
    BY <2>2, CorrectNone DEF Fits
  <2>4. SoundFor(<<>>, r, r, v)
    BY <2>3, GrowsSelf DEF SoundFor
  <2>5. QED
    BY <1>7, <2>1, <2>4
<1>9. ASSUME NEW k \in Nat, k \in S PROVE k + 1 \in S
  <2> SUFFICES ASSUME k + 1 <= m PROVE SoundFor(SubSeq(list, 1, k + 1), r, at[k + 1], v)
    OBVIOUS
  <2>1. k + 1 \in 1..m /\ (k + 1) - 1 = k /\ k \in 0..m /\ SoundFor(SubSeq(list, 1, k), r, at[k], v)
    BY <1>1, <1>9
  <2>2. SubSeq(list, 1, k + 1) = SubSeq(list, 1, k) \o <<list[k + 1]>> /\ SubSeq(list, 1, k) \in Stack
    BY <1>4, <2>1, FirstNext DEF Stack, m
  <2>3. at[k + 1] = Then(at[k], one[k + 1][at[k]])
    BY <1>7, <2>1
  <2>4. at[k].ok => SoundFor(<<list[k + 1]>>, at[k], one[k + 1][at[k]], v)
    BY <1>3, <1>6, <2>1
  <2>5. <<list[k + 1]>> \in Stack
    BY <1>5, <2>1
  <2>6. QED
    BY <2>1, <2>2, <2>3, <2>4, <2>5, SoundThen
<1>10. m \in S
  <2> HIDE DEF S
  <2>1. QED
    BY <1>1, <1>8, <1>9, Inductive
<1>11. SoundFor(SubSeq(list, 1, m), r, at[m], v)
  BY <1>1, <1>10
<1>12. SubSeq(list, 1, m) = list
  BY <1>4 DEF Stack, m
<1>13. QED
  BY <1>2, <1>11, <1>12

LEMMA StatementsKnow ==
    ASSUME NEW R, NEW list \in Seq(R), Len(list) = 1, list[1] \in Calls, NEW r \in State, NEW sub
    PROVE  WordKnown(list[1], r, Statements(list, r, sub))
<1> DEFINE one == [i \in DOMAIN list |-> [a \in State |-> Statement(list[i], a, sub)]]
           at == Through(r, one, 1)
           b == Statement(list[1], r, sub)
<1>1. Statements(list, r, sub) = at[1]
  BY DEF Statements, After
<1>2. one[1][r] = b
  <2>1. 1 \in DOMAIN list
    BY SeqIs
  <2>2. QED
    BY <2>1
<1> HIDE DEF one
<1>3. at[0] = r /\ \A k \in 1..1 : at[k] = Then(at[k - 1], one[k][at[k - 1]])
  BY ThroughIs
<1>4. WordKnown(list[1], r, b)
  BY SoundPlain DEF Plain
<1> HIDE DEF at, b
<1>5. at[1] = Then(r, b)
  <2>1. 1 \in 1..1 /\ 1 - 1 = 0
    OBVIOUS
  <2>2. at[1] = Then(at[1 - 1], one[1][at[1 - 1]])
    BY <1>3, <2>1
  <2>3. QED
    BY <1>2, <1>3, <2>1, <2>2
<1>6. WordKnown(list[1], r, Then(r, b))
  BY <1>4 DEF WordKnown, Then
<1>7. QED
  BY <1>1, <1>5, <1>6

(* Lists at any depth.                                                        *)
LEMMA ConstructsGrow ==
    ASSUME NEW A, NEW B, A \subseteq B
    PROVE  Constructs(A) \subseteq Constructs(B)
<1>1. [cond : A, body : A] \subseteq [cond : B, body : B]
  OBVIOUS
<1>2. \A P, Q : P \subseteq Q => Seq(P) \subseteq Seq(Q)
  <2>1. \A P, Q : P \subseteq Q => \A q \in Seq(P) : q \in Seq(Q)
    OBVIOUS
  <2>2. QED
    BY <2>1
<1> DEFINE P == [cond : A, body : A]
           Q == [cond : B, body : B]
<1>3. Seq(P) \subseteq Seq(Q) /\ Seq(A) \subseteq Seq(B)
  BY <1>1, <1>2
<1> HIDE DEF P, Q
<1>4. [op : {"if"}, links : Seq(P)] \subseteq [op : {"if"}, links : Seq(Q)]
  BY <1>3
<1>5. [op : {"pipe"}, stages : Seq(A)] \subseteq [op : {"pipe"}, stages : Seq(B)]
  BY <1>3
<1>6. /\ [op : {"while"}, cond : A, body : A] \subseteq [op : {"while"}, cond : B, body : B]
      /\ [op : {"for"}, x : Vars, body : A] \subseteq [op : {"for"}, x : Vars, body : B]
      /\ [op : {"block", "subshell"}, body : A] \subseteq [op : {"block", "subshell"}, body : B]
      /\ [op : {"andor"}, left : A, right : A] \subseteq [op : {"andor"}, left : B, right : B]
  OBVIOUS
<1>7. [op : {"case"}, items : Seq(A)] \subseteq [op : {"case"}, items : Seq(B)]
  BY <1>3
<1>8. QED
  BY <1>4, <1>5, <1>6, <1>7 DEF Constructs, P, Q

LEMMA SyntaxGrows == \A n \in 0..MaxDepth : Plain \subseteq Syntax[n] /\ Syntax[n] \subseteq Syntax[MaxDepth]
<1> DEFINE S == {n \in Nat : n < MaxDepth => Syntax[n] \subseteq Syntax[n + 1]}
           D == {j \in Nat : j <= MaxDepth => Syntax[MaxDepth - j] \subseteq Syntax[MaxDepth]}
<1>1. MaxDepth \in Nat
  BY ShellAssumption
<1>2. \A n \in 0..MaxDepth : Plain \subseteq Syntax[n]
  BY SyntaxIs
<1>3. 0 \in S
  <2>1. ASSUME 0 < MaxDepth PROVE Syntax[0] \subseteq Syntax[0 + 1]
    <3>1. 0 \in 0..MaxDepth /\ 0 + 1 \in 0..MaxDepth
      BY <1>1, <2>1
    <3>2. Syntax[0] = Plain
      BY <3>1, SyntaxIs
    <3>3. QED
      BY <1>2, <3>1, <3>2
  <2>2. QED
    BY <2>1
<1>4. ASSUME NEW n \in Nat, n \in S PROVE n + 1 \in S
  <2> SUFFICES ASSUME n + 1 < MaxDepth PROVE Syntax[n + 1] \subseteq Syntax[(n + 1) + 1]
    OBVIOUS
  <2>1. /\ n + 1 \in 0..MaxDepth /\ (n + 1) + 1 \in 0..MaxDepth /\ n + 1 # 0 /\ (n + 1) + 1 # 0
        /\ (n + 1) - 1 = n /\ ((n + 1) + 1) - 1 = n + 1 /\ n < MaxDepth
    BY <1>1
  <2>2. Syntax[n] \subseteq Syntax[n + 1]
    BY <1>4, <2>1
  <2>3. Syntax[n + 1] = Plain \cup Constructs(Seq(Syntax[n])) /\ Syntax[(n + 1) + 1] = Plain \cup Constructs(Seq(Syntax[n + 1]))
    BY <2>1, SyntaxIs
  <2>4. Seq(Syntax[n]) \subseteq Seq(Syntax[n + 1])
    <3>1. \A q \in Seq(Syntax[n]) : q \in Seq(Syntax[n + 1])
      BY <2>2
    <3>2. QED
      BY <3>1
  <2>5. QED
    BY <2>3, <2>4, ConstructsGrow
<1>5. \A n \in Nat : n \in S
  <2> HIDE DEF S
  <2>1. QED
    BY <1>3, <1>4, Inductive
<1>6. 0 \in D
  BY <1>1
<1>7. ASSUME NEW j \in Nat, j \in D PROVE j + 1 \in D
  <2> SUFFICES ASSUME j + 1 <= MaxDepth PROVE Syntax[MaxDepth - (j + 1)] \subseteq Syntax[MaxDepth]
    OBVIOUS
  <2>1. MaxDepth - (j + 1) \in Nat /\ (MaxDepth - (j + 1)) + 1 = MaxDepth - j /\ MaxDepth - (j + 1) < MaxDepth /\ j <= MaxDepth
    BY <1>1
  <2>2. Syntax[MaxDepth - (j + 1)] \subseteq Syntax[MaxDepth - j]
    BY <1>5, <2>1
  <2>3. QED
    BY <1>7, <2>1, <2>2
<1>8. \A j \in Nat : j \in D
  <2> HIDE DEF D
  <2>1. QED
    BY <1>6, <1>7, Inductive
<1>9. ASSUME NEW n \in 0..MaxDepth PROVE Syntax[n] \subseteq Syntax[MaxDepth]
  <2>1. MaxDepth - n \in Nat /\ MaxDepth - n <= MaxDepth /\ MaxDepth - (MaxDepth - n) = n
    BY <1>1
  <2>2. QED
    BY <1>8, <2>1
<1>10. QED
  BY <1>2, <1>9

LEMMA NestedSyntax == ASSUME NEW n \in Nat, n < MaxDepth PROVE Nested(Seq(Syntax[n]))
<1>1. n \in 0..MaxDepth /\ n + 1 \in 0..MaxDepth /\ n + 1 # 0 /\ (n + 1) - 1 = n
  BY ShellAssumption
<1>2. Syntax[n] \subseteq Syntax[MaxDepth]
  BY <1>1, SyntaxGrows
<1>3. Seq(Syntax[n]) \subseteq Seq(Syntax[MaxDepth])
  <2>1. \A P, Q : P \subseteq Q => \A q \in Seq(P) : q \in Seq(Q)
    OBVIOUS
  <2>2. QED
    BY <1>2, <2>1
<1>4. Constructs(Seq(Syntax[n])) \subseteq Syntax[n + 1] /\ Syntax[n + 1] \subseteq Syntax[MaxDepth]
  BY <1>1, SyntaxIs, SyntaxGrows
<1>5. QED
  BY <1>3, <1>4 DEF Nested

LEMMA SoundResolver == ASSUME NEW v, NEW n \in 0..MaxDepth PROVE Sound(Seq(Syntax[n]), Resolver[n], v)
<1> DEFINE S == {k \in Nat : k <= MaxDepth => Sound(Seq(Syntax[k]), Resolver[k], v)}
<1>1. MaxDepth \in Nat
  BY ShellAssumption
<1>2. ASSUME NEW k \in Nat, k <= MaxDepth, k # 0 => k - 1 \in S PROVE Sound(Seq(Syntax[k]), Resolver[k], v)
  <2> DEFINE sub == IF k = 0 THEN <<>> ELSE Resolver[k - 1]
  <2>1. k \in 0..MaxDepth
    BY <1>1, <1>2
  <2>2. \A list \in Seq(Syntax[k]), r \in State : Resolver[k][list][r] = Statements(list, r, sub)
    BY <2>1, ResolverIs
  <2>3. Syntax[k] \subseteq Frames /\ Plain \subseteq Syntax[k]
    BY <2>1, SyntaxGrows DEF Frames
  <2>4. ASSUME NEW s \in Syntax[k], NEW a \in State, a.ok PROVE SoundFor(<<s>>, a, Statement(s, a, sub), v)
    <3>1. CASE s \in Plain
      BY <3>1, SoundPlain
    <3>2. CASE s \notin Plain
      <4>1. k # 0 /\ s \in Constructs(Seq(Syntax[k - 1]))
        BY <2>1, <3>2, SyntaxIs
      <4>2. k - 1 \in Nat /\ k - 1 <= MaxDepth /\ k - 1 < MaxDepth /\ sub = Resolver[k - 1]
        BY <1>1, <1>2, <4>1
      <4>3. Nested(Seq(Syntax[k - 1]))
        BY <4>2, NestedSyntax
      <4>4. Sound(Seq(Syntax[k - 1]), sub, v)
        BY <1>2, <4>1, <4>2
      <4> HIDE DEF sub
      <4>5. QED
        BY <2>4, <4>1, <4>3, <4>4, SoundConstruct
    <3>3. QED
      BY <3>1, <3>2
  <2> HIDE DEF sub
  <2>5. \A list \in Seq(Syntax[k]), r \in State : SoundFor(list, r, Resolver[k][list][r], v)
    BY <2>2, <2>3, <2>4, SoundStatements
  <2>6. \A list \in Seq(Syntax[k]), r \in State : IsCommand(list) => WordKnown(list[1], r, Resolver[k][list][r])
    <3>1. ASSUME NEW list \in Seq(Syntax[k]), NEW r \in State, IsCommand(list)
          PROVE  WordKnown(list[1], r, Resolver[k][list][r])
      <4>1. Len(list) = 1 /\ list[1].op = "call"
        BY <3>1 DEF IsCommand
      <4>2. list[1] \in Syntax[k]
        BY <4>1
      <4>3. list[1] \in Calls
        BY <2>1, <4>1, <4>2, CallsAre
      <4>4. WordKnown(list[1], r, Statements(list, r, sub))
        BY <4>1, <4>3, StatementsKnow
      <4>5. QED
        BY <2>2, <4>4
    <3>2. QED
      BY <3>1
  <2>7. QED
    BY <2>5, <2>6 DEF Sound
<1>3. 0 \in S
  <2>1. 0 <= MaxDepth => Sound(Seq(Syntax[0]), Resolver[0], v)
    <3> HIDE DEF S
    <3>1. QED
      BY <1>2
  <2>2. QED
    BY <2>1
<1>4. ASSUME NEW k \in Nat, k \in S PROVE k + 1 \in S
  <2>1. k + 1 \in Nat /\ (k + 1) - 1 = k
    OBVIOUS
  <2>2. k + 1 <= MaxDepth => Sound(Seq(Syntax[k + 1]), Resolver[k + 1], v)
    <3> HIDE DEF S
    <3>1. QED
      BY <1>2, <1>4, <2>1
  <2>3. QED
    BY <2>1, <2>2
<1>5. n \in S
  <2>1. n \in Nat
    BY <1>1
  <2> HIDE DEF S
  <2>2. QED
    BY <1>3, <1>4, <2>1, Inductive
<1>6. QED
  BY <1>1, <1>5

(* What the analysis concludes of a whole program.                            *)
LEMMA AnalysisCorrect ==
    ASSUME NEW list \in Programs
    PROVE  /\ Analysis(list) \in State /\ list \in Stack
           /\ Analysis(list).ok /\ ~Analysis(list).blind => \A e \in Env :
                Within(<<e, list>>, Exits(<<>>, Analysis(list).known), Analysis(list))
<1> DEFINE v == Analysis(list)
<1>1. MaxDepth \in 0..MaxDepth /\ list \in Seq(Syntax[MaxDepth])
  BY ShellAssumption
<1>2. Fresh \in State /\ \A e : Fits(e, Fresh.known)
  BY ShellAssumption DEF Fresh, State, Fits
<1>3. SoundFor(list, Fresh, v, v)
  <2>1. v = Resolver[MaxDepth][list][Fresh]
    BY DEF Analysis
  <2> HIDE DEF v
  <2>2. QED
    BY <1>1, <1>2, <2>1, SoundResolver DEF Sound
<1>4. list \in Stack
  <2>1. Syntax[MaxDepth] \subseteq Frames
    BY DEF Frames
  <2>2. list \in Seq(Frames)
    BY <1>1, <2>1
  <2>3. QED
    BY <2>2 DEF Stack
<1>5. list \o <<>> = list /\ <<>> \in Stack
  BY <1>4 DEF Stack
<1> HIDE DEF v
<1>6. ASSUME v.ok, ~v.blind, NEW e \in Env PROVE Within(<<e, list>>, Exits(<<>>, v.known), v)
  <2>1. Heeded(v, v)
    BY <1>6 DEF Heeded
  <2>2. Correct(list, Fresh.known, v.known, v)
    BY <1>3, <2>1 DEF SoundFor
  <2>3. Within(<<e, list \o <<>>>>, Exits(<<>>, v.known), v)
    BY <1>2, <1>5, <2>2 DEF Correct
  <2>4. QED
    BY <1>5, <2>3
<1>7. v \in State
  BY <1>3 DEF SoundFor, Grows
<1>8. QED
  BY <1>4, <1>6, <1>7 DEF v

(* ------------------------------- the invariants ------------------------------ *)

(* A step of the shell is one of what has been said of stacks.                *)
LEMMA StepIs ==
    ASSUME todo /= <<>>, Next
    PROVE  /\ <<env', todo'>> \in Succ(<<env, todo>>) /\ UNCHANGED <<program, verdict>>
           /\ started' = started \/ (/\ Head(todo).op = "call"
                                     /\ started' \subseteq started \cup (Values(Head(todo).w, env) \ {Unknown}))
           /\ piped' => piped \/ (Head(todo).op = "pipe" /\ Fetches(Head(todo), env))
<1> DEFINE s == Head(todo)
           Does(d) == env' = d[1] /\ todo' = d[2] \o Tail(todo)
<1>1. ASSUME NEW d \in Puts(s, env), Does(d) PROVE <<env', todo'>> \in Succ(<<env, todo>>)
  BY <1>1 DEF Succ
<1>2. \A w : Value(w) = Values(w, env)
  BY DEF Value, Values
<1>3. \A l : Word(l) = Stage(l, env)
  BY <1>2 DEF Word, Stage
<1>4. CASE DoAssign
  <2>1. PICK c \in Values(s.w, env) : env' = [env EXCEPT ![s.x] = c]
    BY <1>2, <1>4 DEF DoAssign, Top
  <2>2. <<[env EXCEPT ![s.x] = c], <<>>>> \in Puts(s, env)
    BY <1>4 DEF DoAssign, At, Puts
  <2>3. QED
    BY <1>1, <1>4, <2>1, <2>2 DEF DoAssign, Continue
<1>5. CASE DoAppend
  <2>1. PICK c \in Literals : env' = [env EXCEPT ![s.x] = c]
    BY <1>5 DEF DoAppend, Top
  <2>2. <<[env EXCEPT ![s.x] = c], <<>>>> \in Puts(s, env)
    BY <1>5 DEF DoAppend, At, Puts
  <2>3. QED
    BY <1>1, <1>5, <2>1, <2>2 DEF DoAppend, Continue
<1>6. CASE DoCall
  <2>1. PICK c \in Values(s.w, env) : started' = started \cup ({c} \ {Unknown})
    BY <1>2, <1>6 DEF DoCall, Top
  <2>2. <<env, <<>>>> \in Puts(s, env) /\ s.op = "call"
    BY <1>6 DEF DoCall, At, Puts
  <2>3. <<env', todo'>> \in Succ(<<env, todo>>)
    BY <1>1, <1>6, <2>2 DEF DoCall, Continue
  <2>4. QED
    BY <1>6, <2>1, <2>2, <2>3 DEF DoCall
<1>7. CASE DoAndOr
  <2>1. s.op = "andor"
    BY <1>7 DEF DoAndOr, At, Top
  <2>2. <<env, s.left \o <<>>>> \in Puts(s, env) /\ <<env, s.left \o s.right>> \in Puts(s, env)
    BY <2>1 DEF Puts
  <2>3. todo' = (s.left \o <<>>) \o Tail(todo) \/ todo' = (s.left \o s.right) \o Tail(todo)
    BY <1>7 DEF DoAndOr, Continue, Top
  <2>4. env' = env
    BY <1>7 DEF DoAndOr
  <2>5. QED
    BY <1>1, <1>7, <2>2, <2>3, <2>4 DEF DoAndOr
<1>8. CASE DoPipe
  <2> DEFINE l == [i \in DOMAIN s.stages |-> [op |-> "subshell", body |-> s.stages[i]]]
  <2>1. s.op = "pipe"
    BY <1>8 DEF DoPipe, At, Top
  <2>2. <<env, l>> \in Puts(s, env)
    BY <2>1 DEF Puts
  <2>3. env' = env /\ todo' = l \o Tail(todo)
    BY <1>8 DEF DoPipe, Continue, Top
  <2> HIDE DEF l
  <2>4. <<env', todo'>> \in Succ(<<env, todo>>)
    BY <1>1, <2>2, <2>3
  <2>5. piped' => piped \/ Fetches(s, env)
    BY <1>3, <1>8 DEF DoPipe, Fetches, Top
  <2>6. QED
    BY <1>8, <2>1, <2>4, <2>5 DEF DoPipe
<1>9. CASE DoIf
  <2>1. s.op = "if"
    BY <1>9 DEF DoIf, At
  <2>2. <<env, IF s.links = <<>> THEN <<>> ELSE Head(s.links).cond \o <<[op |-> "test", links |-> s.links]>>>> \in Puts(s, env)
    BY <2>1 DEF Puts
  <2>3. QED
    BY <1>1, <1>9, <2>2 DEF DoIf, Continue, Top
<1>10. CASE DoTest
  <2>1. s.op = "test"
    BY <1>10 DEF DoTest, At
  <2>2. <<env, Head(s.links).body>> \in Puts(s, env) /\ <<env, <<[op |-> "if", links |-> Tail(s.links)]>>>> \in Puts(s, env)
    BY <2>1 DEF Puts
  <2>3. \/ todo' = Head(s.links).body \o Tail(todo)
        \/ todo' = <<[op |-> "if", links |-> Tail(s.links)]>> \o Tail(todo)
    BY <1>10 DEF DoTest, Continue, Top
  <2>4. env' = env
    BY <1>10 DEF DoTest
  <2>5. QED
    BY <1>1, <1>10, <2>2, <2>3, <2>4 DEF DoTest
<1>11. CASE DoWhile
  <2>1. s.op = "while"
    BY <1>11 DEF DoWhile, At
  <2>2. <<env, s.cond \o <<[op |-> "again", loop |-> s]>>>> \in Puts(s, env)
    BY <2>1 DEF Puts
  <2>3. QED
    BY <1>1, <1>11, <2>2 DEF DoWhile, Continue, Top
<1>12. CASE DoAgain
  <2>1. s.op = "again"
    BY <1>12 DEF DoAgain, At
  <2>2. <<env, <<>>>> \in Puts(s, env) /\ <<env, Append(s.loop.body, s.loop)>> \in Puts(s, env)
    BY <2>1 DEF Puts
  <2>3. todo' = <<>> \o Tail(todo) \/ todo' = Append(s.loop.body, s.loop) \o Tail(todo)
    BY <1>12 DEF DoAgain, Continue, Top
  <2>4. env' = env
    BY <1>12 DEF DoAgain
  <2>5. QED
    BY <1>1, <1>12, <2>2, <2>3, <2>4 DEF DoAgain
<1>13. CASE DoFor
  <2>1. s.op = "for"
    BY <1>13 DEF DoFor, At
  <2>2. \/ env' = env /\ todo' = <<>> \o Tail(todo)
        \/ \E c \in Literals \cup {Unknown} : env' = [env EXCEPT ![s.x] = c] /\ todo' = Append(s.body, s) \o Tail(todo)
    BY <1>13 DEF DoFor, Continue, Top
  <2>3. <<env, <<>>>> \in Puts(s, env)
    BY <2>1 DEF Puts
  <2>4. \A c \in Literals \cup {Unknown} : <<[env EXCEPT ![s.x] = c], Append(s.body, s)>> \in Puts(s, env)
    BY <2>1 DEF Puts
  <2>5. CASE env' = env /\ todo' = <<>> \o Tail(todo)
    BY <1>1, <1>13, <2>3, <2>5 DEF DoFor
  <2>6. CASE \E c \in Literals \cup {Unknown} : env' = [env EXCEPT ![s.x] = c] /\ todo' = Append(s.body, s) \o Tail(todo)
    <3>1. PICK c \in Literals \cup {Unknown} : env' = [env EXCEPT ![s.x] = c] /\ todo' = Append(s.body, s) \o Tail(todo)
      BY <2>6
    <3> DEFINE d == <<[env EXCEPT ![s.x] = c], Append(s.body, s)>>
    <3>2. d \in Puts(s, env) /\ env' = d[1] /\ todo' = d[2] \o Tail(todo)
      BY <2>4, <3>1
    <3> HIDE DEF d
    <3>3. <<env', todo'>> \in Succ(<<env, todo>>)
      BY <1>1, <3>2
    <3>4. QED
      BY <1>13, <3>3 DEF DoFor
  <2>7. QED
    BY <2>2, <2>5, <2>6
<1>14. CASE DoCase
  <2>1. s.op = "case"
    BY <1>14 DEF DoCase, At
  <2>2. PICK l \in ToSet(s.items) \cup {<<>>} : todo' = l \o Tail(todo)
    BY <1>14 DEF DoCase, Continue, Top
  <2>3. <<env, l>> \in Puts(s, env)
    BY <2>1 DEF Puts
  <2>4. QED
    BY <1>1, <1>14, <2>2, <2>3 DEF DoCase
<1>15. CASE DoBlock
  <2>1. s.op = "block"
    BY <1>15 DEF DoBlock, At
  <2>2. <<env, s.body>> \in Puts(s, env)
    BY <2>1 DEF Puts
  <2>3. QED
    BY <1>1, <1>15, <2>2 DEF DoBlock, Continue, Top
<1>16. CASE DoSubshell
  <2>1. s.op = "subshell"
    BY <1>16 DEF DoSubshell, At
  <2>2. <<env, Append(s.body, [op |-> "leave", env |-> env])>> \in Puts(s, env)
    BY <2>1 DEF Puts
  <2>3. QED
    BY <1>1, <1>16, <2>2 DEF DoSubshell, Continue, Top
<1>17. CASE DoLeave
  <2>1. s.op = "leave"
    BY <1>17 DEF DoLeave, At
  <2>2. <<s.env, <<>>>> \in Puts(s, env)
    BY <2>1 DEF Puts
  <2>3. QED
    BY <1>1, <1>17, <2>2 DEF DoLeave, Continue, Top
<1>18. QED
  BY <1>4, <1>5, <1>6, <1>7, <1>8, <1>9, <1>10, <1>11, <1>12, <1>13, <1>14, <1>15, <1>16, <1>17 DEF Next, Done

(* From where the shell is, every way on is covered and ends where the        *)
(* verdict says; so has everything been so far.                               *)
ShellInv ==
    verdict.ok /\ ~verdict.blind =>
        /\ Within(<<env, todo>>, Exits(<<>>, verdict.known), verdict)
        /\ started \subseteq verdict.words
        /\ piped => verdict.found

LEMMA ShellInvInit == Init => ShellInv
<1> SUFFICES ASSUME Init, verdict.ok, ~verdict.blind
             PROVE  /\ Within(<<env, todo>>, Exits(<<>>, verdict.known), verdict)
                    /\ started \subseteq verdict.words
                    /\ piped => verdict.found
  BY DEF ShellInv
<1>1. program \in Programs /\ todo = program /\ verdict = Analysis(program) /\ env \in Env
  BY ShellAssumption DEF Init, Env
<1>2. Within(<<env, program>>, Exits(<<>>, Analysis(program).known), Analysis(program))
  BY <1>1, AnalysisCorrect
<1>3. QED
  BY <1>1, <1>2 DEF Init

LEMMA ShellInvNext == ShellInv /\ [Next]_vars => ShellInv'
<1> SUFFICES ASSUME ShellInv, [Next]_vars PROVE ShellInv'
  OBVIOUS
<1>1. CASE todo = <<>>
  <2>1. UNCHANGED vars
    BY <1>1 DEF Next, vars, Done, DoAssign, DoAppend, DoCall, DoAndOr, DoPipe, DoIf, DoTest, DoWhile, DoAgain, DoFor,
                DoCase, DoBlock, DoSubshell, DoLeave, At
  <2>2. QED
    BY <2>1 DEF vars, ShellInv
<1>2. CASE todo /= <<>> /\ Next
  <2>1. UNCHANGED <<program, verdict>>
    BY <1>2, StepIs
  <2> SUFFICES ASSUME verdict.ok, ~verdict.blind
               PROVE  /\ Within(<<env', todo'>>, Exits(<<>>, verdict.known), verdict)
                      /\ started' \subseteq verdict.words
                      /\ piped' => verdict.found
    BY <2>1 DEF ShellInv
  <2> DEFINE c == <<env, todo>>
             T == Exits(<<>>, verdict.known)
  <2>2. c \notin T
    BY <1>2 DEF Exits
  <2>3. Within(c, T, verdict) /\ started \subseteq verdict.words /\ (piped => verdict.found)
    BY DEF ShellInv
  <2>4. Covered(c, verdict) /\ \A d \in Succ(c) : Within(d, T, verdict)
    <3> HIDE DEF c, T
    <3>1. QED
      BY <2>2, <2>3, WithinStep
  <2>5. Shows(Head(todo), env, verdict)
    BY <2>4 DEF Covered
  <2>6. Within(<<env', todo'>>, T, verdict)
    BY <1>2, <2>4, StepIs
  <2>7. started' \subseteq verdict.words
    BY <1>2, <2>3, <2>5, StepIs DEF Shows
  <2>8. piped' => verdict.found
    BY <1>2, <2>3, <2>5, StepIs DEF Shows
  <2>9. QED
    BY <2>6, <2>7, <2>8
<1>3. CASE UNCHANGED vars
  BY <1>3 DEF vars, ShellInv
<1>4. QED
  BY <1>1, <1>2, <1>3

(* Wherever the shell is in the program, the analysis has foreseen what it    *)
(* does from there on (resolveStmts and all that it calls).                   *)
THEOREM ShellInvariant == Spec => []ShellInv
<1>1. QED
  BY ShellInvInit, ShellInvNext, PTL DEF Spec

(* A run starts no command whose word is not in the text the signatures are   *)
(* matched on, and pipes nothing fetched into an interpreter unfound, unless  *)
(* the analysis gave up or the program does one of the four things it does    *)
(* not follow (blind: a for over a name it knows, a known name changed behind *)
(* && or || or in a pipe, X=v $X, a condition of while that comes to          *)
(* something else in a later round): whatever else the program does, the      *)
(* environment it starts in and the limits of the analysis (resolveLoopBody,  *)
(* resolveMayNotExecute, safeCloneEnv).                                       *)
THEOREM RunsCovered == Spec => []CoversRuns
<1>1. ShellInv => CoversRuns
  BY DEF ShellInv, CoversRuns
<1>2. QED
  BY <1>1, ShellInvariant, PTL

(* What the analysis believes of a variable at the end (r.env after           *)
(* resolveStmts) is true of every run of the program, unless it gave up or    *)
(* the program does one of the four things of RunsCovered.                    *)
THEOREM BeliefsHold == Spec => []BeliefsTrue
<1>1. ASSUME ShellInv, todo = <<>>, verdict.ok, ~verdict.blind PROVE \A x \in Vars : verdict.known[x] \in {Unknown, env[x]}
  <2>1. Within(<<env, <<>>>>, Exits(<<>>, verdict.known), verdict)
    BY <1>1 DEF ShellInv
  <2>2. <<env, <<>>>> \in Exits(<<>>, verdict.known)
    BY <2>1, WithinStep DEF Covered
  <2>3. QED
    BY <2>2 DEF Exits, Fits
<1>2. ShellInv => BeliefsTrue
  BY <1>1 DEF BeliefsTrue
<1>3. QED
  BY <1>2, ShellInvariant, PTL

(* ---------------------------------- the reply -------------------------------- *)

(* --------------------- the recursive functions of a reply ------------------ *)

ScanState == [depth : Int, inString : BOOLEAN, escaped : BOOLEAN]
Inside(depth, escaped) == [depth |-> depth, inString |-> TRUE, escaped |-> escaped]

LEMMA BracesIs == \A d \in Int : \A c : Braces(d, c) \in Int
  BY DEF Braces

LEMMA StepIn == \A s \in ScanState : \A c : Step(s, c) \in ScanState
  BY BracesIs DEF Step, ScanState

LEMMA OutsideIn == \A d \in Int : Outside(d) \in ScanState
  BY DEF Outside, ScanState

LEMMA StepOutside == \A d \in Int : \A c :
    Step(Outside(d), c) = IF c = Quote THEN Inside(d, FALSE) ELSE Outside(Braces(d, c))
<1>1. \A d \in Int : \A c : c = Quote => Step(Outside(d), c) = Inside(d, FALSE)
  BY DEF Step, Outside, Inside, Braces, Quote
<1>2. \A d \in Int : \A c : c /= Quote => Step(Outside(d), c) = Outside(Braces(d, c))
  BY DEF Step, Outside, Quote
<1>3. QED
  BY <1>1, <1>2

LEMMA StepInside == \A d \in Int, e \in BOOLEAN : \A c :
    Step(Inside(d, e), c) = IF ~e /\ c = Quote THEN Outside(d) ELSE Inside(d, ~e /\ c = Escape)
<1>1. \A d \in Int, e \in BOOLEAN : \A c : ~e /\ c = Quote => Step(Inside(d, e), c) = Outside(d)
  BY DEF Step, Outside, Inside, Quote, Escape
<1>2. \A d \in Int, e \in BOOLEAN : \A c : ~(~e /\ c = Quote) => Step(Inside(d, e), c) = Inside(d, ~e /\ c = Escape)
  <2> SUFFICES ASSUME NEW d \in Int, NEW e \in BOOLEAN, NEW c, e \/ c /= Quote
               PROVE  Step(Inside(d, e), c) = Inside(d, ~e /\ c = Escape)
    OBVIOUS
  <2>1. Inside(d, e).inString = TRUE /\ Inside(d, e).escaped = e
    BY DEF Inside
  <2>2. Step(Inside(d, e), c) = [Inside(d, e) EXCEPT !.escaped = ~e /\ c = Escape, !.inString = e \/ c /= Quote]
    BY <2>1 DEF Step
  <2>3. (e \/ c /= Quote) = TRUE
    OBVIOUS
  <2>4. Step(Inside(d, e), c) = [Inside(d, e) EXCEPT !.escaped = ~e /\ c = Escape, !.inString = TRUE]
    BY <2>2, <2>3
  <2>5. QED
    BY <2>4 DEF Inside
<1>3. QED
  BY <1>1, <1>2

IsScan(f, text, start) ==
    f = [k \in 0..(Len(text) - start + 1) |-> IF k = 0 THEN Outside(0) ELSE Step(f[k - 1], text[start + k - 1])]

LEMMA ScanIs ==
    ASSUME NEW text \in Seq(Symbols), NEW start \in 1..(Len(text) + 1)
    PROVE  /\ Scan(text, start) \in [0..(Len(text) - start + 1) -> ScanState]
           /\ Scan(text, start)[0] = Outside(0)
           /\ \A k \in 1..(Len(text) - start + 1) :
                Scan(text, start)[k] = Step(Scan(text, start)[k - 1], text[start + k - 1])
<1> DEFINE m == Len(text) - start + 1
           F == [k \in 1..m |-> [s \in ScanState |-> Step(s, text[start + k - 1])]]
<1>1. m \in Nat /\ \A k \in 1..m : k - 1 \in 0..m
  OBVIOUS
<1>2. F \in [1..m -> [ScanState -> ScanState]]
  BY StepIn
<1>3. Outside(0) \in ScanState
  BY OutsideIn
<1>4. PICK f \in [0..m -> ScanState] : Goes(f, Outside(0), F, m)
  <2> HIDE DEF m, F
  <2>1. QED
    BY <1>1, <1>2, <1>3, TableIn
<1>40. f[0] = Outside(0) /\ \A k \in 1..m : f[k] = F[k][f[k - 1]]
  <2> HIDE DEF m, F
  <2>1. QED
    BY <1>4 DEF Goes
<1>5. \A k \in 1..m : f[k] = Step(f[k - 1], text[start + k - 1])
  <2> SUFFICES ASSUME NEW k \in 1..m PROVE f[k] = Step(f[k - 1], text[start + k - 1])
    OBVIOUS
  <2>1. k - 1 \in 0..m /\ f[k] = F[k][f[k - 1]]
    BY <1>1, <1>40
  <2>2. f[k - 1] \in ScanState
    BY <2>1, <1>4
  <2>3. QED
    BY <2>1, <2>2
<1>6. IsScan(f, text, start)
  <2> DEFINE h == [k \in 0..m |-> IF k = 0 THEN Outside(0) ELSE Step(f[k - 1], text[start + k - 1])]
  <2>1. \A k \in 0..m : h[k] = f[k]
    BY <1>1, <1>40, <1>5
  <2>2. h = [k \in 0..m |-> f[k]]
    <3>1. h = [k \in 0..m |-> h[k]]
      OBVIOUS
    <3> HIDE DEF h
    <3>2. QED
      BY <2>1, <3>1
  <2>3. f = [k \in 0..m |-> f[k]]
    BY <1>4
  <2>4. f = h
    BY <2>2, <2>3
  <2>5. QED
    BY <2>4 DEF IsScan
<1>7. Scan(text, start) = CHOOSE g : IsScan(g, text, start)
  BY DEF Scan, IsScan
<1>8. IsScan(Scan(text, start), text, start)
  BY <1>6, <1>7
<1> DEFINE s == Scan(text, start)
<1>9. s = [k \in 0..m |-> IF k = 0 THEN Outside(0) ELSE Step(s[k - 1], text[start + k - 1])]
  BY <1>8 DEF IsScan
<1>10. s[0] = Outside(0) /\ \A k \in 1..m : s[k] = Step(s[k - 1], text[start + k - 1])
  <2> HIDE DEF s
  <2> DEFINE h == [k \in 0..m |-> IF k = 0 THEN Outside(0) ELSE Step(s[k - 1], text[start + k - 1])]
  <2>1. h[0] = Outside(0) /\ \A k \in 1..m : h[k] = Step(s[k - 1], text[start + k - 1])
    BY <1>1
  <2>2. QED
    BY <1>9, <2>1
<1> DEFINE S == {k \in Nat : k <= m => s[k] \in ScanState}
<1>11. 0 \in S
  BY <1>3, <1>10
<1>12. ASSUME NEW k \in Nat, k \in S PROVE k + 1 \in S
  <2> SUFFICES ASSUME k + 1 <= m PROVE s[k + 1] \in ScanState
    OBVIOUS
  <2>1. k + 1 \in 1..m /\ (k + 1) - 1 = k /\ s[k] \in ScanState
    BY <1>12
  <2> HIDE DEF s
  <2>2. s[k + 1] = Step(s[k], text[start + (k + 1) - 1])
    BY <1>10, <2>1
  <2>3. QED
    BY <2>1, <2>2, StepIn
<1>13. \A k \in 0..m : s[k] \in ScanState
  <2> HIDE DEF S
  <2>1. Nat \subseteq S
    BY <1>11, <1>12, Inductive
  <2>2. QED
    BY <2>1 DEF S
<1>14. s = [k \in 0..m |-> s[k]]
  <2> DEFINE h == [k \in 0..m |-> IF k = 0 THEN Outside(0) ELSE Step(s[k - 1], text[start + k - 1])]
  <2>1. h = [k \in 0..m |-> h[k]]
    OBVIOUS
  <2>2. s = h
    BY <1>9
  <2> HIDE DEF h, s
  <2>3. QED
    BY <2>1, <2>2
<1>15. s \in [0..m -> ScanState]
  <2> HIDE DEF s
  <2>1. QED
    BY <1>13, <1>14
<1>16. QED
  BY <1>10, <1>15

(* Where two texts agree the scan does.                                       *)
LEMMA ScansAgree ==
    ASSUME NEW s \in Seq(Symbols), NEW t \in Seq(Symbols), NEW i \in 1..(Len(s) + 1), NEW j \in 1..(Len(t) + 1),
           NEW m \in Nat, m <= Len(s) - i + 1, m <= Len(t) - j + 1,
           \A k \in 1..m : s[i + k - 1] = t[j + k - 1]
    PROVE  \A k \in 0..m : Scan(s, i)[k] = Scan(t, j)[k]
<1> DEFINE S == {k \in Nat : k <= m => Scan(s, i)[k] = Scan(t, j)[k]}
<1>1. 0 \in S
  BY ScanIs
<1>2. ASSUME NEW k \in Nat, k \in S PROVE k + 1 \in S
  <2> SUFFICES ASSUME k + 1 <= m PROVE Scan(s, i)[k + 1] = Scan(t, j)[k + 1]
    OBVIOUS
  <2>1. /\ k + 1 \in 1..(Len(s) - i + 1) /\ k + 1 \in 1..(Len(t) - j + 1) /\ (k + 1) - 1 = k /\ k + 1 \in 1..m
        /\ Scan(s, i)[k] = Scan(t, j)[k]
    BY <1>2
  <2>2. Scan(s, i)[k + 1] = Step(Scan(s, i)[k], s[i + (k + 1) - 1])
    BY <2>1, ScanIs
  <2>3. Scan(t, j)[k + 1] = Step(Scan(t, j)[k], t[j + (k + 1) - 1])
    BY <2>1, ScanIs
  <2>4. QED
    BY <2>1, <2>2, <2>3
<1>3. QED
  <2> HIDE DEF S
  <2>1. Nat \subseteq S
    BY <1>1, <1>2, Inductive
  <2>2. QED
    BY <2>1 DEF S

(* A string's escapes.                                                        *)
IsEscapes(f, content) ==
    f = [k \in 0..Len(content) |-> k > 0 /\ content[k] = Escape /\ ~f[k - 1]]

LEMMA EscapesIs ==
    ASSUME NEW content \in Seq(Symbols)
    PROVE  /\ Escapes(content) \in [0..Len(content) -> BOOLEAN]
           /\ Escapes(content)[0] = FALSE
           /\ \A k \in 1..Len(content) :
                Escapes(content)[k] = (content[k] = Escape /\ ~Escapes(content)[k - 1])
<1> DEFINE m == Len(content)
           F == [k \in 1..m |-> [b \in BOOLEAN |-> content[k] = Escape /\ ~b]]
<1>1. m \in Nat /\ FALSE \in BOOLEAN
  OBVIOUS
<1>2. F \in [1..m -> [BOOLEAN -> BOOLEAN]]
  OBVIOUS
<1>3. PICK f \in [0..m -> BOOLEAN] : Goes(f, FALSE, F, m)
  <2> HIDE DEF m, F
  <2>1. QED
    BY <1>1, <1>2, TableIn
<1>4. f[0] = FALSE /\ \A k \in 1..m : f[k] = F[k][f[k - 1]]
  <2> HIDE DEF m, F
  <2>1. QED
    BY <1>3 DEF Goes
<1>5. \A k \in 1..m : f[k] = (content[k] = Escape /\ ~f[k - 1])
  <2> SUFFICES ASSUME NEW k \in 1..m PROVE f[k] = (content[k] = Escape /\ ~f[k - 1])
    OBVIOUS
  <2>1. k - 1 \in 0..m
    BY <1>1
  <2>2. f[k - 1] \in BOOLEAN
    BY <2>1
  <2>3. f[k] = F[k][f[k - 1]]
    BY <1>4
  <2>4. QED
    BY <2>2, <2>3
<1>6. IsEscapes(f, content)
  <2> DEFINE h == [k \in 0..m |-> k > 0 /\ content[k] = Escape /\ ~f[k - 1]]
  <2>1. \A k \in 0..m : h[k] = f[k]
    <3> SUFFICES ASSUME NEW k \in 0..m PROVE h[k] = f[k]
      OBVIOUS
    <3>1. CASE k = 0
      BY <1>4, <3>1
    <3>2. CASE k \in 1..m
      <4>1. h[k] = (content[k] = Escape /\ ~f[k - 1])
        BY <3>2
      <4>2. QED
        BY <4>1, <1>5, <3>2
    <3>3. QED
      BY <3>1, <3>2
  <2>2. h = [k \in 0..m |-> f[k]]
    <3>1. h = [k \in 0..m |-> h[k]]
      OBVIOUS
    <3> HIDE DEF h
    <3>2. QED
      BY <2>1, <3>1
  <2>3. f = [k \in 0..m |-> f[k]]
    OBVIOUS
  <2>4. f = h
    BY <2>2, <2>3
  <2>5. QED
    BY <2>4 DEF IsEscapes
<1>7. Escapes(content) = CHOOSE g : IsEscapes(g, content)
  BY DEF Escapes, IsEscapes
<1>8. IsEscapes(Escapes(content), content)
  BY <1>6, <1>7
<1> DEFINE s == Escapes(content)
<1>9. s = [k \in 0..m |-> k > 0 /\ content[k] = Escape /\ ~s[k - 1]]
  BY <1>8 DEF IsEscapes
<1> HIDE DEF s
<1> DEFINE h == [k \in 0..m |-> k > 0 /\ content[k] = Escape /\ ~s[k - 1]]
<1>10. h \in [0..m -> BOOLEAN] /\ h[0] = FALSE /\ \A k \in 1..m : h[k] = (content[k] = Escape /\ ~s[k - 1])
  <2>1. m \in Nat
    OBVIOUS
  <2> HIDE DEF m, s
  <2>2. \A k \in 0..m : (k > 0 /\ content[k] = Escape /\ ~s[k - 1]) \in BOOLEAN
    OBVIOUS
  <2>3. h \in [0..m -> BOOLEAN]
    BY <2>2
  <2>4. h[0] = FALSE
    BY <2>1
  <2>5. \A k \in 1..m : h[k] = (content[k] = Escape /\ ~s[k - 1])
    <3> SUFFICES ASSUME NEW k \in 1..m PROVE h[k] = (content[k] = Escape /\ ~s[k - 1])
      OBVIOUS
    <3>1. k \in 0..m /\ k > 0
      BY <2>1
    <3>2. QED
      BY <3>1
  <2>6. QED
    BY <2>3, <2>4, <2>5
<1>11. s = h
  BY <1>9
<1> HIDE DEF h
<1>12. QED
  BY <1>10, <1>11 DEF s

(* The nesting of parts.                                                      *)
IsDepths(f, parts) ==
    f = [k \in 0..Len(parts) |->
          IF k = 0 THEN 0 ELSE IF Len(parts[k]) = 1 THEN Braces(f[k - 1], parts[k][1]) ELSE f[k - 1]]
Deeper(depth, p) == IF Len(p) = 1 THEN Braces(depth, p[1]) ELSE depth

LEMMA DeeperIn == \A d \in Int : \A p : Deeper(d, p) \in Int
  BY BracesIs DEF Deeper

LEMMA DepthsIs ==
    ASSUME NEW parts, Len(parts) \in Nat
    PROVE  /\ Depths(parts) \in [0..Len(parts) -> Int]
           /\ Depths(parts)[0] = 0
           /\ \A k \in 1..Len(parts) : Depths(parts)[k] = Deeper(Depths(parts)[k - 1], parts[k])
<1> DEFINE m == Len(parts)
           F == [k \in 1..m |-> [d \in Int |-> Deeper(d, parts[k])]]
<1>1. m \in Nat /\ 0 \in Int
  OBVIOUS
<1>2. F \in [1..m -> [Int -> Int]]
  BY DeeperIn
<1>3. PICK f \in [0..m -> Int] : Goes(f, 0, F, m)
  <2> HIDE DEF m, F
  <2>1. QED
    BY <1>1, <1>2, TableIn
<1>4. f[0] = 0 /\ \A k \in 1..m : f[k] = F[k][f[k - 1]]
  <2> HIDE DEF m, F
  <2>1. QED
    BY <1>3 DEF Goes
<1>5. \A k \in 1..m : f[k] = Deeper(f[k - 1], parts[k])
  <2> SUFFICES ASSUME NEW k \in 1..m PROVE f[k] = Deeper(f[k - 1], parts[k])
    OBVIOUS
  <2>1. k - 1 \in 0..m
    BY <1>1
  <2>2. f[k - 1] \in Int
    BY <2>1
  <2>3. f[k] = F[k][f[k - 1]]
    BY <1>4
  <2>4. QED
    BY <2>2, <2>3
<1>6. IsDepths(f, parts)
  <2> DEFINE h == [k \in 0..m |-> IF k = 0 THEN 0 ELSE Deeper(f[k - 1], parts[k])]
  <2>1. \A k \in 0..m : h[k] = f[k]
    BY <1>1, <1>4, <1>5
  <2>2. h = [k \in 0..m |-> f[k]]
    <3>1. h = [k \in 0..m |-> h[k]]
      OBVIOUS
    <3> HIDE DEF h
    <3>2. QED
      BY <2>1, <3>1
  <2>3. f = [k \in 0..m |-> f[k]]
    OBVIOUS
  <2>4. f = h
    BY <2>2, <2>3
  <2>5. QED
    BY <2>4 DEF IsDepths, Deeper
<1>7. Depths(parts) = CHOOSE g : IsDepths(g, parts)
  BY DEF Depths, IsDepths
<1>8. IsDepths(Depths(parts), parts)
  BY <1>6, <1>7
<1> DEFINE s == Depths(parts)
           h == [k \in 0..m |-> IF k = 0 THEN 0 ELSE Deeper(s[k - 1], parts[k])]
<1>9. s = h
  BY <1>8 DEF IsDepths, Deeper
<1> HIDE DEF s
<1>10. h[0] = 0 /\ \A k \in 1..m : h[k] = Deeper(s[k - 1], parts[k])
  BY <1>1
<1>11. s[0] = 0 /\ (\A k \in 1..m : s[k] = Deeper(s[k - 1], parts[k])) /\ s = [k \in 0..m |-> s[k]]
  <2>1. h = [k \in 0..m |-> h[k]]
    OBVIOUS
  <2> HIDE DEF h
  <2>2. QED
    BY <1>9, <1>10, <2>1
<1> DEFINE S == {k \in Nat : k <= m => s[k] \in Int}
<1>12. 0 \in S
  BY <1>11
<1>13. ASSUME NEW k \in Nat, k \in S PROVE k + 1 \in S
  <2> SUFFICES ASSUME k + 1 <= m PROVE s[k + 1] \in Int
    OBVIOUS
  <2>1. k + 1 \in 1..m /\ (k + 1) - 1 = k /\ s[k] \in Int
    BY <1>13
  <2>2. s[k + 1] = Deeper(s[k], parts[k + 1])
    BY <1>11, <2>1
  <2>3. QED
    BY <2>1, <2>2, DeeperIn
<1>14. \A k \in 0..m : s[k] \in Int
  <2> HIDE DEF S
  <2>1. Nat \subseteq S
    BY <1>12, <1>13, Inductive
  <2>2. QED
    BY <2>1 DEF S
<1>15. s \in [0..m -> Int]
  BY <1>11, <1>14
<1>16. QED
  BY <1>11, <1>15 DEF s

(* ------------------------------ scanning an object -------------------------- *)

Text == Seq(Symbols)

(* Through a part: every depth on the way is that at its end.                 *)
LEMMA PartScanned ==
    ASSUME NEW s \in Text, NEW p, IsPart(p), NEW d \in Int, Scan(s, 1)[Len(s)] = Outside(d)
    PROVE  /\ s \o p \in Text /\ Len(s \o p) = Len(s) + Len(p) /\ Len(p) \in Nat /\ Len(p) > 0
           /\ \A k \in 0..Len(s) : Scan(s \o p, 1)[k] = Scan(s, 1)[k]
           /\ \A k \in (Len(s) + 1)..(Len(s) + Len(p)) : Scan(s \o p, 1)[k].depth = Deeper(d, p)
           /\ Scan(s \o p, 1)[Len(s) + Len(p)] = Outside(Deeper(d, p))
<1> DEFINE t == s \o p
           g == Len(s)
           n == Len(p)
           f == Scan(t, 1)
<1>1. /\ p \in Text /\ n \in Nat /\ n > 0 /\ g \in Nat
  BY DEF IsPart, Text
<1>2. /\ t \in Text /\ Len(t) = g + n /\ g + n \in Nat
      /\ \A k \in 1..g : t[k] = s[k]
      /\ \A k \in 1..n : t[g + k] = p[k]
  BY <1>1, ConcatIs DEF Text
<1>3. \A k \in 0..g : f[k] = Scan(s, 1)[k]
  <2>1. /\ 1 \in 1..(Len(t) + 1) /\ 1 \in 1..(Len(s) + 1) /\ g <= Len(t) - 1 + 1 /\ g <= Len(s) - 1 + 1
        /\ \A k \in 1..g : t[1 + k - 1] = s[1 + k - 1]
    BY <1>1, <1>2
  <2> HIDE DEF t, g
  <2>2. QED
    BY <1>1, <1>2, <2>1, ScansAgree DEF Text
<1>4. \A k \in 1..n : f[g + k] = Step(f[g + k - 1], p[k])
  <2>1. \A i \in 1..(Len(t) - 1 + 1) : f[i] = Step(f[i - 1], t[1 + i - 1])
    <3>1. 1 \in 1..(Len(t) + 1)
      BY <1>1, <1>2
    <3> HIDE DEF t, g
    <3>2. QED
      BY <1>2, <3>1, ScanIs DEF Text
  <2> HIDE DEF f, t
  <2> SUFFICES ASSUME NEW k \in 1..n PROVE f[g + k] = Step(f[g + k - 1], p[k])
    OBVIOUS
  <2> DEFINE i == g + k
  <2>2. i \in 1..(Len(t) - 1 + 1) /\ 1 + i - 1 = i
    BY <1>1, <1>2
  <2>3. t[i] = p[k]
    BY <1>2
  <2> HIDE DEF i
  <2>4. f[i] = Step(f[i - 1], t[i])
    BY <2>1, <2>2
  <2>5. f[i] = Step(f[i - 1], p[k])
    BY <2>3, <2>4
  <2>6. QED
    BY <2>5 DEF i
<1>5. f[g] = Outside(d) /\ g + 1 - 1 = g
  BY <1>1, <1>3
<1> HIDE DEF f, t
<1>6. CASE p[1] /= Quote
  <2>1. n = 1
    BY <1>6 DEF IsPart
  <2>2. f[g + 1] = Step(Outside(d), p[1])
    BY <1>4, <1>5, <2>1
  <2>3. f[g + 1] = Outside(Deeper(d, p))
    BY <1>6, <2>1, <2>2, StepOutside DEF Deeper
  <2>4. \A k \in (g + 1)..(g + n) : k = g + 1
    BY <1>1, <2>1
  <2>5. f[g + 1].depth = Deeper(d, p)
    BY <2>3 DEF Outside
  <2>6. QED
    BY <1>1, <1>2, <1>3, <2>1, <2>3, <2>4, <2>5 DEF f, t
<1>7. CASE p[1] = Quote
  <2> DEFINE c == SubSeq(p, 2, n - 1)
             m == n - 2
             e == Escapes(c)
  <2>1. n > 1 /\ p[n] = Quote /\ IsContent(c) /\ Deeper(d, p) = d
    BY <1>7 DEF IsPart, Last, Deeper
  <2>2. c \in Text /\ Len(c) = m /\ m \in Nat /\ \A k \in 1..m : c[k] = p[k + 1]
    <3>1. 1 <= 2 /\ n - 1 <= Len(p) /\ 2 \in Int /\ n - 1 \in Int
      BY <1>1, <2>1
    <3>2. /\ c \in Seq(Symbols) /\ Len(c) = IF 2 <= n - 1 THEN (n - 1) - 2 + 1 ELSE 0
          /\ \A k \in 1..((n - 1) - 2 + 1) : c[k] = p[2 + k - 1]
      BY <1>1, <3>1, Subs DEF Text
    <3>3. (n - 1) - 2 + 1 = m /\ m \in Nat
      BY <1>1, <2>1
    <3>4. \A k \in 1..m : 2 + k - 1 = k + 1
      BY <3>3
    <3>5. Len(c) = m
      <4> HIDE DEF c
      <4>1. CASE 2 <= n - 1
        BY <1>1, <3>2, <3>3, <4>1
      <4>2. CASE ~(2 <= n - 1)
        <5>1. Len(c) = 0
          BY <3>2, <4>2
        <5> HIDE DEF n
        <5>2. n - 2 = 0
          BY <1>1, <2>1, <4>2
        <5>3. QED
          BY <5>1, <5>2
      <4>3. QED
        BY <4>1, <4>2
    <3> HIDE DEF c, m
    <3>6. QED
      BY <3>2, <3>3, <3>4, <3>5 DEF Text
  <2>3. /\ e \in [0..m -> BOOLEAN] /\ e[0] = FALSE /\ \A k \in 1..m : e[k] = (c[k] = Escape /\ ~e[k - 1])
    <3> HIDE DEF c
    <3>1. QED
      BY <2>2, EscapesIs DEF Text
  <2>4. (\A k \in 1..m : c[k] = Quote => e[k - 1]) /\ ~e[m]
    <3> HIDE DEF c
    <3>1. QED
      BY <2>1, <2>2 DEF IsContent
  <2> HIDE DEF c, e
  <2> DEFINE S == {k \in Nat : k <= m => f[g + 1 + k] = Inside(d, e[k])}
  <2>5. 0 \in S
    <3>1. f[g + 1] = Step(Outside(d), Quote)
      BY <1>1, <1>4, <1>5, <1>7
    <3>2. f[g + 1] = Inside(d, FALSE)
      BY <3>1, StepOutside
    <3>3. g + 1 + 0 = g + 1
      BY <1>1
    <3>4. QED
      BY <2>3, <3>2, <3>3
  <2>6. ASSUME NEW k \in Nat, k \in S PROVE k + 1 \in S
    <3> SUFFICES ASSUME k + 1 <= m PROVE f[g + 1 + (k + 1)] = Inside(d, e[k + 1])
      OBVIOUS
    <3>1. /\ k + 1 \in 1..m /\ k \in 0..m /\ (k + 1) - 1 = k /\ f[g + 1 + k] = Inside(d, e[k])
          /\ k + 2 \in 1..n /\ g + (k + 2) = g + 1 + (k + 1) /\ g + (k + 2) - 1 = g + 1 + k /\ (k + 1) + 1 = k + 2
      BY <1>1, <2>2, <2>6
    <3>2. f[g + 1 + (k + 1)] = Step(Inside(d, e[k]), c[k + 1])
      BY <1>4, <2>2, <3>1
    <3>3. e[k] \in BOOLEAN /\ ~(~e[k] /\ c[k + 1] = Quote)
      BY <2>3, <2>4, <3>1
    <3>4. f[g + 1 + (k + 1)] = Inside(d, ~e[k] /\ c[k + 1] = Escape)
      BY <3>2, <3>3, StepInside
    <3>5. e[k + 1] = (~e[k] /\ c[k + 1] = Escape)
      BY <2>3, <3>1
    <3>6. QED
      BY <3>4, <3>5
  <2>7. \A k \in 0..m : f[g + 1 + k] = Inside(d, e[k])
    <3> HIDE DEF S
    <3>1. Nat \subseteq S
      BY <2>5, <2>6, Inductive
    <3>2. QED
      BY <3>1 DEF S
  <2>8. f[g + n] = Outside(d)
    <3>1. n \in 1..n /\ m \in 0..m /\ g + n - 1 = g + 1 + m
      BY <1>1, <2>2
    <3>2. f[g + n] = Step(Inside(d, e[m]), Quote)
      BY <1>4, <2>1, <2>7, <3>1
    <3>3. e[m] = FALSE
      BY <2>3, <2>4, <3>1
    <3>4. QED
      BY <3>2, <3>3, StepInside
  <2>9. \A k \in (g + 1)..(g + n) : f[k].depth = d
    <3> SUFFICES ASSUME NEW k \in (g + 1)..(g + n) PROVE f[k].depth = d
      OBVIOUS
    <3>1. CASE k = g + n
      BY <2>8, <3>1 DEF Outside
    <3>2. CASE k /= g + n
      <4>1. k - g - 1 \in 0..m /\ g + 1 + (k - g - 1) = k
        <5> HIDE DEF g, n
        <5>1. g \in Nat /\ n \in Nat /\ k \in (g + 1)..(g + n) /\ k /= g + n
          BY <1>1, <3>2
        <5>2. QED
          BY <5>1
      <4>2. f[k] = Inside(d, e[k - g - 1])
        BY <2>7, <4>1
      <4>3. QED
        BY <4>2 DEF Inside
    <3>3. QED
      BY <3>1, <3>2
  <2>10. QED
    BY <1>1, <1>2, <1>3, <2>1, <2>8, <2>9 DEF f, t
<1>8. QED
  BY <1>6, <1>7

(* ------------------------------- how parts nest ------------------------------ *)

LEMMA BracesShift == \A a, b \in Int : \A c : Braces(a + b, c) = a + Braces(b, c)
<1> SUFFICES ASSUME NEW a \in Int, NEW b \in Int, NEW c PROVE Braces(a + b, c) = a + Braces(b, c)
  OBVIOUS
<1>1. CASE c = "{"
  <2>1. Braces(a + b, c) = (a + b) + 1 /\ Braces(b, c) = b + 1
    BY <1>1 DEF Braces
  <2>2. QED
    BY <2>1
<1>2. CASE c = "}"
  <2>1. Braces(a + b, c) = (a + b) - 1 /\ Braces(b, c) = b - 1
    BY <1>2 DEF Braces
  <2>2. QED
    BY <2>1
<1>3. CASE c /= "{" /\ c /= "}"
  <2>1. Braces(a + b, c) = a + b /\ Braces(b, c) = b
    BY <1>3 DEF Braces
  <2>2. QED
    BY <2>1
<1>4. QED
  BY <1>1, <1>2, <1>3

LEMMA FirstOf == \A R, x : <<x>> \in Seq(R) => x \in R
<1> SUFFICES ASSUME NEW R, NEW x, <<x>> \in Seq(R) PROVE x \in R
  OBVIOUS
<1>1. <<x>>[1] = x /\ 1 \in 1..Len(<<x>>)
  OBVIOUS
<1>2. QED
  BY <1>1

LEMMA TwoIs == \A R : \A s, t \in Seq(R) : Len(s) = 1 /\ Len(t) = 1 => s \o t = <<s[1], t[1]>>
<1> SUFFICES ASSUME NEW R, NEW s \in Seq(R), NEW t \in Seq(R), Len(s) = 1, Len(t) = 1
             PROVE  s \o t = <<s[1], t[1]>>
  OBVIOUS
<1>1. /\ s \o t \in Seq(R) /\ Len(s \o t) = 2 /\ (s \o t)[1] = s[1] /\ (s \o t)[2] = t[1]
      /\ s[1] \in R /\ t[1] \in R
  <2>1. s[1] \in R /\ t[1] \in R
    OBVIOUS
  <2>2. s \o t \in Seq(R) /\ Len(s \o t) = 2
    OBVIOUS
  <2>3. (s \o t)[1] = s[1]
    OBVIOUS
  <2>4. (s \o t)[2] = t[1]
    <3> DEFINE u == s \o t
    <3>0. \A i \in 1..Len(s) + Len(t) : u[i] = IF i <= Len(s) THEN s[i] ELSE t[i - Len(s)]
      BY ConcatIs
    <3> HIDE DEF u
    <3>1. \A i \in 1..1 + 1 : u[i] = IF i <= 1 THEN s[i] ELSE t[i - 1]
      BY <3>0
    <3>2. 2 \in 1..1 + 1 /\ ~(2 <= 1) /\ 2 - 1 = 1
      OBVIOUS
    <3>3. u[2] = t[2 - 1]
      BY <3>1, <3>2
    <3>4. QED
      BY <3>2, <3>3 DEF u
  <2>5. QED
    BY <2>1, <2>2, <2>3, <2>4
<1> DEFINE p == <<s[1], t[1]>>
<1>2. p \in Seq(R) /\ Len(p) = 2 /\ p[1] = s[1] /\ p[2] = t[1]
  BY <1>1
<1> HIDE DEF p
<1>3. s \o t = p
  BY <1>1, <1>2
<1>4. QED
  BY <1>3 DEF p

LEMMA DeeperShift == \A a, b \in Int : \A p : Deeper(a + b, p) = a + Deeper(b, p)
  BY BracesShift DEF Deeper

LEMMA DepthsConcat ==
    ASSUME NEW p \in Seq(Text), NEW q \in Seq(Text)
    PROVE  /\ \A k \in 0..Len(p) : Depths(p \o q)[k] = Depths(p)[k] /\ Depths(p)[k] \in Int
           /\ \A j \in 0..Len(q) :
                Depths(p \o q)[Len(p) + j] = Depths(p)[Len(p)] + Depths(q)[j] /\ Depths(q)[j] \in Int
<1> DEFINE t == p \o q
           m == Len(p)
           n == Len(q)
           D == Depths(t)
           A == Depths(p)
           B == Depths(q)
<1>1. /\ m \in Nat /\ n \in Nat /\ t \in Seq(Text) /\ Len(t) = m + n
      /\ \A k \in 1..m : t[k] = p[k]
      /\ \A j \in 1..n : t[m + j] = q[j]
  BY ConcatIs
<1>2. D[0] = 0 /\ \A k \in 1..(m + n) : D[k] = Deeper(D[k - 1], t[k])
  <2>1. Len(t) \in Nat
    BY <1>1
  <2>2. QED
    BY <1>1, <2>1, DepthsIs
<1>3. A \in [0..m -> Int] /\ A[0] = 0 /\ \A k \in 1..m : A[k] = Deeper(A[k - 1], p[k])
  BY <1>1, DepthsIs
<1>4. B \in [0..n -> Int] /\ B[0] = 0 /\ \A k \in 1..n : B[k] = Deeper(B[k - 1], q[k])
  BY <1>1, DepthsIs
<1> HIDE DEF t, m, n, D, A, B
<1> DEFINE S == {k \in Nat : k <= m => D[k] = A[k]}
<1>5. 0 \in S
  BY <1>2, <1>3
<1>6. ASSUME NEW k \in Nat, k \in S PROVE k + 1 \in S
  <2> SUFFICES ASSUME k + 1 <= m PROVE D[k + 1] = A[k + 1]
    OBVIOUS
  <2>0. m \in Nat /\ n \in Nat
    BY <1>1
  <2>1. k + 1 \in 1..m /\ k + 1 \in 1..(m + n) /\ (k + 1) - 1 = k /\ D[k] = A[k]
    BY <2>0, <1>6
  <2>2. QED
    BY <1>1, <1>2, <1>3, <2>1
<1>7. \A k \in 0..m : D[k] = A[k] /\ A[k] \in Int
  <2> HIDE DEF S
  <2>1. Nat \subseteq S
    BY <1>5, <1>6, Inductive
  <2>2. QED
    BY <1>3, <2>1 DEF S
<1> DEFINE T == {j \in Nat : j <= n => D[m + j] = A[m] + B[j]}
<1>8. 0 \in T
  <2>1. m \in 0..m /\ m + 0 = m
    BY <1>1
  <2>2. QED
    BY <1>4, <1>7, <2>1
<1>9. ASSUME NEW j \in Nat, j \in T PROVE j + 1 \in T
  <2> SUFFICES ASSUME j + 1 <= n PROVE D[m + (j + 1)] = A[m] + B[j + 1]
    OBVIOUS
  <2> DEFINE i == m + (j + 1)
  <2>1. /\ j + 1 \in 1..n /\ j \in 0..n /\ i \in 1..(m + n) /\ i - 1 = m + j /\ (j + 1) - 1 = j
        /\ D[m + j] = A[m] + B[j] /\ m \in 0..m
    BY <1>1, <1>9
  <2>2. t[i] = q[j + 1]
    BY <1>1, <2>1
  <2> HIDE DEF i
  <2>3. D[i] = Deeper(A[m] + B[j], q[j + 1])
    BY <1>2, <2>1, <2>2
  <2>4. A[m] \in Int /\ B[j] \in Int
    BY <1>4, <1>7, <2>1
  <2>5. D[i] = A[m] + Deeper(B[j], q[j + 1])
    BY <2>3, <2>4, DeeperShift
  <2>6. B[j + 1] = Deeper(B[j], q[j + 1])
    BY <1>4, <2>1
  <2>7. QED
    BY <2>5, <2>6 DEF i
<1>10. \A j \in 0..n : D[m + j] = A[m] + B[j] /\ B[j] \in Int
  <2> HIDE DEF T
  <2>1. Nat \subseteq T
    BY <1>8, <1>9, Inductive
  <2>2. QED
    BY <1>4, <2>1 DEF T
<1>11. QED
  BY <1>7, <1>10 DEF t, m, n, D, A, B

LEMMA BalancedNone == <<>> \in Seq(Text) /\ IsBalanced(<<>>)
<1>1. <<>> \in Seq(Text) /\ Len(<<>>) = 0 /\ DOMAIN <<>> = {}
  OBVIOUS
<1>2. Depths(<<>>)[0] = 0
  BY <1>1, DepthsIs
<1>3. \A k \in 0..0 : k = 0
  OBVIOUS
<1>4. QED
  BY <1>1, <1>2, <1>3 DEF IsBalanced

LEMMA BalancedConcat ==
    ASSUME NEW p \in Seq(Text), NEW q \in Seq(Text), IsBalanced(p), IsBalanced(q)
    PROVE  p \o q \in Seq(Text) /\ IsBalanced(p \o q)
<1> DEFINE t == p \o q
           m == Len(p)
           n == Len(q)
<1>1. /\ m \in Nat /\ n \in Nat /\ t \in Seq(Text) /\ Len(t) = m + n
      /\ DOMAIN p = 1..m /\ DOMAIN q = 1..n /\ DOMAIN t = 1..(m + n)
      /\ \A k \in 1..(m + n) : t[k] = IF k <= m THEN p[k] ELSE q[k - m]
  BY ConcatIs
<1>2. /\ \A k \in 0..m : Depths(t)[k] = Depths(p)[k] /\ Depths(p)[k] \in Int
      /\ \A j \in 0..n : Depths(t)[m + j] = Depths(p)[m] + Depths(q)[j] /\ Depths(q)[j] \in Int
  BY DepthsConcat
<1>3. /\ \A k \in 1..m : IsPart(p[k])
      /\ \A k \in 1..n : IsPart(q[k])
      /\ \A k \in 0..m : Depths(p)[k] >= 0
      /\ \A k \in 0..n : Depths(q)[k] >= 0
      /\ Depths(p)[m] = 0 /\ Depths(q)[n] = 0
  BY <1>1 DEF IsBalanced
<1> HIDE DEF t, m, n
<1>4. \A k \in 1..(m + n) : IsPart(t[k])
  <2> SUFFICES ASSUME NEW k \in 1..(m + n) PROVE IsPart(t[k])
    OBVIOUS
  <2>1. CASE k <= m
    BY <1>1, <1>3, <2>1
  <2>2. CASE ~(k <= m)
    <3>1. k - m \in 1..n
      BY <1>1, <2>2
    <3>2. QED
      BY <1>1, <1>3, <2>2, <3>1
  <2>3. QED
    BY <2>1, <2>2
<1>5. \A j \in 0..n : Depths(t)[m + j] = Depths(q)[j]
  BY <1>2, <1>3
<1>6. \A k \in 0..(m + n) : Depths(t)[k] >= 0
  <2> SUFFICES ASSUME NEW k \in 0..(m + n) PROVE Depths(t)[k] >= 0
    OBVIOUS
  <2>1. CASE k <= m
    <3>1. k \in 0..m
      BY <1>1, <2>1
    <3>2. QED
      BY <1>2, <1>3, <3>1
  <2>2. CASE ~(k <= m)
    <3>1. k - m \in 0..n /\ m + (k - m) = k
      BY <1>1, <2>2
    <3>2. QED
      BY <1>3, <1>5, <3>1
  <2>3. QED
    BY <2>1, <2>2
<1>7. Depths(t)[m + n] = 0
  <2>1. n \in 0..n
    BY <1>1
  <2>2. QED
    BY <1>3, <1>5, <2>1
<1>8. t \in Seq(Text) /\ IsBalanced(t)
  BY <1>1, <1>4, <1>6, <1>7 DEF IsBalanced
<1>9. QED
  BY <1>8 DEF t

LEMMA BalancedJoined ==
    ASSUME NEW ss \in Seq(Seq(Text)), \A k \in 1..Len(ss) : IsBalanced(ss[k])
    PROVE  Joined(ss) \in Seq(Text) /\ IsBalanced(Joined(ss))
<1>1. Len(ss) \in Nat /\ \A n \in 1..Len(ss) : ss[n] \in Seq(Text)
  OBVIOUS
<1>2. PICK f : /\ f[0] = <<>> /\ f[Len(ss)] = Joined(ss)
               /\ \A n \in 1..Len(ss) : f[n] = f[n - 1] \o ss[n]
  BY <1>1, JoinedSteps
<1> DEFINE S == {n \in Nat : n <= Len(ss) => f[n] \in Seq(Text) /\ IsBalanced(f[n])}
<1>3. 0 \in S
  BY <1>2, BalancedNone
<1>4. ASSUME NEW n \in Nat, n \in S PROVE n + 1 \in S
  <2> SUFFICES ASSUME n + 1 <= Len(ss) PROVE f[n + 1] \in Seq(Text) /\ IsBalanced(f[n + 1])
    OBVIOUS
  <2>1. n + 1 \in 1..Len(ss) /\ (n + 1) - 1 = n /\ f[n] \in Seq(Text) /\ IsBalanced(f[n])
    BY <1>1, <1>4
  <2>2. f[n + 1] = f[n] \o ss[n + 1] /\ ss[n + 1] \in Seq(Text) /\ IsBalanced(ss[n + 1])
    BY <1>1, <1>2, <2>1
  <2>3. QED
    BY <2>1, <2>2, BalancedConcat
<1>5. QED
  <2> HIDE DEF S
  <2>1. Nat \subseteq S
    BY <1>3, <1>4, Inductive
  <2>2. QED
    BY <1>1, <1>2, <2>1 DEF S

LEMMA BalancedOne ==
    ASSUME NEW p, IsPart(p), Deeper(0, p) = 0
    PROVE  <<p>> \in Seq(Text) /\ IsBalanced(<<p>>)
<1>1. p \in Text
  BY DEF IsPart, Text
<1>2. <<p>> \in Seq(Text) /\ Len(<<p>>) = 1 /\ <<p>>[1] = p /\ DOMAIN <<p>> = {1} /\ 1 - 1 = 0
  BY <1>1
<1> DEFINE t == <<p>>
<1> HIDE DEF t
<1>3. Depths(t)[0] = 0 /\ Depths(t)[1] = 0
  BY <1>2, DepthsIs DEF t
<1>4. \A k \in 0..1 : k = 0 \/ k = 1
  OBVIOUS
<1>5. IsBalanced(t)
  BY <1>2, <1>3, <1>4 DEF IsBalanced, t
<1>6. QED
  BY <1>2, <1>5 DEF t

LEMMA QuotedIs == \A c \in Text :
    /\ Quoted(c) \in Text /\ Len(Quoted(c)) = Len(c) + 2 /\ Quoted(c)[1] = Quote /\ Last(Quoted(c)) = Quote
    /\ SubSeq(Quoted(c), 2, Len(Quoted(c)) - 1) = c
<1> SUFFICES ASSUME NEW c \in Text
             PROVE  /\ Quoted(c) \in Text /\ Len(Quoted(c)) = Len(c) + 2 /\ Quoted(c)[1] = Quote
                    /\ Last(Quoted(c)) = Quote
                    /\ SubSeq(Quoted(c), 2, Len(Quoted(c)) - 1) = c
  OBVIOUS
<1> DEFINE t == Quoted(c)
           n == Len(c)
<1>1. <<Quote>> \in Text /\ Len(<<Quote>>) = 1 /\ <<Quote>>[1] = Quote /\ n \in Nat /\ c \in Seq(Symbols)
  <2>1. Quote \in Symbols
    BY ReplyAssumption
  <2>2. QED
    BY <2>1, OneIs DEF Text
<1> DEFINE u == <<Quote>> \o c
<1>2. /\ u \in Text /\ Len(u) = 1 + n /\ u[1] = Quote /\ \A k \in 1..n : u[1 + k] = c[k]
  BY <1>1 DEF Text
<1>3. t = u \o <<Quote>>
  BY DEF Quoted
<1> HIDE DEF u, t, n
<1>4. /\ t \in Seq(Symbols) /\ Len(t) = 1 + n + 1 /\ t[1 + n + 1] = Quote /\ \A k \in 1..(1 + n) : t[k] = u[k]
  BY <1>1, <1>2, <1>3 DEF Text
<1>5. Len(t) = n + 2 /\ t[1] = Quote /\ t[n + 2] = Quote /\ Len(t) - 1 = n + 1
  BY <1>1, <1>2, <1>4
<1> DEFINE s == SubSeq(t, 2, n + 1)
<1>6. /\ s \in Seq(Symbols)
      /\ Len(s) = IF 2 <= n + 1 THEN (n + 1) - 2 + 1 ELSE 0
      /\ \A k \in 1..((n + 1) - 2 + 1) : s[k] = t[2 + k - 1]
  <2>1. 2 \in Int /\ n + 1 \in Int /\ 1 <= 2 /\ n + 1 <= Len(t)
    BY <1>1, <1>5
  <2>2. QED
    BY <1>4, <2>1, Subs
<1> HIDE DEF s
<1>7. Len(s) = n
  <2>1. CASE 2 <= n + 1
    BY <1>1, <1>6, <2>1
  <2>2. CASE ~(2 <= n + 1)
    BY <1>1, <1>6, <2>2
  <2>3. QED
    BY <2>1, <2>2
<1>8. \A k \in 1..n : s[k] = c[k]
  <2> SUFFICES ASSUME NEW k \in 1..n PROVE s[k] = c[k]
    OBVIOUS
  <2>1. (n + 1) - 2 + 1 = n /\ 2 + k - 1 = 1 + k /\ 1 + k \in 1..(1 + n)
    BY <1>1
  <2>2. s[k] = t[1 + k]
    BY <1>6, <2>1
  <2>3. QED
    BY <1>2, <1>4, <2>1, <2>2
<1>9. s = c
  BY <1>1, <1>6, <1>7, <1>8 DEF n
<1>10. QED
  BY <1>4, <1>5, <1>9 DEF Last, Text, n, s, t

LEMMA QuotedPart == \A c : IsContent(c) => IsPart(Quoted(c)) /\ Deeper(0, Quoted(c)) = 0
<1> SUFFICES ASSUME NEW c, IsContent(c) PROVE IsPart(Quoted(c)) /\ Deeper(0, Quoted(c)) = 0
  OBVIOUS
<1>1. c \in Text
  BY DEF IsContent, Text
<1>2. /\ Quoted(c) \in Text /\ Len(Quoted(c)) = Len(c) + 2 /\ Quoted(c)[1] = Quote /\ Last(Quoted(c)) = Quote
      /\ SubSeq(Quoted(c), 2, Len(Quoted(c)) - 1) = c
  BY <1>1, QuotedIs
<1>3. Len(Quoted(c)) > 1 /\ Len(Quoted(c)) /= 1 /\ Quoted(c) /= <<>>
  <2>1. Len(c) \in Nat /\ Len(<<>>) = 0
    BY <1>1 DEF Text
  <2>2. QED
    BY <1>2, <2>1
<1>4. QED
  BY <1>2, <1>3 DEF IsPart, Deeper, Text

LEMMA NameContent == \A name \in Symbols \ {Quote, Escape} : IsContent(<<name>>)
<1> SUFFICES ASSUME NEW name \in Symbols \ {Quote, Escape} PROVE IsContent(<<name>>)
  OBVIOUS
<1> DEFINE c == <<name>>
<1>1. c \in Seq(Symbols) /\ Len(c) = 1 /\ c[1] = name
  BY OneIs
<1> HIDE DEF c
<1>2. Escapes(c)[1] = (c[1] = Escape /\ ~Escapes(c)[0])
  <2>1. \A k \in 1..Len(c) : Escapes(c)[k] = (c[k] = Escape /\ ~Escapes(c)[k - 1])
    BY <1>1, EscapesIs
  <2>2. 1 \in 1..Len(c) /\ 1 - 1 = 0
    BY <1>1
  <2>3. QED
    BY <2>1, <2>2
<1>3. \A k \in 1..Len(c) : k = 1
  BY <1>1
<1>4. IsContent(c)
  BY <1>1, <1>2, <1>3 DEF IsContent
<1>5. QED
  BY <1>4 DEF c

LEMMA FieldBalanced ==
    ASSUME NEW name \in Symbols \ {Quote, Escape}, NEW v, IsValue(v)
    PROVE  Field(name, v) \in Seq(Text) /\ IsBalanced(Field(name, v))
<1>1. <<Quoted(<<name>>)>> \in Seq(Text) /\ IsBalanced(<<Quoted(<<name>>)>>)
  BY NameContent, QuotedPart, BalancedOne
<1>2. <<<<":">>>> \in Seq(Text) /\ IsBalanced(<<<<":">>>>)
  <2> DEFINE p == <<":">>
  <2>1. p \in Seq(Symbols) /\ Len(p) = 1 /\ p[1] = ":" /\ p /= <<>> /\ ":" /= Quote
    <3>1. ":" \in Symbols /\ ":" /= Quote
      BY ReplyAssumption DEF Quote
    <3>2. p \in Seq(Symbols) /\ Len(p) = 1 /\ p[1] = ":"
      BY <3>1, OneIs
    <3>3. Len(<<>>) = 0
      OBVIOUS
    <3>4. QED
      BY <3>1, <3>2, <3>3
  <2>2. IsPart(p)
    <3> HIDE DEF p
    <3>1. QED
      BY <2>1 DEF IsPart
  <2>3. Deeper(0, p) = 0
    BY <2>1 DEF Deeper, Braces
  <2> HIDE DEF p
  <2>4. <<p>> \in Seq(Text) /\ IsBalanced(<<p>>)
    BY <2>2, <2>3, BalancedOne
  <2>5. QED
    BY <2>4 DEF p
<1>3. Written(v) \in Seq(Text) /\ IsBalanced(Written(v))
  <2>1. CASE v.kind = "string"
    BY <2>1, QuotedPart, BalancedOne DEF IsValue, Written
  <2>2. CASE v.kind /= "string"
    BY <2>2 DEF IsValue, Written, Text
  <2>3. QED
    BY <2>1, <2>2
<1> DEFINE a == <<Quoted(<<name>>)>>
           b == <<<<":">>>>
           w == Written(v)
<1>4. Field(name, v) = (a \o b) \o w
  <2>1. Quoted(<<name>>) \in Text /\ <<":">> \in Text
    BY <1>1, <1>2, FirstOf
  <2>2. a \in Seq(Text) /\ b \in Seq(Text) /\ Len(a) = 1 /\ Len(b) = 1
        /\ a[1] = Quoted(<<name>>) /\ b[1] = <<":">>
    BY <2>1, OneIs
  <2>3. a \o b = <<a[1], b[1]>>
    <3> HIDE DEF a, b
    <3>1. QED
      BY <2>2, TwoIs
  <2>4. QED
    BY <2>2, <2>3 DEF Field
<1> HIDE DEF a, b, w
<1>5. a \o b \in Seq(Text) /\ IsBalanced(a \o b)
  BY <1>1, <1>2, BalancedConcat DEF a, b
<1>6. QED
  BY <1>3, <1>4, <1>5, BalancedConcat DEF w

(* The names of an object in the order they are written in.                   *)
LEMMA NamesAre == \A S : IsFiniteSet(S) => SetToSeq(S) \in Seq(S)
<1> SUFFICES ASSUME NEW S, IsFiniteSet(S) PROVE SetToSeq(S) \in Seq(S)
  OBVIOUS
<1>1. Cardinality(S) \in Nat /\ \E f : f \in Bijection(1..Cardinality(S), S)
  BY FS_CardinalityType DEF ExistsBijection
<1>2. PICK f : f \in Bijection(1..Cardinality(S), S)
  BY <1>1
<1>3. f \in [1..Cardinality(S) -> S] /\ IsInjective(f)
  BY <1>2 DEF Bijection, Injection, IsInjective
<1>4. SetToSeq(S) \in [1..Cardinality(S) -> S]
  BY <1>3 DEF SetToSeq
<1>5. QED
  BY <1>1, <1>4

Opening == <<"{">>
Closing == <<"}">>

(* An object's parts: its braces open first and close last.                   *)
Nests(parts) ==
    /\ parts \in Seq(Text) /\ Len(parts) > 1
    /\ parts[1] = Opening /\ parts[Len(parts)] = Closing
    /\ \A k \in 1..Len(parts) : IsPart(parts[k])
    /\ \A k \in 1..(Len(parts) - 1) : Depths(parts)[k] > 0
    /\ Depths(parts)[Len(parts)] = 0

LEMMA BraceParts ==
    /\ Opening \in Text /\ IsPart(Opening) /\ \A d \in Int : Deeper(d, Opening) = d + 1
    /\ Closing \in Text /\ IsPart(Closing) /\ \A d \in Int : Deeper(d, Closing) = d - 1
<1>1. "{" \in Symbols /\ "}" \in Symbols /\ "{" /= Quote /\ "}" /= Quote /\ "{" /= "}"
  BY ReplyAssumption DEF Quote
<1> DEFINE o == <<"{">>
           c == <<"}">>
<1>2. /\ o \in Seq(Symbols) /\ Len(o) = 1 /\ o[1] = "{" /\ o /= <<>>
      /\ c \in Seq(Symbols) /\ Len(c) = 1 /\ c[1] = "}" /\ c /= <<>>
  <2>1. /\ o \in Seq(Symbols) /\ Len(o) = 1 /\ o[1] = "{"
        /\ c \in Seq(Symbols) /\ Len(c) = 1 /\ c[1] = "}"
    BY <1>1, OneIs
  <2>2. Len(<<>>) = 0
    OBVIOUS
  <2>3. o /= <<>>
    OBVIOUS
  <2>4. c /= <<>>
    OBVIOUS
  <2>5. QED
    BY <2>1, <2>3, <2>4
<1> HIDE DEF o, c
<1>3. IsPart(o) /\ IsPart(c)
  BY <1>1, <1>2 DEF IsPart
<1>4. \A d \in Int : Deeper(d, o) = d + 1 /\ Deeper(d, c) = d - 1
  BY <1>1, <1>2 DEF Deeper, Braces
<1>5. QED
  BY <1>2, <1>3, <1>4 DEF o, c, Opening, Closing, Text

LEMMA PartsNest == \A o : IsObject(o) => Nests(Parts(o))
<1> SUFFICES ASSUME NEW o, IsObject(o) PROVE Nests(Parts(o))
  OBVIOUS
<1> DEFINE names == SetToSeq(DOMAIN o)
           fields == [i \in DOMAIN names |-> Field(names[i], o[names[i]])]
           J == Joined(fields)
           P == Parts(o)
           n == Len(J)
           head == <<Opening>>
           tail == <<Closing>>
<1>1. names \in Seq(DOMAIN o)
  BY NamesAre DEF IsObject
<1>2. DOMAIN names = 1..Len(names) /\ Len(names) \in Nat /\ \A i \in 1..Len(names) : names[i] \in DOMAIN o
  <2> HIDE DEF names
  <2>1. QED
    BY <1>1
<1>3. \A i \in DOMAIN names : fields[i] \in Seq(Text) /\ IsBalanced(fields[i])
  <2> SUFFICES ASSUME NEW i \in DOMAIN names PROVE fields[i] \in Seq(Text) /\ IsBalanced(fields[i])
    OBVIOUS
  <2>1. names[i] \in Symbols \ {Quote, Escape} /\ IsValue(o[names[i]])
    BY <1>2 DEF IsObject
  <2> HIDE DEF names
  <2>2. QED
    BY <2>1, FieldBalanced
<1>4. fields \in Seq(Seq(Text)) /\ Len(fields) = Len(names)
  <2> HIDE DEF names
  <2>1. fields \in [1..Len(names) -> Seq(Text)]
    <3>1. fields = [i \in 1..Len(names) |-> fields[i]]
      BY <1>2
    <3> HIDE DEF fields
    <3>2. QED
      BY <1>2, <1>3, <3>1
  <2> HIDE DEF fields
  <2>2. QED
    BY <1>2, <2>1
<1>5. J \in Seq(Text) /\ IsBalanced(J)
  <2> HIDE DEF fields, names
  <2>1. \A k \in 1..Len(fields) : IsBalanced(fields[k])
    BY <1>2, <1>3, <1>4
  <2>2. QED
    BY <1>4, <2>1, BalancedJoined
<1>6. P = head \o J \o tail
  BY DEF Parts, Opening, Closing
<1> HIDE DEF names, fields, J, P
<1>7. /\ head \in Seq(Text) /\ Len(head) = 1 /\ head[1] = Opening
      /\ tail \in Seq(Text) /\ Len(tail) = 1 /\ tail[1] = Closing
  BY BraceParts, OneIs
<1>8. Depths(head)[0] = 0 /\ Depths(head)[1] = 1 /\ Depths(tail)[0] = 0 /\ Depths(tail)[1] = 0 - 1
  <2> HIDE DEF head, tail
  <2>1. /\ Depths(head)[0] = 0 /\ Depths(head)[1] = Deeper(Depths(head)[0], head[1])
        /\ Depths(tail)[0] = 0 /\ Depths(tail)[1] = Deeper(Depths(tail)[0], tail[1])
    <3>1. 1 \in 1..1 /\ 1 - 1 = 0 /\ 1 \in Nat
      OBVIOUS
    <3>2. QED
      BY <1>7, <3>1, DepthsIs
  <2>2. QED
    BY <1>7, <2>1, BraceParts
<1> HIDE DEF head, tail
<1> DEFINE Q == head \o J
<1>9. /\ n \in Nat /\ Q \in Seq(Text) /\ Len(Q) = n + 1 /\ Q[1] = Opening
      /\ \A k \in 1..n : Q[1 + k] = J[k]
  <2>1. n \in Nat
    BY <1>5
  <2>2. /\ Q \in Seq(Text) /\ Len(Q) = 1 + n
        /\ \A i \in 1..(1 + n) : Q[i] = IF i <= 1 THEN head[i] ELSE J[i - 1]
    <3>1. /\ Q \in Seq(Text) /\ Len(Q) = Len(head) + Len(J)
          /\ \A i \in 1..Len(head) + Len(J) : Q[i] = IF i <= Len(head) THEN head[i] ELSE J[i - Len(head)]
      BY <1>5, <1>7, ConcatIs
    <3> HIDE DEF Q
    <3>2. QED
      BY <1>7, <3>1
  <2> HIDE DEF Q, n
  <2>3. 1 \in 1..(1 + n) /\ \A k \in 1..n : 1 + k \in 1..(1 + n) /\ ~(1 + k <= 1) /\ (1 + k) - 1 = k
    BY <2>1
  <2>4. Q[1] = Opening
    BY <1>7, <2>2, <2>3
  <2>5. \A k \in 1..n : Q[1 + k] = J[k]
    <3> SUFFICES ASSUME NEW k \in 1..n PROVE Q[1 + k] = J[k]
      OBVIOUS
    <3>1. Q[1 + k] = J[(1 + k) - 1]
      BY <2>2, <2>3
    <3>2. QED
      BY <2>3, <3>1
  <2>6. QED
    BY <2>1, <2>2, <2>4, <2>5
<1>10. /\ \A k \in 0..n : Depths(J)[k] >= 0
       /\ Depths(J)[n] = 0
       /\ \A k \in 1..n : IsPart(J[k])
  BY <1>5 DEF IsBalanced
<1>11. \A k \in 0..n : Depths(Q)[1 + k] = 1 + Depths(J)[k] /\ Depths(J)[k] \in Int
  <2>1. Depths(head)[Len(head)] = 1
    BY <1>7, <1>8
  <2> HIDE DEF n, Q
  <2>2. QED
    <3>1. head \in Seq(Text) /\ J \in Seq(Text) /\ Len(head) = 1
      BY <1>5, <1>7
    <3>2. \A j \in 0..Len(J) :
             Depths(head \o J)[Len(head) + j] = Depths(head)[Len(head)] + Depths(J)[j] /\ Depths(J)[j] \in Int
      BY <3>1, DepthsConcat
    <3>3. QED
      BY <2>1, <3>1, <3>2 DEF n, Q
<1> HIDE DEF Q, n
<1>12. /\ P \in Seq(Text) /\ Len(P) = n + 2 /\ P[n + 2] = Closing
       /\ \A k \in 1..(n + 1) : P[k] = Q[k]
  <2>1. P = Q \o tail
    BY <1>6 DEF Q
  <2>2. /\ P \in Seq(Text) /\ Len(P) = (n + 1) + 1
        /\ \A i \in 1..((n + 1) + 1) : P[i] = IF i <= n + 1 THEN Q[i] ELSE tail[i - (n + 1)]
    <3>1. /\ P \in Seq(Text) /\ Len(P) = Len(Q) + Len(tail)
          /\ \A i \in 1..Len(Q) + Len(tail) : P[i] = IF i <= Len(Q) THEN Q[i] ELSE tail[i - Len(Q)]
      BY <1>7, <1>9, <2>1, ConcatIs
    <3>2. QED
      BY <1>7, <1>9, <3>1
  <2>3. (n + 1) + 1 = n + 2 /\ n + 2 \in 1..(n + 2) /\ ~(n + 2 <= n + 1) /\ (n + 2) - (n + 1) = 1
    BY <1>9
  <2>4. \A k \in 1..(n + 1) : k \in 1..((n + 1) + 1) /\ k <= n + 1
    BY <1>9
  <2>5. P[n + 2] = tail[1]
    BY <2>2, <2>3
  <2>6. \A k \in 1..(n + 1) : P[k] = Q[k]
    BY <2>2, <2>4
  <2>7. QED
    BY <1>7, <2>2, <2>3, <2>5, <2>6
<1>13. /\ \A k \in 0..(n + 1) : Depths(P)[k] = Depths(Q)[k]
       /\ Depths(P)[n + 2] = Depths(Q)[n + 1] - 1
  <2>1. P = Q \o tail
    BY <1>6 DEF Q
  <2>2. /\ \A k \in 0..Len(Q) : Depths(P)[k] = Depths(Q)[k] /\ Depths(Q)[k] \in Int
        /\ \A j \in 0..Len(tail) : Depths(P)[Len(Q) + j] = Depths(Q)[Len(Q)] + Depths(tail)[j]
    BY <1>7, <1>9, <2>1, DepthsConcat
  <2>3. 1 \in 0..Len(tail) /\ Len(Q) + 1 = n + 2 /\ Len(Q) \in 0..Len(Q)
    BY <1>7, <1>9
  <2>4. Depths(P)[n + 2] = Depths(Q)[n + 1] + (0 - 1) /\ Depths(Q)[n + 1] \in Int
    BY <1>8, <1>9, <2>2, <2>3
  <2>5. QED
    BY <1>9, <2>2, <2>4
<1>14. \A k \in 1..(n + 1) : Depths(P)[k] > 0
  <2> SUFFICES ASSUME NEW k \in 1..(n + 1) PROVE Depths(P)[k] > 0
    OBVIOUS
  <2>1. k - 1 \in 0..n /\ 1 + (k - 1) = k /\ k \in 0..(n + 1)
    BY <1>9
  <2>2. Depths(P)[k] = 1 + Depths(J)[k - 1] /\ Depths(J)[k - 1] \in Int /\ Depths(J)[k - 1] >= 0
    BY <1>10, <1>11, <1>13, <2>1
  <2>3. QED
    BY <2>2
<1>15. Depths(P)[n + 2] = 0
  <2>1. n \in 0..n /\ 1 + n = n + 1
    BY <1>9
  <2>2. Depths(Q)[n + 1] = 1
    BY <1>10, <1>11, <2>1
  <2>3. QED
    BY <1>13, <2>2
<1>16. \A k \in 1..(n + 2) : IsPart(P[k])
  <2> SUFFICES ASSUME NEW k \in 1..(n + 2) PROVE IsPart(P[k])
    OBVIOUS
  <2>1. CASE k = 1
    <3>1. 1 \in 1..(n + 1)
      BY <1>9
    <3>2. QED
      BY <1>9, <1>12, <2>1, <3>1, BraceParts
  <2>2. CASE k = n + 2
    BY <1>12, <2>2, BraceParts
  <2>3. CASE k /= 1 /\ k /= n + 2
    <3>1. k - 1 \in 1..n /\ 1 + (k - 1) = k /\ k \in 1..(n + 1)
      BY <1>9, <2>3
    <3>2. P[k] = J[k - 1]
      BY <1>9, <1>12, <3>1
    <3>3. QED
      BY <1>10, <3>1, <3>2
  <2>4. QED
    BY <2>1, <2>2, <2>3
<1>17. Nests(P)
  <2>1. /\ Len(P) > 1 /\ Len(P) - 1 = n + 1 /\ 1 \in 1..(n + 1)
    BY <1>9, <1>12
  <2>2. P[1] = Opening
    BY <1>9, <1>12, <2>1
  <2>3. QED
    BY <1>12, <1>14, <1>15, <1>16, <2>1, <2>2 DEF Nests
<1>18. QED
  BY <1>17 DEF P

(* The braces of an object's text close at its end and no sooner.             *)
Spans(t) ==
    /\ t \in Text /\ Len(t) \in Nat /\ Len(t) > 1 /\ t[1] = "{" /\ t[Len(t)] = "}"
    /\ \A k \in 1..(Len(t) - 1) : Scan(t, 1)[k].depth > 0
    /\ Scan(t, 1)[Len(t)].depth = 0

LEMMA PartFirst == \A s, p \in Text : Len(s) > 0 => (s \o p)[1] = s[1]
<1> SUFFICES ASSUME NEW s \in Text, NEW p \in Text, Len(s) > 0 PROVE (s \o p)[1] = s[1]
  OBVIOUS
<1>1. Len(s) \in Nat /\ Len(p) \in Nat /\ \A i \in 1..Len(s) + Len(p) : (s \o p)[i] = IF i <= Len(s) THEN s[i] ELSE p[i - Len(s)]
  BY ConcatIs DEF Text
<1>2. 1 \in 1..Len(s) + Len(p) /\ 1 <= Len(s)
  BY <1>1
<1>3. QED
  BY <1>1, <1>2

LEMMA JoinedSpans == \A parts : Nests(parts) => Spans(Joined(parts))
<1> SUFFICES ASSUME NEW parts, Nests(parts) PROVE Spans(Joined(parts))
  OBVIOUS
<1> DEFINE N == Len(parts)
           D == Depths(parts)
<1>1. /\ N \in Nat /\ N > 1 /\ \A n \in 1..N : parts[n] \in Text /\ IsPart(parts[n])
      /\ parts[1] = Opening /\ parts[N] = Closing
      /\ (\A k \in 1..(N - 1) : D[k] > 0) /\ D[N] = 0
  BY DEF Nests
<1>2. D \in [0..N -> Int] /\ D[0] = 0 /\ \A k \in 1..N : D[k] = Deeper(D[k - 1], parts[k])
  <2>1. Len(parts) \in Nat
    BY <1>1
  <2>2. QED
    BY <2>1, DepthsIs
<1>3. PICK f : /\ f[0] = <<>> /\ f[N] = Joined(parts)
               /\ \A n \in 1..N : f[n] = f[n - 1] \o parts[n]
  BY <1>1, JoinedSteps
<1> HIDE DEF N, D
<1> DEFINE Up(n) == /\ f[n] \in Text /\ Len(f[n]) \in Nat /\ Len(f[n]) >= n
                    /\ n > 0 => f[n][1] = "{"
                    /\ Scan(f[n], 1)[Len(f[n])] = Outside(D[n])
                    /\ \A k \in 1..Len(f[n]) : Scan(f[n], 1)[k].depth > 0
           S == {n \in Nat : n < N => Up(n)}
<1> HIDE DEF Up
<1>4. 0 \in S
  <2> DEFINE e == f[0]
  <2>1. e \in Text /\ e \in Seq(Symbols) /\ Len(e) = 0
    BY <1>3 DEF Text
  <2> HIDE DEF e
  <2>2. Scan(e, 1)[0] = Outside(0)
    <3>1. 1 \in 1..(Len(e) + 1)
      BY <2>1
    <3>2. QED
      BY <2>1, <3>1, ScanIs
  <2>3. ~(0 > 0) /\ 1..0 = {}
    OBVIOUS
  <2>4. Up(0)
    BY <1>2, <2>1, <2>2, <2>3 DEF e, Up
  <2>5. QED
    BY <2>4
<1>5. ASSUME NEW n \in Nat, n \in S PROVE n + 1 \in S
  <2> SUFFICES ASSUME n + 1 < N PROVE Up(n + 1)
    OBVIOUS
  <2> DEFINE s == f[n]
             p == parts[n + 1]
             d == D[n]
             t == s \o p
  <2>1. n < N /\ n + 1 \in 1..N /\ n + 1 \in 1..(N - 1) /\ (n + 1) - 1 = n /\ n \in 0..N
    BY <1>1
  <2>2. Up(n)
    BY <1>5, <2>1
  <2>3. p \in Text /\ IsPart(p) /\ d \in Int /\ D[n + 1] = Deeper(d, p) /\ D[n + 1] > 0 /\ f[n + 1] = t
    BY <1>1, <1>2, <1>3, <2>1
  <2>4. /\ s \in Text /\ Len(s) \in Nat /\ Len(s) >= n /\ (n > 0 => s[1] = "{")
        /\ Scan(s, 1)[Len(s)] = Outside(d)
        /\ \A k \in 1..Len(s) : Scan(s, 1)[k].depth > 0
    BY <2>2 DEF Up
  <2> HIDE DEF s, p, d
  <2>5. /\ t \in Text /\ Len(t) = Len(s) + Len(p) /\ Len(p) \in Nat /\ Len(p) > 0
        /\ \A k \in 0..Len(s) : Scan(t, 1)[k] = Scan(s, 1)[k]
        /\ \A k \in (Len(s) + 1)..(Len(s) + Len(p)) : Scan(t, 1)[k].depth = Deeper(d, p)
        /\ Scan(t, 1)[Len(s) + Len(p)] = Outside(Deeper(d, p))
    BY <2>3, <2>4, PartScanned
  <2> HIDE DEF t
  <2>a. Len(s) \in Nat /\ Len(s) >= n /\ Len(p) \in Nat /\ Len(p) > 0 /\ Len(t) = Len(s) + Len(p)
    BY <2>4, <2>5
  <2>6. \A k \in 1..Len(t) : Scan(t, 1)[k].depth > 0
    <3> SUFFICES ASSUME NEW k \in 1..Len(t) PROVE Scan(t, 1)[k].depth > 0
      OBVIOUS
    <3>1. CASE k <= Len(s)
      <4>1. k \in 0..Len(s) /\ k \in 1..Len(s)
        BY <2>a, <3>1
      <4>2. QED
        BY <2>4, <2>5, <4>1
    <3>2. CASE ~(k <= Len(s))
      <4>1. k \in (Len(s) + 1)..(Len(s) + Len(p))
        BY <2>a, <3>2
      <4>2. QED
        BY <2>3, <2>5, <4>1
    <3>3. QED
      BY <3>1, <3>2
  <2>7. t[1] = "{"
    <3>1. CASE n = 0
      <4>1. s = <<>> /\ p = Opening
        BY <1>1, <1>3, <3>1 DEF s, p
      <4>2. t = Opening
        <5>1. <<>> \o Opening = Opening
          BY BraceParts DEF Text
        <5>2. QED
          BY <4>1, <5>1 DEF t
      <4>3. QED
        BY <4>2 DEF Opening
    <3>2. CASE n /= 0
      <4>1. Len(s) > 0 /\ n > 0
        BY <2>a, <3>2
      <4>2. QED
        BY <2>3, <2>4, <4>1, PartFirst DEF t
    <3>3. QED
      BY <3>1, <3>2
  <2>8. Len(t) \in Nat /\ Len(t) >= n + 1
    BY <2>a
  <2>9. Scan(t, 1)[Len(t)] = Outside(D[n + 1])
    BY <2>3, <2>5
  <2>10. QED
    BY <2>3, <2>5, <2>6, <2>7, <2>8, <2>9 DEF Up
<1> DEFINE n == N - 1
           s == f[n]
           d == D[n]
           t == s \o Closing
<1>6. n \in Nat /\ n > 0 /\ n < N /\ N \in 1..N /\ n \in 1..(N - 1) /\ n \in 0..N
  BY <1>1
<1>7. Up(n)
  <2> HIDE DEF S
  <2>1. Nat \subseteq S
    BY <1>4, <1>5, Inductive
  <2> HIDE DEF n
  <2>2. QED
    BY <1>6, <2>1 DEF S
<1>8. Joined(parts) = t /\ d \in Int /\ Deeper(d, Closing) = 0 /\ IsPart(Closing)
  BY <1>1, <1>2, <1>3, <1>6, BraceParts
<1>9. /\ s \in Text /\ Len(s) \in Nat /\ Len(s) > 0 /\ s[1] = "{"
      /\ Scan(s, 1)[Len(s)] = Outside(d)
      /\ \A k \in 1..Len(s) : Scan(s, 1)[k].depth > 0
  <2> HIDE DEF n
  <2>1. Len(f[n]) \in Nat /\ Len(f[n]) >= n
    BY <1>7 DEF Up
  <2>2. Len(f[n]) > 0
    BY <1>6, <2>1
  <2>3. QED
    BY <1>6, <1>7, <2>2 DEF Up
<1> HIDE DEF s, d, n
<1>10. /\ t \in Text /\ Len(t) = Len(s) + Len(Closing)
       /\ \A k \in 0..Len(s) : Scan(t, 1)[k] = Scan(s, 1)[k]
       /\ Scan(t, 1)[Len(s) + Len(Closing)] = Outside(Deeper(d, Closing))
  BY <1>8, <1>9, PartScanned
<1>11. Len(Closing) = 1 /\ Closing[1] = "}" /\ Closing \in Text
  <2>1. Closing \in Text
    BY BraceParts
  <2>2. QED
    BY <2>1 DEF Closing
<1>b. Len(s) \in Nat /\ Len(s) > 0 /\ Len(Closing) = 1
  BY <1>9, <1>11
<1>12. t[1] = "{"
  BY <1>9, <1>11, PartFirst
<1>13. t[Len(s) + 1] = "}"
  <2>1. \A i \in 1..Len(s) + Len(Closing) : t[i] = IF i <= Len(s) THEN s[i] ELSE Closing[i - Len(s)]
    BY <1>9, <1>11, ConcatIs DEF Text
  <2> HIDE DEF t
  <2>2. Len(s) + 1 \in 1..Len(s) + Len(Closing) /\ ~(Len(s) + 1 <= Len(s)) /\ (Len(s) + 1) - Len(s) = 1
    BY <1>b
  <2>3. t[Len(s) + 1] = Closing[(Len(s) + 1) - Len(s)]
    BY <2>1, <2>2
  <2>4. QED
    BY <1>11, <2>2, <2>3
<1> HIDE DEF t
<1>14. Len(t) = Len(s) + 1 /\ Len(t) - 1 = Len(s) /\ Len(t) \in Nat /\ Len(t) > 1
  <2>1. Len(t) = Len(s) + Len(Closing)
    BY <1>10
  <2>2. QED
    BY <1>b, <2>1
<1>15. \A k \in 1..(Len(t) - 1) : Scan(t, 1)[k].depth > 0
  <2>1. \A k \in 1..Len(s) : k \in 0..Len(s)
    OBVIOUS
  <2>2. QED
    BY <1>9, <1>10, <1>14, <2>1
<1>16. Scan(t, 1)[Len(t)].depth = 0
  <2>1. Scan(t, 1)[Len(t)] = Outside(0)
    BY <1>8, <1>10, <1>11, <1>14
  <2>2. QED
    BY <2>1 DEF Outside
<1>17. Spans(t)
  BY <1>10, <1>12, <1>13, <1>14, <1>15, <1>16 DEF Spans
<1>18. QED
  BY <1>8, <1>17

LEMMA RenderSpans == \A o \in Objects : Spans(Render(o))
  BY ReplyAssumption, PartsNest, JoinedSpans DEF Render

(* --------------------------- windows of an answer ---------------------------- *)

(* t is what raw holds from a to b.                                           *)
Window(t, raw, a, b) ==
    /\ a \in Nat /\ b \in Nat /\ 1 <= a /\ b <= Len(raw) /\ a <= b + 1
    /\ t = SubSeq(raw, a, b)

LEMMA WindowIs ==
    ASSUME NEW raw \in Text, NEW t, NEW a, NEW b, Window(t, raw, a, b)
    PROVE  /\ t \in Text /\ Len(t) \in Nat /\ Len(t) = b - a + 1
           /\ \A k \in 1..Len(t) : a + k - 1 \in a..b /\ t[k] = raw[a + k - 1]
           /\ \A i \in a..b : i - a + 1 \in 1..Len(t) /\ t[i - a + 1] = raw[i]
<1>1. a \in Nat /\ b \in Nat /\ 1 <= a /\ b <= Len(raw) /\ a <= b + 1 /\ t = SubSeq(raw, a, b) /\ raw \in Seq(Symbols)
  BY DEF Window, Text
<1>2. /\ t \in Seq(Symbols)
      /\ Len(t) = IF a <= b THEN b - a + 1 ELSE 0
      /\ \A k \in 1..(b - a + 1) : t[k] = raw[a + k - 1]
  <2>1. a \in Int /\ b \in Int
    BY <1>1
  <2>2. QED
    BY <1>1, <2>1, Subs
<1>3. Len(t) = b - a + 1
  <2>1. CASE a <= b
    BY <1>2, <2>1
  <2>2. CASE ~(a <= b)
    <3>1. b - a + 1 = 0
      BY <1>1, <2>2
    <3>2. QED
      BY <1>2, <2>2, <3>1
  <2>3. QED
    BY <2>1, <2>2
<1>4. Len(t) \in Nat
  BY <1>2
<1>5. \A k \in 1..Len(t) : a + k - 1 \in a..b
  BY <1>1, <1>3
<1>6. \A i \in a..b : i - a + 1 \in 1..Len(t) /\ a + (i - a + 1) - 1 = i
  BY <1>1, <1>3
<1>7. \A k \in 1..Len(t) : t[k] = raw[a + k - 1]
  BY <1>2, <1>3
<1>8. \A i \in a..b : t[i - a + 1] = raw[i]
  <2> SUFFICES ASSUME NEW i \in a..b PROVE t[i - a + 1] = raw[i]
    OBVIOUS
  <2>1. t[i - a + 1] = raw[a + (i - a + 1) - 1]
    BY <1>6, <1>7
  <2>2. QED
    BY <1>6, <2>1
<1>9. QED
  BY <1>2, <1>3, <1>4, <1>5, <1>6, <1>7, <1>8 DEF Text

LEMMA WindowIn ==
    ASSUME NEW raw \in Text, NEW t, NEW a, NEW b, Window(t, raw, a, b), NEW u, NEW c, NEW d, Window(u, t, c, d)
    PROVE  Window(u, raw, a + c - 1, a + d - 1)
<1>1. /\ t \in Text /\ Len(t) \in Nat /\ Len(t) = b - a + 1
      /\ \A k \in 1..Len(t) : t[k] = raw[a + k - 1]
  BY WindowIs
<1>2. /\ u \in Text /\ Len(u) \in Nat /\ Len(u) = d - c + 1
      /\ \A k \in 1..Len(u) : c + k - 1 \in c..d /\ u[k] = t[c + k - 1]
  BY <1>1, WindowIs
<1>3. /\ a \in Nat /\ b \in Nat /\ 1 <= a /\ b <= Len(raw) /\ a <= b + 1 /\ raw \in Seq(Symbols)
      /\ c \in Nat /\ d \in Nat /\ 1 <= c /\ d <= Len(t) /\ c <= d + 1 /\ Len(raw) \in Nat
  BY DEF Window, Text
<1> DEFINE x == a + c - 1
           y == a + d - 1
           v == SubSeq(raw, x, y)
<1>4. x \in Nat /\ y \in Nat /\ 1 <= x /\ y <= Len(raw) /\ x <= y + 1 /\ y - x + 1 = d - c + 1
  BY <1>1, <1>3
<1> HIDE DEF v
<1>5. Window(v, raw, x, y)
  BY <1>4 DEF Window, v
<1>6. /\ v \in Text /\ Len(v) = y - x + 1
      /\ \A k \in 1..Len(v) : v[k] = raw[x + k - 1]
  <2> HIDE DEF x, y
  <2>1. QED
    BY <1>5, WindowIs
<1>7. Len(v) = Len(u)
  BY <1>2, <1>4, <1>6
<1>8. \A k \in 1..Len(u) : u[k] = v[k]
  <2> SUFFICES ASSUME NEW k \in 1..Len(u) PROVE u[k] = v[k]
    OBVIOUS
  <2>1. c + k - 1 \in 1..Len(t) /\ a + (c + k - 1) - 1 = x + k - 1
    BY <1>2, <1>3
  <2>2. u[k] = raw[a + (c + k - 1) - 1]
    BY <1>1, <1>2, <2>1
  <2>3. v[k] = raw[x + k - 1]
    BY <1>6, <1>7
  <2> HIDE DEF x
  <2>4. QED
    BY <2>1, <2>2, <2>3
<1>9. u = v
  BY <1>2, <1>6, <1>7, <1>8, SameText DEF Text
<1>10. QED
  BY <1>5, <1>9

LEMMA FirstIs == \A R : \A t \in Seq(R) : \A c :
    IF \E i \in 1..Len(t) : t[i] = c
    THEN First(t, c) \in 1..Len(t) /\ t[First(t, c)] = c /\ \A i \in 1..Len(t) : t[i] = c => First(t, c) <= i
    ELSE First(t, c) = 0
<1> SUFFICES ASSUME NEW R, NEW t \in Seq(R), NEW c
             PROVE  IF \E i \in 1..Len(t) : t[i] = c
                    THEN First(t, c) \in 1..Len(t) /\ t[First(t, c)] = c /\ \A i \in 1..Len(t) : t[i] = c => First(t, c) <= i
                    ELSE First(t, c) = 0
  OBVIOUS
<1> DEFINE at == {i \in DOMAIN t : t[i] = c}
<1>1. DOMAIN t = 1..Len(t) /\ Len(t) \in Nat
  OBVIOUS
<1>2. First(t, c) = IF at = {} THEN 0 ELSE CHOOSE i \in at : \A j \in at : i <= j
  BY DEF First
<1>3. CASE \E i \in 1..Len(t) : t[i] = c
  <2>1. at /= {} /\ at \in SUBSET Nat
    BY <1>1, <1>3
  <2>2. \E i \in at : \A j \in at : i <= j
    <3> HIDE DEF at
    <3>1. QED
      BY <2>1, Least
  <2>3. First(t, c) \in at /\ \A j \in at : First(t, c) <= j
    <3> HIDE DEF at
    <3>1. QED
      BY <1>2, <2>1, <2>2
  <2>4. QED
    BY <1>1, <1>3, <2>3
<1>4. CASE ~\E i \in 1..Len(t) : t[i] = c
  <2>1. at = {}
    BY <1>1, <1>4
  <2>2. QED
    BY <1>2, <1>4, <2>1
<1>5. QED
  BY <1>3, <1>4

LEMMA FinalIs == \A R : \A t \in Seq(R) : \A c :
    IF \E i \in 1..Len(t) : t[i] = c
    THEN Final(t, c) \in 1..Len(t) /\ t[Final(t, c)] = c /\ \A i \in 1..Len(t) : t[i] = c => i <= Final(t, c)
    ELSE Final(t, c) = 0
<1> SUFFICES ASSUME NEW R, NEW t \in Seq(R), NEW c
             PROVE  IF \E i \in 1..Len(t) : t[i] = c
                    THEN Final(t, c) \in 1..Len(t) /\ t[Final(t, c)] = c /\ \A i \in 1..Len(t) : t[i] = c => i <= Final(t, c)
                    ELSE Final(t, c) = 0
  OBVIOUS
<1> DEFINE at == {i \in DOMAIN t : t[i] = c}
<1>1. DOMAIN t = 1..Len(t) /\ Len(t) \in Nat
  OBVIOUS
<1>2. Final(t, c) = IF at = {} THEN 0 ELSE CHOOSE i \in at : \A j \in at : j <= i
  BY DEF Final
<1>3. CASE \E i \in 1..Len(t) : t[i] = c
  <2>1. at /= {} /\ at \in SUBSET (0..Len(t))
    BY <1>1, <1>3
  <2>2. \E i \in at : \A j \in at : j <= i
    <3> HIDE DEF at
    <3>1. QED
      BY <1>1, <2>1, Greatest
  <2>3. Final(t, c) \in at /\ \A j \in at : j <= Final(t, c)
    <3> HIDE DEF at
    <3>1. QED
      BY <1>2, <2>1, <2>2
  <2>4. QED
    BY <1>1, <1>3, <2>3
<1>4. CASE ~\E i \in 1..Len(t) : t[i] = c
  <2>1. at = {}
    BY <1>1, <1>4
  <2>2. QED
    BY <1>2, <1>4, <2>1
<1>5. QED
  BY <1>3, <1>4

(* Of lo to hi only line breaks are left out.                                 *)
Keeps(raw, lo, hi, a, b) == lo <= a /\ b <= hi /\ \A i \in lo..hi : raw[i] /= Line => i \in a..b

LEMMA TrimIs ==
    ASSUME NEW t \in Text
    PROVE  \E a, b \in Nat : Window(Trim(t), t, a, b) /\ Keeps(t, 1, Len(t), a, b)
<1> DEFINE kept == {i \in DOMAIN t : t[i] \notin Space}
<1>1. DOMAIN t = 1..Len(t) /\ Len(t) \in Nat /\ t \in Seq(Symbols)
  BY DEF Text
<1>2. CASE kept = {}
  <2>1. Trim(t) = <<>>
    BY <1>2 DEF Trim
  <2>2. SubSeq(t, 1, 0) = <<>>
    BY <1>1
  <2>3. Window(Trim(t), t, 1, 0)
    BY <1>1, <2>1, <2>2 DEF Window
  <2>4. Keeps(t, 1, Len(t), 1, 0)
    <3>1. \A i \in 1..Len(t) : t[i] = Line
      BY <1>1, <1>2 DEF Space
    <3>2. QED
      BY <1>1, <3>1 DEF Keeps
  <2>5. QED
    BY <2>3, <2>4
<1>3. CASE kept /= {}
  <2> DEFINE a == CHOOSE i \in kept : \A j \in kept : i <= j
             b == CHOOSE i \in kept : \A j \in kept : j <= i
  <2>1. Trim(t) = SubSeq(t, a, b)
    BY <1>3 DEF Trim
  <2>2. kept \in SUBSET Nat /\ kept \in SUBSET (0..Len(t))
    BY <1>1
  <2>3. \A i \in 1..Len(t) : t[i] /= Line => i \in kept
    BY <1>1 DEF Space
  <2>4. \A i \in kept : i \in 1..Len(t)
    BY <1>1
  <2> HIDE DEF kept
  <2>5. \E i \in kept : \A j \in kept : i <= j
    BY <1>3, <2>2, Least
  <2>6. \E i \in kept : \A j \in kept : j <= i
    BY <1>1, <1>3, <2>2, Greatest
  <2>7. a \in kept /\ \A j \in kept : a <= j
    BY <2>5
  <2>8. b \in kept /\ \A j \in kept : j <= b
    BY <2>6
  <2> HIDE DEF a, b
  <2>9. a \in 1..Len(t) /\ b \in 1..Len(t) /\ a <= b
    BY <2>4, <2>7, <2>8
  <2>10. a \in Nat /\ b \in Nat /\ 1 <= a /\ b <= Len(t) /\ a <= b + 1
    BY <1>1, <2>9
  <2>11. \A i \in 1..Len(t) : t[i] /= Line => i \in a..b
    <3> SUFFICES ASSUME NEW i \in 1..Len(t), t[i] /= Line PROVE i \in a..b
      OBVIOUS
    <3>1. a <= i /\ i <= b
      BY <2>3, <2>7, <2>8
    <3>2. QED
      BY <2>9, <3>1
  <2>12. Window(Trim(t), t, a, b) /\ Keeps(t, 1, Len(t), a, b)
    BY <2>1, <2>10, <2>11 DEF Window, Keeps
  <2>13. QED
    BY <2>10, <2>12
<1>4. QED
  BY <1>2, <1>3

LEMMA TrimWindow ==
    ASSUME NEW raw \in Text, NEW t, NEW lo, NEW hi, Window(t, raw, lo, hi)
    PROVE  \E a, b \in Nat : Window(Trim(t), raw, a, b) /\ Keeps(raw, lo, hi, a, b)
<1>1. /\ t \in Text /\ Len(t) \in Nat /\ Len(t) = hi - lo + 1
      /\ \A i \in lo..hi : i - lo + 1 \in 1..Len(t) /\ t[i - lo + 1] = raw[i]
      /\ lo \in Nat /\ hi \in Nat /\ 1 <= lo /\ hi <= Len(raw) /\ lo <= hi + 1
  <2>1. lo \in Nat /\ hi \in Nat /\ 1 <= lo /\ hi <= Len(raw) /\ lo <= hi + 1
    BY DEF Window
  <2>2. /\ t \in Text /\ Len(t) \in Nat /\ Len(t) = hi - lo + 1
        /\ \A i \in lo..hi : i - lo + 1 \in 1..Len(t) /\ t[i - lo + 1] = raw[i]
    BY WindowIs
  <2>3. QED
    BY <2>1, <2>2
<1>2. PICK c, d \in Nat : Window(Trim(t), t, c, d) /\ Keeps(t, 1, Len(t), c, d)
  BY <1>1, TrimIs
<1> DEFINE a == lo + c - 1
           b == lo + d - 1
<1>3. Window(Trim(t), raw, a, b)
  BY <1>2, WindowIn
<1>4. 1 <= c /\ d <= Len(t) /\ \A i \in 1..Len(t) : t[i] /= Line => i \in c..d
  BY <1>2 DEF Keeps
<1>5. a \in Nat /\ b \in Nat /\ lo <= a /\ b <= hi
  BY <1>1, <1>4
<1>6. \A i \in lo..hi : raw[i] /= Line => i \in a..b
  <2> SUFFICES ASSUME NEW i \in lo..hi, raw[i] /= Line PROVE i \in a..b
    OBVIOUS
  <2>1. i - lo + 1 \in c..d
    BY <1>1, <1>4
  <2>2. QED
    BY <1>1, <2>1
<1>7. Keeps(raw, lo, hi, a, b)
  <2> HIDE DEF a, b
  <2>1. QED
    BY <1>5, <1>6 DEF Keeps
<1> HIDE DEF a, b
<1>8. QED
  BY <1>3, <1>5, <1>7

(* A fence in front of all but line breaks, the rest of its line, and the     *)
(* last fence behind that line, or none.                                      *)
Opened(raw, c, l) ==
    /\ c \in 1..Len(raw) /\ l \in 1..Len(raw) /\ c < l
    /\ raw[c] = Fence /\ raw[l] = Line
    /\ \A i \in 1..(c - 1) : raw[i] = Line
    /\ \A i \in c..(l - 1) : raw[i] /= Line
ClosedAll(raw, l, f) ==
    /\ f \in 1..Len(raw) /\ l < f
    /\ raw[f] = Fence
    /\ \A i \in (f + 1)..Len(raw) : raw[i] /= Fence

(* What is left of an answer is all of it, what stands behind the first       *)
(* line, or that up to the closing fence; but for line breaks at its ends.    *)
KeptDepth(raw, a, b) ==
    \/ Keeps(raw, 1, Len(raw), a, b)
    \/ \E c, l \in Nat :
         /\ Opened(raw, c, l)
         /\ \/ Keeps(raw, l + 1, Len(raw), a, b)
            \/ \E f \in Nat : ClosedAll(raw, l, f) /\ Keeps(raw, l + 1, f - 1, a, b)

LEMMA StripIs ==
    ASSUME NEW raw \in Text
    PROVE  \E a, b \in Nat : Window(StripFence(raw), raw, a, b) /\ KeptDepth(raw, a, b)
<1> DEFINE n == Len(raw)
           text == Trim(raw)
           line == First(text, Line)
           behind == From(text, line + 1)
           inner == Trim(behind)
           end == Final(inner, Fence)
           upto == SubSeq(inner, 1, end - 1)
<1>1. n \in Nat /\ raw \in Seq(Symbols)
  BY DEF Text
<1>2. StripFence(raw) = IF text = <<>> \/ text[1] /= Fence \/ line = 0 THEN text
                        ELSE IF end = 0 THEN inner ELSE Trim(upto)
  BY DEF StripFence
<1>3. PICK a1, b1 \in Nat : Window(text, raw, a1, b1) /\ Keeps(raw, 1, n, a1, b1)
  <2> HIDE DEF text
  <2>1. QED
    BY TrimIs DEF text
<1> HIDE DEF text
<1>4. CASE text = <<>> \/ text[1] /= Fence \/ line = 0
  <2>1. StripFence(raw) = text
    BY <1>2, <1>4
  <2>2. QED
    BY <1>3, <2>1 DEF KeptDepth
<1>5. CASE ~(text = <<>> \/ text[1] /= Fence \/ line = 0)
  <2>1. text[1] = Fence /\ line /= 0
    BY <1>5
  <2>2. /\ text \in Text /\ text \in Seq(Symbols) /\ Len(text) \in Nat /\ Len(text) = b1 - a1 + 1
        /\ \A k \in 1..Len(text) : a1 + k - 1 \in a1..b1 /\ text[k] = raw[a1 + k - 1]
        /\ \A i \in a1..b1 : i - a1 + 1 \in 1..Len(text) /\ text[i - a1 + 1] = raw[i]
    <3>1. raw \in Text /\ Window(text, raw, a1, b1)
      BY <1>3
    <3>2. text \in Text
      BY <3>1, WindowIs
    <3>3. Len(text) \in Nat /\ Len(text) = b1 - a1 + 1
      BY <3>1, WindowIs
    <3>4. \A k \in 1..Len(text) : a1 + k - 1 \in a1..b1 /\ text[k] = raw[a1 + k - 1]
      BY <3>1, WindowIs
    <3>5. \A i \in a1..b1 : i - a1 + 1 \in 1..Len(text) /\ text[i - a1 + 1] = raw[i]
      <4>1. a1 \in Nat /\ b1 \in Nat
        OBVIOUS
      <4>2. TAKE i \in a1..b1
      <4>3. i - a1 + 1 \in 1..Len(text)
        BY <3>3, <4>1
      <4>4. a1 + (i - a1 + 1) - 1 = i
        BY <4>1
      <4>5. QED
        BY <3>4, <4>3, <4>4
    <3>6. QED
      BY <3>2, <3>3, <3>4, <3>5 DEF Text
  <2>3. a1 \in Nat /\ b1 \in Nat /\ 1 <= a1 /\ b1 <= n /\ a1 <= b1 + 1
    BY <1>3 DEF Window
  <2>4. \A i \in 1..n : raw[i] /= Line => i \in a1..b1
    BY <1>3 DEF Keeps
  <2>5. line \in 1..Len(text) /\ text[line] = Line /\ \A i \in 1..Len(text) : text[i] = Line => line <= i
    BY <2>1, <2>2, FirstIs
  <2> HIDE DEF line
  <2> DEFINE l == a1 + line - 1
  <2>6. /\ l \in a1..b1 /\ l \in 1..n /\ a1 \in 1..n /\ 1 \in 1..Len(text) /\ a1 + 1 - 1 = a1
        /\ l \in Nat /\ l <= b1 /\ a1 <= l
    BY <1>1, <2>2, <2>3, <2>5
  <2>7. raw[l] = Line /\ raw[a1] = Fence
    <3>1. text[line] = raw[a1 + line - 1]
      BY <2>2, <2>5
    <3>2. text[1] = raw[a1 + 1 - 1]
      BY <2>2, <2>6
    <3>3. QED
      BY <2>1, <2>5, <2>6, <3>1, <3>2
  <2>8. \A i \in 1..(a1 - 1) : raw[i] = Line
    <3> SUFFICES ASSUME NEW i \in 1..(a1 - 1), raw[i] /= Line PROVE FALSE
      OBVIOUS
    <3>1. i \in 1..n /\ i \notin a1..b1
      BY <1>1, <2>3
    <3>2. QED
      BY <2>4, <3>1
  <2>9. \A i \in a1..(l - 1) : raw[i] /= Line
    <3> SUFFICES ASSUME NEW i \in a1..(l - 1), raw[i] = Line PROVE FALSE
      OBVIOUS
    <3>1. i \in a1..b1 /\ i - a1 + 1 < line
      BY <2>2, <2>3, <2>5
    <3>2. i - a1 + 1 \in 1..Len(text) /\ text[i - a1 + 1] = Line
      BY <2>2, <3>1
    <3>3. line <= i - a1 + 1
      BY <2>5, <3>2
    <3> HIDE DEF l
    <3>4. line \in Int /\ i - a1 + 1 \in Int
      BY <2>2, <2>3, <2>5, <3>1
    <3>5. QED
      BY <3>1, <3>3, <3>4
  <2>10. Opened(raw, a1, l)
    <3>1. Fence /= Line
      BY DEF Fence, Line
    <3>2. a1 /= l
      BY <2>7, <3>1
    <3>3. a1 < l
      BY <2>3, <2>6, <3>2
    <3> HIDE DEF l
    <3>4. QED
      BY <2>6, <2>7, <2>8, <2>9, <3>3 DEF Opened
  <2>11. Window(behind, raw, l + 1, b1)
    <3>1. Window(behind, text, line + 1, Len(text))
      <4>1. line + 1 \in Nat /\ 1 <= line + 1 /\ line + 1 <= Len(text) + 1
        BY <2>2, <2>5
      <4>2. QED
        BY <2>2, <4>1 DEF Window, From
    <3> HIDE DEF behind
    <3>2. Window(behind, raw, a1 + (line + 1) - 1, a1 + Len(text) - 1)
      BY <1>3, <3>1, WindowIn
    <3>3. a1 + (line + 1) - 1 = l + 1 /\ a1 + Len(text) - 1 = b1
      BY <2>2, <2>3, <2>5
    <3> HIDE DEF l
    <3>4. QED
      BY <3>2, <3>3
  <2> HIDE DEF behind, l
  <2>12. PICK a2, b2 \in Nat : Window(inner, raw, a2, b2) /\ Keeps(raw, l + 1, b1, a2, b2)
    BY <2>11, TrimWindow
  <2> HIDE DEF inner
  <2>13. Keeps(raw, l + 1, n, a2, b2)
    <3>1. l + 1 <= a2 /\ b2 <= b1 /\ \A i \in (l + 1)..b1 : raw[i] /= Line => i \in a2..b2
      BY <2>12 DEF Keeps
    <3>2. b2 <= n
      BY <1>1, <2>3, <3>1
    <3>3. \A i \in (l + 1)..n : raw[i] /= Line => i \in a2..b2
      <4> SUFFICES ASSUME NEW i \in (l + 1)..n, raw[i] /= Line PROVE i \in a2..b2
        OBVIOUS
      <4>1. i \in 1..n
        BY <1>1, <2>6
      <4>2. i \in a1..b1
        BY <2>4, <4>1
      <4>3. i \in (l + 1)..b1
        BY <2>3, <2>6, <4>2
      <4>4. QED
        BY <3>1, <4>3
    <3>4. QED
      BY <3>1, <3>2, <3>3 DEF Keeps
  <2>14. CASE end = 0
    <3>1. StripFence(raw) = inner
      BY <1>2, <1>5, <2>14
    <3>2. KeptDepth(raw, a2, b2)
      BY <2>6, <2>10, <2>13 DEF KeptDepth
    <3>3. QED
      BY <2>12, <3>1, <3>2
  <2>15. CASE end /= 0
    <3>1. StripFence(raw) = Trim(upto)
      BY <1>2, <1>5, <2>15
    <3>2. /\ inner \in Text /\ inner \in Seq(Symbols) /\ Len(inner) \in Nat /\ Len(inner) = b2 - a2 + 1
          /\ \A k \in 1..Len(inner) : a2 + k - 1 \in a2..b2 /\ inner[k] = raw[a2 + k - 1]
          /\ \A i \in a2..b2 : i - a2 + 1 \in 1..Len(inner) /\ inner[i - a2 + 1] = raw[i]
      <4>1. inner \in Text
        BY <2>12, WindowIs
      <4>2. Len(inner) \in Nat /\ Len(inner) = b2 - a2 + 1
        BY <2>12, WindowIs
      <4>3. \A k \in 1..Len(inner) : a2 + k - 1 \in a2..b2 /\ inner[k] = raw[a2 + k - 1]
        BY <2>12, WindowIs
      <4>4. \A i \in a2..b2 : i - a2 + 1 \in 1..Len(inner) /\ inner[i - a2 + 1] = raw[i]
        <5> SUFFICES ASSUME NEW i \in a2..b2 PROVE i - a2 + 1 \in 1..Len(inner) /\ inner[i - a2 + 1] = raw[i]
          OBVIOUS
        <5>1. i - a2 + 1 \in 1..Len(inner) /\ a2 + (i - a2 + 1) - 1 = i
          BY <4>2
        <5>2. inner[i - a2 + 1] = raw[a2 + (i - a2 + 1) - 1]
          BY <4>3, <5>1
        <5>3. QED
          BY <5>1, <5>2
      <4>5. QED
        BY <4>1, <4>2, <4>3, <4>4 DEF Text
    <3>3. a2 \in Nat /\ b2 \in Nat /\ 1 <= a2 /\ b2 <= n /\ a2 <= b2 + 1
      BY <2>12 DEF Window
    <3>4. end \in 1..Len(inner) /\ inner[end] = Fence /\ \A i \in 1..Len(inner) : inner[i] = Fence => i <= end
      BY <2>15, <3>2, FinalIs
    <3> HIDE DEF end
    <3> DEFINE f == a2 + end - 1
    <3>5. f \in a2..b2 /\ f \in 1..n /\ f \in Nat /\ f <= b2 /\ a2 <= f
      BY <1>1, <3>2, <3>3, <3>4
    <3>6. raw[f] = Fence
      BY <3>2, <3>4
    <3>7. l + 1 <= a2 /\ l < f
      <4>1. l + 1 <= a2
        BY <2>13 DEF Keeps
      <4> HIDE DEF f
      <4>2. QED
        BY <2>6, <3>3, <3>5, <4>1
    <3>8. \A i \in (f + 1)..n : raw[i] /= Fence
      <4> SUFFICES ASSUME NEW i \in (f + 1)..n, raw[i] = Fence PROVE FALSE
        OBVIOUS
      <4>1. raw[i] /= Line
        BY DEF Fence, Line
      <4>2. i \in (l + 1)..n
        BY <1>1, <2>6, <3>3, <3>5, <3>7
      <4>3. i \in a2..b2
        BY <2>13, <4>1, <4>2 DEF Keeps
      <4>4. i - a2 + 1 \in 1..Len(inner) /\ inner[i - a2 + 1] = Fence
        BY <3>2, <4>3
      <4>5. i - a2 + 1 <= end
        BY <3>4, <4>4
      <4>6. QED
        BY <3>2, <3>3, <3>4, <4>3, <4>5
    <3>9. ClosedAll(raw, l, f)
      <4> HIDE DEF f
      <4>1. QED
        BY <3>5, <3>6, <3>7, <3>8 DEF ClosedAll
    <3>10. Window(upto, raw, a2, f - 1)
      <4>1. Window(upto, inner, 1, end - 1)
        <5>1. 1 \in Nat /\ end - 1 \in Nat /\ 1 <= 1 /\ end - 1 <= Len(inner) /\ 1 <= (end - 1) + 1
          BY <3>2, <3>4
        <5>2. QED
          BY <5>1 DEF Window
      <4> HIDE DEF upto
      <4>2. Window(upto, raw, a2 + 1 - 1, a2 + (end - 1) - 1)
        BY <2>12, <4>1, WindowIn
      <4>3. a2 + 1 - 1 = a2 /\ a2 + (end - 1) - 1 = f - 1
        BY <3>2, <3>3, <3>4
      <4> HIDE DEF f
      <4>4. QED
        BY <4>2, <4>3
    <3> HIDE DEF upto, f
    <3>11. PICK a3, b3 \in Nat : Window(Trim(upto), raw, a3, b3) /\ Keeps(raw, a2, f - 1, a3, b3)
      BY <3>10, TrimWindow
    <3>12. Keeps(raw, l + 1, f - 1, a3, b3)
      <4>1. a2 <= a3 /\ b3 <= f - 1 /\ \A i \in a2..(f - 1) : raw[i] /= Line => i \in a3..b3
        BY <3>11 DEF Keeps
      <4>2. l + 1 <= a3
        BY <2>6, <3>3, <3>7, <4>1
      <4>3. \A i \in (l + 1)..(f - 1) : raw[i] /= Line => i \in a3..b3
        <5> SUFFICES ASSUME NEW i \in (l + 1)..(f - 1), raw[i] /= Line PROVE i \in a3..b3
          OBVIOUS
        <5>1. i \in (l + 1)..n
          BY <1>1, <2>6, <3>5
        <5>2. i \in a2..b2
          BY <2>13, <5>1 DEF Keeps
        <5>3. i \in a2..(f - 1)
          BY <2>6, <3>3, <3>5, <5>2
        <5>4. QED
          BY <4>1, <5>3
      <4>4. QED
        BY <4>1, <4>2, <4>3 DEF Keeps
    <3>13. KeptDepth(raw, a3, b3)
      BY <2>6, <2>10, <3>3, <3>5, <3>9, <3>12 DEF KeptDepth
    <3>14. QED
      BY <3>1, <3>11, <3>13
  <2>16. QED
    BY <2>14, <2>15
<1>6. QED
  BY <1>4, <1>5

(* -------------------------- how an answer is laid out ------------------------ *)

(* The places of an answer: up to x its fence opens, up to y goes the prose   *)
(* in front, up to z the object, up to w the prose behind.                    *)
Laid(r, raw, x, y, z, w) ==
    /\ raw \in Text /\ x \in Nat /\ y \in Nat /\ z \in Nat /\ w \in Nat
    /\ Len(raw) \in Nat /\ x <= y /\ y <= z /\ z <= w /\ w <= Len(raw)
    /\ x = Len(r.open) /\ y - x = Len(r.before) /\ z - y = Len(Render(r.object)) /\ w - z = Len(r.after)
    /\ Len(raw) - w = Len(r.close)
    /\ \A i \in 1..x : raw[i] = r.open[i]
    /\ \A i \in (x + 1)..y : raw[i] = r.before[i - x]
    /\ \A i \in (y + 1)..z : raw[i] = Render(r.object)[i - y]
    /\ \A i \in (z + 1)..w : raw[i] = r.after[i - z]
    /\ \A i \in (w + 1)..Len(raw) : raw[i] = r.close[i - w]

LEMMA ReplyIs ==
    ASSUME NEW r \in Replies
    PROVE  /\ r.open \in Text /\ r.before \in Text /\ r.after \in Text
           /\ r.object \in Objects /\ Spans(Render(r.object)) /\ Render(r.object) \in Text
           /\ r.close = <<>> \/ r.close = <<Line, Fence>>
           /\ r.close \in Text
<1>1. r \in [open : Seq(Symbols), before : Seq(Symbols), object : Objects, after : Seq(Symbols),
             close : {<<>>, <<Line, Fence>>}]
  BY ReplyAssumption
<1>2. r.open \in Text /\ r.before \in Text /\ r.after \in Text /\ r.object \in Objects
      /\ (r.close = <<>> \/ r.close = <<Line, Fence>>)
  BY <1>1 DEF Text
<1>3. Spans(Render(r.object))
  BY <1>2, RenderSpans
<1>4. Render(r.object) \in Text
  BY <1>3 DEF Spans
<1>5. r.close \in Text
  <2>1. Line \in Symbols /\ Fence \in Symbols
    BY ReplyAssumption
  <2>2. <<>> \in Text /\ <<Line, Fence>> \in Text
    BY <2>1 DEF Text
  <2>3. QED
    BY <1>2, <2>2
<1>6. QED
  BY <1>2, <1>3, <1>4, <1>5

LEMMA LayoutIs ==
    ASSUME NEW r \in Replies
    PROVE  \E x, y, z, w : Laid(r, Raw(r), x, y, z, w)
<1> DEFINE A == r.open
           B == r.before
           C == Render(r.object)
           D == r.after
           E == r.close
           u2 == A \o B
           u3 == u2 \o C
           u4 == u3 \o D
           raw == u4 \o E
           x == Len(A)
           y == Len(u2)
           z == Len(u3)
           w == Len(u4)
<1>1. A \in Text /\ B \in Text /\ C \in Text /\ D \in Text /\ E \in Text
  BY ReplyIs
<1>2. Raw(r) = raw
  BY DEF Raw
<1>3. /\ u2 \in Text /\ x \in Nat /\ Len(B) \in Nat /\ y = x + Len(B)
      /\ (\A i \in 1..x : u2[i] = A[i]) /\ (\A i \in 1..Len(B) : u2[x + i] = B[i])
  <2> HIDE DEF A, B
  <2>1. A \in Seq(Symbols) /\ B \in Seq(Symbols)
    BY <1>1 DEF Text
  <2>2. /\ u2 \in Seq(Symbols) /\ Len(A) \in Nat /\ Len(B) \in Nat /\ Len(u2) = Len(A) + Len(B)
        /\ \A i \in 1..Len(A) : u2[i] = A[i]
        /\ \A i \in 1..Len(B) : u2[Len(A) + i] = B[i]
    BY <2>1, ConcatAt
  <2> HIDE DEF u2
  <2>3. QED
    BY <2>2 DEF Text
<1>4. /\ u3 \in Text /\ y \in Nat /\ Len(C) \in Nat /\ z = y + Len(C)
      /\ (\A i \in 1..y : u3[i] = u2[i]) /\ (\A i \in 1..Len(C) : u3[y + i] = C[i])
  <2> HIDE DEF A, B, C, u2
  <2>1. u2 \in Seq(Symbols) /\ C \in Seq(Symbols)
    BY <1>1, <1>3 DEF Text
  <2>2. /\ u3 \in Seq(Symbols) /\ Len(u2) \in Nat /\ Len(C) \in Nat /\ Len(u3) = Len(u2) + Len(C)
        /\ \A i \in 1..Len(u2) : u3[i] = u2[i]
        /\ \A i \in 1..Len(C) : u3[Len(u2) + i] = C[i]
    BY <2>1, ConcatAt
  <2> HIDE DEF u3
  <2>3. QED
    BY <2>2 DEF Text
<1>5. /\ u4 \in Text /\ z \in Nat /\ Len(D) \in Nat /\ w = z + Len(D)
      /\ (\A i \in 1..z : u4[i] = u3[i]) /\ (\A i \in 1..Len(D) : u4[z + i] = D[i])
  <2> HIDE DEF A, B, C, D, u2, u3
  <2>1. u3 \in Seq(Symbols) /\ D \in Seq(Symbols)
    BY <1>1, <1>4 DEF Text
  <2>2. /\ u4 \in Seq(Symbols) /\ Len(u3) \in Nat /\ Len(D) \in Nat /\ Len(u4) = Len(u3) + Len(D)
        /\ \A i \in 1..Len(u3) : u4[i] = u3[i]
        /\ \A i \in 1..Len(D) : u4[Len(u3) + i] = D[i]
    BY <2>1, ConcatAt
  <2> HIDE DEF u4
  <2>3. QED
    BY <2>2 DEF Text
<1>6. /\ raw \in Text /\ w \in Nat /\ Len(E) \in Nat /\ Len(raw) = w + Len(E)
      /\ (\A i \in 1..w : raw[i] = u4[i]) /\ (\A i \in 1..Len(E) : raw[w + i] = E[i])
  <2> HIDE DEF A, B, C, D, E, u2, u3, u4
  <2>1. u4 \in Seq(Symbols) /\ E \in Seq(Symbols)
    BY <1>1, <1>5 DEF Text
  <2>2. /\ raw \in Seq(Symbols) /\ Len(u4) \in Nat /\ Len(E) \in Nat /\ Len(raw) = Len(u4) + Len(E)
        /\ \A i \in 1..Len(u4) : raw[i] = u4[i]
        /\ \A i \in 1..Len(E) : raw[Len(u4) + i] = E[i]
    BY <2>1, ConcatAt
  <2> HIDE DEF raw
  <2>3. QED
    BY <2>2 DEF Text
<1> HIDE DEF A, B, C, D, E, u2, u3, u4, raw, x, y, z, w
<1>7. /\ x <= y /\ y <= z /\ z <= w /\ w <= Len(raw) /\ Len(raw) \in Nat
      /\ y - x = Len(B) /\ z - y = Len(C) /\ w - z = Len(D) /\ Len(raw) - w = Len(E)
  BY <1>3, <1>4, <1>5, <1>6
<1>8. \A i \in 1..x : raw[i] = A[i]
  <2> SUFFICES ASSUME NEW i \in 1..x PROVE raw[i] = A[i]
    OBVIOUS
  <2>1. i \in 1..y /\ i \in 1..z /\ i \in 1..w
    BY <1>3, <1>4, <1>5, <1>6, <1>7
  <2>2. QED
    BY <1>3, <1>4, <1>5, <1>6, <2>1
<1>9. \A i \in (x + 1)..y : raw[i] = B[i - x]
  <2> SUFFICES ASSUME NEW i \in (x + 1)..y PROVE raw[i] = B[i - x]
    OBVIOUS
  <2>1. i \in 1..y /\ i \in 1..z /\ i \in 1..w /\ i - x \in 1..Len(B) /\ x + (i - x) = i
    BY <1>3, <1>4, <1>5, <1>6, <1>7
  <2>2. u2[i] = B[i - x]
    BY <1>3, <2>1
  <2>3. QED
    BY <1>4, <1>5, <1>6, <2>1, <2>2
<1>10. \A i \in (y + 1)..z : raw[i] = C[i - y]
  <2> SUFFICES ASSUME NEW i \in (y + 1)..z PROVE raw[i] = C[i - y]
    OBVIOUS
  <2>1. i \in 1..z /\ i \in 1..w /\ i - y \in 1..Len(C) /\ y + (i - y) = i
    BY <1>4, <1>5, <1>6, <1>7
  <2>2. u3[i] = C[i - y]
    BY <1>4, <2>1
  <2>3. QED
    BY <1>5, <1>6, <2>1, <2>2
<1>11. \A i \in (z + 1)..w : raw[i] = D[i - z]
  <2> SUFFICES ASSUME NEW i \in (z + 1)..w PROVE raw[i] = D[i - z]
    OBVIOUS
  <2>1. i \in 1..w /\ i - z \in 1..Len(D) /\ z + (i - z) = i
    BY <1>5, <1>6, <1>7
  <2>2. u4[i] = D[i - z]
    BY <1>5, <2>1
  <2>3. QED
    BY <1>6, <2>1, <2>2
<1>12. \A i \in (w + 1)..Len(raw) : raw[i] = E[i - w]
  <2> SUFFICES ASSUME NEW i \in (w + 1)..Len(raw) PROVE raw[i] = E[i - w]
    OBVIOUS
  <2>1. i - w \in 1..Len(E) /\ w + (i - w) = i
    BY <1>6, <1>7
  <2>2. QED
    BY <1>6, <2>1
<1>13. Laid(r, raw, x, y, z, w)
  BY <1>3, <1>4, <1>5, <1>6, <1>7, <1>8, <1>9, <1>10, <1>11, <1>12 DEF Laid, A, B, C, D, E, x
<1>14. QED
  BY <1>2, <1>13

(* From where an object stands the braces match at its end, or, if the text   *)
(* ends sooner, nowhere.                                                      *)
LEMMA MatchIs ==
    ASSUME NEW t \in Text, NEW p \in 1..Len(t), NEW o, Spans(o),
           \A k \in 1..Len(o) : p + k - 1 <= Len(t) => t[p + k - 1] = o[k]
    PROVE  /\ p + Len(o) - 1 <= Len(t) => MatchBrace(t, p) = p + Len(o) - 1
           /\ p + Len(o) - 1 > Len(t) => MatchBrace(t, p) = 0
<1> DEFINE scan == Scan(t, p)
           n == Len(o)
           closed == {k \in DOMAIN scan : k > 0 /\ scan[k].depth = 0}
<1>1. /\ t \in Seq(Symbols) /\ Len(t) \in Nat /\ p \in Nat /\ p >= 1 /\ p <= Len(t) /\ p \in 1..(Len(t) + 1)
  BY DEF Text
<1>2. /\ o \in Seq(Symbols) /\ n \in Nat /\ n > 1 /\ 1 \in 1..(Len(o) + 1)
      /\ \A k \in 1..(n - 1) : Scan(o, 1)[k].depth > 0
      /\ Scan(o, 1)[n].depth = 0
  <2>1. /\ o \in Text /\ n \in Nat /\ n > 1
        /\ \A k \in 1..(n - 1) : Scan(o, 1)[k].depth > 0
        /\ Scan(o, 1)[n].depth = 0
    BY DEF Spans
  <2>2. 1 \in 1..(Len(o) + 1)
    BY <2>1
  <2>3. o \in Seq(Symbols)
    BY <2>1 DEF Text
  <2>4. QED
    BY <2>1, <2>2, <2>3
<1>3. DOMAIN scan = 0..(Len(t) - p + 1)
  <2>1. scan \in [0..(Len(t) - p + 1) -> ScanState]
    BY <1>1, ScanIs
  <2> HIDE DEF scan
  <2>2. QED
    BY <2>1
<1>4. MatchBrace(t, p) = IF closed = {} THEN 0 ELSE p - 1 + CHOOSE k \in closed : \A j \in closed : k <= j
  BY DEF MatchBrace
<1>5. ASSUME NEW m \in Nat, m <= n, p + m - 1 <= Len(t)
      PROVE  \A k \in 0..m : scan[k] = Scan(o, 1)[k]
  <2>1. m <= Len(t) - p + 1 /\ m <= Len(o) - 1 + 1 /\ \A k \in 1..m : k \in 1..Len(o) /\ p + k - 1 <= Len(t) /\ 1 + k - 1 = k
    BY <1>1, <1>2, <1>5
  <2>2. \A k \in 1..m : t[p + k - 1] = o[1 + k - 1]
    BY <2>1
  <2> HIDE DEF n
  <2>3. QED
    BY <1>1, <1>2, <1>5, <2>1, <2>2, ScansAgree
<1> HIDE DEF scan, n
<1>6. CASE p + n - 1 <= Len(t)
  <2>1. \A k \in 0..n : scan[k] = Scan(o, 1)[k]
    <3>1. n <= n
      BY <1>2
    <3>2. QED
      BY <1>2, <1>5, <1>6, <3>1
  <2>2. n \in closed
    <3>1. n \in 0..n /\ n \in 0..(Len(t) - p + 1) /\ n > 0
      BY <1>1, <1>2, <1>6
    <3>2. QED
      BY <1>2, <1>3, <2>1, <3>1
  <2>3. \A j \in closed : n <= j /\ j \in Nat
    <3> SUFFICES ASSUME NEW j \in closed PROVE n <= j /\ j \in Nat
      OBVIOUS
    <3>1. j \in Nat /\ j > 0 /\ scan[j].depth = 0
      BY <1>1, <1>3
    <3>2. CASE j < n
      <4>1. j \in 1..(n - 1) /\ j \in 0..n
        BY <1>2, <3>1, <3>2
      <4>2. scan[j].depth > 0
        BY <1>2, <2>1, <4>1
      <4>3. QED
        BY <3>1, <4>2
    <3>3. QED
      BY <1>2, <3>1, <3>2
  <2> HIDE DEF closed
  <2> DEFINE c == CHOOSE k \in closed : \A j \in closed : k <= j
  <2>4. c \in closed /\ \A j \in closed : c <= j
    BY <2>2, <2>3
  <2> HIDE DEF c
  <2>5. c = n
    BY <1>2, <2>2, <2>3, <2>4
  <2>6. MatchBrace(t, p) = p - 1 + c
    BY <1>4, <2>2 DEF c
  <2>7. MatchBrace(t, p) = p + n - 1
    BY <1>1, <1>2, <2>5, <2>6
  <2>8. QED
    BY <1>1, <1>2, <1>6, <2>7 DEF n
<1>7. CASE p + n - 1 > Len(t)
  <2> DEFINE m == Len(t) - p + 1
  <2>1. m \in Nat /\ m <= n /\ p + m - 1 <= Len(t) /\ \A k \in 1..m : k \in 1..(n - 1) /\ k \in 0..m
    BY <1>1, <1>2, <1>7
  <2>2. \A k \in 0..m : scan[k] = Scan(o, 1)[k]
    <3> HIDE DEF m
    <3>1. QED
      BY <1>5, <2>1
  <2>3. \A k \in 1..m : scan[k].depth > 0
    <3> HIDE DEF m
    <3>1. QED
      BY <1>2, <2>1, <2>2
  <2>4. closed = {}
    <3> SUFFICES ASSUME NEW k \in closed PROVE FALSE
      OBVIOUS
    <3>1. k \in 1..m /\ scan[k].depth = 0
      BY <1>1, <1>3
    <3>2. scan[k].depth > 0
      BY <2>3, <3>1
    <3>3. QED
      BY <3>1, <3>2
  <2>5. MatchBrace(t, p) = 0
    BY <1>4, <2>4
  <2>6. QED
    BY <1>1, <1>2, <1>7, <2>5 DEF n
<1>8. QED
  BY <1>1, <1>2, <1>6, <1>7 DEF n

LEMMA SetIs == \A R : \A s \in Seq(R) : \A c : c \in ToSet(s) <=> \E i \in 1..Len(s) : s[i] = c
  BY DEF ToSet

LEMMA WindowHas ==
    ASSUME NEW raw \in Text, NEW t, NEW a, NEW b, Window(t, raw, a, b), NEW c
    PROVE  c \in ToSet(t) <=> \E i \in a..b : raw[i] = c
<1>1. t \in Text /\ Len(t) \in Nat /\ Len(t) = b - a + 1
  BY WindowIs
<1>2. \A k \in 1..Len(t) : a + k - 1 \in a..b /\ t[k] = raw[a + k - 1]
  BY WindowIs
<1>3. \A i \in a..b : i - a + 1 \in 1..Len(t) /\ t[i - a + 1] = raw[i]
  <2> SUFFICES ASSUME NEW i \in a..b PROVE i - a + 1 \in 1..Len(t) /\ t[i - a + 1] = raw[i]
    OBVIOUS
  <2>1. QED
    BY WindowIs
<1>4. c \in ToSet(t) <=> \E k \in 1..Len(t) : t[k] = c
  BY <1>1, SetIs DEF Text
<1>5. QED
  BY <1>2, <1>3, <1>4

(* What holds of the places of an answer.                                     *)
FrontHas(raw, x, y) ==
    /\ \A i \in (x + 1)..y : raw[i] = Fence => x = 0 /\ \E j \in 1..(i - 1) : raw[j] /= Line
    /\ x > 0 => raw[1] = Fence
    /\ \A i \in 2..x : raw[i] /= Fence /\ raw[i] /= "{" /\ (raw[i] = Line => i = x)
LinesHave(raw, l) == (\A i \in 1..l : raw[i] /= "{") \/ (\A i \in (l + 1)..Len(raw) : raw[i] /= "{")
BackHas(raw, z) == \A i, j \in (z + 1)..Len(raw) : raw[i] = Fence /\ i < j => raw[j] /= "{"
InnerHas(raw, y, z) == y < z /\ raw[y + 1] = "{" /\ raw[z] = "}"
ProseOpens(raw, x, y, z) ==
    (\E i \in (x + 1)..y : raw[i] = "{") \/ (\E i \in (z + 1)..Len(raw) : raw[i] = "{")

LEMMA FencedIs == \A r, raw, x, y, z, w : Laid(r, raw, x, y, z, w) /\ r \in Replies => (Fenced(r) <=> x > 0)
<1> SUFFICES ASSUME NEW r \in Replies, NEW raw, NEW x, NEW y, NEW z, NEW w, Laid(r, raw, x, y, z, w)
             PROVE  Fenced(r) <=> x > 0
  OBVIOUS
<1>1. x = Len(r.open) /\ x \in Nat
  BY DEF Laid
<1>2. r.open \in Text
  BY ReplyIs
<1>3. r.open = <<>> <=> Len(r.open) = 0
  BY <1>2 DEF Text
<1>4. QED
  BY <1>1, <1>3 DEF Fenced

LEMMA FrontIs ==
    ASSUME NEW r \in Replies, NEW raw, NEW x, NEW y, NEW z, NEW w, Laid(r, raw, x, y, z, w)
    PROVE  FrontHas(raw, x, y)
<1>1. /\ x \in Nat /\ y \in Nat /\ x <= y /\ x = Len(r.open) /\ y - x = Len(r.before)
      /\ \A i \in 1..x : raw[i] = r.open[i]
      /\ \A i \in (x + 1)..y : raw[i] = r.before[i - x]
  BY DEF Laid
<1>2. /\ \A i \in DOMAIN r.before : r.before[i] = Fence => ~Fenced(r) /\ \E j \in 1..(i - 1) : r.before[j] \notin Space
      /\ Fenced(r) => /\ r.open[1] = Fence
                      /\ \A i \in 2..Len(r.open) : r.open[i] \notin {Fence, "{"} /\ (r.open[i] = Line => i = Len(r.open))
  BY ReplyAssumption DEF FencesWell
<1>3. Fenced(r) <=> x > 0
  BY FencedIs
<1>4. DOMAIN r.before = 1..(y - x)
  <2>1. r.before \in Text
    BY ReplyIs
  <2>2. DOMAIN r.before = 1..Len(r.before)
    BY <2>1 DEF Text
  <2>3. QED
    BY <1>1, <2>2
<1>5. ASSUME NEW i \in (x + 1)..y, raw[i] = Fence
      PROVE  x = 0 /\ \E j \in 1..(i - 1) : raw[j] /= Line
  <2>1. i - x \in DOMAIN r.before /\ r.before[i - x] = Fence
    <3>1. x \in Nat /\ y \in Nat
      BY <1>1
    <3>2. i - x \in 1..(y - x)
      BY <3>1
    <3>3. raw[i] = r.before[i - x]
      BY <1>1
    <3>4. QED
      BY <1>4, <1>5, <3>2, <3>3
  <2>2. ~Fenced(r) /\ \E j \in 1..((i - x) - 1) : r.before[j] \notin Space
    BY <1>2, <2>1
  <2>3. x = 0
    BY <1>1, <1>3, <2>2
  <2>4. PICK j \in 1..((i - x) - 1) : r.before[j] \notin Space
    BY <2>2
  <2>5. j \in 1..(i - 1) /\ j \in (x + 1)..y /\ j - x = j
    BY <1>1, <2>3
  <2>6. raw[j] /= Line
    BY <1>1, <2>4, <2>5 DEF Space
  <2>7. QED
    BY <2>3, <2>5, <2>6
<1>6. ASSUME x > 0 PROVE raw[1] = Fence
  <2>1. 1 \in 1..x
    BY <1>1, <1>6
  <2>2. QED
    BY <1>1, <1>2, <1>3, <1>6, <2>1
<1>7. ASSUME NEW i \in 2..x PROVE raw[i] /= Fence /\ raw[i] /= "{" /\ (raw[i] = Line => i = x)
  <2>1. i \in 1..x /\ x > 0 /\ i \in 2..Len(r.open)
    BY <1>1
  <2>2. raw[i] = r.open[i]
    BY <1>1, <2>1
  <2>3. r.open[i] \notin {Fence, "{"} /\ (r.open[i] = Line => i = Len(r.open))
    BY <1>2, <1>3, <2>1
  <2>4. QED
    BY <1>1, <2>2, <2>3
<1>8. QED
  BY <1>5, <1>6, <1>7 DEF FrontHas

LEMMA LinesAre ==
    ASSUME NEW r \in Replies, NEW x, NEW y, NEW z, NEW w, Laid(r, Raw(r), x, y, z, w), x > 0,
           NEW l \in 1..Len(Raw(r)), Raw(r)[l] = Line, \A i \in 1..(l - 1) : Raw(r)[i] /= Line
    PROVE  LinesHave(Raw(r), l)
<1> DEFINE raw == Raw(r)
           n == Len(raw)
           line == First(raw, Line)
<1>1. raw \in Text /\ n \in Nat
  BY DEF Laid
<1>2. Fenced(r)
  BY FencedIs
<1>3. "{" \notin ToSet(SubSeq(raw, 1, line)) \/ "{" \notin ToSet(From(raw, line + 1))
  BY <1>2, ReplyAssumption DEF FencesWell
<1> HIDE DEF raw
<1>4. line = l
  <2>0. l \in 1..n /\ raw[l] = Line /\ \A i \in 1..(l - 1) : raw[i] /= Line
    BY DEF raw
  <2>1. line \in 1..n /\ raw[line] = Line /\ \A i \in 1..n : raw[i] = Line => line <= i
    BY <1>1, <2>0, FirstIs DEF Text
  <2> HIDE DEF line
  <2>2. line <= l
    BY <2>0, <2>1
  <2>3. ~(line <= l - 1)
    <3> SUFFICES ASSUME line <= l - 1 PROVE FALSE
      OBVIOUS
    <3>1. line \in 1..(l - 1)
      BY <2>0, <2>1
    <3>2. QED
      BY <2>0, <2>1, <3>1
  <2>4. QED
    BY <2>0, <2>1, <2>2, <2>3
<1> HIDE DEF line
<1>5. l \in Nat /\ 1 <= l /\ l <= n
  BY DEF raw
<1>6. Window(SubSeq(raw, 1, l), raw, 1, l) /\ Window(From(raw, l + 1), raw, l + 1, n)
  BY <1>1, <1>5 DEF Window, From
<1>7. /\ "{" \in ToSet(SubSeq(raw, 1, l)) <=> \E i \in 1..l : raw[i] = "{"
      /\ "{" \in ToSet(From(raw, l + 1)) <=> \E i \in (l + 1)..n : raw[i] = "{"
  <2> DEFINE s == SubSeq(raw, 1, l)
             t == From(raw, l + 1)
  <2>1. Window(s, raw, 1, l) /\ Window(t, raw, l + 1, n)
    BY <1>6
  <2> DEFINE c == "{"
  <2> HIDE DEF s, t, n, c
  <2>2. c \in ToSet(s) <=> \E i \in 1..l : raw[i] = c
    BY <1>1, <2>1, WindowHas
  <2>3. c \in ToSet(t) <=> \E i \in (l + 1)..n : raw[i] = c
    BY <1>1, <2>1, WindowHas
  <2>4. QED
    BY <2>2, <2>3 DEF s, t, c
<1>8. LinesHave(raw, l)
  BY <1>3, <1>4, <1>7 DEF LinesHave
<1>9. QED
  BY <1>8 DEF raw

LEMMA BackIs ==
    ASSUME NEW r \in Replies, NEW raw, NEW x, NEW y, NEW z, NEW w, Laid(r, raw, x, y, z, w), x > 0
    PROVE  BackHas(raw, z)
<1> DEFINE rest == r.after \o r.close
           n == Len(raw)
<1>1. /\ z \in Nat /\ w \in Nat /\ n \in Nat /\ z <= w /\ w <= n /\ w - z = Len(r.after) /\ n - w = Len(r.close)
      /\ \A i \in (z + 1)..w : raw[i] = r.after[i - z]
      /\ \A i \in (w + 1)..n : raw[i] = r.close[i - w]
  BY DEF Laid
<1>2. \A i, j \in DOMAIN rest : rest[i] = Fence /\ i < j => rest[j] /= "{"
  <2>1. Fenced(r)
    BY FencedIs
  <2>2. QED
    BY <2>1, ReplyAssumption DEF FencesWell
<1>3. r.after \in Seq(Symbols) /\ r.close \in Seq(Symbols)
  BY ReplyIs DEF Text
<1>4. /\ Len(rest) = Len(r.after) + Len(r.close) /\ rest \in Seq(Symbols)
      /\ \A i \in 1..Len(r.after) : rest[i] = r.after[i]
      /\ \A i \in 1..Len(r.close) : rest[Len(r.after) + i] = r.close[i]
      /\ Len(r.after) \in Nat /\ Len(r.close) \in Nat
  <2> DEFINE a == r.after
             b == r.close
  <2> HIDE DEF a, b
  <2>1. a \in Seq(Symbols) /\ b \in Seq(Symbols)
    BY <1>3 DEF a, b
  <2>2. /\ a \o b \in Seq(Symbols) /\ Len(a) \in Nat /\ Len(b) \in Nat /\ Len(a \o b) = Len(a) + Len(b)
        /\ \A i \in 1..Len(a) : (a \o b)[i] = a[i]
        /\ \A i \in 1..Len(b) : (a \o b)[Len(a) + i] = b[i]
    BY <2>1, ConcatAt
  <2>3. QED
    BY <2>2 DEF a, b
<1> DEFINE p == Len(r.after)
           q == Len(r.close)
<1>a. p \in Nat /\ q \in Nat /\ w - z = p /\ n - w = q /\ Len(rest) = p + q
  BY <1>1, <1>4
<1>b. z \in Nat /\ w \in Nat /\ n \in Nat /\ z <= w /\ w <= n
  BY <1>1
<1> HIDE DEF rest, n, p, q
<1>5. \A i \in (z + 1)..n : i - z \in DOMAIN rest /\ raw[i] = rest[i - z]
  <2> SUFFICES ASSUME NEW i \in (z + 1)..n PROVE i - z \in DOMAIN rest /\ raw[i] = rest[i - z]
    OBVIOUS
  <2>1. Len(rest) = n - z /\ DOMAIN rest = 1..Len(rest)
    <3>1. DOMAIN rest = 1..Len(rest)
      BY <1>4
    <3>2. Len(rest) = n - z
      BY <1>a, <1>b
    <3>3. QED
      BY <3>1, <3>2
  <2>2. i - z \in DOMAIN rest
    BY <1>1, <2>1
  <2>3. CASE i <= w
    <3>1. i - z \in 1..p /\ i \in (z + 1)..w
      BY <1>a, <1>b, <2>3
    <3>2. QED
      BY <1>1, <1>4, <2>2, <3>1 DEF p
  <2>4. CASE ~(i <= w)
    <3>1. i - w \in 1..q /\ i \in (w + 1)..n /\ p + (i - w) = i - z
      BY <1>a, <1>b, <2>4
    <3>2. rest[p + (i - w)] = r.close[i - w]
      BY <1>4, <3>1 DEF p, q
    <3>3. QED
      BY <1>1, <2>2, <3>1, <3>2
  <2>5. QED
    BY <2>3, <2>4
<1>6. ASSUME NEW i \in (z + 1)..n, NEW j \in (z + 1)..n, raw[i] = Fence, i < j PROVE raw[j] /= "{"
  <2>1. i - z < j - z
    BY <1>b, <1>6
  <2>2. QED
    BY <1>2, <1>5, <1>6, <2>1
<1>7. QED
  BY <1>6 DEF BackHas, n

LEMMA OuterIs ==
    ASSUME NEW r \in Replies, NEW x, NEW y, NEW z, NEW w, Laid(r, Raw(r), x, y, z, w)
    PROVE  \A i \in 1..y, j \in (y + 1)..Len(Raw(r)) : Raw(r)[i] = "{" => \A o \in Objects : SubSeq(Raw(r), i, j) /= Render(o)
<1>1. y = Len(r.open \o r.before)
  <2>1. r.open \in Seq(Symbols) /\ r.before \in Seq(Symbols)
    BY ReplyIs DEF Text
  <2>2. Len(r.open \o r.before) = Len(r.open) + Len(r.before) /\ Len(r.open) \in Nat /\ Len(r.before) \in Nat
    BY <2>1, ConcatAt
  <2>3. x = Len(r.open) /\ y - x = Len(r.before) /\ x \in Nat /\ y \in Nat
    BY DEF Laid
  <2> DEFINE p == Len(r.open)
             q == Len(r.before)
             c == Len(r.open \o r.before)
  <2>4. c = p + q /\ p \in Nat /\ q \in Nat /\ x = p /\ y - x = q
    BY <2>2, <2>3
  <2> HIDE DEF p, q, c
  <2>5. y = c
    BY <2>3, <2>4
  <2>6. QED
    BY <2>5 DEF c
<1>2. Outermost(r)
  BY ReplyAssumption
<1>3. QED
  BY <1>1, <1>2 DEF Outermost

LEMMA InnerIs ==
    ASSUME NEW r \in Replies, NEW raw, NEW x, NEW y, NEW z, NEW w, Laid(r, raw, x, y, z, w)
    PROVE  InnerHas(raw, y, z)
<1> DEFINE o == Render(r.object)
<1>1. Len(o) \in Nat /\ Len(o) > 1 /\ o[1] = "{" /\ o[Len(o)] = "}"
  BY ReplyIs DEF Spans
<1>2. y \in Nat /\ z \in Nat /\ z - y = Len(o) /\ \A i \in (y + 1)..z : raw[i] = o[i - y]
  BY DEF Laid
<1> HIDE DEF o
<1>3. y < z /\ y + 1 \in (y + 1)..z /\ z \in (y + 1)..z /\ (y + 1) - y = 1
  <2>1. Len(o) \in Nat /\ Len(o) > 1
    BY <1>1
  <2>2. QED
    BY <1>2, <2>1
<1>4. raw[y + 1] = o[1] /\ raw[z] = o[Len(o)]
  BY <1>2, <1>3
<1>5. QED
  BY <1>1, <1>3, <1>4 DEF InnerHas

LEMMA ProseIs ==
    ASSUME NEW r \in Replies, NEW raw, NEW x, NEW y, NEW z, NEW w, Laid(r, raw, x, y, z, w)
    PROVE  "{" \in ToSet(r.before \o r.after) <=> ProseOpens(raw, x, y, z)
<1> DEFINE both == r.before \o r.after
           n == Len(raw)
           m == Len(r.before)
           k == Len(r.after)
<1>1. /\ x \in Nat /\ y \in Nat /\ z \in Nat /\ w \in Nat /\ n \in Nat /\ x <= y /\ y <= z /\ z <= w /\ w <= n
      /\ y - x = m /\ w - z = k /\ n - w = Len(r.close)
      /\ \A i \in (x + 1)..y : raw[i] = r.before[i - x]
      /\ \A i \in (z + 1)..w : raw[i] = r.after[i - z]
      /\ \A i \in (w + 1)..n : raw[i] = r.close[i - w]
  BY DEF Laid
<1>2. r.before \in Seq(Symbols) /\ r.after \in Seq(Symbols)
  BY ReplyIs DEF Text
<1>3. /\ Len(both) = m + k /\ both \in Seq(Symbols) /\ m \in Nat /\ k \in Nat
      /\ \A i \in 1..m : both[i] = r.before[i]
      /\ \A i \in 1..k : both[m + i] = r.after[i]
  <2> DEFINE a == r.before
             b == r.after
  <2> HIDE DEF a, b
  <2>1. a \in Seq(Symbols) /\ b \in Seq(Symbols)
    BY <1>2 DEF a, b
  <2>2. /\ a \o b \in Seq(Symbols) /\ Len(a) \in Nat /\ Len(b) \in Nat /\ Len(a \o b) = Len(a) + Len(b)
        /\ \A i \in 1..Len(a) : (a \o b)[i] = a[i]
        /\ \A i \in 1..Len(b) : (a \o b)[Len(a) + i] = b[i]
    BY <2>1, ConcatAt
  <2>3. QED
    BY <2>2 DEF a, b
<1> HIDE DEF both, n, m, k
<1>4. "{" \in ToSet(both) <=> \E i \in 1..(m + k) : both[i] = "{"
  <2> DEFINE c == "{"
  <2> HIDE DEF c
  <2>1. c \in ToSet(both) <=> \E i \in 1..Len(both) : both[i] = c
    BY <1>3, SetIs
  <2>2. c \in ToSet(both) <=> \E i \in 1..(m + k) : both[i] = c
    BY <1>3, <2>1
  <2>3. QED
    BY <2>2 DEF c
<1>5. \A i \in (w + 1)..n : raw[i] /= "{"
  <2> SUFFICES ASSUME NEW i \in (w + 1)..n PROVE raw[i] /= "{"
    OBVIOUS
  <2>1. r.close = <<>> \/ r.close = <<Line, Fence>>
    BY ReplyIs
  <2>2. CASE r.close = <<>>
    <3>1. Len(r.close) = 0
      BY <2>2
    <3>2. n - w = 0 /\ n \in Nat /\ w \in Nat
      BY <1>1, <3>1
    <3>3. i \notin (w + 1)..n
      BY <3>2
    <3>4. QED
      BY <3>3
  <2>3. CASE r.close = <<Line, Fence>>
    <3>1. Len(r.close) = 2 /\ r.close[1] = Line /\ r.close[2] = Fence
      BY <2>3
    <3>2. n - w = 2
      BY <1>1, <3>1
    <3>3. i - w = 1 \/ i - w = 2
      BY <1>1, <3>2
    <3>4. raw[i] = r.close[i - w]
      BY <1>1
    <3>5. r.close[i - w] = Line \/ r.close[i - w] = Fence
      BY <3>1, <3>3
    <3>6. QED
      BY <3>4, <3>5 DEF Line, Fence
  <2>4. QED
    BY <2>1, <2>2, <2>3
<1>6. ASSUME NEW i \in 1..(m + k), both[i] = "{" PROVE ProseOpens(raw, x, y, z)
  <2>1. CASE i <= m
    <3>1. i \in 1..m /\ x + i \in (x + 1)..y /\ (x + i) - x = i
      BY <1>1, <1>3, <2>1
    <3>2. raw[x + i] = r.before[i]
      BY <1>1, <3>1
    <3>3. raw[x + i] = "{"
      BY <1>3, <1>6, <3>1, <3>2
    <3>4. QED
      BY <3>1, <3>3 DEF ProseOpens
  <2>2. CASE ~(i <= m)
    <3>1. i - m \in 1..k /\ m + (i - m) = i /\ z + (i - m) \in (z + 1)..w /\ z + (i - m) \in (z + 1)..n
          /\ (z + (i - m)) - z = i - m
      BY <1>1, <1>3, <2>2
    <3>2. raw[z + (i - m)] = r.after[i - m]
      BY <1>1, <3>1
    <3>3. both[m + (i - m)] = r.after[i - m]
      BY <1>3, <3>1
    <3>4. raw[z + (i - m)] = "{"
      BY <1>6, <3>1, <3>2, <3>3
    <3>5. QED
      BY <3>1, <3>4 DEF ProseOpens, n
  <2>3. QED
    BY <2>1, <2>2
<1>7. ASSUME NEW i \in (x + 1)..y, raw[i] = "{" PROVE \E j \in 1..(m + k) : both[j] = "{"
  <2>1. i - x \in 1..m /\ i - x \in 1..(m + k)
    BY <1>1, <1>3, SMTT(40)
  <2>2. QED
    BY <1>1, <1>3, <1>7, <2>1
<1>8. ASSUME NEW i \in (z + 1)..n, raw[i] = "{" PROVE \E j \in 1..(m + k) : both[j] = "{"
  <2>1. ~(i \in (w + 1)..n)
    BY <1>5, <1>8
  <2>2. i \in (z + 1)..w /\ i - z \in 1..k /\ m + (i - z) \in 1..(m + k)
    BY <1>1, <1>3, <2>1
  <2>3. both[m + (i - z)] = "{"
    BY <1>1, <1>3, <1>8, <2>2
  <2>4. QED
    BY <2>2, <2>3
<1>9. QED
  BY <1>4, <1>6, <1>7, <1>8 DEF ProseOpens, both, n

(* Behind the object the closing fence is the last thing there is, or there   *)
(* is none.                                                                   *)
LEMMA CloseIs ==
    ASSUME NEW r \in Replies, NEW raw, NEW x, NEW y, NEW z, NEW w, Laid(r, raw, x, y, z, w)
    PROVE  /\ r.close /= <<>> => z < Len(raw) /\ raw[Len(raw)] = Fence
           /\ r.close = <<>> /\ Fence \notin ToSet(Render(r.object) \o r.after) =>
                \A i \in (y + 1)..Len(raw) : raw[i] /= Fence
<1> DEFINE o == Render(r.object)
           both == o \o r.after
           n == Len(raw)
           m == Len(o)
           k == Len(r.after)
<1>1. /\ y \in Nat /\ z \in Nat /\ w \in Nat /\ n \in Nat /\ y <= z /\ z <= w /\ w <= n
      /\ z - y = m /\ w - z = k /\ n - w = Len(r.close)
      /\ \A i \in (y + 1)..z : raw[i] = o[i - y]
      /\ \A i \in (z + 1)..w : raw[i] = r.after[i - z]
      /\ \A i \in (w + 1)..n : raw[i] = r.close[i - w]
  BY DEF Laid
<1>2. o \in Seq(Symbols) /\ r.after \in Seq(Symbols)
  BY ReplyIs DEF Text
<1> HIDE DEF o
<1>3. /\ Len(both) = m + k /\ both \in Seq(Symbols) /\ m \in Nat /\ k \in Nat
      /\ \A i \in 1..m : both[i] = o[i]
      /\ \A i \in 1..k : both[m + i] = r.after[i]
  BY <1>2, ConcatAt
<1> HIDE DEF both, n, m, k
<1>4. ASSUME r.close /= <<>> PROVE z < n /\ raw[n] = Fence
  <2>1. r.close = <<Line, Fence>>
    BY <1>4, ReplyIs
  <2>2. Len(r.close) = 2 /\ r.close[2] = Fence
    BY <2>1
  <2>3. n - w = 2 /\ z < n /\ n \in (w + 1)..n
    BY <1>1, <2>2
  <2>4. raw[n] = r.close[n - w]
    BY <1>1, <2>3
  <2>5. QED
    BY <2>2, <2>3, <2>4
<1>5. ASSUME r.close = <<>>, Fence \notin ToSet(both), NEW i \in (y + 1)..n PROVE raw[i] /= Fence
  <2>1. Len(r.close) = 0
    BY <1>5
  <2>2. n = w
    BY <1>1, <2>1
  <2>3. \A j \in 1..(m + k) : both[j] /= Fence
    BY <1>3, <1>5, SetIs
  <2>4. CASE i <= z
    <3>1. i \in (y + 1)..z /\ i - y \in 1..m /\ i - y \in 1..(m + k)
      BY <1>1, <1>3, <2>4
    <3>2. QED
      BY <1>1, <1>3, <2>3, <3>1
  <2>5. CASE ~(i <= z)
    <3>1. i \in (z + 1)..w /\ i - z \in 1..k /\ m + (i - z) \in 1..(m + k)
      BY <1>1, <1>3, <2>2, <2>5, SMTT(40)
    <3>2. both[m + (i - z)] = raw[i]
      BY <1>1, <1>3, <3>1
    <3>3. QED
      BY <2>3, <3>1, <3>2
  <2>6. QED
    BY <2>4, <2>5
<1>6. QED
  BY <1>4, <1>5 DEF n, both, o

(* ------------------------- what stripping a fence keeps ---------------------- *)

LEMMA OpenedIs ==
    ASSUME NEW r \in Replies, NEW x, NEW y, NEW z, NEW w, Laid(r, Raw(r), x, y, z, w),
           NEW c, NEW l, Opened(Raw(r), c, l)
    PROVE  x > 0 /\ l \in Nat /\ l > 1 /\ LinesHave(Raw(r), l) /\ (Raw(r)[x] = Line => l <= x)
<1> DEFINE raw == Raw(r)
           n == Len(raw)
<1>1. x \in Nat /\ y \in Nat /\ z \in Nat /\ n \in Nat /\ x <= y /\ y <= z /\ z <= n
  <2>1. x \in Nat /\ y \in Nat /\ z \in Nat /\ w \in Nat /\ n \in Nat /\ x <= y /\ y <= z /\ z <= w /\ w <= n
    BY DEF Laid
  <2> HIDE DEF n
  <2>2. QED
    BY <2>1
<1>2. /\ c \in 1..n /\ l \in 1..n /\ c < l /\ raw[c] = Fence /\ raw[l] = Line
      /\ \A i \in 1..(c - 1) : raw[i] = Line
      /\ \A i \in c..(l - 1) : raw[i] /= Line
  BY DEF Opened
<1>3. FrontHas(raw, x, y) /\ InnerHas(raw, y, z)
  BY FrontIs, InnerIs
<1>4. Fence /= Line /\ "{" /= Fence /\ "{" /= Line
  BY DEF Fence, Line
<1> HIDE DEF raw, n
<1>5. c \in Nat /\ l \in Nat /\ 1 <= c /\ c < l /\ l <= n
  BY <1>1, <1>2
<1>6. raw[y + 1] = "{" /\ y < z
  BY <1>3 DEF InnerHas
<1>7. x > 0
  <2> SUFFICES ASSUME x = 0 PROVE FALSE
    BY <1>1
  <2>1. CASE c <= y
    <3>1. c \in (x + 1)..y
      BY <1>1, <1>5, <2>1
    <3>2. PICK j \in 1..(c - 1) : raw[j] /= Line
      BY <1>2, <1>3, <3>1 DEF FrontHas
    <3>3. QED
      BY <1>2, <3>2
  <2>2. CASE c = y + 1
    BY <1>2, <1>4, <1>6, <2>2
  <2>3. CASE c > y + 1
    <3>1. y + 1 \in 1..(c - 1)
      BY <1>1, <1>5, <2>3
    <3>2. QED
      BY <1>2, <1>4, <1>6, <3>1
  <2>4. QED
    BY <1>1, <1>5, <2>1, <2>2, <2>3
<1>8. c = 1
  <2> SUFFICES ASSUME c /= 1 PROVE FALSE
    OBVIOUS
  <2>1. 1 \in 1..(c - 1)
    BY <1>5
  <2>2. raw[1] = Fence
    BY <1>3, <1>7 DEF FrontHas
  <2>3. QED
    BY <1>2, <1>4, <2>1, <2>2
<1>9. LinesHave(raw, l)
  <2>1. l \in 1..n /\ raw[l] = Line /\ \A i \in 1..(l - 1) : raw[i] /= Line
    BY <1>2, <1>8
  <2>2. QED
    BY <1>7, <2>1, LinesAre DEF raw, n
<1>10. ASSUME raw[x] = Line PROVE l <= x
  <2> SUFFICES ASSUME ~(l <= x) PROVE FALSE
    OBVIOUS
  <2>1. x \in 1..(l - 1)
    BY <1>1, <1>5, <1>7
  <2>2. QED
    BY <1>2, <1>8, <1>10, <2>1
<1>11. l > 1
  BY <1>5
<1>12. QED
  BY <1>5, <1>7, <1>9, <1>10, <1>11 DEF raw

LEMMA ClosedIs ==
    ASSUME NEW r \in Replies, NEW raw, NEW x, NEW y, NEW z, NEW w, Laid(r, raw, x, y, z, w), x > 0,
           NEW l \in Nat, l > 1, NEW f, ClosedAll(raw, l, f)
    PROVE  f \in Nat /\ f <= Len(raw) /\ y + 1 < f
<1> DEFINE n == Len(raw)
<1>1. x \in Nat /\ y \in Nat /\ n \in Nat /\ x <= y
  BY DEF Laid
<1>2. f \in 1..n /\ l < f /\ raw[f] = Fence
  BY DEF ClosedAll
<1>3. FrontHas(raw, x, y) /\ InnerHas(raw, y, z)
  BY FrontIs, InnerIs
<1> HIDE DEF n
<1>4. f \in Nat /\ f <= n /\ f >= 2
  BY <1>1, <1>2
<1>5. ~(f <= x)
  <2> SUFFICES ASSUME f <= x PROVE FALSE
    OBVIOUS
  <2>1. f \in 2..x
    BY <1>1, <1>4
  <2>2. QED
    BY <1>2, <1>3, <2>1 DEF FrontHas
<1>6. ~(f <= y)
  <2> SUFFICES ASSUME f <= y PROVE FALSE
    OBVIOUS
  <2>1. f \in (x + 1)..y
    BY <1>1, <1>4, <1>5
  <2>2. x = 0
    BY <1>2, <1>3, <2>1 DEF FrontHas
  <2>3. QED
    BY <1>1, <2>2
<1>7. f /= y + 1
  BY <1>2, <1>3 DEF InnerHas, Fence
<1>8. y + 1 < f
  BY <1>1, <1>4, <1>6, <1>7
<1>9. QED
  BY <1>4, <1>8 DEF n

(* What is left reaches the object's start; if it begins behind it, it opens  *)
(* no object; if it has the whole object and opens no other, the answer opens *)
(* no other; and it does have it if the fences are as they should be.         *)
LEMMA KeptHas ==
    ASSUME NEW r \in Replies, NEW x, NEW y, NEW z, NEW w, Laid(r, Raw(r), x, y, z, w),
           NEW a \in Nat, NEW b \in Nat, 1 <= a, b <= Len(Raw(r)), a <= b + 1, KeptDepth(Raw(r), a, b)
    PROVE  /\ y + 1 <= b
           /\ y + 1 < a => \A i \in a..b : Raw(r)[i] /= "{"
           /\ a <= y + 1 /\ z <= b /\ (\A i \in a..y : Raw(r)[i] /= "{") /\ (\A i \in (z + 1)..b : Raw(r)[i] /= "{")
              => ~ProseOpens(Raw(r), x, y, z)
           /\ /\ Fenced(r) => Raw(r)[x] = Line
              /\ Fenced(r) /\ r.close = <<>> => \A i \in (y + 1)..Len(Raw(r)) : Raw(r)[i] /= Fence
              => a <= y + 1 /\ z <= b
<1> DEFINE raw == Raw(r)
           n == Len(raw)
           Good == (Fenced(r) => raw[x] = Line)
                   /\ (Fenced(r) /\ r.close = <<>> => \A i \in (y + 1)..n : raw[i] /= Fence)
           Whole == a <= y + 1 /\ z <= b /\ (\A i \in a..y : raw[i] /= "{") /\ (\A i \in (z + 1)..b : raw[i] /= "{")
<1>1. x \in Nat /\ y \in Nat /\ z \in Nat /\ n \in Nat /\ x <= y /\ y < z /\ z <= n
  <2>1. x \in Nat /\ y \in Nat /\ z \in Nat /\ w \in Nat /\ n \in Nat /\ x <= y /\ y <= z /\ z <= w /\ w <= n
    BY DEF Laid
  <2>2. y < z
    BY InnerIs DEF InnerHas
  <2> HIDE DEF n
  <2>3. QED
    BY <2>1, <2>2
<1>2. raw[y + 1] = "{" /\ raw[z] = "}"
  BY InnerIs DEF InnerHas
<1>3. "{" /= Line /\ "}" /= Line /\ "{" /= Fence
  BY DEF Line, Fence
<1>4. Fenced(r) <=> x > 0
  BY FencedIs
<1>5. KeptDepth(raw, a, b) /\ b <= n
  OBVIOUS
<1>6. ProseOpens(raw, x, y, z) <=> (\E i \in (x + 1)..y : raw[i] = "{") \/ (\E i \in (z + 1)..n : raw[i] = "{")
  BY DEF ProseOpens
<1> SUFFICES /\ y + 1 <= b
             /\ y + 1 < a => \A i \in a..b : raw[i] /= "{"
             /\ Whole => ~ProseOpens(raw, x, y, z)
             /\ Good => a <= y + 1 /\ z <= b
  OBVIOUS
<1>7. CASE Keeps(raw, 1, n, a, b)
  <2> HIDE DEF raw, n, Good
  <2>1. \A i \in 1..n : raw[i] /= Line => i \in a..b
    BY <1>7 DEF Keeps
  <2>2. y + 1 \in 1..n /\ z \in 1..n
    BY <1>1
  <2>3. y + 1 \in a..b /\ z \in a..b
    BY <1>2, <1>3, <2>1, <2>2
  <2>4. a <= y + 1 /\ y + 1 <= b /\ z <= b
    BY <2>3
  <2>5. ASSUME Whole, ProseOpens(raw, x, y, z) PROVE FALSE
    <3>1. CASE \E i \in (x + 1)..y : raw[i] = "{"
      <4>1. PICK i \in (x + 1)..y : raw[i] = "{"
        BY <3>1
      <4>2. i \in 1..n
        BY <1>1
      <4>3. i \in a..b
        BY <1>3, <2>1, <4>1, <4>2
      <4>4. i \in a..y
        BY <1>1, <4>3
      <4>5. QED
        BY <2>5, <4>1, <4>4
    <3>2. CASE \E i \in (z + 1)..n : raw[i] = "{"
      <4>1. PICK i \in (z + 1)..n : raw[i] = "{"
        BY <3>2
      <4>2. i \in 1..n
        BY <1>1
      <4>3. i \in a..b
        BY <1>3, <2>1, <4>1, <4>2
      <4>4. i \in (z + 1)..b
        BY <1>1, <4>3
      <4>5. QED
        BY <2>5, <4>1, <4>4
    <3>3. QED
      BY <1>6, <2>5, <3>1, <3>2
  <2>6. ~(y + 1 < a)
    BY <1>1, <2>4
  <2> HIDE DEF Whole
  <2>7. QED
    BY <2>4, <2>5, <2>6
<1>8. ASSUME NEW c \in Nat, NEW l \in Nat, Opened(raw, c, l),
             NEW h \in Nat, y + 1 <= h, h <= n, Keeps(raw, l + 1, h, a, b),
             h = n \/ (BackHas(raw, z) /\ h + 1 <= n /\ raw[h + 1] = Fence),
             Good => z <= h
      PROVE  /\ y + 1 <= b
             /\ y + 1 < a => \A i \in a..b : raw[i] /= "{"
             /\ Whole => ~ProseOpens(raw, x, y, z)
             /\ Good => a <= y + 1 /\ z <= b
  <2>1. x > 0 /\ LinesHave(raw, l) /\ (raw[x] = Line => l <= x)
    BY <1>8, OpenedIs
  <2>2. Good => l <= x
    BY <1>4, <2>1
  <2>3. l + 1 <= a /\ b <= h /\ \A i \in (l + 1)..h : raw[i] /= Line => i \in a..b
    BY <1>8 DEF Keeps
  <2>4. (\A i \in 1..l : raw[i] /= "{") \/ (\A i \in (l + 1)..n : raw[i] /= "{")
    BY <2>1 DEF LinesHave
  <2>5. h = n \/ (h + 1 <= n /\ raw[h + 1] = Fence /\ \A i, j \in (z + 1)..n : raw[i] = Fence /\ i < j => raw[j] /= "{")
    BY <1>8 DEF BackHas
  <2> HIDE DEF raw, n, Good
  <2>6. y + 1 <= b
    <3>1. CASE l < y + 1
      <4>1. y + 1 \in (l + 1)..h
        BY <1>1, <1>8, <3>1
      <4>2. y + 1 \in a..b
        BY <1>2, <1>3, <2>3, <4>1
      <4>3. QED
        BY <4>2
    <3>2. CASE ~(l < y + 1)
      BY <1>1, <2>3, <3>2
    <3>3. QED
      BY <3>1, <3>2
  <2>7. ASSUME y + 1 < a, NEW i \in a..b PROVE raw[i] /= "{"
    <3>1. ~(l < y + 1)
      <4> SUFFICES ASSUME l < y + 1 PROVE FALSE
        OBVIOUS
      <4>1. y + 1 \in (l + 1)..h
        BY <1>1, <1>8
      <4>2. y + 1 \in a..b
        BY <1>2, <1>3, <2>3, <4>1
      <4>3. QED
        BY <1>1, <2>7, <4>2
    <3>2. y + 1 \in 1..l /\ i \in (l + 1)..n
      BY <1>1, <1>5, <1>8, <2>3, <3>1
    <3>3. QED
      BY <1>2, <2>4, <3>2
  <2>8. ASSUME Whole, ProseOpens(raw, x, y, z) PROVE FALSE
    <3>a. a <= y + 1 /\ z <= b
      BY <2>8
    <3>b. l + 1 <= a /\ b <= h
      BY <2>3
    <3>1. y + 1 \in (l + 1)..n /\ a <= y + 1 /\ z <= b
      BY <1>1, <3>a, <3>b
    <3>2. \A i \in 1..l : raw[i] /= "{"
      BY <1>2, <2>4, <3>1
    <3>3. \A i \in a..y : raw[i] /= "{"
      BY <2>8
    <3>4. \A i \in (z + 1)..b : raw[i] /= "{"
      BY <2>8
    <3> HIDE DEF Whole
    <3>5. CASE \E i \in (x + 1)..y : raw[i] = "{"
      <4>1. PICK i \in (x + 1)..y : raw[i] = "{"
        BY <3>5
      <4>2. i \notin 1..l
        BY <3>2, <4>1
      <4>3. i \in (l + 1)..h
        BY <1>1, <1>8, <4>2
      <4>4. i \in a..b
        BY <1>3, <2>3, <4>1, <4>3
      <4>5. i \in a..y
        BY <1>1, <4>4
      <4>6. QED
        BY <3>3, <4>1, <4>5
    <3>6. CASE \E i \in (z + 1)..n : raw[i] = "{"
      <4>1. PICK i \in (z + 1)..n : raw[i] = "{"
        BY <3>6
      <4>2. CASE i <= h
        <5>1. i \in (l + 1)..h
          BY <1>1, <1>8, <3>1, <4>2
        <5>2. i \in a..b
          BY <1>3, <2>3, <4>1, <5>1
        <5>3. i \in (z + 1)..b
          BY <1>1, <5>2
        <5>4. QED
          BY <3>4, <4>1, <5>3
      <4>3. CASE ~(i <= h)
        <5>1. h /= n
          BY <1>1, <4>3
        <5>2. h + 1 <= n /\ raw[h + 1] = Fence /\ \A k, j \in (z + 1)..n : raw[k] = Fence /\ k < j => raw[j] /= "{"
          BY <2>5, <5>1
        <5>3. h + 1 \in (z + 1)..n
          <6>1. h + 1 <= n
            BY <5>2
          <6>2. QED
            BY <1>1, <3>a, <3>b, <6>1
        <5>4. h + 1 /= i
          BY <1>3, <4>1, <5>2
        <5>5. h + 1 < i
          BY <1>1, <1>8, <4>3, <5>4
        <5>6. QED
          BY <4>1, <5>2, <5>3, <5>5
      <4>4. QED
        BY <4>2, <4>3
    <3>7. QED
      BY <1>6, <2>8, <3>5, <3>6
  <2>9. ASSUME Good PROVE a <= y + 1 /\ z <= b
    <3>1. l <= x /\ z <= h
      BY <1>8, <2>2, <2>9
    <3>2. y + 1 \in (l + 1)..h /\ z \in (l + 1)..h
      BY <1>1, <1>8, <3>1
    <3>3. y + 1 \in a..b /\ z \in a..b
      BY <1>2, <1>3, <2>3, <3>2
    <3>4. QED
      BY <3>3
  <2> HIDE DEF Whole
  <2>10. QED
    BY <2>6, <2>7, <2>8, <2>9
<1>9. ASSUME NEW c \in Nat, NEW l \in Nat, Opened(raw, c, l), Keeps(raw, l + 1, n, a, b)
      PROVE  /\ y + 1 <= b
             /\ y + 1 < a => \A i \in a..b : raw[i] /= "{"
             /\ Whole => ~ProseOpens(raw, x, y, z)
             /\ Good => a <= y + 1 /\ z <= b
  <2> HIDE DEF raw, n, Good, Whole
  <2>1. n \in Nat /\ y + 1 <= n /\ n <= n /\ z <= n
    BY <1>1
  <2>2. QED
    BY <1>8, <1>9, <2>1
<1>10. ASSUME NEW c \in Nat, NEW l \in Nat, Opened(raw, c, l),
              NEW f \in Nat, ClosedAll(raw, l, f), Keeps(raw, l + 1, f - 1, a, b)
       PROVE  /\ y + 1 <= b
              /\ y + 1 < a => \A i \in a..b : raw[i] /= "{"
              /\ Whole => ~ProseOpens(raw, x, y, z)
              /\ Good => a <= y + 1 /\ z <= b
  <2>1. x > 0 /\ l > 1
    BY <1>10, OpenedIs
  <2>2. f <= n /\ y + 1 < f
    BY <1>10, <2>1, ClosedIs
  <2>3. BackHas(raw, z)
    BY <2>1, BackIs
  <2>4. raw[f] = Fence /\ \A i \in (f + 1)..n : raw[i] /= Fence
    BY <1>10 DEF ClosedAll
  <2>5. r.close /= <<>> => z < n /\ raw[n] = Fence
    BY CloseIs
  <2>6. ASSUME Good PROVE z <= f - 1
    <3>1. CASE r.close = <<>>
      <4>1. \A i \in (y + 1)..n : raw[i] /= Fence
        BY <1>4, <2>1, <2>6, <3>1
      <4> HIDE DEF raw, n, Good
      <4>2. f \in (y + 1)..n
        BY <1>1, <2>2
      <4>3. QED
        BY <2>4, <4>1, <4>2
    <3>2. CASE r.close /= <<>>
      <4>1. z < n /\ raw[n] = Fence
        BY <2>5, <3>2
      <4> HIDE DEF raw, n, Good
      <4>2. n \notin (f + 1)..n
        BY <2>4, <4>1
      <4>3. f = n
        BY <1>1, <2>2, <4>2
      <4>4. QED
        BY <1>1, <4>1, <4>3
    <3>3. QED
      BY <3>1, <3>2
  <2> HIDE DEF raw, n, Good, Whole
  <2> DEFINE h == f - 1
  <2>7. h \in Nat /\ y + 1 <= h /\ h <= n /\ h + 1 <= n /\ h + 1 = f
    BY <1>1, <2>2
  <2>8. raw[h + 1] = Fence /\ Keeps(raw, l + 1, h, a, b) /\ (Good => z <= h)
    BY <1>10, <2>4, <2>6, <2>7
  <2> HIDE DEF h
  <2>9. QED
    BY <1>8, <1>10, <2>3, <2>7, <2>8
<1>11. QED
  <2>1. \/ Keeps(raw, 1, n, a, b)
        \/ \E c, l \in Nat :
             /\ Opened(raw, c, l)
             /\ \/ Keeps(raw, l + 1, n, a, b)
                \/ \E f \in Nat : ClosedAll(raw, l, f) /\ Keeps(raw, l + 1, f - 1, a, b)
    BY <1>5 DEF KeptDepth
  <2> HIDE DEF raw, n, Good, Whole
  <2>2. QED
    BY <1>7, <1>9, <1>10, <2>1

(* ------------------------------ what is taken out ---------------------------- *)

LEMMA MatchIn ==
    ASSUME NEW t \in Text, NEW p \in 1..Len(t), MatchBrace(t, p) /= 0
    PROVE  MatchBrace(t, p) \in p..Len(t)
<1> DEFINE scan == Scan(t, p)
           closed == {k \in DOMAIN scan : k > 0 /\ scan[k].depth = 0}
<1>1. t \in Seq(Symbols) /\ Len(t) \in Nat /\ p \in Nat /\ p >= 1 /\ p <= Len(t) /\ p \in 1..(Len(t) + 1)
  BY DEF Text
<1>2. DOMAIN scan = 0..(Len(t) - p + 1)
  <2>1. scan \in [0..(Len(t) - p + 1) -> ScanState]
    BY <1>1, ScanIs
  <2> HIDE DEF scan
  <2>2. QED
    BY <2>1
<1>3. MatchBrace(t, p) = IF closed = {} THEN 0 ELSE p - 1 + CHOOSE k \in closed : \A j \in closed : k <= j
  BY DEF MatchBrace
<1>4. closed \in SUBSET Nat /\ \A k \in closed : k \in 1..(Len(t) - p + 1)
  <2> HIDE DEF scan
  <2>1. QED
    BY <1>1, <1>2
<1> HIDE DEF closed
<1>5. closed /= {}
  BY <1>3
<1>6. \E k \in closed : \A j \in closed : k <= j
  BY <1>4, <1>5, Least
<1> DEFINE c == CHOOSE k \in closed : \A j \in closed : k <= j
<1>7. c \in closed
  BY <1>6
<1>8. MatchBrace(t, p) = p - 1 + c
  BY <1>3, <1>5
<1> HIDE DEF c
<1>9. c \in 1..(Len(t) - p + 1)
  BY <1>4, <1>7
<1>10. QED
  BY <1>1, <1>8, <1>9

LEMMA ObjectAt ==
    ASSUME NEW r \in Replies, NEW raw, NEW x, NEW y, NEW z, NEW w, Laid(r, raw, x, y, z, w)
    PROVE  SubSeq(raw, y + 1, z) = Render(r.object)
<1> DEFINE o == Render(r.object)
           s == SubSeq(raw, y + 1, z)
<1>1. o \in Seq(Symbols)
  BY ReplyIs DEF Text
<1>2. /\ raw \in Text /\ y \in Nat /\ z \in Nat /\ w \in Nat /\ Len(raw) \in Nat /\ y <= z /\ z <= w /\ w <= Len(raw)
      /\ z - y = Len(o) /\ \A i \in (y + 1)..z : raw[i] = o[i - y]
  BY DEF Laid
<1>3. Window(s, raw, y + 1, z)
  <2>1. y + 1 \in Nat /\ 1 <= y + 1 /\ z <= Len(raw) /\ y + 1 <= z + 1
    BY <1>2
  <2>2. QED
    BY <1>2, <2>1 DEF Window
<1> HIDE DEF o, s
<1>4. s \in Text /\ Len(s) \in Nat /\ Len(s) = z - (y + 1) + 1
  BY <1>2, <1>3, WindowIs
<1>5. \A k \in 1..Len(s) : s[k] = raw[(y + 1) + k - 1]
  BY <1>2, <1>3, WindowIs, SMTT(40)
<1>6. Len(s) = Len(o)
  BY <1>2, <1>4
<1>7. \A k \in 1..Len(s) : s[k] = o[k]
  <2> SUFFICES ASSUME NEW k \in 1..Len(s) PROVE s[k] = o[k]
    OBVIOUS
  <2>1. (y + 1) + k - 1 \in (y + 1)..z /\ (y + 1) + k - 1 = y + k /\ (y + k) - y = k
    BY <1>2, <1>4
  <2>2. raw[y + k] = o[(y + k) - y]
    BY <1>2, <2>1
  <2>3. s[k] = raw[y + k]
    BY <1>5, <2>1
  <2>4. QED
    BY <2>1, <2>2, <2>3
<1>8. s = o
  BY <1>1, <1>4, <1>6, <1>7, SameText DEF Text
<1>9. QED
  BY <1>8 DEF s, o

(* From the object's start the braces of a window match at the object's end,  *)
(* if the window reaches it.                                                  *)
LEMMA MatchAt ==
    ASSUME NEW r \in Replies, NEW raw, NEW x, NEW y, NEW z, NEW w, Laid(r, raw, x, y, z, w),
           NEW t, NEW a, NEW b, Window(t, raw, a, b), a <= y + 1, y + 1 <= b
    PROVE  /\ z <= b => MatchBrace(t, y + 1 - a + 1) = z - a + 1
           /\ b < z => MatchBrace(t, y + 1 - a + 1) = 0
<1> DEFINE o == Render(r.object)
           p == y + 1 - a + 1
<1>1. Spans(o)
  BY ReplyIs
<1>2. /\ raw \in Text /\ y \in Nat /\ z \in Nat /\ y <= z
      /\ z - y = Len(o) /\ \A i \in (y + 1)..z : raw[i] = o[i - y]
  BY DEF Laid
<1>3. a \in Nat /\ b \in Nat /\ 1 <= a
  BY DEF Window
<1> HIDE DEF o
<1>4. t \in Text /\ Len(t) \in Nat /\ Len(t) = b - a + 1
  BY <1>2, WindowIs
<1>5. \A k \in 1..Len(t) : t[k] = raw[a + k - 1]
  BY <1>2, WindowIs
<1>6. p \in 1..Len(t)
  BY <1>2, <1>3, <1>4
<1>7. \A k \in 1..Len(o) : p + k - 1 <= Len(t) => t[p + k - 1] = o[k]
  <2> SUFFICES ASSUME NEW k \in 1..Len(o), p + k - 1 <= Len(t) PROVE t[p + k - 1] = o[k]
    OBVIOUS
  <2>1. p + k - 1 \in 1..Len(t) /\ a + (p + k - 1) - 1 = y + k /\ y + k \in (y + 1)..z /\ (y + k) - y = k
    <3>1. k \in Nat /\ 1 <= k /\ k <= z - y
      BY <1>2
    <3>2. y \in Nat /\ z \in Nat
      BY <1>2
    <3>3. QED
      BY <1>3, <1>4, <1>6, <3>1, <3>2
  <2> HIDE DEF p
  <2>2. t[p + k - 1] = raw[a + (p + k - 1) - 1]
    BY <1>5, <2>1
  <2>3. raw[y + k] = o[(y + k) - y]
    BY <1>2, <2>1
  <2>4. QED
    BY <2>1, <2>2, <2>3
<1> HIDE DEF p
<1>8. /\ p + Len(o) - 1 <= Len(t) => MatchBrace(t, p) = p + Len(o) - 1
      /\ p + Len(o) - 1 > Len(t) => MatchBrace(t, p) = 0
  BY <1>1, <1>4, <1>6, <1>7, MatchIs
<1>9. p + Len(o) - 1 = z - a + 1 /\ Len(t) = b - a + 1
  <2>1. y \in Nat /\ z \in Nat /\ z - y = Len(o)
    BY <1>2
  <2>2. QED
    BY <1>3, <1>4, <2>1 DEF p
<1>10. (z <= b => z - a + 1 <= Len(t)) /\ (b < z => z - a + 1 > Len(t))
  <2>1. z \in Nat
    BY <1>2
  <2>2. QED
    BY <1>3, <1>4, <2>1
<1>11. QED
  BY <1>8, <1>9, <1>10 DEF p

(* Behind a place of a window that opens no object nothing is found there.    *)
LEMMA NoneBehind ==
    ASSUME NEW raw \in Text, NEW t, NEW a, NEW b, Window(t, raw, a, b), NEW q \in a..b,
           NEW e, e = q - a + 2
    PROVE  "{" \in ToSet(From(t, e)) <=> \E i \in (q + 1)..b : raw[i] = "{"
<1> DEFINE u == From(t, e)
           c == "{"
<1>1. a \in Nat /\ b \in Nat /\ 1 <= a /\ a <= q /\ q <= b /\ q \in Nat
  BY DEF Window
<1>2. t \in Text /\ Len(t) \in Nat /\ Len(t) = b - a + 1
  BY WindowIs
<1>3. Window(u, t, q - a + 2, Len(t))
  <2>1. q - a + 2 \in Nat /\ 1 <= q - a + 2 /\ q - a + 2 <= Len(t) + 1
    BY <1>1, <1>2
  <2>2. QED
    BY <1>2, <2>1 DEF Window, From
<1> HIDE DEF u, c
<1>4. Window(u, raw, a + (q - a + 2) - 1, a + Len(t) - 1)
  BY <1>3, WindowIn
<1>5. a + (q - a + 2) - 1 = q + 1 /\ a + Len(t) - 1 = b
  BY <1>1, <1>2
<1>6. Window(u, raw, q + 1, b)
  BY <1>4, <1>5
<1>7. c \in ToSet(u) <=> \E i \in (q + 1)..b : raw[i] = c
  BY <1>6, WindowHas
<1>8. QED
  BY <1>7 DEF u, c

LEMMA PartOfWindow ==
    ASSUME NEW raw \in Text, NEW t, NEW a, NEW b, Window(t, raw, a, b), NEW p \in a..b, NEW q \in p..b
    PROVE  SubSeq(t, p - a + 1, q - a + 1) = SubSeq(raw, p, q)
<1> DEFINE u == SubSeq(t, p - a + 1, q - a + 1)
<1>1. a \in Nat /\ b \in Nat /\ 1 <= a /\ a <= p /\ p <= q /\ q <= b /\ q \in Nat /\ p \in Nat
  BY DEF Window
<1>2. t \in Text /\ Len(t) \in Nat /\ Len(t) = b - a + 1
  BY WindowIs
<1>3. Window(u, t, p - a + 1, q - a + 1)
  <2>1. p - a + 1 \in Nat /\ q - a + 1 \in Nat /\ 1 <= p - a + 1 /\ q - a + 1 <= Len(t) /\ p - a + 1 <= (q - a + 1) + 1
    BY <1>1, <1>2
  <2>2. QED
    BY <2>1 DEF Window
<1> HIDE DEF u
<1>4. Window(u, raw, a + (p - a + 1) - 1, a + (q - a + 1) - 1)
  BY <1>3, WindowIn
<1>5. a + (p - a + 1) - 1 = p /\ a + (q - a + 1) - 1 = q
  BY <1>1
<1>6. Window(u, raw, p, q)
  BY <1>4, <1>5
<1>7. QED
  BY <1>6 DEF Window, u

LEMMA ReadBack == \A o \in Objects : Unmarshal(Render(o)) = {o}
  BY ReplyAssumption DEF Unmarshal

LEMMA Extracted ==
    ASSUME NEW r \in Replies
    PROVE  /\ ExtractJSON(Raw(r)) /= Failed =>
                ExtractJSON(Raw(r)) = Render(r.object) /\ "{" \notin ToSet(r.before \o r.after)
           /\ /\ "{" \notin ToSet(r.before \o r.after)
              /\ Fenced(r) => Last(r.open) = Line
              /\ Fenced(r) /\ r.close = <<>> => Fence \notin ToSet(Render(r.object) \o r.after)
              => ExtractJSON(Raw(r)) = Render(r.object)
<1> DEFINE raw == Raw(r)
           n == Len(raw)
           t == StripFence(raw)
           start == First(t, "{")
           end == IF start = 0 THEN 0 ELSE MatchBrace(t, start)
           candidate == SubSeq(t, start, end)
           doc == ExtractJSON(raw)
<1>1. PICK x, y, z, w : Laid(r, raw, x, y, z, w)
  BY LayoutIs
<1>2. raw \in Text /\ x \in Nat /\ y \in Nat /\ z \in Nat /\ n \in Nat /\ x <= y /\ y < z /\ z <= n
  <2>1. raw \in Text /\ x \in Nat /\ y \in Nat /\ z \in Nat /\ w \in Nat /\ n \in Nat
        /\ x <= y /\ y <= z /\ z <= w /\ w <= n
    BY <1>1 DEF Laid
  <2>2. y < z
    BY <1>1, InnerIs DEF InnerHas
  <2> HIDE DEF n, raw
  <2>3. z <= n
    BY <2>1
  <2>4. QED
    BY <2>1, <2>2, <2>3
<1>3. PICK a, b \in Nat : Window(t, raw, a, b) /\ KeptDepth(raw, a, b)
  BY <1>2, StripIs
<1>4. a \in Nat /\ b \in Nat /\ 1 <= a /\ b <= n /\ a <= b + 1
  BY <1>3 DEF Window
<1>5. /\ y + 1 <= b
      /\ y + 1 < a => \A i \in a..b : raw[i] /= "{"
      /\ a <= y + 1 /\ z <= b /\ (\A i \in a..y : raw[i] /= "{") /\ (\A i \in (z + 1)..b : raw[i] /= "{")
           => ~ProseOpens(raw, x, y, z)
      /\ /\ Fenced(r) => raw[x] = Line
         /\ Fenced(r) /\ r.close = <<>> => \A i \in (y + 1)..n : raw[i] /= Fence
         => a <= y + 1 /\ z <= b
  BY <1>1, <1>3, <1>4, KeptHas
<1>6. doc = IF end = 0 \/ "{" \in ToSet(From(t, end + 1)) \/ Unmarshal(candidate) = {} THEN Failed ELSE candidate
  BY DEF ExtractJSON
<1>7. "{" \in ToSet(r.before \o r.after) <=> ProseOpens(raw, x, y, z)
  BY <1>1, ProseIs
<1>8. raw[y + 1] = "{"
  BY <1>1, InnerIs DEF InnerHas
<1>9. SubSeq(raw, y + 1, z) = Render(r.object)
  BY <1>1, ObjectAt
<1>10. r.object \in Objects /\ Unmarshal(Render(r.object)) = {r.object}
  BY ReplyIs, ReadBack
<1> HIDE DEF t, doc
<1>11. t \in Text /\ t \in Seq(Symbols) /\ Len(t) \in Nat /\ Len(t) = b - a + 1
  <2>1. t \in Text /\ Len(t) \in Nat /\ Len(t) = b - a + 1
    BY <1>2, <1>3, WindowIs
  <2>2. QED
    BY <2>1 DEF Text
<1>12. \A k \in 1..Len(t) : a + k - 1 \in a..b /\ t[k] = raw[a + k - 1]
  BY <1>2, <1>3, WindowIs
<1>13. \A i \in a..b : i - a + 1 \in 1..Len(t) /\ t[i - a + 1] = raw[i]
  <2> SUFFICES ASSUME NEW i \in a..b PROVE i - a + 1 \in 1..Len(t) /\ t[i - a + 1] = raw[i]
    OBVIOUS
  <2>1. i - a + 1 \in 1..Len(t) /\ a + (i - a + 1) - 1 = i
    BY <1>4, <1>11
  <2>2. QED
    BY <1>12, <2>1
(* The first opening brace of the window, as a place of the answer.           *)
<1>14. ASSUME start /= 0
       PROVE  \E p \in a..b : start = p - a + 1 /\ raw[p] = "{" /\ \A i \in a..(p - 1) : raw[i] /= "{"
  <2> DEFINE c == "{"
  <2> HIDE DEF c
  <2> DEFINE s == First(t, c)
  <2>2. s /= 0
    BY <1>14 DEF c
  <2>3. s \in 1..Len(t) /\ t[s] = c /\ \A i \in 1..Len(t) : t[i] = c => s <= i
    BY <1>11, <2>2, FirstIs
  <2> HIDE DEF s
  <2> DEFINE p == a + s - 1
  <2>4. p \in a..b /\ raw[p] = c
    BY <1>12, <2>3
  <2>5. s = p - a + 1
    BY <1>4, <1>11, <2>3
  <2>6. \A i \in a..(p - 1) : raw[i] /= c
    <3> SUFFICES ASSUME NEW i \in a..(p - 1), raw[i] = c PROVE FALSE
      OBVIOUS
    <3>1. i \in a..b /\ i - a + 1 < s
      BY <1>4, <1>11, <2>3
    <3>2. i - a + 1 \in 1..Len(t) /\ t[i - a + 1] = c
      BY <1>13, <3>1
    <3>3. s <= i - a + 1
      BY <2>3, <3>2
    <3> HIDE DEF p
    <3>4. i - a + 1 \in Int /\ s \in Int
      BY <1>4, <2>3
    <3>5. QED
      BY <3>1, <3>3, <3>4
  <2> HIDE DEF p
  <2>7. QED
    BY <2>4, <2>5, <2>6 DEF c, s
<1>15. ASSUME y + 1 \in a..b PROVE start /= 0
  <2> DEFINE c == "{"
  <2>1. y + 1 - a + 1 \in 1..Len(t) /\ t[y + 1 - a + 1] = c
    <3>1. y + 1 - a + 1 \in 1..Len(t) /\ t[y + 1 - a + 1] = raw[y + 1]
      <4> DEFINE i == y + 1
      <4>1. i \in a..b
        BY <1>15
      <4> HIDE DEF i
      <4>2. i - a + 1 \in 1..Len(t) /\ t[i - a + 1] = raw[i]
        BY <1>13, <4>1
      <4>3. i = y + 1 /\ i - a + 1 = y + 1 - a + 1
        BY <1>2, <1>4 DEF i
      <4>4. QED
        BY <4>2, <4>3
    <3>2. QED
      BY <1>8, <3>1
  <2> HIDE DEF c
  <2>2. First(t, c) \in 1..Len(t)
    BY <1>11, <2>1, FirstIs
  <2>3. First(t, c) /= 0
    BY <1>11, <2>2
  <2>4. QED
    BY <2>3 DEF c
<1> HIDE DEF start
<1>16. ASSUME doc /= Failed PROVE doc = Render(r.object) /\ ~ProseOpens(raw, x, y, z)
  <2>1. /\ end /= 0 /\ "{" \notin ToSet(From(t, end + 1)) /\ Unmarshal(candidate) /= {} /\ doc = candidate
    BY <1>6, <1>16
  <2>2. start /= 0 /\ end = MatchBrace(t, start)
    BY <2>1
  <2>3. PICK p \in a..b : start = p - a + 1 /\ raw[p] = "{" /\ \A i \in a..(p - 1) : raw[i] /= "{"
    BY <1>14, <2>2
  <2>a. start = p - a + 1
    BY <2>3
  <2>b. p \in Nat /\ 1 <= p /\ a <= p /\ p <= b
    BY <1>4
  <2>4. a <= y + 1 /\ y + 1 \in a..b
    <3>1. ~(y + 1 < a)
      BY <1>5, <2>3
    <3>2. y + 1 <= b
      BY <1>5
    <3>3. QED
      BY <1>2, <1>4, <3>1, <3>2
  <2>5. p <= y + 1
    <3> SUFFICES ASSUME ~(p <= y + 1) PROVE FALSE
      OBVIOUS
    <3>1. p \in Nat
      BY <2>b
    <3>2. y + 1 \in a..(p - 1)
      BY <1>2, <1>4, <2>4, <3>1
    <3>3. QED
      BY <1>8, <2>3, <3>2
  <2>6. start \in 1..Len(t)
    BY <1>13, <2>3
  <2>7. end \in start..Len(t)
    BY <1>11, <2>1, <2>2, <2>6, MatchIn
  <2> HIDE DEF end
  <2> DEFINE q == a + end - 1
  <2>8. q \in p..b /\ q \in a..b /\ end = q - a + 1 /\ end + 1 = q - a + 2 /\ p \in Nat /\ q \in Nat
    <3>1. QED
      BY <1>4, <1>11, <2>6, <2>7, <2>a, <2>b
  <2> HIDE DEF q
  <2>9. candidate = SubSeq(raw, p, q)
    BY <1>2, <1>3, <2>8, <2>a, PartOfWindow
  <2> HIDE DEF candidate
  <2>10. \A i \in (q + 1)..b : raw[i] /= "{"
    <3> DEFINE e == end + 1
    <3>1. e = q - a + 2 /\ "{" \notin ToSet(From(t, e))
      BY <2>1, <2>8
    <3> HIDE DEF e, raw
    <3>2. QED
      BY <1>2, <1>3, <2>8, <3>1, NoneBehind
  <2>11. p = y + 1
    <3> SUFFICES ASSUME p /= y + 1 PROVE FALSE
      OBVIOUS
    <3>1. p \in 1..y
      BY <1>2, <2>5, <2>b
    <3>2. CASE q >= y + 1
      <4>1. q \in (y + 1)..n
        BY <1>2, <1>4, <2>8, <3>2
      <4>2. \A o \in Objects : SubSeq(raw, p, q) /= Render(o)
        BY <1>1, <2>3, <3>1, <4>1, OuterIs
      <4>3. Unmarshal(candidate) = {}
        BY <2>9, <4>2 DEF Unmarshal
      <4>4. QED
        BY <2>1, <4>3
    <3>3. CASE ~(q >= y + 1)
      <4>1. y + 1 \in (q + 1)..b
        BY <1>2, <1>4, <2>4, <2>8, <3>3
      <4>2. QED
        BY <1>8, <2>10, <4>1
    <3>4. QED
      BY <3>2, <3>3
  <2>12. z <= b /\ q = z
    <3>1. y + 1 <= b
      BY <1>5
    <3>2. start = y + 1 - a + 1
      BY <1>2, <1>4, <2>11, <2>a
    <3>3. /\ z <= b => MatchBrace(t, start) = z - a + 1
          /\ b < z => MatchBrace(t, start) = 0
      BY <1>1, <1>3, <2>4, <3>1, <3>2, MatchAt
    <3>4. ~(b < z)
      BY <2>1, <2>2, <3>3
    <3>5. z <= b
      BY <1>2, <1>4, <3>4
    <3>6. end = z - a + 1
      BY <2>2, <3>3, <3>5
    <3>7. QED
      BY <1>2, <1>4, <2>8, <3>5, <3>6
  <2>13. doc = Render(r.object)
    BY <1>9, <2>1, <2>9, <2>11, <2>12
  <2>14. \A i \in a..y : raw[i] /= "{"
    <3>1. p - 1 = y
      BY <1>2, <2>11
    <3>2. QED
      BY <2>3, <3>1
  <2>15. \A i \in (z + 1)..b : raw[i] /= "{"
    BY <2>10, <2>12
  <2>16. QED
    BY <1>5, <2>4, <2>12, <2>13, <2>14, <2>15
<1>17. ASSUME ~ProseOpens(raw, x, y, z), a <= y + 1, z <= b PROVE doc = Render(r.object)
  <2>1. y + 1 \in a..b /\ z \in a..b /\ z \in (y + 1)..b
    BY <1>2, <1>4, <1>17
  <2>2. start /= 0
    BY <1>15, <2>1
  <2>3. PICK p \in a..b : start = p - a + 1 /\ raw[p] = "{" /\ \A i \in a..(p - 1) : raw[i] /= "{"
    BY <1>14, <2>2
  <2>a. start = p - a + 1
    BY <2>3
  <2>b. p \in Nat /\ 1 <= p /\ a <= p /\ p <= b
    BY <1>4
  <2>4. \A i \in 1..y : raw[i] /= "{"
    <3> SUFFICES ASSUME NEW i \in 1..y PROVE raw[i] /= "{"
      OBVIOUS
    <3>1. FrontHas(raw, x, y)
      BY <1>1, FrontIs
    <3>2. CASE x < i
      <4>1. i \in (x + 1)..y
        BY <1>2, <3>2
      <4>2. QED
        BY <1>17, <4>1 DEF ProseOpens
    <3>3. CASE i <= x /\ i = 1
      <4>1. x > 0
        BY <1>2, <3>3
      <4>2. raw[1] = Fence
        BY <3>1, <4>1 DEF FrontHas
      <4>3. QED
        BY <3>3, <4>2 DEF Fence
    <3>4. CASE i <= x /\ i /= 1
      <4>1. i \in 2..x
        BY <1>2, <3>4
      <4>2. QED
        BY <3>1, <4>1 DEF FrontHas
    <3>5. x < i \/ (i <= x /\ i = 1) \/ (i <= x /\ i /= 1)
      BY <1>2
    <3>6. QED
      BY <3>2, <3>3, <3>4, <3>5
  <2>5. p = y + 1
    <3>1. p \in Nat /\ 1 <= p /\ y \in Nat
      BY <1>2, <2>b
    <3>2. ~(p <= y)
      <4> SUFFICES ASSUME p <= y PROVE FALSE
        OBVIOUS
      <4>1. p \in 1..y
        BY <1>2, <3>1
      <4>2. QED
        BY <2>3, <2>4, <4>1
    <3>3. ~(y + 1 <= p - 1)
      <4> SUFFICES ASSUME y + 1 <= p - 1 PROVE FALSE
        OBVIOUS
      <4>1. y + 1 \in a..(p - 1)
        BY <1>2, <1>4, <1>17, <3>1
      <4>2. QED
        BY <1>8, <2>3, <4>1
    <3>4. QED
      BY <3>1, <3>2, <3>3
  <2>6. MatchBrace(t, start) = z - a + 1
    <3>1. y + 1 <= b
      BY <1>5
    <3>2. start = y + 1 - a + 1
      BY <1>2, <1>4, <2>5, <2>a
    <3>3. QED
      BY <1>1, <1>3, <1>17, <3>1, <3>2, MatchAt
  <2>7. end = z - a + 1
    BY <2>2, <2>6
  <2>8. candidate = Render(r.object)
    <3>1. candidate = SubSeq(t, y + 1 - a + 1, z - a + 1)
      <4>1. start = y + 1 - a + 1
        BY <1>2, <1>4, <2>5, <2>a
      <4>2. QED
        BY <2>7, <4>1
    <3>2. SubSeq(t, y + 1 - a + 1, z - a + 1) = SubSeq(raw, y + 1, z)
      BY <1>2, <1>3, <2>1, PartOfWindow
    <3>3. QED
      BY <1>9, <3>1, <3>2
  <2> HIDE DEF end, candidate
  <2>9. end /= 0 /\ end + 1 = z - a + 2
    BY <1>2, <1>4, <1>17, <2>7
  <2>10. "{" \notin ToSet(From(t, end + 1))
    <3>1. \A i \in (z + 1)..b : raw[i] /= "{"
      <4>1. \A i \in (z + 1)..b : i \in (z + 1)..n
        BY <1>2, <1>4
      <4>2. \A i \in (z + 1)..n : raw[i] /= "{"
        BY <1>17 DEF ProseOpens
      <4>3. QED
        BY <4>1, <4>2
    <3>2. PICK q \in a..b : q = z
      BY <2>1
    <3>3. \A i \in (q + 1)..b : raw[i] /= "{"
      BY <3>1, <3>2
    <3>4. end + 1 = q - a + 2
      BY <2>9, <3>2
    <3> DEFINE e == end + 1
    <3>5. e = q - a + 2
      BY <3>4
    <3> HIDE DEF e
    <3>6. "{" \notin ToSet(From(t, e))
      BY <1>2, <1>3, <3>3, <3>5, NoneBehind
    <3>7. QED
      BY <3>6 DEF e
  <2>11. QED
    BY <1>6, <1>10, <2>8, <2>9, <2>10
<1>18. ASSUME Fenced(r) => Last(r.open) = Line,
              Fenced(r) /\ r.close = <<>> => Fence \notin ToSet(Render(r.object) \o r.after)
       PROVE  a <= y + 1 /\ z <= b
  <2>1. Fenced(r) => raw[x] = Line
    <3> SUFFICES ASSUME Fenced(r) PROVE raw[x] = Line
      OBVIOUS
    <3>1. x > 0
      BY <1>1, FencedIs
    <3>2. x = Len(r.open) /\ \A i \in 1..x : raw[i] = r.open[i]
      BY <1>1 DEF Laid
    <3>3. x \in 1..x
      BY <1>2, <3>1
    <3>4. raw[x] = r.open[Len(r.open)]
      BY <3>2, <3>3
    <3>5. QED
      BY <1>18, <3>4 DEF Last
  <2>2. Fenced(r) /\ r.close = <<>> => \A i \in (y + 1)..n : raw[i] /= Fence
    BY <1>1, <1>18, CloseIs
  <2>3. QED
    BY <1>5, <2>1, <2>2
<1>19. QED
  BY <1>7, <1>16, <1>17, <1>18 DEF doc

LEMMA Validated ==
    ASSUME NEW r \in Replies
    PROVE  LET doc == ValidateInto(Raw(r)) IN
           /\ doc /= Failed => doc = Render(r.object) /\ Complete(r.object) /\ "{" \notin ToSet(r.before \o r.after)
           /\ /\ Complete(r.object) /\ "{" \notin ToSet(r.before \o r.after)
              /\ Fenced(r) => Last(r.open) = Line
              /\ Fenced(r) /\ r.close = <<>> => Fence \notin ToSet(Render(r.object) \o r.after)
              => doc /= Failed
<1> DEFINE doc == ExtractJSON(Raw(r))
           o == CHOOSE x \in Unmarshal(doc) : TRUE
<1>1. ValidateInto(Raw(r)) = IF doc = Failed \/ \E f \in Required : f \notin DOMAIN o \/ IsEmpty(o[f]) THEN Failed ELSE doc
  BY DEF ValidateInto
<1>2. r.object \in Objects /\ Unmarshal(Render(r.object)) = {r.object} /\ Render(r.object) /= Failed
  <2>1. r.object \in Objects /\ Spans(Render(r.object))
    BY ReplyIs
  <2>2. Len(Render(r.object)) > 1
    BY <2>1 DEF Spans
  <2>3. Len(<<>>) = 0
    OBVIOUS
  <2>4. Render(r.object) /= <<>>
    BY <2>2, <2>3
  <2>5. QED
    BY <2>1, <2>4, ReadBack DEF Failed
<1>3. doc = Render(r.object) => o = r.object
  BY <1>2
<1>4. /\ doc /= Failed => doc = Render(r.object) /\ "{" \notin ToSet(r.before \o r.after)
      /\ /\ "{" \notin ToSet(r.before \o r.after)
         /\ Fenced(r) => Last(r.open) = Line
         /\ Fenced(r) /\ r.close = <<>> => Fence \notin ToSet(Render(r.object) \o r.after)
         => doc = Render(r.object)
  BY Extracted
<1> HIDE DEF doc, o
<1>5. ASSUME doc = Render(r.object)
      PROVE  ValidateInto(Raw(r)) = IF Complete(r.object) THEN doc ELSE Failed
  <2>1. o = r.object /\ doc /= Failed
    BY <1>2, <1>3, <1>5
  <2>2. QED
    BY <1>1, <2>1 DEF Complete
<1>6. ASSUME doc = Failed PROVE ValidateInto(Raw(r)) = Failed
  BY <1>1, <1>6
<1>7. QED
  BY <1>2, <1>4, <1>5, <1>6

(* ReplySpec: an answer of the model, and what ValidateInto makes of it.      *)
ReplySpec == ReplyInit /\ [][Parse]_replyVars
Answered == reply \in Replies /\ extracted \in {Pending, ValidateInto(Raw(reply))}

(* Whatever objects the model writes and whatever prose and fences are around *)
(* them, what ExtractJSON and ValidateInto take out of an answer is the       *)
(* object the model wrote, whole, and it is taken out when the prose opens no *)
(* other and the fences are as they should be. The scan of matchBrace is      *)
(* followed through every nesting and every string with its escapes.          *)
THEOREM ReplyIsTaken == ReplySpec => []ReplyTaken
<1>1. ReplyInit => Answered
  BY DEF ReplyInit, Answered
<1>2. Answered /\ [Parse]_replyVars => Answered'
  <2> SUFFICES ASSUME Answered, [Parse]_replyVars PROVE Answered'
    OBVIOUS
  <2>1. CASE Parse
    BY <2>1 DEF Answered, Parse
  <2>2. CASE UNCHANGED replyVars
    BY <2>2 DEF Answered, replyVars
  <2>3. QED
    BY <2>1, <2>2
<1>3. Answered => ReplyTaken
  <2> SUFFICES ASSUME Answered, extracted /= Pending
               PROVE  /\ extracted /= Failed =>
                           extracted = Render(reply.object) /\ Complete(reply.object)
                           /\ "{" \notin ToSet(reply.before \o reply.after)
                      /\ /\ Complete(reply.object) /\ "{" \notin ToSet(reply.before \o reply.after)
                         /\ Fenced(reply) => Last(reply.open) = Line
                         /\ Fenced(reply) /\ reply.close = <<>> =>
                              Fence \notin ToSet(Render(reply.object) \o reply.after)
                         => extracted /= Failed
    BY DEF ReplyTaken
  <2>1. reply \in Replies /\ extracted = ValidateInto(Raw(reply))
    BY DEF Answered
  <2>2. QED
    BY <2>1, Validated
<1>4. QED
  BY <1>1, <1>2, <1>3, PTL DEF ReplySpec
================================================================================
