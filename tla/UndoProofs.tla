----------------------------- MODULE UndoProofs -----------------------------
(***************************************************************************)
(* What holds of Undo and AuditLog for any number of processes, commands,  *)
(* torn lines and earlier logs: which entries can be lost, that a run      *)
(* whose undo is on record is not offered again, that what is read was     *)
(* written in that order, and that an undo reverses the newest step first. *)
(* And, in the second half, what holds of the tables of inverses           *)
(* (Reversal), for any commands and any machine: an undo that asks no      *)
(* model gives back what the run found.                                    *)
(***************************************************************************)
EXTENDS Undo, Reversal, ListsProofs

-----------------------------------------------------------------------------
(* Reading the log.                                                        *)

(* What was picked from a sequence, as a set.                              *)
LEMMA PickedSet ==
  ASSUME NEW R, NEW s \in Seq(R), NEW ks
  PROVE  /\ Picked(s, ks) \in Seq(R)
         /\ ToSet(Picked(s, ks)) = {s[k] : k \in ks \cap DOMAIN s}
BY PickedOf DEF ToSet

(* What ReadAll returns, and what a cleanup keeps of it.                   *)
Contents(lines) == {lines[k].entry : k \in {j \in DOMAIN lines : lines[j].parses}}

LEMMA ReadAllOf ==
  ASSUME file \in Seq(Line)
  PROVE  ReadAll \in Seq(Entry) /\ ToSet(ReadAll) = Contents(file)
<1> DEFINE s == [k \in DOMAIN file |-> file[k].entry]
           ks == {k \in DOMAIN file : file[k].parses}
<1>1. s \in Seq(Entry) /\ DOMAIN s = DOMAIN file
  <2>1. \A k \in DOMAIN file : file[k] \in Line
    OBVIOUS
  <2>2. \A k \in DOMAIN file : file[k].entry \in Entry
    BY <2>1 DEF Line
  <2>3. DOMAIN file = 1..Len(file) /\ Len(file) \in Nat
    OBVIOUS
  <2>4. QED
    BY <2>2, <2>3
<1>2. ReadAll = Picked(s, ks)
  BY DEF ReadAll
<1>3. Picked(s, ks) \in Seq(Entry) /\ ToSet(Picked(s, ks)) = {s[k] : k \in ks \cap DOMAIN s}
  <2> HIDE DEF s, ks
  <2>1. QED
    BY <1>1, PickedSet
<1>4. {s[k] : k \in ks \cap DOMAIN s} = Contents(file)
  BY <1>1 DEF Contents
<1>5. QED
  BY <1>2, <1>3, <1>4

LEMMA SurvivorsOf ==
  ASSUME file \in Seq(Line)
  PROVE  /\ Survivors \in Seq(Entry)
         /\ ToSet(Survivors) = {e \in Contents(file) : ~Expired(e)}
<1> DEFINE ks == {k \in DOMAIN ReadAll : ~Expired(ReadAll[k])}
<1>1. ReadAll \in Seq(Entry) /\ ToSet(ReadAll) = Contents(file)
  BY ReadAllOf
<1>2. Survivors = Picked(ReadAll, ks)
  BY DEF Survivors, Fresh
<1>3. /\ Picked(ReadAll, ks) \in Seq(Entry)
      /\ ToSet(Picked(ReadAll, ks)) = {ReadAll[k] : k \in ks \cap DOMAIN ReadAll}
  <2> HIDE DEF ks
  <2>1. QED
    BY <1>1, PickedSet
<1>4. {ReadAll[k] : k \in ks \cap DOMAIN ReadAll} = {e \in ToSet(ReadAll) : ~Expired(e)}
  BY DEF ToSet
<1>5. QED
  BY <1>1, <1>2, <1>3, <1>4

(* A rewritten log holds what was kept.                                    *)
LEMMA LinesAll ==
  ASSUME NEW entries \in Seq(Entry)
  PROVE  LinesOf(entries) \in Seq(Line) /\ Contents(LinesOf(entries)) = ToSet(entries)
<1> DEFINE lines == LinesOf(entries)
<1>1. /\ DOMAIN lines = DOMAIN entries /\ DOMAIN entries = 1..Len(entries) /\ Len(entries) \in Nat
      /\ \A k \in DOMAIN entries : lines[k] = [entry |-> entries[k], parses |-> TRUE]
  BY DEF LinesOf
<1>2. lines = [k \in 1..Len(entries) |-> lines[k]]
  BY <1>1 DEF LinesOf
<1>3. \A k \in DOMAIN entries : lines[k] \in Line
  <2>1. \A k \in DOMAIN entries : entries[k] \in Entry
    OBVIOUS
  <2>2. \A k \in DOMAIN entries : [entry |-> entries[k], parses |-> TRUE] \in Line
    BY <2>1 DEF Line
  <2>3. QED
    BY <1>1, <2>2
<1> HIDE DEF lines
<1>4. lines \in Seq(Line)
  BY <1>1, <1>2, <1>3
<1>5. \A k \in DOMAIN lines : lines[k].parses /\ lines[k].entry = entries[k]
  BY <1>1
<1>6. Contents(lines) = ToSet(entries)
  BY <1>1, <1>5 DEF Contents, ToSet
<1>7. QED
  BY <1>4, <1>6 DEF lines

-----------------------------------------------------------------------------
(* The default target.                                                     *)

(* The entries of a run, and when it was first seen and last.              *)
LEMMA RunSeen ==
  ASSUME NEW entries \in Seq(Entry), NEW r \in Runs(entries)
  PROVE  /\ r \in RunID
         /\ LatestOf(entries, r) \in 0..MaxTime
         /\ FirstSeen(entries, r) \in 1..Len(entries)
         /\ entries[FirstSeen(entries, r)].run = r
<1> DEFINE at == {k \in DOMAIN entries : entries[k].run = r}
<1>1. /\ DOMAIN entries = 1..Len(entries) /\ Len(entries) \in Nat
      /\ \A k \in DOMAIN entries : entries[k] \in Entry
  OBVIOUS
<1>2. PICK i \in DOMAIN entries : entries[i].run = r /\ r # Legacy
  BY DEF Runs, ToSet
<1>3. r \in RunID
  BY <1>1, <1>2 DEF Entry
<1>4. /\ StepsOf(entries, r) \in Seq(Entry)
      /\ ToSet(StepsOf(entries, r)) = {entries[k] : k \in at \cap DOMAIN entries}
  <2>1. /\ Picked(entries, at) \in Seq(Entry)
        /\ ToSet(Picked(entries, at)) = {entries[k] : k \in at \cap DOMAIN entries}
    <3> HIDE DEF at
    <3>1. QED
      BY PickedSet
  <2>2. QED
    BY <2>1 DEF StepsOf
<1>5. LatestOf(entries, r) \in 0..MaxTime
  <2> DEFINE es == StepsOf(entries, r)
  <2>1. entries[i] \in ToSet(es)
    BY <1>2, <1>4
  <2>2. es \in Seq(Entry) /\ LatestOf(entries, r) = es[Len(es)].time
    BY <1>4 DEF LatestOf, Last
  <2> HIDE DEF es
  <2>3. es[Len(es)] \in Entry
    BY <2>1, <2>2 DEF ToSet
  <2>4. QED
    BY <2>2, <2>3 DEF Entry
<1>6. PICK k \in at : \A j \in at : k <= j
  <2>1. at \in SUBSET Nat /\ i \in at
    BY <1>1, <1>2
  <2> HIDE DEF at
  <2>2. QED
    BY <2>1, Least
<1>7. k \in DOMAIN entries /\ entries[k].run = r /\ \A j \in 1..(k - 1) : entries[j].run # r
  BY <1>1, <1>6
<1>8. /\ FirstSeen(entries, r) \in DOMAIN entries
      /\ entries[FirstSeen(entries, r)].run = r
  BY <1>7 DEF FirstSeen
<1>9. QED
  BY <1>1, <1>3, <1>5, <1>8

(* selectUndoTarget finds one whenever there is a candidate.               *)
LEMMA TargetFound ==
  ASSUME NEW entries \in Seq(Entry), Candidates(entries) # {}
  PROVE  DefaultTarget(entries) \in Candidates(entries)
<1> DEFINE C == Candidates(entries)
           time(r) == LatestOf(entries, r)
           seen(r) == FirstSeen(entries, r)
<1>1. \A r \in C : /\ time(r) \in 0..MaxTime /\ seen(r) \in 0..Len(entries)
                   /\ entries[seen(r)].run = r
  BY RunSeen DEF Candidates
<1>2. \A r, s \in C : seen(r) = seen(s) => r = s
  BY <1>1
<1>3. MaxTime \in Nat /\ Len(entries) \in Nat
  BY AuditAssumption
<1>4. \A r, s \in C : Newer(entries, r, s) <=> \/ time(r) > time(s)
                                               \/ time(r) = time(s) /\ seen(r) > seen(s)
  BY DEF Newer
<1>5. DefaultTarget(entries) =
        CHOOSE r \in C : \A s \in C \ {r} : Newer(entries, r, s)
  BY DEF DefaultTarget
<1> HIDE DEF C, time, seen
<1>6. C # {}
  BY DEF C
<1>7. PICK t \in {time(r) : r \in C} : \A u \in {time(r) : r \in C} : u <= t
  <2> DEFINE T == {time(r) : r \in C}
  <2>1. T \in SUBSET (0..MaxTime) /\ T # {}
    BY <1>1, <1>6
  <2> HIDE DEF T
  <2>2. \E t \in T : \A u \in T : u <= t
    BY <2>1, <1>3, Greatest
  <2>3. QED
    BY <2>2 DEF T
<1> DEFINE L == {r \in C : time(r) = t}
<1>8. PICK k \in {seen(r) : r \in L} : \A j \in {seen(r) : r \in L} : j <= k
  <2> DEFINE K == {seen(r) : r \in L}
  <2>1. K \in SUBSET (0..Len(entries)) /\ K # {}
    BY <1>1, <1>7
  <2> HIDE DEF K
  <2>2. \E k \in K : \A j \in K : j <= k
    BY <2>1, <1>3, Greatest
  <2>3. QED
    BY <2>2 DEF K
<1>9. PICK r \in L : k = seen(r)
  BY <1>8
<1>10. ASSUME NEW s \in C \ {r} PROVE Newer(entries, r, s)
  <2>1. r \in C /\ time(r) = t /\ time(s) <= t
    BY <1>7, <1>9
  <2>2. time(s) = t => seen(s) <= seen(r)
    BY <1>8, <1>9
  <2>3. seen(s) # seen(r)
    BY <1>2, <2>1
  <2>4. /\ time(s) \in 0..MaxTime /\ time(r) \in 0..MaxTime
        /\ seen(s) \in 0..Len(entries) /\ seen(r) \in 0..Len(entries)
    BY <1>1, <2>1
  <2>5. QED
    BY <1>3, <1>4, <2>1, <2>2, <2>3, <2>4
<1>11. QED
  BY <1>5, <1>9, <1>10 DEF C

-----------------------------------------------------------------------------
(* The invariant.                                                          *)

Phase == {"idle", "retention", "rewrite", "execute", "append", "retry", "over"}

UndoType ==
  /\ now \in 0..MaxTime
  /\ file \in Seq(Line) /\ torn \in BOOLEAN /\ inode \in Nat
  /\ fd \in [Proc -> Nat] /\ pending \in [Proc -> Entry]
  /\ rewriting \subseteq Proc /\ kept \in [Proc -> Seq(Entry)]
  /\ acked \subseteq Entry
  /\ phase \in [Proc -> Phase] /\ target \in [Proc -> RunID \cup {Nobody}]
  /\ default \in [Proc -> BOOLEAN] /\ count \in [Proc -> 0..MaxSteps]

(* An entry is of a command its process has executed, and not the one it   *)
(* is about to append: what is appended is new.                            *)
Numbered(e) ==
  e.run \in Proc => /\ e.step <= count[e.run]
                    /\ phase[e.run] = "append" => e.step < count[e.run]

NumberInv ==
  /\ \A k \in DOMAIN file : Numbered(file[k].entry)
  /\ \A p \in Proc : \A k \in DOMAIN kept[p] : Numbered(kept[p][k])
  /\ \A e \in acked : Numbered(e)
  /\ \A p \in Proc : phase[p] = "append" => pending[p].run = p /\ pending[p].step = count[p]

PhaseInv ==
  /\ \A p \in Proc : phase[p] = "rewrite" => p \in rewriting
  /\ \A p \in Proc : phase[p] = "idle" => default[p] = FALSE

(* The line that a writer behind it would spoil was never acknowledged.    *)
TornInv == torn => file # <<>> /\ Last(file).entry \notin acked

(* What a cleanup keeps suffices for all that was acknowledged.            *)
KeepInv ==
  \A p \in rewriting : \A e \in acked \ exposed : e \in ToSet(kept[p]) \/ Expired(e)

(* LossExplained, said of the lines of the file.                           *)
LossInv == \A e \in acked \ exposed : e \in Contents(file) \/ Expired(e)

LogInv == UndoType /\ NumberInv /\ PhaseInv /\ TornInv /\ KeepInv /\ LossInv

-----------------------------------------------------------------------------
(* Types.                                                                  *)

(* The past has the form of a log.                                         *)
LEMMA TypeStarts == Init => UndoType
<1> SUFFICES ASSUME Init PROVE UndoType
  OBVIOUS
<1>1. PICK past \in PastLogs : file = LinesOf(past) /\ written = past
  BY DEF Init, AuditInit
<1>2. past \in Seq(Entry) /\ file \in Seq(Line)
  BY <1>1, LinesAll, AuditAssumption
<1>3. ToSet(written) \subseteq Entry
  BY <1>1, <1>2 DEF ToSet
<1>4. NoEntry \in Entry
  BY AuditAssumption DEF NoEntry, Entry
<1>5. 0 \in 0..MaxSteps /\ Start \in 0..MaxTime
  BY AuditAssumption
<1>6. /\ now \in 0..MaxTime /\ torn \in BOOLEAN /\ inode \in Nat /\ fd \in [Proc -> Nat]
      /\ rewriting \subseteq Proc /\ acked \subseteq Entry
  BY <1>3, <1>5 DEF Init, AuditInit
<1>7. pending \in [Proc -> Entry]
  BY <1>4 DEF Init, AuditInit
<1>8. kept \in [Proc -> Seq(Entry)]
  <2>1. <<>> \in Seq(Entry)
    OBVIOUS
  <2>2. QED
    BY <2>1 DEF Init, AuditInit
<1>9. /\ phase \in [Proc -> Phase] /\ target \in [Proc -> RunID \cup {Nobody}]
      /\ default \in [Proc -> BOOLEAN] /\ count \in [Proc -> 0..MaxSteps]
  BY <1>5 DEF Init, Phase
<1>10. QED
  BY <1>2, <1>6, <1>7, <1>8, <1>9 DEF UndoType

(* What is written has the form of a line.                                 *)
LEMMA WriteTypes ==
  ASSUME UndoType, NEW p \in Proc, NEW whole \in BOOLEAN, torn => file # <<>>
  PROVE  AfterWrite(p, whole) \in Seq(Line)
<1>1. pending[p] \in Entry /\ \A k \in DOMAIN file : file[k] \in Line
  BY DEF UndoType
<1>2. [entry |-> pending[p], parses |-> whole] \in Line
  BY <1>1 DEF Line
<1>3. CASE torn
  <2>1. DOMAIN file = 1..Len(file) /\ Len(file) \in Nat /\ Len(file) \in DOMAIN file
    BY <1>3 DEF UndoType
  <2>2. [file[Len(file)] EXCEPT !.parses = FALSE] \in Line
    BY <1>1, <2>1 DEF Line
  <2>3. AfterWrite(p, whole) = [file EXCEPT ![Len(file)] = [file[Len(file)] EXCEPT !.parses = FALSE]]
    BY <1>3, <2>1 DEF AfterWrite
  <2>4. QED
    BY <2>1, <2>2, <2>3 DEF UndoType
<1>4. CASE ~torn
  BY <1>2, <1>4 DEF AfterWrite, UndoType
<1>5. QED
  BY <1>3, <1>4

(* An append keeps the types.                                              *)
LEMMA AppendTypes ==
  ASSUME UndoType, TornInv, NEW p \in Proc, Write(p) \/ WriteTorn(p)
  PROVE  /\ file' \in Seq(Line) /\ torn' \in BOOLEAN /\ inode' = inode /\ now' = now
         /\ fd' \in [Proc -> Nat] /\ pending' \in [Proc -> Entry]
         /\ rewriting' = rewriting /\ kept' = kept /\ acked' \subseteq Entry
<1>1. NoEntry \in Entry /\ pending[p] \in Entry
  BY AuditAssumption DEF NoEntry, Entry, UndoType
<1>2. fd' \in [Proc -> Nat] /\ pending' \in [Proc -> Entry]
  <2>1. Close(p)
    BY DEF Write, WriteTorn
  <2>2. fd \in [Proc -> Nat] /\ pending \in [Proc -> Entry]
    BY DEF UndoType
  <2>3. fd' \in [Proc -> Nat]
    BY <2>1, <2>2 DEF Close
  <2>4. pending' \in [Proc -> Entry]
    BY <1>1, <2>1, <2>2 DEF Close
  <2>5. QED
    BY <2>3, <2>4
<1>3. file' \in Seq(Line) /\ torn' \in BOOLEAN
  BY WriteTypes DEF Write, WriteTorn, UndoType, TornInv
<1>4. QED
  BY <1>1, <1>2, <1>3 DEF Write, WriteTorn, UndoType

(* Preparing a plan moves a process on.                                    *)
LEMMA PrepareTypes ==
  ASSUME UndoType, NEW p \in Proc, Prepare(p)
  PROVE  /\ phase' \in [Proc -> Phase]
         /\ \E there \in {"execute", "over"} : phase' = [phase EXCEPT ![p] = there]
BY DEF Prepare, Goto, UndoType, Phase

LEMMA TypeKeeps == UndoType /\ TornInv /\ [Next]_vars => UndoType'
<1> SUFFICES ASSUME UndoType, TornInv, [Next]_vars PROVE UndoType'
  OBVIOUS
<1>1. CASE UNCHANGED vars
  BY <1>1 DEF UndoType, vars, auditVars, disk, log, local, histories, process
<1>2. CASE Tick /\ UNCHANGED process
  <2>1. now' \in 0..MaxTime
    BY <1>2, AuditAssumption DEF Tick, UndoType
  <2>2. QED
    BY <1>2, <2>1 DEF UndoType, Tick, log, local, histories, process
<1>3. ASSUME NEW p \in Proc, StartRun(p) PROVE UndoType'
  BY <1>3 DEF StartRun, Goto, UndoType, Phase, auditVars, disk, log, local, histories
<1>4. ASSUME NEW p \in Proc, NEW named \in BOOLEAN, StartUndo(p, named) PROVE UndoType'
  <2>1. ReadAll \in Seq(Entry)
    BY ReadAllOf DEF UndoType
  <2>2. \A r \in Runs(ReadAll) : r \in RunID
    BY <2>1, RunSeen
  <2>3. target' \in [Proc -> RunID \cup {Nobody}]
    <3>1. CASE named
      BY <1>4, <2>2, <3>1 DEF StartUndo, UndoType
    <3>2. CASE ~named
      <4>1. DefaultTarget(ReadAll) \in RunID
        BY <1>4, <2>1, <2>2, <3>2, TargetFound DEF StartUndo, Candidates
      <4>2. QED
        BY <1>4, <3>2, <4>1 DEF StartUndo, UndoType
    <3>3. QED
      BY <3>1, <3>2
  <2>4. QED
    BY <1>4, <2>3 DEF StartUndo, Goto, UndoType, Phase, auditVars, disk, log, local, histories
<1>5. ASSUME NEW p \in Proc, ReadToClean(p) PROVE UndoType'
  <2>1. Survivors \in Seq(Entry)
    BY SurvivorsOf DEF UndoType
  <2>2. QED
    BY <1>5, <2>1 DEF ReadToClean, ReadForRetention, Goto, UndoType, Phase, disk, log, histories
<1>6. ASSUME NEW p \in Proc, SkipCleaning(p) PROVE UndoType'
  BY <1>6, PrepareTypes DEF SkipCleaning, UndoType, auditVars, disk, log, local, histories
<1>7. ASSUME NEW p \in Proc, Rename(p) \/ Abandon(p)
      PROVE  /\ now' = now /\ file' \in Seq(Line) /\ torn' \in BOOLEAN /\ inode' \in Nat
             /\ fd' = fd /\ pending' = pending /\ rewriting' \subseteq Proc
             /\ kept' \in [Proc -> Seq(Entry)] /\ acked' = acked
  <2>1. LinesOf(kept[p]) \in Seq(Line) /\ <<>> \in Seq(Entry)
    BY LinesAll DEF UndoType
  <2>2. kept' \in [Proc -> Seq(Entry)] /\ rewriting' \subseteq Proc
    <3>1. kept' = [kept EXCEPT ![p] = <<>>] /\ rewriting' = rewriting \ {p}
      BY <1>7 DEF Rename, Abandon
    <3>2. QED
      BY <2>1, <3>1 DEF UndoType
  <2>3. /\ now' = now /\ file' \in Seq(Line) /\ torn' \in BOOLEAN /\ inode' \in Nat
        /\ fd' = fd /\ pending' = pending /\ acked' = acked
    <3>1. file \in Seq(Line) /\ torn \in BOOLEAN /\ inode \in Nat
      BY DEF UndoType
    <3>2. CASE Rename(p)
      <4>1. /\ now' = now /\ file' = LinesOf(kept[p]) /\ torn' = FALSE /\ inode' = inode + 1
            /\ fd' = fd /\ pending' = pending /\ acked' = acked
        BY <3>2 DEF Rename, histories
      <4>2. inode' \in Nat
        BY <3>1, <4>1
      <4>3. torn' \in BOOLEAN
        BY <4>1
      <4>4. QED
        BY <2>1, <4>1, <4>2, <4>3
    <3>3. CASE Abandon(p)
      <4>1. /\ now' = now /\ file' = file /\ torn' = torn /\ inode' = inode
            /\ fd' = fd /\ pending' = pending /\ acked' = acked
        BY <3>3 DEF Abandon, disk, log, histories
      <4>2. QED
        BY <3>1, <4>1
    <3>4. QED
      BY <1>7, <3>2, <3>3
  <2>4. QED
    BY <2>2, <2>3
<1>8. ASSUME NEW p \in Proc, Cleaned(p) PROVE UndoType'
  BY <1>7, <1>8, PrepareTypes DEF Cleaned, UndoType
<1>9. ASSUME NEW p \in Proc, NEW outcome \in Outcome \cup {"failed"}, Execute(p, outcome) PROVE UndoType'
  <2>1. count[p] + 1 \in 0..MaxSteps
    BY <1>9, AuditAssumption DEF Execute, UndoType
  <2>2. [run |-> p, step |-> count[p] + 1, undoOf |-> target[p], time |-> now, outcome |-> outcome] \in Entry
    BY <2>1 DEF Entry, RunID, UndoType
  <2>3. pending' \in [Proc -> Entry] /\ fd' \in [Proc -> Nat] /\ count' \in [Proc -> 0..MaxSteps]
    BY <1>9, <2>1, <2>2 DEF Execute, Open, UndoType
  <2>4. phase' \in [Proc -> Phase]
    BY <1>9 DEF Execute, Goto, UndoType, Phase
  <2>5. QED
    BY <1>9, <2>3, <2>4 DEF Execute, Open, UndoType, disk, log, histories
<1>10. ASSUME NEW p \in Proc, Decline(p) \/ PassBlocked(p) PROVE UndoType'
  BY <1>10 DEF Decline, PassBlocked, UndoType, auditVars, disk, log, local, histories
<1>11. ASSUME NEW p \in Proc, Record(p) PROVE UndoType'
  BY <1>11, AppendTypes DEF Record, Goto, UndoType, Phase
<1>12. ASSUME NEW p \in Proc, Die(p) PROVE UndoType'
  BY <1>7, <1>12, AppendTypes DEF Die, Goto, UndoType, Phase
<1>13. QED
  BY <1>1, <1>2, <1>3, <1>4, <1>5, <1>6, <1>8, <1>9, <1>10, <1>11, <1>12 DEF Next

-----------------------------------------------------------------------------
(* What a step leaves of the numbers.                                      *)

(* Only Execute raises a count, and only it brings a process to an append. *)
LEMMA CountMoves ==
  ASSUME UndoType, [Next]_vars
  PROVE  \/ /\ count' = count
            /\ \A q \in Proc : phase'[q] = "append" => phase[q] = "append" /\ pending'[q] = pending[q]
         \/ \E p \in Proc, outcome \in Outcome \cup {"failed"} : Execute(p, outcome)
<1> DEFINE Stays == /\ count' = count
                    /\ \A q \in Proc : phase'[q] = "append" => phase[q] = "append" /\ pending'[q] = pending[q]
<1>1. CASE UNCHANGED vars \/ (Tick /\ UNCHANGED process)
  <2>1. count' = count /\ phase' = phase /\ pending' = pending
    BY <1>1 DEF vars, auditVars, local, process, Tick
  <2>2. QED
    BY <2>1
<1>2. ASSUME NEW p \in Proc, NEW there \in Phase \ {"append"},
             phase' = [phase EXCEPT ![p] = there], count' = count,
             pending' = pending \/ pending' = [pending EXCEPT ![p] = NoEntry]
      PROVE  Stays
  <2>1. \A q \in Proc : phase'[q] = "append" => q # p /\ phase[q] = "append"
    BY <1>2 DEF UndoType
  <2>2. \A q \in Proc : q # p => pending'[q] = pending[q]
    BY <1>2 DEF UndoType
  <2>3. QED
    BY <1>2, <2>1, <2>2
<1>3. ASSUME NEW p \in Proc, StartRun(p) \/ StartUndo(p, TRUE) \/ StartUndo(p, FALSE) \/ ReadToClean(p)
      PROVE  Stays
  <2>1. \E there \in {"retention", "rewrite"} : phase' = [phase EXCEPT ![p] = there]
    BY <1>3 DEF StartRun, StartUndo, ReadToClean, Goto
  <2>2. count' = count /\ pending' = pending
    BY <1>3 DEF StartRun, StartUndo, ReadToClean, ReadForRetention, auditVars, local
  <2>3. {"retention", "rewrite"} \subseteq Phase \ {"append"}
    BY DEF Phase
  <2>4. QED
    BY <1>2, <2>1, <2>2, <2>3
<1>4. {"execute", "retry", "over"} \subseteq Phase \ {"append"}
  BY DEF Phase
<1>5. ASSUME NEW p \in Proc, SkipCleaning(p) \/ Cleaned(p) PROVE Stays
  <2>1. \E there \in {"execute", "over"} : phase' = [phase EXCEPT ![p] = there]
    BY <1>5, PrepareTypes DEF SkipCleaning, Cleaned
  <2>2. count' = count /\ pending' = pending
    BY <1>5 DEF SkipCleaning, Cleaned, Rename, Abandon, auditVars, local
  <2>3. QED
    BY <1>2, <1>4, <2>1, <2>2
<1>6. ASSUME NEW p \in Proc, Decline(p) \/ PassBlocked(p) PROVE Stays
  BY <1>6 DEF Decline, PassBlocked, auditVars, local
<1>7. ASSUME NEW p \in Proc, Record(p) \/ Die(p) PROVE Stays
  <2>1. \E there \in {"execute", "retry", "over"} : phase' = [phase EXCEPT ![p] = there]
    BY <1>7 DEF Record, Die, Goto
  <2>2. count' = count /\ (pending' = pending \/ pending' = [pending EXCEPT ![p] = NoEntry])
    BY <1>7 DEF Record, Die, Write, WriteTorn, Abandon, Close
  <2>3. QED
    BY <1>2, <1>4, <2>1, <2>2
<1>8. QED
  BY <1>1, <1>3, <1>5, <1>6, <1>7 DEF Next

(* So an entry that is numbered stays so.                                  *)
LEMMA NumberedStays ==
  ASSUME UndoType, [Next]_vars, NEW e \in Entry, Numbered(e)
  PROVE  Numbered(e)'
<1> SUFFICES ASSUME e.run \in Proc
             PROVE  /\ e.step <= count'[e.run]
                    /\ phase'[e.run] = "append" => e.step < count'[e.run]
  BY DEF Numbered
<1>1. e.step <= count[e.run] /\ (phase[e.run] = "append" => e.step < count[e.run])
  BY DEF Numbered
<1>2. CASE /\ count' = count
           /\ \A q \in Proc : phase'[q] = "append" => phase[q] = "append" /\ pending'[q] = pending[q]
  BY <1>1, <1>2
<1>3. ASSUME NEW p \in Proc, NEW outcome \in Outcome \cup {"failed"}, Execute(p, outcome)
      PROVE  /\ e.step <= count'[e.run]
             /\ phase'[e.run] = "append" => e.step < count'[e.run]
  <2>1. count' = [count EXCEPT ![p] = @ + 1] /\ phase' = [phase EXCEPT ![p] = "append"]
    BY <1>3 DEF Execute, Goto
  <2>2. e.step \in Int /\ count[p] \in Int /\ count[e.run] \in Int
    BY AuditAssumption DEF Entry, UndoType
  <2>3. CASE e.run = p
    <3>1. count'[e.run] = count[e.run] + 1
      BY <2>1, <2>3 DEF UndoType
    <3>2. QED
      BY <1>1, <2>2, <3>1
  <2>4. CASE e.run # p
    <3>1. count'[e.run] = count[e.run] /\ phase'[e.run] = phase[e.run]
      BY <2>1, <2>4 DEF UndoType
    <3>2. QED
      BY <1>1, <3>1
  <2>5. QED
    BY <2>3, <2>4
<1>4. QED
  BY <1>2, <1>3, CountMoves

(* What a process is about to append is new: not acknowledged, and not     *)
(* what a torn line was to be; and it is the last it has executed.         *)
LEMMA PendingNew ==
  ASSUME UndoType, NumberInv, NEW p \in Proc, phase[p] = "append"
  PROVE  /\ pending[p] \notin acked
         /\ \A k \in DOMAIN file : file[k].entry # pending[p]
<1>1. ASSUME NEW e, Numbered(e), e = pending[p] PROVE FALSE
  <2>1. e.run = p /\ e.step = count[p] /\ e.step < count[p] /\ count[p] \in 0..MaxSteps
    BY <1>1 DEF NumberInv, Numbered, UndoType
  <2>2. QED
    BY <2>1, AuditAssumption
<1>2. QED
  BY <1>1 DEF NumberInv

-----------------------------------------------------------------------------
(* Appending.                                                              *)

Entries(lines) == {lines[k].entry : k \in DOMAIN lines}

(* Behind a torn line a write spoils that line; else it adds one.          *)
LEMMA WriteContents ==
  ASSUME UndoType, TornInv, NEW p \in Proc, NEW whole \in BOOLEAN
  PROVE  LET lines == AfterWrite(p, whole)
         IN  /\ Entries(lines) \subseteq Entries(file) \cup {pending[p]}
             /\ torn => Contents(file) \ {Last(file).entry} \subseteq Contents(lines)
             /\ ~torn => /\ Contents(file) \subseteq Contents(lines)
                        /\ (whole => pending[p] \in Contents(lines))
                        /\ lines # <<>> /\ Last(lines).entry = pending[p]
<1> DEFINE lines == AfterWrite(p, whole)
<1>1. /\ DOMAIN file = 1..Len(file) /\ Len(file) \in Nat
      /\ \A k \in DOMAIN file : file[k] \in Line
  BY DEF UndoType
<1>2. CASE torn
  <2>1. Len(file) \in DOMAIN file
    BY <1>1, <1>2 DEF TornInv
  <2>2. lines = [file EXCEPT ![Len(file)] = [file[Len(file)] EXCEPT !.parses = FALSE]]
    BY <1>2, <2>1 DEF AfterWrite
  <2>3. /\ DOMAIN lines = DOMAIN file
        /\ \A k \in DOMAIN file : k # Len(file) => lines[k] = file[k]
    BY <2>2
  <2>4. lines[Len(file)].entry = file[Len(file)].entry
    BY <1>1, <2>1, <2>2 DEF Line
  <2> HIDE DEF lines
  <2>5. \A k \in DOMAIN file : lines[k].entry = file[k].entry
    BY <2>3, <2>4
  <2>6. Entries(lines) \subseteq Entries(file)
    BY <2>3, <2>5 DEF Entries
  <2>7. Contents(file) \ {Last(file).entry} \subseteq Contents(lines)
    BY <2>3, <2>5 DEF Contents, Last
  <2>8. QED
    BY <1>2, <2>6, <2>7 DEF lines
<1>3. CASE ~torn
  <2> DEFINE line == [entry |-> pending[p], parses |-> whole]
  <2>1. lines = Append(file, line) /\ line \in Line
    BY <1>3 DEF AfterWrite, Line, UndoType
  <2>2. line.entry = pending[p] /\ line.parses = whole
    OBVIOUS
  <2> HIDE DEF line
  <2>3. /\ DOMAIN lines = DOMAIN file \cup {Len(file) + 1} /\ Len(lines) = Len(file) + 1
        /\ lines[Len(file) + 1] = line /\ \A k \in DOMAIN file : lines[k] = file[k]
    BY <1>1, <2>1 DEF UndoType
  <2> HIDE DEF lines
  <2>4. lines # <<>> /\ Last(lines).entry = pending[p]
    BY <1>1, <2>2, <2>3 DEF Last
  <2>5. Entries(lines) \subseteq Entries(file) \cup {pending[p]}
    BY <2>2, <2>3 DEF Entries
  <2>6. Contents(file) \subseteq Contents(lines) /\ (whole => pending[p] \in Contents(lines))
    BY <2>2, <2>3 DEF Contents
  <2>7. QED
    BY <1>3, <2>4, <2>5, <2>6 DEF lines
<1>4. QED
  BY <1>2, <1>3

-----------------------------------------------------------------------------
(* Where the entries come from.                                            *)

Held(e) == e \in Entries(file) \/ (\E p \in Proc : e \in ToSet(kept[p])) \/ e \in acked

(* What the log, a cleanup or an acknowledgement holds was held before, or *)
(* was appended by this step.                                              *)
LEMMA Origins ==
  ASSUME UndoType, TornInv, [Next]_vars, NEW e, Held(e)'
  PROVE  \/ Held(e)
         \/ \E p \in Proc : /\ phase[p] = "append" /\ phase'[p] # "append"
                           /\ e = pending[p] /\ count' = count
<1>1. CASE file' = file /\ kept' = kept /\ acked' = acked
  BY <1>1 DEF Held, Entries
<1>2. CASE UNCHANGED vars \/ (Tick /\ UNCHANGED process)
  BY <1>1, <1>2 DEF vars, auditVars, disk, log, local, histories, Tick
<1>3. ASSUME NEW p \in Proc,
             \/ StartRun(p) \/ StartUndo(p, TRUE) \/ StartUndo(p, FALSE) \/ SkipCleaning(p)
             \/ Decline(p) \/ PassBlocked(p) \/ \E outcome \in Outcome \cup {"failed"} : Execute(p, outcome)
      PROVE  Held(e)
  <2>1. file' = file /\ kept' = kept /\ acked' = acked
    BY <1>3 DEF StartRun, StartUndo, SkipCleaning, Decline, PassBlocked, Execute, Open, auditVars, disk, log,
         local, histories
  <2>2. QED
    BY <2>1 DEF Held, Entries
<1>4. ASSUME NEW p \in Proc, ReadToClean(p) PROVE Held(e)
  <2>1. file' = file /\ acked' = acked /\ kept' = [kept EXCEPT ![p] = Survivors]
    BY <1>4 DEF ReadToClean, ReadForRetention, disk, log, histories
  <2>2. ToSet(Survivors) \subseteq Entries(file)
    BY SurvivorsOf DEF UndoType, Contents, Entries
  <2>3. \A q \in Proc : ToSet(kept[q])' \subseteq ToSet(kept[q]) \cup ToSet(Survivors)
    BY <2>1 DEF ToSet, UndoType
  <2>4. QED
    BY <2>1, <2>2, <2>3 DEF Held, Entries
<1>5. ASSUME NEW p \in Proc, Rename(p) \/ Abandon(p) PROVE Held(e)
  <2>1. acked' = acked /\ kept' = [kept EXCEPT ![p] = <<>>]
    BY <1>5 DEF Rename, Abandon, histories
  <2>2. \A q \in Proc : ToSet(kept[q])' \subseteq ToSet(kept[q])
    BY <2>1 DEF ToSet, UndoType
  <2>3. Entries(file') \subseteq Entries(file) \cup ToSet(kept[p])
    <3>1. CASE Rename(p)
      BY <3>1 DEF Rename, LinesOf, Entries, ToSet
    <3>2. CASE Abandon(p)
      BY <3>2 DEF Abandon, Entries, disk, log
    <3>3. QED
      BY <1>5, <3>1, <3>2
  <2>4. QED
    BY <2>1, <2>2, <2>3 DEF Held, Entries
<1>6. ASSUME NEW p \in Proc, Write(p) \/ WriteTorn(p) PROVE Held(e) \/ e = pending[p]
  <2>1. kept' = kept /\ acked' \subseteq acked \cup {pending[p]}
    BY <1>6 DEF Write, WriteTorn
  <2>2. Entries(file') \subseteq Entries(file) \cup {pending[p]}
    <3>1. \/ file' = file
          \/ \E whole \in BOOLEAN : file' = AfterWrite(p, whole)
      BY <1>6 DEF Write, WriteTorn
    <3>2. \A whole \in BOOLEAN : Entries(AfterWrite(p, whole)) \subseteq Entries(file) \cup {pending[p]}
      BY WriteContents
    <3>3. QED
      BY <3>1, <3>2
  <2>3. QED
    BY <2>1, <2>2 DEF Held, Entries
<1>7. ASSUME NEW p \in Proc, Cleaned(p) PROVE Held(e)
  BY <1>5, <1>7 DEF Cleaned
<1>8. ASSUME NEW p \in Proc, Record(p) \/ Die(p)
      PROVE  \/ Held(e)
             \/ phase[p] = "append" /\ phase'[p] # "append" /\ e = pending[p] /\ count' = count
  BY <1>5, <1>6, <1>8 DEF Record, Die, Goto, UndoType
<1>9. QED
  BY <1>2, <1>3, <1>4, <1>7, <1>8 DEF Next

LEMMA NumbersKeep == UndoType /\ TornInv /\ NumberInv /\ UndoType' /\ [Next]_vars => NumberInv'
<1> SUFFICES ASSUME UndoType, TornInv, NumberInv, UndoType', [Next]_vars PROVE NumberInv'
  OBVIOUS
<1>1. \A e : Held(e) => e \in Entry /\ Numbered(e)
  <2>1. \A k \in DOMAIN file : file[k].entry \in Entry
    <3>1. \A k \in DOMAIN file : file[k] \in Line
      BY DEF UndoType
    <3>2. QED
      BY <3>1 DEF Line
  <2>2. \A p \in Proc : \A k \in DOMAIN kept[p] : kept[p][k] \in Entry
    BY DEF UndoType
  <2>3. \A e \in Entries(file) : e \in Entry /\ Numbered(e)
    BY <2>1 DEF Entries, NumberInv
  <2>4. \A p \in Proc : \A e \in ToSet(kept[p]) : e \in Entry /\ Numbered(e)
    BY <2>2 DEF ToSet, NumberInv
  <2>5. \A e \in acked : e \in Entry /\ Numbered(e)
    BY DEF NumberInv, UndoType
  <2>6. QED
    BY <2>3, <2>4, <2>5 DEF Held
<1>2. ASSUME NEW e, Held(e)' PROVE Numbered(e)'
  <2>1. CASE Held(e)
    BY <1>1, <2>1, NumberedStays
  <2>2. ASSUME NEW p \in Proc, phase[p] = "append", phase'[p] # "append", e = pending[p], count' = count
        PROVE  Numbered(e)'
    <3>1. e.run = p /\ e.step = count'[p] /\ count'[p] \in 0..MaxSteps
      BY <2>2 DEF NumberInv, UndoType
    <3>2. count'[p] <= count'[p]
      BY <3>1, AuditAssumption
    <3>3. QED
      BY <2>2, <3>1, <3>2 DEF Numbered
  <2>3. \/ Held(e)
        \/ \E p \in Proc : /\ phase[p] = "append" /\ phase'[p] # "append"
                          /\ e = pending[p] /\ count' = count
    BY <1>2, Origins
  <2>4. QED
    BY <2>1, <2>2, <2>3
<1>3. ASSUME NEW p \in Proc, phase'[p] = "append"
      PROVE  pending'[p].run = p /\ pending'[p].step = count'[p]
  <2>1. CASE /\ count' = count
             /\ \A q \in Proc : phase'[q] = "append" => phase[q] = "append" /\ pending'[q] = pending[q]
    BY <1>3, <2>1 DEF NumberInv
  <2>2. ASSUME NEW q \in Proc, NEW outcome \in Outcome \cup {"failed"}, Execute(q, outcome)
        PROVE  pending'[p].run = p /\ pending'[p].step = count'[p]
    <3> DEFINE new == [run |-> q, step |-> count[q] + 1, undoOf |-> target[q], time |-> now,
                       outcome |-> outcome]
    <3>1. /\ count' = [count EXCEPT ![q] = @ + 1] /\ phase' = [phase EXCEPT ![q] = "append"]
          /\ pending' = [pending EXCEPT ![q] = new]
      BY <2>2 DEF Execute, Open, Goto
    <3>2. new.run = q /\ new.step = count[q] + 1
      OBVIOUS
    <3> HIDE DEF new
    <3>3. CASE p = q
      BY <3>1, <3>2, <3>3 DEF UndoType
    <3>4. CASE p # q
      BY <1>3, <3>1, <3>4 DEF UndoType, NumberInv
    <3>5. QED
      BY <3>3, <3>4
  <2>3. QED
    BY <2>1, <2>2, CountMoves
<1>4. ASSUME NEW k \in DOMAIN file' PROVE Numbered(file[k].entry)'
  <2>1. file'[k].entry \in Entries(file)'
    BY DEF Entries
  <2>2. QED
    BY <1>2, <2>1 DEF Held
<1>5. ASSUME NEW p \in Proc, NEW k \in DOMAIN kept'[p] PROVE Numbered(kept[p][k])'
  <2>1. kept'[p][k] \in ToSet(kept[p])'
    BY DEF ToSet
  <2>2. QED
    BY <1>2, <2>1 DEF Held
<1>6. ASSUME NEW e \in acked' PROVE Numbered(e)'
  BY <1>2 DEF Held
<1>7. QED
  BY <1>3, <1>4, <1>5, <1>6 DEF NumberInv

-----------------------------------------------------------------------------
(* What is lost.                                                           *)

(* Time does not run back: what has expired stays so.                      *)
LEMMA ExpiredStays ==
  ASSUME UndoType, [Next]_vars, NEW e \in Entry, Expired(e)
  PROVE  Expired(e)'
<1>1. now' = now \/ now' = now + 1
  BY DEF Next, StartRun, StartUndo, ReadToClean, SkipCleaning, Cleaned, Execute, Decline, PassBlocked, Record, Die,
     ReadForRetention, Rename, Abandon, Open, Write, WriteTorn, Tick, vars, auditVars, disk
<1>2. now \in Int /\ e.time \in Int /\ Retention \in Nat
  BY AuditAssumption DEF UndoType, Entry
<1>3. Retention > 0 /\ e.time < now - Retention
  BY DEF Expired
<1>4. e.time < now' - Retention
  BY <1>1, <1>2, <1>3
<1>5. QED
  BY <1>3, <1>4 DEF Expired

(* Processes that rewrite the log are at that place, and an idle one has   *)
(* chosen nothing.                                                         *)
LEMMA PhasesKeep == UndoType /\ PhaseInv /\ [Next]_vars => PhaseInv'
<1> SUFFICES ASSUME UndoType, PhaseInv, [Next]_vars PROVE PhaseInv'
  OBVIOUS
<1>1. CASE UNCHANGED vars \/ (Tick /\ UNCHANGED process)
  BY <1>1 DEF PhaseInv, vars, auditVars, local, process, Tick
<1>2. ASSUME NEW p \in Proc, NEW there, phase' = [phase EXCEPT ![p] = there],
             there = "rewrite" => p \in rewriting', there # "idle",
             \A q \in Proc \ {p} : (q \in rewriting => q \in rewriting') /\ default'[q] = default[q]
      PROVE  PhaseInv'
  BY <1>2 DEF PhaseInv, UndoType
<1>3. ASSUME NEW p \in Proc, StartRun(p) PROVE PhaseInv'
  BY <1>2, <1>3 DEF StartRun, Goto, auditVars, local
<1>4. ASSUME NEW p \in Proc, NEW named \in BOOLEAN, StartUndo(p, named) PROVE PhaseInv'
  <2>1. phase' = [phase EXCEPT ![p] = "retention"] /\ default' = [default EXCEPT ![p] = ~named]
        /\ rewriting' = rewriting
    BY <1>4 DEF StartUndo, Goto, auditVars, local
  <2>2. \A q \in Proc \ {p} : default'[q] = default[q]
    BY <2>1 DEF UndoType
  <2>3. QED
    BY <1>2, <2>1, <2>2
<1>5. ASSUME NEW p \in Proc, ReadToClean(p) PROVE PhaseInv'
  BY <1>2, <1>5 DEF ReadToClean, ReadForRetention, Goto
<1>6. ASSUME NEW p \in Proc, SkipCleaning(p) \/ Cleaned(p) PROVE PhaseInv'
  <2>1. \E there \in {"execute", "over"} : phase' = [phase EXCEPT ![p] = there]
    BY <1>6, PrepareTypes DEF SkipCleaning, Cleaned
  <2>2. default' = default /\ (rewriting' = rewriting \/ rewriting' = rewriting \ {p})
    BY <1>6 DEF SkipCleaning, Cleaned, Rename, Abandon, auditVars, local
  <2>3. QED
    BY <1>2, <2>1, <2>2
<1>7. ASSUME NEW p \in Proc, NEW outcome \in Outcome \cup {"failed"}, Execute(p, outcome) PROVE PhaseInv'
  <2>1. phase' = [phase EXCEPT ![p] = "append"] /\ default' = default /\ rewriting' = rewriting
    BY <1>7 DEF Execute, Open, Goto
  <2>2. QED
    BY <1>2, <2>1
<1>8. ASSUME NEW p \in Proc, Decline(p) \/ PassBlocked(p) PROVE PhaseInv'
  BY <1>8 DEF Decline, PassBlocked, PhaseInv, auditVars, local
<1>9. ASSUME NEW p \in Proc, Record(p) \/ Die(p) PROVE PhaseInv'
  <2>1. \E there \in {"execute", "retry", "over"} : phase' = [phase EXCEPT ![p] = there]
    BY <1>9 DEF Record, Die, Goto
  <2>2. default' = default /\ (rewriting' = rewriting \/ rewriting' = rewriting \ {p})
    BY <1>9 DEF Record, Die, Write, WriteTorn, Abandon
  <2>3. QED
    BY <1>2, <2>1, <2>2
<1>10. QED
  BY <1>1, <1>3, <1>4, <1>5, <1>6, <1>7, <1>8, <1>9 DEF Next

(* The three facts about acknowledged entries.                             *)
Safe == TornInv /\ KeepInv /\ LossInv

(* A step that leaves the log and what is known of it alone.               *)
LEMMA LogAlone ==
  ASSUME LogInv, [Next]_vars, file' = file, torn' = torn, kept' = kept, rewriting' = rewriting,
         acked' = acked, exposed' = exposed
  PROVE  Safe'
<1>1. \A e \in acked \ exposed : Expired(e) => Expired(e)'
  BY ExpiredStays DEF LogInv, UndoType
<1>2. TornInv'
  BY DEF LogInv, TornInv
<1>3. KeepInv'
  BY <1>1 DEF LogInv, KeepInv, ToSet
<1>4. LossInv'
  BY <1>1 DEF LogInv, LossInv, Contents
<1>5. QED
  BY <1>2, <1>3, <1>4 DEF Safe

(* A cleanup keeps all that has not expired.                               *)
LEMMA CleanupReads ==
  ASSUME LogInv, [Next]_vars, NEW p \in Proc, ReadForRetention(p)
  PROVE  Safe'
<1>1. /\ file' = file /\ torn' = torn /\ acked' = acked /\ exposed' = exposed
      /\ rewriting' = rewriting \cup {p} /\ kept' = [kept EXCEPT ![p] = Survivors]
  BY DEF ReadForRetention, disk, log, histories
<1>2. \A e \in acked \ exposed : Expired(e) => Expired(e)'
  BY ExpiredStays DEF LogInv, UndoType
<1>3. TornInv'
  BY <1>1 DEF LogInv, TornInv
<1>4. LossInv'
  BY <1>1, <1>2 DEF LogInv, LossInv, Contents
<1>5. ToSet(Survivors) = {e \in Contents(file) : ~Expired(e)}
  BY SurvivorsOf DEF LogInv, UndoType
<1>6. kept'[p] = Survivors /\ \A q \in Proc \ {p} : kept'[q] = kept[q]
  BY <1>1 DEF LogInv, UndoType
<1>7. \A e \in acked \ exposed : e \in ToSet(kept'[p]) \/ Expired(e)
  BY <1>5, <1>6 DEF LogInv, LossInv
<1>8. \A q \in rewriting' : \A e \in acked \ exposed : e \in ToSet(kept'[q]) \/ Expired(e)
  BY <1>1, <1>6, <1>7 DEF LogInv, KeepInv, UndoType
<1>9. KeepInv'
  BY <1>1, <1>2, <1>8 DEF KeepInv, ToSet
<1>10. QED
  BY <1>3, <1>4, <1>9 DEF Safe

(* A rename puts in place what a cleanup kept; else the log stays.         *)
LEMMA CleanupEnds ==
  ASSUME LogInv, [Next]_vars, NEW p \in Proc, (phase[p] = "rewrite" /\ Rename(p)) \/ Abandon(p)
  PROVE  Safe'
<1>1. /\ acked' = acked /\ exposed' = exposed
      /\ rewriting' = rewriting \ {p} /\ kept' = [kept EXCEPT ![p] = <<>>]
  BY DEF Rename, Abandon, histories
<1>2. \A e \in acked \ exposed : Expired(e) => Expired(e)'
  BY ExpiredStays DEF LogInv, UndoType
<1>3. \A q \in Proc \ {p} : kept'[q] = kept[q]
  BY <1>1 DEF LogInv, UndoType
<1>4. \A q \in rewriting' : \A e \in acked \ exposed : e \in ToSet(kept'[q]) \/ Expired(e)
  BY <1>1, <1>3 DEF LogInv, KeepInv, UndoType
<1>5. KeepInv'
  BY <1>1, <1>2, <1>4 DEF KeepInv, ToSet
<1>6. CASE phase[p] = "rewrite" /\ Rename(p)
  <2>1. p \in rewriting /\ kept[p] \in Seq(Entry) /\ file' = LinesOf(kept[p]) /\ ~torn'
    <3>1. torn' = FALSE /\ file' = LinesOf(kept[p])
      BY <1>6 DEF Rename
    <3>2. p \in rewriting
      BY <1>6 DEF LogInv, PhaseInv
    <3>3. kept[p] \in Seq(Entry)
      BY DEF LogInv, UndoType
    <3>4. QED
      BY <3>1, <3>2, <3>3
  <2>2. Contents(file') = ToSet(kept[p])
    BY <2>1, LinesAll
  <2>3. \A e \in acked \ exposed : e \in Contents(file') \/ Expired(e)
    BY <2>1, <2>2 DEF LogInv, KeepInv
  <2>4. LossInv'
    BY <1>1, <1>2, <2>3 DEF LossInv, Contents
  <2>5. QED
    BY <1>5, <2>1, <2>4 DEF Safe, TornInv
<1>7. CASE Abandon(p)
  <2>1. file' = file /\ torn' = torn
    BY <1>7 DEF Abandon, disk, log
  <2>2. LossInv' /\ TornInv'
    BY <1>1, <1>2, <2>1 DEF LogInv, LossInv, TornInv, Contents
  <2>3. QED
    BY <1>5, <2>2 DEF Safe
<1>8. QED
  BY <1>6, <1>7

(* An append that is acknowledged is in the log, or was exposed.           *)
LEMMA WriteSafe ==
  ASSUME LogInv, [Next]_vars, NEW p \in Proc, phase[p] = "append", Write(p)
  PROVE  Safe'
<1>1. /\ acked' = acked \cup {pending[p]} /\ rewriting' = rewriting /\ kept' = kept
      /\ exposed' = IF Exposed(p) THEN exposed \cup {pending[p]} ELSE exposed
  BY DEF Write
<1>2. \A e \in acked \ exposed : Expired(e) => Expired(e)'
  BY ExpiredStays DEF LogInv, UndoType
<1>3. pending[p] \notin acked /\ \A k \in DOMAIN file : file[k].entry # pending[p]
  BY PendingNew DEF LogInv
<1>4. \A e \in acked' \ exposed' : e \in acked \ exposed \/ (e = pending[p] /\ ~Exposed(p))
  BY <1>1
<1>5. KeepInv'
  <2>1. CASE Exposed(p)
    BY <1>1, <1>2, <1>4, <2>1 DEF LogInv, KeepInv, ToSet
  <2>2. CASE ~Exposed(p)
    BY <1>1, <2>2 DEF Exposed, KeepInv
  <2>3. QED
    BY <2>1, <2>2
<1>6. TornInv'
  <2>1. CASE fd[p] = inode
    BY <2>1 DEF Write, TornInv
  <2>2. CASE fd[p] # inode /\ torn
    <3>1. file' = file /\ file # <<>> /\ Last(file).entry \notin acked
      BY <2>2 DEF Write, LogInv, TornInv
    <3>2. Len(file) \in DOMAIN file
      BY <3>1 DEF LogInv, UndoType
    <3>3. Last(file).entry # pending[p]
      BY <1>3, <3>2 DEF Last
    <3>4. QED
      BY <1>1, <3>1, <3>3 DEF TornInv
  <2>3. CASE fd[p] # inode /\ ~torn
    BY <2>3 DEF Write, TornInv
  <2>4. QED
    BY <2>1, <2>2, <2>3
<1>7. /\ torn => Contents(file) \ {Last(file).entry} \subseteq Contents(AfterWrite(p, TRUE))
      /\ ~torn => Contents(file) \cup {pending[p]} \subseteq Contents(AfterWrite(p, TRUE))
  BY WriteContents DEF LogInv
<1>8. \A e \in acked \ exposed : e \in Contents(file) => e \in Contents(file')
  <2>1. CASE fd[p] = inode
    BY <1>7, <2>1 DEF Write, LogInv, TornInv
  <2>2. CASE fd[p] # inode
    BY <2>2 DEF Write
  <2>3. QED
    BY <2>1, <2>2
<1>9. ~Exposed(p) => pending[p] \in Contents(file')
  BY <1>7 DEF Exposed, Write
<1>10. \A e \in acked' \ exposed' : e \in Contents(file') \/ Expired(e)'
  BY <1>2, <1>4, <1>8, <1>9 DEF LogInv, LossInv
<1>11. LossInv'
  BY <1>10 DEF LossInv, Contents
<1>12. QED
  BY <1>5, <1>6, <1>11 DEF Safe

(* A write that is cut off spoils nothing that was acknowledged.           *)
LEMMA TornSafe ==
  ASSUME LogInv, [Next]_vars, NEW p \in Proc, phase[p] = "append", WriteTorn(p)
  PROVE  Safe'
<1>1. /\ acked' = acked /\ exposed' = exposed /\ rewriting' = rewriting /\ kept' = kept /\ ~torn
  BY DEF WriteTorn
<1>2. \A e \in acked \ exposed : Expired(e) => Expired(e)'
  BY ExpiredStays DEF LogInv, UndoType
<1>3. pending[p] \notin acked
  BY PendingNew DEF LogInv
<1>4. KeepInv'
  BY <1>1, <1>2 DEF LogInv, KeepInv, ToSet
<1>5. CASE fd[p] = inode
  <2>1. PICK whole \in BOOLEAN : file' = AfterWrite(p, whole)
    BY <1>5 DEF WriteTorn
  <2>2. file' # <<>> /\ Last(file').entry = pending[p] /\ Contents(file) \subseteq Contents(file')
    BY <1>1, <2>1, WriteContents DEF LogInv
  <2>3. TornInv'
    BY <1>1, <1>3, <2>2 DEF TornInv, Last
  <2>4. \A e \in acked \ exposed : e \in Contents(file') \/ Expired(e)'
    BY <1>2, <2>2 DEF LogInv, LossInv
  <2>5. LossInv'
    BY <1>1, <2>4 DEF LossInv, Contents
  <2>6. QED
    BY <1>4, <2>3, <2>5 DEF Safe
<1>6. CASE fd[p] # inode
  <2>1. file' = file /\ torn' = torn
    BY <1>6 DEF WriteTorn
  <2>2. QED
    BY <1>1, <2>1, LogAlone
<1>7. QED
  BY <1>5, <1>6

LEMMA SafeKeeps == LogInv /\ [Next]_vars => Safe'
<1> SUFFICES ASSUME LogInv, [Next]_vars PROVE Safe'
  OBVIOUS
<1>1. CASE UNCHANGED vars \/ (Tick /\ UNCHANGED process)
  BY <1>1, LogAlone DEF vars, auditVars, disk, log, local, histories, Tick
<1>2. ASSUME NEW p \in Proc,
             \/ StartRun(p) \/ StartUndo(p, TRUE) \/ StartUndo(p, FALSE) \/ SkipCleaning(p)
             \/ Decline(p) \/ PassBlocked(p) \/ \E outcome \in Outcome \cup {"failed"} : Execute(p, outcome)
      PROVE  Safe'
  <2>1. /\ file' = file /\ torn' = torn /\ kept' = kept /\ rewriting' = rewriting
        /\ acked' = acked /\ exposed' = exposed
    BY <1>2 DEF StartRun, StartUndo, SkipCleaning, Decline, PassBlocked, Execute, Open, auditVars, disk, log,
         local, histories
  <2>2. QED
    BY <2>1, LogAlone
<1>3. ASSUME NEW p \in Proc, ReadToClean(p) PROVE Safe'
  BY <1>3, CleanupReads DEF ReadToClean
<1>4. ASSUME NEW p \in Proc, Cleaned(p) PROVE Safe'
  BY <1>4, CleanupEnds DEF Cleaned
<1>5. ASSUME NEW p \in Proc, Record(p) PROVE Safe'
  BY <1>5, WriteSafe, TornSafe DEF Record
<1>6. ASSUME NEW p \in Proc, Die(p) PROVE Safe'
  BY <1>6, CleanupEnds, TornSafe DEF Die
<1>7. QED
  BY <1>1, <1>2, <1>3, <1>4, <1>5, <1>6 DEF Next

-----------------------------------------------------------------------------
(* The theorems.                                                           *)

(* All that the past left is in the log.                                   *)
LEMMA LogStarts == Init => LogInv
<1> SUFFICES ASSUME Init PROVE LogInv
  OBVIOUS
<1>1. UndoType
  BY TypeStarts
<1>2. PICK past \in PastLogs : file = LinesOf(past) /\ written = past
  BY DEF Init, AuditInit
<1>3. past \in Seq(Entry) /\ \A k \in DOMAIN past : past[k].run \notin Proc
  BY <1>2, AuditAssumption
<1>4. /\ ~torn /\ rewriting = {} /\ acked = ToSet(past) /\ kept = [p \in Proc |-> <<>>]
      /\ phase = [p \in Proc |-> "idle"] /\ default = [p \in Proc |-> FALSE]
  BY <1>2 DEF Init, AuditInit
<1>5. NumberInv
  <2>1. \A e \in ToSet(past) : Numbered(e)
    BY <1>3 DEF ToSet, Numbered
  <2>2. \A k \in DOMAIN file : file[k].entry \in ToSet(past)
    BY <1>2 DEF LinesOf, ToSet
  <2>3. QED
    BY <1>4, <2>1, <2>2 DEF NumberInv
<1>6. LossInv
  BY <1>2, <1>3, <1>4, LinesAll DEF LossInv
<1>7. PhaseInv /\ TornInv /\ KeepInv
  BY <1>4 DEF PhaseInv, TornInv, KeepInv
<1>8. QED
  BY <1>1, <1>5, <1>6, <1>7 DEF LogInv

LEMMA LogKeeps == LogInv /\ [Next]_vars => LogInv'
<1> SUFFICES ASSUME LogInv, [Next]_vars PROVE LogInv'
  OBVIOUS
<1>1. UndoType'
  BY TypeKeeps DEF LogInv
<1>2. NumberInv'
  BY <1>1, NumbersKeep DEF LogInv
<1>3. PhaseInv'
  BY PhasesKeep DEF LogInv
<1>4. TornInv' /\ KeepInv' /\ LossInv'
  BY SafeKeeps DEF Safe
<1>5. QED
  BY <1>1, <1>2, <1>3, <1>4 DEF LogInv

(* An acknowledged entry that was not exposed is in the log until it       *)
(* expires, whatever any number of processes do.                           *)
THEOREM LossHolds == Spec => []LossExplained
<1>1. LogInv => LossExplained
  BY ReadAllOf DEF LogInv, UndoType, LossInv, LossExplained
<1>2. QED
  BY <1>1, LogStarts, LogKeeps, PTL DEF Spec

(* A run that an acknowledged entry names as undone, one neither expired   *)
(* nor exposed to another's cleanup or to a torn line, is not the default  *)
(* target of an undo that starts then.                                     *)
THEOREM OfferedOnce == Spec => NeverOfferedAgain
<1>1. ASSUME LogInv, [Next]_vars, NEW p \in Proc, phase[p] = "idle", default'[p]
      PROVE  target'[p] \notin Settled
  <2>1. StartUndo(p, FALSE)
    <3>1. ~default[p]
      BY <1>1 DEF LogInv, PhaseInv
    <3>2. ASSUME NEW q \in Proc, NEW named \in BOOLEAN, StartUndo(q, named), default'[p] # default[p]
          PROVE  q = p /\ ~named
      BY <1>1, <3>1, <3>2 DEF StartUndo, LogInv, UndoType
    <3>3. ASSUME default' = default PROVE FALSE
      BY <1>1, <3>1, <3>3
    <3>4. \/ default' = default
          \/ \E q \in Proc : StartUndo(q, TRUE) \/ StartUndo(q, FALSE)
      BY <1>1 DEF Next, StartRun, ReadToClean, SkipCleaning, Cleaned, Execute, Decline, PassBlocked, Record, Die,
         process, vars
    <3>5. default'[p] # default[p]
      BY <1>1, <3>1
    <3>6. QED
      BY <3>2, <3>3, <3>4, <3>5
  <2>2. ReadAll \in Seq(Entry) /\ ToSet(ReadAll) = Contents(file)
    BY <1>1, ReadAllOf DEF LogInv, UndoType
  <2>3. Candidates(ReadAll) # {} /\ target'[p] = DefaultTarget(ReadAll)
    BY <1>1, <2>1 DEF StartUndo, LogInv, UndoType
  <2>4. target'[p] \notin Undone(ReadAll)
    BY <2>2, <2>3, TargetFound DEF Candidates
  <2>5. Settled \subseteq Undone(ReadAll)
    BY <1>1, <2>2 DEF Settled, Undone, LogInv, LossInv
  <2>6. QED
    BY <2>4, <2>5
<1>2. LogInv /\ [Next]_vars =>
        [\A p \in Proc : (phase[p] = "idle" /\ default'[p]) => target'[p] \notin Settled]_vars
  BY <1>1
<1>3. QED
  BY <1>2, LogStarts, LogKeeps, PTL DEF Spec, NeverOfferedAgain

-----------------------------------------------------------------------------
(* What is ordered.                                                        *)

(* s is what is left of w when only some elements are kept.                *)
OrderedIn(s, w) == s = Only(w, ToSet(s))

LEMMA OrderedPart ==
    \A R : \A w, s \in Seq(R) : OrderedIn(s, w) => \A es : OrderedIn(Only(s, es), w)
<1> SUFFICES ASSUME NEW R, NEW w \in Seq(R), NEW s \in Seq(R), OrderedIn(s, w), NEW es
             PROVE  OrderedIn(Only(s, es), w)
  OBVIOUS
<1>1. ToSet(Only(s, es)) = ToSet(s) \cap es
  <2>1. {Only(s, es)[k] : k \in DOMAIN Only(s, es)} = {s[k] : k \in DOMAIN s} \cap es
    BY OnlyType, SMTT(30)
  <2>2. QED
    BY <2>1 DEF ToSet
<1>2. s = Only(w, ToSet(s))
  BY DEF OrderedIn
<1>3. Only(Only(w, ToSet(s)), es) = Only(w, ToSet(s) \cap es)
  BY OnlyOnly
<1>4. QED
  BY <1>1, <1>2, <1>3 DEF OrderedIn

LEMMA OrderedOld == \A R : \A w, s \in Seq(R) : \A x \in R :
  OrderedIn(s, w) /\ x \notin ToSet(s) => OrderedIn(s, Append(w, x))
<1> SUFFICES ASSUME NEW R, NEW w \in Seq(R), NEW s \in Seq(R), NEW x \in R,
                    OrderedIn(s, w), x \notin ToSet(s)
             PROVE  OrderedIn(s, Append(w, x))
  OBVIOUS
<1>1. Only(Append(w, x), ToSet(s)) = Only(w, ToSet(s))
  BY OnlyAppend
<1>2. QED
  BY <1>1 DEF OrderedIn

LEMMA OrderedNew == \A R : \A w, s \in Seq(R) : \A x \in R :
  OrderedIn(s, w) /\ x \notin ToSet(w) => OrderedIn(Append(s, x), Append(w, x))
<1> SUFFICES ASSUME NEW R, NEW w \in Seq(R), NEW s \in Seq(R), NEW x \in R,
                    OrderedIn(s, w), x \notin ToSet(w)
             PROVE  OrderedIn(Append(s, x), Append(w, x))
  OBVIOUS
<1> DEFINE es == ToSet(Append(s, x))
<1>1. es = ToSet(s) \cup {x}
  <2>1. /\ DOMAIN Append(s, x) = 1..(Len(s) + 1) /\ DOMAIN s = 1..Len(s) /\ Len(s) \in Nat
        /\ Append(s, x)[Len(s) + 1] = x /\ \A k \in 1..Len(s) : Append(s, x)[k] = s[k]
    OBVIOUS
  <2>2. QED
    BY <2>1 DEF ToSet
<1>2. \A k \in DOMAIN w : w[k] \in es <=> w[k] \in ToSet(s)
  BY <1>1 DEF ToSet
<1>3. x \in es
  BY <1>1
<1> HIDE DEF es
<1>4. Only(w, es) = Only(w, ToSet(s))
  BY <1>2, OnlySame
<1>5. Only(Append(w, x), es) = Append(Only(w, es), x)
  BY <1>3, OnlyAppend
<1>6. QED
  BY <1>4, <1>5 DEF OrderedIn, es

(* The last of an ordered sequence can be dropped, if it is there once.    *)
LEMMA OrderedFront == \A R : \A w, s \in Seq(R) : \A x \in R :
  OrderedIn(Append(s, x), w) /\ x \notin ToSet(s) => OrderedIn(s, w)
<1> SUFFICES ASSUME NEW R, NEW w \in Seq(R), NEW s \in Seq(R), NEW x \in R,
                    OrderedIn(Append(s, x), w), x \notin ToSet(s)
             PROVE  OrderedIn(s, w)
  OBVIOUS
<1>1. Append(s, x) \in Seq(R)
  OBVIOUS
<1>2. Only(Append(s, x), ToSet(s)) = Only(s, ToSet(s))
  BY OnlyAppend
<1>3. Only(s, ToSet(s)) = s
  BY OnlyAll DEF ToSet
<1>4. OrderedIn(Only(Append(s, x), ToSet(s)), w)
  BY <1>1, OrderedPart
<1>5. QED
  BY <1>2, <1>3, <1>4

LEMMA OrderedNothing == \A R : \A w \in Seq(R) : OrderedIn(<<>>, w)
<1> SUFFICES ASSUME NEW R, NEW w \in Seq(R) PROVE OrderedIn(<<>>, w)
  OBVIOUS
<1>1. ToSet(<<>>) = {}
  BY DEF ToSet
<1>2. PICK s : s = Only(w, {})
  OBVIOUS
<1>3. s \in Seq(R) /\ {s[k] : k \in DOMAIN s} = {}
  BY <1>2, OnlyType
<1>4. Len(s) \in Nat /\ DOMAIN s = 1..Len(s)
  BY <1>3
<1>5. 1 \notin DOMAIN s
  BY <1>3
<1>6. Len(s) = 0
  BY <1>4, <1>5
<1>7. s = <<>>
  BY <1>3, <1>6
<1>8. QED
  BY <1>1, <1>2, <1>7 DEF OrderedIn

(* ReadAll, of any lines.                                                  *)
EntriesOf(lines) == [k \in DOMAIN lines |-> lines[k].entry]
Parsing(lines) == {k \in DOMAIN lines : lines[k].parses}
Reading(lines) == Picked(EntriesOf(lines), Parsing(lines))

LEMMA ReadAllReads == ReadAll = Reading(file)
BY DEF ReadAll, Reading, EntriesOf, Parsing

LEMMA EntriesAre == \A lines \in Seq(Line) :
  EntriesOf(lines) \in Seq(Entry) /\ DOMAIN EntriesOf(lines) = DOMAIN lines
<1> SUFFICES ASSUME NEW lines \in Seq(Line)
             PROVE  EntriesOf(lines) \in Seq(Entry) /\ DOMAIN EntriesOf(lines) = DOMAIN lines
  OBVIOUS
<1>1. DOMAIN lines = 1..Len(lines) /\ Len(lines) \in Nat /\ \A k \in DOMAIN lines : lines[k] \in Line
  OBVIOUS
<1>2. \A k \in DOMAIN lines : lines[k].entry \in Entry
  BY <1>1 DEF Line
<1>3. QED
  BY <1>1, <1>2 DEF EntriesOf

LEMMA ReadingIs ==
    \A lines \in Seq(Line) : Reading(lines) \in Seq(Entry) /\ ToSet(Reading(lines)) \subseteq Entries(lines)
<1> SUFFICES ASSUME NEW lines \in Seq(Line)
             PROVE  Reading(lines) \in Seq(Entry) /\ ToSet(Reading(lines)) \subseteq Entries(lines)
  OBVIOUS
<1>1. PICK s : s = EntriesOf(lines)
  OBVIOUS
<1>2. s \in Seq(Entry) /\ DOMAIN s = DOMAIN lines
  BY <1>1, EntriesAre
<1>3. /\ Picked(s, Parsing(lines)) \in Seq(Entry)
      /\ ToSet(Picked(s, Parsing(lines))) = {s[k] : k \in Parsing(lines) \cap DOMAIN s}
  BY <1>2, PickedSet
<1>4. \A k \in DOMAIN lines : s[k] = lines[k].entry
  BY <1>1 DEF EntriesOf
<1>5. QED
  BY <1>1, <1>2, <1>3, <1>4 DEF Reading, Entries

LEMMA ReadingAppend == \A lines \in Seq(Line) : \A l \in Line :
  Reading(Append(lines, l)) = IF l.parses THEN Append(Reading(lines), l.entry) ELSE Reading(lines)
<1> SUFFICES ASSUME NEW lines \in Seq(Line), NEW l \in Line
             PROVE  Reading(Append(lines, l)) = IF l.parses THEN Append(Reading(lines), l.entry) ELSE Reading(lines)
  OBVIOUS
<1>1. PICK more : more = Append(lines, l)
  OBVIOUS
<1>2. /\ more \in Seq(Line) /\ DOMAIN more = 1..(Len(lines) + 1) /\ DOMAIN lines = 1..Len(lines) /\ Len(lines) \in Nat
      /\ more[Len(lines) + 1] = l /\ \A k \in 1..Len(lines) : more[k] = lines[k]
  BY <1>1
<1>3. l.entry \in Entry
  BY DEF Line
<1>4. PICK s : s = EntriesOf(lines)
  OBVIOUS
<1>5. s \in Seq(Entry) /\ DOMAIN s = DOMAIN lines /\ Len(s) = Len(lines) /\ \A k \in DOMAIN lines : s[k] = lines[k].entry
  <2>1. s \in Seq(Entry) /\ DOMAIN s = DOMAIN lines
    BY <1>4, EntriesAre
  <2>2. Len(s) = Len(lines)
    BY <1>2, <2>1
  <2>3. QED
    BY <1>4, <2>1, <2>2 DEF EntriesOf
<1>6. EntriesOf(more) = Append(s, l.entry)
  <2>1. /\ EntriesOf(more) = [k \in 1..(Len(lines) + 1) |-> more[k].entry]
    BY <1>2 DEF EntriesOf
  <2>2. Append(s, l.entry) = [k \in 1..(Len(lines) + 1) |-> IF k = Len(lines) + 1 THEN l.entry ELSE s[k]]
    BY <1>3, <1>5
  <2>3. \A k \in 1..(Len(lines) + 1) : more[k].entry = IF k = Len(lines) + 1 THEN l.entry ELSE s[k]
    BY <1>2, <1>5
  <2>4. QED
    BY <2>1, <2>2, <2>3
<1>7. /\ Len(s) + 1 \in Parsing(more) <=> l.parses
      /\ \A k \in DOMAIN s : k \in Parsing(more) <=> k \in Parsing(lines)
  BY <1>2, <1>5 DEF Parsing
<1>8. Picked(Append(s, l.entry), Parsing(more))
        = IF Len(s) + 1 \in Parsing(more) THEN Append(Picked(s, Parsing(more)), l.entry) ELSE Picked(s, Parsing(more))
  <2>1. PICK e : e = l.entry
    OBVIOUS
  <2>2. s \in Seq(Entry) /\ e \in Entry
    BY <1>3, <1>5, <2>1
  <2>3. Picked(Append(s, e), Parsing(more))
          = IF Len(s) + 1 \in Parsing(more) THEN Append(Picked(s, Parsing(more)), e) ELSE Picked(s, Parsing(more))
    BY <2>2, PickedAppend
  <2>4. QED
    BY <2>1, <2>3
<1>9. Picked(s, Parsing(more)) = Picked(s, Parsing(lines))
  BY <1>5, <1>7, PickedSame
<1>10. Reading(more) = Picked(Append(s, l.entry), Parsing(more)) /\ Reading(lines) = Picked(s, Parsing(lines))
  BY <1>4, <1>6 DEF Reading
<1>11. QED
  BY <1>1, <1>7, <1>8, <1>9, <1>10

LEMMA ReadingLines == \A entries \in Seq(Entry) : Reading(LinesOf(entries)) = entries
<1> SUFFICES ASSUME NEW entries \in Seq(Entry) PROVE Reading(LinesOf(entries)) = entries
  OBVIOUS
<1>1. EntriesOf(LinesOf(entries)) = entries
  BY DEF EntriesOf, LinesOf
<1>2. \A k \in DOMAIN entries : k \in Parsing(LinesOf(entries))
  BY DEF Parsing, LinesOf
<1>3. Picked(entries, Parsing(LinesOf(entries))) = entries
  BY <1>2, PickedAll
<1>4. QED
  BY <1>1, <1>3 DEF Reading

(* A cleanup keeps the entries that have not expired.                      *)
LEMMA SurvivorsOnly == Survivors = Only(ReadAll, {e \in Entry : ~Expired(e)}) \/ file \notin Seq(Line)
<1> SUFFICES ASSUME file \in Seq(Line) PROVE Survivors = Only(ReadAll, {e \in Entry : ~Expired(e)})
  OBVIOUS
<1>1. ReadAll \in Seq(Entry)
  BY ReadAllOf
<1>2. \A k \in DOMAIN ReadAll : ReadAll[k] \in Entry
  BY <1>1
<1>3. {k \in DOMAIN ReadAll : ~Expired(ReadAll[k])} = {k \in DOMAIN ReadAll : ReadAll[k] \in {e \in Entry : ~Expired(e)}}
  BY <1>2
<1>4. QED
  BY <1>3 DEF Survivors, Fresh, Only

-----------------------------------------------------------------------------
(* The log is ordered.                                                     *)

(* What a torn line was to hold stands in no line before it.               *)
TornOnce == torn => \A k \in 1..(Len(file) - 1) : file[k].entry # file[Len(file)].entry

OrderInv ==
  /\ written \in Seq(Entry)
  /\ \A e \in ToSet(written) : Numbered(e)
  /\ OrderedIn(ReadAll, written)
  /\ \A p \in Proc : OrderedIn(kept[p], written)
  /\ TornOnce

(* What is about to be appended was never written, read or kept.           *)
LEMMA PendingUnwritten ==
  ASSUME LogInv, OrderInv, NEW p \in Proc, phase[p] = "append"
  PROVE  /\ pending[p] \in Entry
         /\ pending[p] \notin ToSet(written)
         /\ pending[p] \notin Entries(file)
         /\ \A q \in Proc : pending[p] \notin ToSet(kept[q])
<1>1. ASSUME NEW e, Numbered(e), e = pending[p] PROVE FALSE
  <2>1. e.run = p /\ e.step = count[p] /\ e.step < count[p] /\ count[p] \in 0..MaxSteps
    BY <1>1 DEF LogInv, NumberInv, Numbered, UndoType
  <2>2. QED
    BY <2>1, AuditAssumption
<1>2. \A e \in Entries(file) : Numbered(e)
  BY DEF LogInv, NumberInv, Entries
<1>3. \A q \in Proc : \A e \in ToSet(kept[q]) : Numbered(e)
  BY DEF LogInv, NumberInv, ToSet
<1>4. QED
  BY <1>1, <1>2, <1>3 DEF OrderInv, LogInv, UndoType

LEMMA AppendIs ==
    \A R : \A s \in Seq(R) : \A x \in R : Append(s, x) \in Seq(R) /\ Len(Append(s, x)) = Len(s) + 1
OBVIOUS

(* Which reads follow when a line is written.                              *)
LEMMA WriteReads ==
  ASSUME LogInv, OrderInv, NEW p \in Proc, phase[p] = "append", NEW whole \in BOOLEAN
  PROVE  /\ OrderedIn(Reading(AfterWrite(p, whole)), Append(written, pending[p]))
         /\ ~torn => LET lines == AfterWrite(p, whole)
                     IN  \A k \in 1..(Len(lines) - 1) : lines[k].entry # lines[Len(lines)].entry
<1>1. PICK e : e = pending[p]
  OBVIOUS
<1>2. e \in Entry /\ e \notin ToSet(written) /\ e \notin Entries(file)
  BY <1>1, PendingUnwritten
<1>3. file \in Seq(Line) /\ written \in Seq(Entry) /\ OrderedIn(Reading(file), written)
  BY ReadAllReads DEF LogInv, UndoType, OrderInv
<1>4. CASE torn
  <2>1. Len(file) \in DOMAIN file /\ Len(file) \in Nat /\ DOMAIN file = 1..Len(file) /\ Len(file) > 0
    BY <1>3, <1>4 DEF LogInv, TornInv
  <2>2. PICK l : l = file[Len(file)]
    OBVIOUS
  <2>3. l \in Line
    BY <1>3, <2>1, <2>2
  <2>4. PICK front : front = SubSeq(file, 1, Len(file) - 1)
    OBVIOUS
  <2>5. /\ front \in Seq(Line) /\ Len(front) = Len(file) - 1
        /\ \A k \in 1..(Len(file) - 1) : front[k] = file[k]
    BY <1>3, <2>1, <2>4
  <2>6. file = Append(front, l)
    <3>1. Append(front, l) \in Seq(Line) /\ Len(Append(front, l)) = Len(file)
      <4>1. Append(front, l) \in Seq(Line) /\ Len(Append(front, l)) = Len(front) + 1
        BY <2>1, <2>3, <2>5, AppendIs
      <4>2. QED
        BY <2>1, <2>5, <4>1
    <3>2. ASSUME NEW k \in 1..Len(file) PROVE file[k] = Append(front, l)[k]
      BY <2>1, <2>2, <2>3, <2>5
    <3>3. QED
      BY <1>3, <3>1, <3>2, SeqEqual
  <2>7. PICK spoilt : spoilt = [l EXCEPT !.parses = FALSE]
    OBVIOUS
  <2>8. spoilt \in Line /\ spoilt.parses = FALSE
    BY <2>3, <2>7 DEF Line
  <2>9. AfterWrite(p, whole) = Append(front, spoilt)
    <3>1. AfterWrite(p, whole) = [file EXCEPT ![Len(file)] = spoilt]
      BY <1>4, <2>1, <2>2, <2>7 DEF AfterWrite
    <3>2. PICK a : a = [file EXCEPT ![Len(file)] = spoilt]
      OBVIOUS
    <3>3. a \in Seq(Line) /\ Len(a) = Len(file) /\ a[Len(file)] = spoilt /\ \A k \in 1..(Len(file) - 1) : a[k] = file[k]
      BY <1>3, <2>1, <2>8, <3>2
    <3>4. Append(front, spoilt) \in Seq(Line) /\ Len(Append(front, spoilt)) = Len(file)
      <4>1. Append(front, spoilt) \in Seq(Line) /\ Len(Append(front, spoilt)) = Len(front) + 1
        BY <2>1, <2>5, <2>8, AppendIs
      <4>2. QED
        BY <2>1, <2>5, <4>1
    <3>5. ASSUME NEW k \in 1..Len(file) PROVE a[k] = Append(front, spoilt)[k]
      BY <2>1, <2>5, <2>8, <3>3
    <3>6. QED
      BY <3>1, <3>2, <3>3, <3>4, <3>5, SeqEqual
  <2>10. Reading(AfterWrite(p, whole)) = Reading(front)
    BY <2>5, <2>8, <2>9, ReadingAppend
  <2>11. Reading(front) \in Seq(Entry) /\ ToSet(Reading(front)) \subseteq Entries(front)
    BY <2>5, ReadingIs
  <2>12. \A k \in DOMAIN front : front[k].entry # l.entry /\ front[k].entry \in Entries(file)
    <3>1. DOMAIN front = 1..(Len(file) - 1)
      BY <2>1, <2>5
    <3>2. QED
      BY <1>4, <2>1, <2>2, <2>5, <3>1 DEF OrderInv, TornOnce, Entries
  <2>13. l.entry \notin ToSet(Reading(front)) /\ e \notin ToSet(Reading(front))
    BY <1>2, <2>11, <2>12 DEF Entries
  <2>14. PICK x : x = l.entry /\ x \in Entry
    BY <2>3 DEF Line
  <2>15. OrderedIn(Reading(front), written)
    <3>1. CASE l.parses
      <4>1. Reading(file) = Append(Reading(front), x)
        BY <2>3, <2>5, <2>6, <2>14, <3>1, ReadingAppend
      <4>2. QED
        BY <1>3, <2>11, <2>13, <2>14, <4>1, OrderedFront
    <3>2. CASE ~l.parses
      <4>1. Reading(file) = Reading(front)
        BY <2>3, <2>5, <2>6, <3>2, ReadingAppend
      <4>2. QED
        BY <1>3, <4>1
    <3>3. QED
      BY <3>1, <3>2
  <2>16. OrderedIn(Reading(front), Append(written, e))
    BY <1>2, <1>3, <2>11, <2>13, <2>15, OrderedOld
  <2>17. QED
    BY <1>1, <1>4, <2>10, <2>16
<1>5. CASE ~torn
  <2>1. PICK l : l = [entry |-> e, parses |-> whole]
    OBVIOUS
  <2>2. l \in Line /\ l.entry = e /\ l.parses = whole
    BY <1>2, <2>1 DEF Line
  <2>3. AfterWrite(p, whole) = Append(file, l)
    BY <1>1, <1>5, <2>1 DEF AfterWrite
  <2>4. Reading(file) \in Seq(Entry) /\ e \notin ToSet(Reading(file))
    BY <1>2, <1>3, ReadingIs
  <2>5. OrderedIn(Reading(Append(file, l)), Append(written, e))
    <3>1. CASE whole
      <4>1. Reading(Append(file, l)) = Append(Reading(file), e)
        BY <1>3, <2>2, <3>1, ReadingAppend
      <4>2. QED
        BY <1>2, <1>3, <2>4, <4>1, OrderedNew
    <3>2. CASE ~whole
      <4>1. Reading(Append(file, l)) = Reading(file)
        BY <1>3, <2>2, <3>2, ReadingAppend
      <4>2. QED
        BY <1>2, <1>3, <2>4, <4>1, OrderedOld
    <3>3. QED
      BY <3>1, <3>2
  <2>6. PICK more : more = Append(file, l)
    OBVIOUS
  <2>7. /\ Len(more) = Len(file) + 1 /\ Len(file) \in Nat /\ DOMAIN file = 1..Len(file)
        /\ more[Len(file) + 1] = l /\ \A k \in 1..Len(file) : more[k] = file[k]
    BY <1>3, <2>2, <2>6
  <2>8. \A k \in 1..(Len(more) - 1) : more[k].entry # more[Len(more)].entry
    BY <1>2, <2>2, <2>7 DEF Entries
  <2>9. QED
    BY <1>1, <2>3, <2>5, <2>6, <2>8
<1>6. QED
  BY <1>4, <1>5

(* A step in which nothing is written leaves what is numbered.             *)
LEMMA WrittenStays ==
  ASSUME LogInv, OrderInv, [Next]_vars, written' = written
  PROVE  written' \in Seq(Entry) /\ \A e \in ToSet(written') : Numbered(e)'
<1>1. \A e \in ToSet(written) : e \in Entry /\ Numbered(e)
  BY DEF OrderInv, ToSet
<1>2. \A e \in ToSet(written) : Numbered(e)'
  BY <1>1, NumberedStays DEF LogInv
<1>3. QED
  BY <1>2 DEF OrderInv

LEMMA OrderAlone ==
  ASSUME LogInv, OrderInv, [Next]_vars, file' = file, torn' = torn, kept' = kept, written' = written
  PROVE  OrderInv'
<1>1. written' \in Seq(Entry) /\ \A e \in ToSet(written') : Numbered(e)'
  BY WrittenStays
<1>2. ReadAll' = ReadAll
  BY DEF ReadAll
<1>3. OrderedIn(ReadAll, written)' /\ \A p \in Proc : OrderedIn(kept[p], written)'
  BY <1>2 DEF OrderInv, OrderedIn
<1>4. TornOnce'
  BY DEF OrderInv, TornOnce
<1>5. (\A e \in ToSet(written) : Numbered(e))'
  BY <1>1
<1>6. QED
  BY <1>1, <1>3, <1>4, <1>5 DEF OrderInv

(* What a cleanup reads stays in order,                                    *)
LEMMA OrderRead ==
  ASSUME LogInv, OrderInv, [Next]_vars, NEW p \in Proc, ReadForRetention(p)
  PROVE  OrderInv'
<1>1. /\ file' = file /\ torn' = torn /\ written' = written /\ kept' = [kept EXCEPT ![p] = Survivors]
  BY DEF ReadForRetention, disk, log, histories
<1>2. (\A e \in ToSet(written) : Numbered(e))' /\ written' \in Seq(Entry)
  BY <1>1, WrittenStays
<1>3. OrderedIn(ReadAll, written)'
  BY <1>1 DEF OrderInv, OrderedIn, ReadAll
<1>4. OrderedIn(Survivors, written)
  <2>1. PICK es : es = {e \in Entry : ~Expired(e)}
    OBVIOUS
  <2>2. Survivors = Only(ReadAll, es) /\ ReadAll \in Seq(Entry) /\ written \in Seq(Entry)
    BY <2>1, SurvivorsOnly, ReadAllOf DEF LogInv, UndoType, OrderInv
  <2>3. OrderedIn(ReadAll, written)
    BY DEF OrderInv
  <2>4. QED
    BY <2>2, <2>3, OrderedPart
<1>5. ASSUME NEW q \in Proc PROVE OrderedIn(kept[q], written)'
  <2>1. kept'[q] = IF q = p THEN Survivors ELSE kept[q]
    BY <1>1 DEF LogInv, UndoType
  <2>2. OrderedIn(kept[q], written)
    BY DEF OrderInv
  <2>3. OrderedIn(kept'[q], written)
    BY <1>4, <2>1, <2>2
  <2>4. QED
    BY <1>1, <2>3 DEF OrderedIn
<1>6. TornOnce'
  BY <1>1 DEF OrderInv, TornOnce
<1>7. QED
  BY <1>2, <1>3, <1>5, <1>6 DEF OrderInv

(* and what it puts in place.                                              *)
LEMMA OrderRenamed ==
  ASSUME LogInv, OrderInv, [Next]_vars, NEW p \in Proc, Rename(p) \/ Abandon(p)
  PROVE  OrderInv'
<1>1. written' = written /\ kept' = [kept EXCEPT ![p] = <<>>]
  BY DEF Rename, Abandon, histories
<1>2. (\A e \in ToSet(written) : Numbered(e))' /\ written' \in Seq(Entry) /\ written \in Seq(Entry)
  BY <1>1, WrittenStays DEF OrderInv
<1>3. ASSUME NEW q \in Proc PROVE OrderedIn(kept[q], written)'
  <2>1. kept'[q] = IF q = p THEN <<>> ELSE kept[q]
    BY <1>1 DEF LogInv, UndoType
  <2>2. OrderedIn(kept[q], written) /\ OrderedIn(<<>>, written)
    BY <1>2, OrderedNothing DEF OrderInv
  <2>3. OrderedIn(kept'[q], written)
    BY <2>1, <2>2
  <2>4. QED
    BY <1>1, <2>3 DEF OrderedIn
<1>4. OrderedIn(ReadAll, written)' /\ TornOnce'
  <2>1. CASE Rename(p)
    <3>1. file' = LinesOf(kept[p]) /\ torn' = FALSE
      BY <2>1 DEF Rename
    <3>2. Reading(LinesOf(kept[p])) = kept[p]
      BY ReadingLines DEF LogInv, UndoType
    <3>3. ReadAll' = kept[p]
      BY <3>1, <3>2 DEF ReadAll, Reading, EntriesOf, Parsing
    <3>4. OrderedIn(kept[p], written)
      BY DEF OrderInv
    <3>5. QED
      BY <1>1, <3>1, <3>3, <3>4 DEF OrderedIn, TornOnce
  <2>2. CASE Abandon(p)
    <3>1. file' = file /\ torn' = torn
      BY <2>2 DEF Abandon, disk, log
    <3>2. QED
      BY <1>1, <3>1 DEF OrderInv, OrderedIn, ReadAll, TornOnce
  <2>3. QED
    BY <2>1, <2>2
<1>5. QED
  BY <1>2, <1>3, <1>4 DEF OrderInv

(* An append puts a new entry last, if it reaches the log.                 *)
LEMMA OrderAppended ==
  ASSUME LogInv, OrderInv, [Next]_vars, NEW p \in Proc, phase[p] = "append", Write(p) \/ WriteTorn(p),
         count' = count, phase'[p] # "append"
  PROVE  OrderInv'
<1>1. PICK e : e = pending[p]
  OBVIOUS
<1>2. e \in Entry /\ e \notin Entries(file) /\ (\A q \in Proc : e \notin ToSet(kept[q]))
  BY <1>1, PendingUnwritten
<1>3. /\ written' = Append(written, e) /\ kept' = kept /\ written \in Seq(Entry)
      /\ file \in Seq(Line) /\ OrderedIn(Reading(file), written)
  BY <1>1, ReadAllReads DEF Write, WriteTorn, OrderInv, LogInv, UndoType
<1>4. written' \in Seq(Entry)
  BY <1>2, <1>3, AppendIs
<1>5. ASSUME NEW f \in ToSet(written') PROVE Numbered(f)'
  <2>1. CASE f = e
    <3>1. e.run = p /\ e.step = count[p] /\ count[p] \in 0..MaxSteps
      BY <1>1 DEF LogInv, NumberInv, UndoType
    <3>2. count[p] <= count[p]
      BY <3>1, AuditAssumption
    <3>3. QED
      BY <2>1, <3>1, <3>2 DEF Numbered
  <2>2. CASE f # e
    <3>1. f \in ToSet(written)
      <4>1. /\ DOMAIN Append(written, e) = 1..(Len(written) + 1) /\ DOMAIN written = 1..Len(written)
            /\ Append(written, e)[Len(written) + 1] = e /\ Len(written) \in Nat
            /\ \A k \in 1..Len(written) : Append(written, e)[k] = written[k]
        BY <1>2, <1>3
      <4>2. QED
        BY <1>3, <2>2, <4>1 DEF ToSet
    <3>2. f \in Entry /\ Numbered(f)
      BY <3>1 DEF OrderInv, ToSet
    <3>3. QED
      BY <3>2, NumberedStays DEF LogInv
  <2>3. QED
    BY <2>1, <2>2
<1>6. ASSUME NEW q \in Proc PROVE OrderedIn(kept[q], written)'
  <2>1. kept[q] \in Seq(Entry) /\ OrderedIn(kept[q], written) /\ e \notin ToSet(kept[q])
    BY <1>2 DEF OrderInv, LogInv, UndoType
  <2>2. OrderedIn(kept[q], Append(written, e))
    BY <1>2, <1>3, <2>1, OrderedOld
  <2>3. QED
    BY <1>3, <2>2 DEF OrderedIn
<1>7. OrderedIn(Reading(file'), written') /\ TornOnce'
  <2>1. CASE fd[p] = inode
    <3>1. PICK whole \in BOOLEAN : file' = AfterWrite(p, whole) /\ (torn' => ~torn)
      BY <2>1 DEF Write, WriteTorn
    <3>2. OrderedIn(Reading(AfterWrite(p, whole)), Append(written, pending[p]))
      BY WriteReads
    <3>3. ~torn => \A k \in 1..(Len(file') - 1) : file'[k].entry # file'[Len(file')].entry
      BY <3>1, WriteReads
    <3>4. QED
      BY <1>1, <1>3, <3>1, <3>2, <3>3 DEF TornOnce
  <2>2. CASE fd[p] # inode
    <3>1. file' = file /\ torn' = torn
      BY <2>2 DEF Write, WriteTorn
    <3>2. Reading(file) \in Seq(Entry) /\ e \notin ToSet(Reading(file))
      BY <1>2, <1>3, ReadingIs
    <3>3. OrderedIn(Reading(file), Append(written, e))
      BY <1>2, <1>3, <3>2, OrderedOld
    <3>4. TornOnce'
      BY <3>1 DEF OrderInv, TornOnce
    <3>5. QED
      BY <1>3, <3>1, <3>3, <3>4
  <2>3. QED
    BY <2>1, <2>2
<1>8. OrderedIn(ReadAll, written)'
  BY <1>7 DEF ReadAll, Reading, EntriesOf, Parsing, OrderedIn
<1>9. QED
  BY <1>4, <1>5, <1>6, <1>7, <1>8 DEF OrderInv

LEMMA OrderKeeps == LogInv /\ OrderInv /\ [Next]_vars => OrderInv'
<1> SUFFICES ASSUME LogInv, OrderInv, [Next]_vars PROVE OrderInv'
  OBVIOUS
<1>1. CASE UNCHANGED vars \/ (Tick /\ UNCHANGED process)
  BY <1>1, OrderAlone DEF vars, auditVars, disk, log, local, histories, Tick
<1>2. ASSUME NEW p \in Proc,
             \/ StartRun(p) \/ StartUndo(p, TRUE) \/ StartUndo(p, FALSE) \/ SkipCleaning(p)
             \/ Decline(p) \/ PassBlocked(p) \/ \E outcome \in Outcome \cup {"failed"} : Execute(p, outcome)
      PROVE  OrderInv'
  <2>1. file' = file /\ torn' = torn /\ kept' = kept /\ written' = written
    BY <1>2 DEF StartRun, StartUndo, SkipCleaning, Decline, PassBlocked, Execute, Open, auditVars, disk, log,
         local, histories
  <2>2. QED
    BY <2>1, OrderAlone
<1>3. ASSUME NEW p \in Proc, ReadToClean(p) PROVE OrderInv'
  BY <1>3, OrderRead DEF ReadToClean
<1>4. ASSUME NEW p \in Proc, Cleaned(p) PROVE OrderInv'
  BY <1>4, OrderRenamed DEF Cleaned
<1>5. ASSUME NEW p \in Proc, Record(p) \/ Die(p) PROVE OrderInv'
  <2>1. CASE Abandon(p)
    BY <2>1, OrderRenamed
  <2>2. CASE ~Abandon(p)
    <3>1. phase[p] = "append" /\ (Write(p) \/ WriteTorn(p)) /\ count' = count
      BY <1>5, <2>2 DEF Record, Die
    <3>2. phase'[p] # "append"
      BY <1>5 DEF Record, Die, Goto, LogInv, UndoType
    <3>3. QED
      BY <3>1, <3>2, OrderAppended
  <2>3. QED
    BY <2>1, <2>2
<1>6. QED
  BY <1>1, <1>2, <1>3, <1>4, <1>5 DEF Next

LEMMA OrderStarts == Init => OrderInv
<1> SUFFICES ASSUME Init PROVE OrderInv
  OBVIOUS
<1>1. PICK past \in PastLogs : file = LinesOf(past) /\ written = past
  BY DEF Init, AuditInit
<1>2. past \in Seq(Entry) /\ \A k \in DOMAIN past : past[k].run \notin Proc
  BY AuditAssumption
<1>3. ReadAll = past
  BY <1>1, <1>2, ReadAllReads, ReadingLines
<1>4. OrderedIn(past, past)
  BY <1>2, OnlyAll DEF OrderedIn, ToSet
<1>5. \A p \in Proc : OrderedIn(kept[p], written)
  BY <1>1, <1>2, OrderedNothing DEF Init, AuditInit
<1>6. \A e \in ToSet(written) : Numbered(e)
  BY <1>1, <1>2 DEF ToSet, Numbered
<1>7. ~torn
  BY DEF Init, AuditInit
<1>8. QED
  BY <1>1, <1>2, <1>3, <1>4, <1>5, <1>6, <1>7 DEF OrderInv, TornOnce

(* Whatever any number of processes append, clean up, crash and tear, what *)
(* ReadAll returns was written by one of them, once, in that order.        *)
THEOREM OrderHolds == Spec => []LogOrdered
<1>1. OrderInv => LogOrdered
  BY DEF OrderInv, OrderedIn, Only, LogOrdered
<1>2. QED
  BY <1>1, LogStarts, LogKeeps, OrderStarts, OrderKeeps, PTL DEF Spec

-----------------------------------------------------------------------------
(* What an undo has to reverse.                                            *)

LEMMA AppendSet == \A R : \A s \in Seq(R) : \A x \in R : ToSet(Append(s, x)) = ToSet(s) \cup {x}
<1> SUFFICES ASSUME NEW R, NEW s \in Seq(R), NEW x \in R
             PROVE  ToSet(Append(s, x)) = ToSet(s) \cup {x}
  OBVIOUS
<1>1. /\ DOMAIN Append(s, x) = 1..(Len(s) + 1) /\ DOMAIN s = 1..Len(s) /\ Len(s) \in Nat
      /\ Append(s, x)[Len(s) + 1] = x /\ \A k \in 1..Len(s) : Append(s, x)[k] = s[k]
  OBVIOUS
<1>2. QED
  BY <1>1 DEF ToSet

LEMMA TailSet == \A R : \A s \in Seq(R) : s # <<>> =>
  /\ Head(s) \in R /\ Tail(s) \in Seq(R) /\ ToSet(s) = ToSet(Tail(s)) \cup {Head(s)}
<1> SUFFICES ASSUME NEW R, NEW s \in Seq(R), s # <<>>
             PROVE  Head(s) \in R /\ Tail(s) \in Seq(R) /\ ToSet(s) = ToSet(Tail(s)) \cup {Head(s)}
  OBVIOUS
<1>1. Head(s) = s[1] /\ Head(s) \in R /\ Tail(s) \in Seq(R)
  OBVIOUS
<1>2. Len(Tail(s)) = Len(s) - 1 /\ \A k \in 1..(Len(s) - 1) : Tail(s)[k] = s[k + 1]
  OBVIOUS
<1>3. DOMAIN s = 1..Len(s) /\ Len(s) \in Nat /\ Len(s) > 0 /\ DOMAIN Tail(s) = 1..(Len(s) - 1)
  BY <1>1, <1>2
<1>4. ASSUME NEW x \in ToSet(s) PROVE x \in ToSet(Tail(s)) \cup {Head(s)}
  <2>1. PICK k \in 1..Len(s) : x = s[k]
    BY <1>3 DEF ToSet
  <2>2. CASE k = 1
    BY <1>1, <2>1, <2>2
  <2>3. CASE k # 1
    <3>1. k - 1 \in 1..(Len(s) - 1) /\ (k - 1) + 1 = k
      BY <1>3, <2>1, <2>3
    <3>2. x = Tail(s)[k - 1]
      BY <1>2, <2>1, <3>1
    <3>3. QED
      BY <1>3, <3>1, <3>2 DEF ToSet
  <2>4. QED
    BY <2>2, <2>3
<1>5. Head(s) \in ToSet(s)
  BY <1>1, <1>3 DEF ToSet
<1>6. ASSUME NEW x \in ToSet(Tail(s)) PROVE x \in ToSet(s)
  <2>1. PICK k \in 1..(Len(s) - 1) : x = Tail(s)[k]
    BY <1>3 DEF ToSet
  <2>2. k + 1 \in DOMAIN s /\ x = s[k + 1]
    BY <1>2, <1>3, <2>1
  <2>3. QED
    BY <2>2 DEF ToSet
<1>7. QED
  BY <1>1, <1>4, <1>5, <1>6

Falling(s) == \A j, k \in DOMAIN s : j < k => s[j] > s[k]

LEMMA FallingTail == \A s \in Seq(Nat) : Falling(s) /\ s # <<>> =>
  Falling(Tail(s)) /\ \A x \in ToSet(Tail(s)) : Head(s) > x
<1> SUFFICES ASSUME NEW s \in Seq(Nat), Falling(s), s # <<>>
             PROVE  Falling(Tail(s)) /\ \A x \in ToSet(Tail(s)) : Head(s) > x
  OBVIOUS
<1>1. Head(s) = s[1] /\ Len(Tail(s)) = Len(s) - 1 /\ \A k \in 1..(Len(s) - 1) : Tail(s)[k] = s[k + 1]
  OBVIOUS
<1>2. DOMAIN s = 1..Len(s) /\ Len(s) \in Nat /\ Len(s) > 0 /\ Tail(s) \in Seq(Nat)
  OBVIOUS
<1>3. DOMAIN Tail(s) = 1..(Len(s) - 1)
  BY <1>1, <1>2
<1>4. ASSUME NEW j \in 1..(Len(s) - 1), NEW k \in 1..(Len(s) - 1), j < k PROVE Tail(s)[j] > Tail(s)[k]
  <2>1. j + 1 \in DOMAIN s /\ k + 1 \in DOMAIN s /\ j + 1 < k + 1
    BY <1>2, <1>4
  <2>2. s[j + 1] > s[k + 1]
    BY <2>1 DEF Falling
  <2>3. QED
    BY <1>1, <2>2
<1>5. ASSUME NEW k \in 1..(Len(s) - 1) PROVE Head(s) > Tail(s)[k]
  <2>1. 1 \in DOMAIN s /\ k + 1 \in DOMAIN s /\ 1 < k + 1
    BY <1>2
  <2>2. s[1] > s[k + 1]
    BY <2>1 DEF Falling
  <2>3. QED
    BY <1>1, <2>2
<1>6. QED
  BY <1>3, <1>4, <1>5 DEF Falling, ToSet

LEMMA FallingAppend == \A s \in Seq(Nat) : \A x \in Nat :
  Falling(s) /\ (\A y \in ToSet(s) : y > x) => Falling(Append(s, x))
<1> SUFFICES ASSUME NEW s \in Seq(Nat), NEW x \in Nat, Falling(s), \A y \in ToSet(s) : y > x
             PROVE  Falling(Append(s, x))
  OBVIOUS
<1>1. PICK t : t = Append(s, x)
  OBVIOUS
<1>2. /\ DOMAIN t = 1..(Len(s) + 1) /\ DOMAIN s = 1..Len(s) /\ Len(s) \in Nat
      /\ t[Len(s) + 1] = x /\ \A k \in 1..Len(s) : t[k] = s[k]
  BY <1>1
<1>3. ASSUME NEW j \in DOMAIN t, NEW k \in DOMAIN t, j < k PROVE t[j] > t[k]
  <2>1. j \in DOMAIN s /\ t[j] = s[j]
    BY <1>2, <1>3
  <2>2. CASE k = Len(s) + 1
    BY <1>2, <2>1, <2>2 DEF ToSet
  <2>3. CASE k # Len(s) + 1
    <3>1. k \in DOMAIN s /\ t[k] = s[k]
      BY <1>2, <2>3
    <3>2. QED
      BY <1>3, <2>1, <3>1 DEF Falling
  <2>4. QED
    BY <2>2, <2>3
<1>4. QED
  BY <1>1, <1>3 DEF Falling

LEMMA FallingPart == \A s \in Seq(Nat) : \A e : Falling(s) => Falling(Without(s, e))
<1> SUFFICES ASSUME NEW s \in Seq(Nat), NEW e, Falling(s) PROVE Falling(Without(s, e))
  OBVIOUS
<1>1. PICK r : r = Without(s, e)
  OBVIOUS
<1>2. r \in Seq(Nat) /\ Follows(r, s, {k \in 1..Len(s) : s[k] /= e})
  BY <1>1, WithoutType
<1>3. PICK at \in [1..Len(r) -> {k \in 1..Len(s) : s[k] /= e}] :
          /\ \A k \in 1..Len(r) : r[k] = s[at[k]]
          /\ \A k, n \in 1..Len(r) : k < n => at[k] < at[n]
  BY <1>2 DEF Follows
<1>4. DOMAIN r = 1..Len(r) /\ DOMAIN s = 1..Len(s) /\ \A k \in 1..Len(r) : at[k] \in DOMAIN s
  BY <1>2, <1>3, SMTT(30)
<1>5. ASSUME NEW j \in DOMAIN r, NEW k \in DOMAIN r, j < k PROVE r[j] > r[k]
  BY <1>3, <1>4, <1>5 DEF Falling
<1>6. QED
  BY <1>1, <1>5 DEF Falling

LEMMA WithoutSet == \A R : \A s \in Seq(R) : \A e : ToSet(Without(s, e)) = ToSet(s) \ {e}
<1> SUFFICES ASSUME NEW R, NEW s \in Seq(R), NEW e PROVE ToSet(Without(s, e)) = ToSet(s) \ {e}
  OBVIOUS
<1> DEFINE ks == {k \in DOMAIN s : s[k] /= e}
<1>1. {s[k] : k \in ks \cap DOMAIN s} = ToSet(s) \ {e}
  BY DEF ToSet
<1>2. Without(s, e) = Picked(s, ks)
  BY DEF Without
<1> HIDE DEF ks
<1>3. ToSet(Picked(s, ks)) = {s[k] : k \in ks \cap DOMAIN s}
  BY PickedSet
<1>4. QED
  BY <1>1, <1>2, <1>3

(* What was picked of the entries of the log keeps their numbers in order. *)
LEMMA RisingPart == \A w \in Seq(Entry) : \A ks : Rising(w) => Rising(Picked(w, ks))
<1> SUFFICES ASSUME NEW w \in Seq(Entry), NEW ks, Rising(w) PROVE Rising(Picked(w, ks))
  OBVIOUS
<1>1. PICK r : r = Picked(w, ks)
  OBVIOUS
<1>2. r \in Seq(Entry) /\ Follows(r, w, ks \cap DOMAIN w)
  BY <1>1, PickedFollows
<1>3. PICK at \in [1..Len(r) -> ks \cap DOMAIN w] :
          /\ \A k \in 1..Len(r) : r[k] = w[at[k]]
          /\ \A k, n \in 1..Len(r) : k < n => at[k] < at[n]
  BY <1>2 DEF Follows
<1>4. DOMAIN r = 1..Len(r) /\ DOMAIN w = 1..Len(w) /\ Len(w) \in Nat /\ Len(r) \in Nat
      /\ \A k \in 1..Len(r) : at[k] \in DOMAIN w
  BY <1>2, <1>3, SMTT(30)
<1>5. ASSUME NEW k \in DOMAIN r, r[k].run # Legacy
      PROVE  r[k].step > 0 /\ \A j \in 1..(k - 1) : r[j].run = r[k].run => r[j].step < r[k].step
  <2>1. r[k] = w[at[k]] /\ at[k] \in DOMAIN w
    BY <1>3, <1>4
  <2>2. /\ w[at[k]].step > 0
        /\ \A i \in 1..(at[k] - 1) : w[i].run = w[at[k]].run => w[i].step < w[at[k]].step
    BY <1>5, <2>1 DEF Rising
  <2>3. ASSUME NEW j \in 1..(k - 1), r[j].run = r[k].run PROVE r[j].step < r[k].step
    <3>1. j \in 1..Len(r) /\ k \in 1..Len(r) /\ j < k
      BY <1>4
    <3>2. at[j] < at[k] /\ at[j] \in DOMAIN w /\ r[j] = w[at[j]]
      BY <1>3, <1>4, <3>1
    <3>3. at[j] \in 1..(at[k] - 1)
      BY <1>4, <2>1, <3>2
    <3>4. QED
      BY <2>1, <2>2, <2>3, <3>2, <3>3
  <2>4. QED
    BY <2>1, <2>2, <2>3
<1>6. QED
  BY <1>1, <1>5 DEF Rising

Climbing(es) ==
  /\ \A k \in DOMAIN es : es[k].step > 0
  /\ \A j, k \in DOMAIN es : j < k => es[j].step < es[k].step

(* The steps of a run, as the log has them.                                *)
LEMMA StepsClimb == \A w \in Seq(Entry) : \A r : Rising(w) /\ r # Legacy =>
  StepsOf(w, r) \in Seq(Entry) /\ Climbing(StepsOf(w, r))
<1> SUFFICES ASSUME NEW w \in Seq(Entry), NEW r, Rising(w), r # Legacy
             PROVE  StepsOf(w, r) \in Seq(Entry) /\ Climbing(StepsOf(w, r))
  OBVIOUS
<1>1. PICK ks : ks = {k \in DOMAIN w : w[k].run = r}
  OBVIOUS
<1>2. PICK es : es = StepsOf(w, r)
  OBVIOUS
<1>3. es = Picked(w, ks)
  BY <1>1, <1>2 DEF StepsOf
<1>4. es \in Seq(Entry) /\ ToSet(es) = {w[k] : k \in ks \cap DOMAIN w} /\ Rising(es)
  BY <1>3, PickedSet, RisingPart
<1>5. \A k \in DOMAIN es : es[k].run = r
  BY <1>1, <1>4 DEF ToSet
<1>6. DOMAIN es = 1..Len(es) /\ Len(es) \in Nat
  BY <1>4
<1>7. \A k \in DOMAIN es : es[k].step > 0 /\ \A j \in 1..(k - 1) : es[j].step < es[k].step
  <2>1. \A k \in DOMAIN es : \A j \in 1..(k - 1) : j \in DOMAIN es
    BY <1>6
  <2>2. QED
    BY <1>4, <1>5, <2>1 DEF Rising
<1>8. ASSUME NEW j \in DOMAIN es, NEW k \in DOMAIN es, j < k PROVE es[j].step < es[k].step
  <2>1. j \in 1..(k - 1)
    BY <1>6, <1>8
  <2>2. QED
    BY <1>7, <2>1
<1>9. QED
  BY <1>2, <1>4, <1>7, <1>8 DEF Climbing

(* The plan of the table: the steps that took effect, the newest first.    *)
GoodOf(es) == {e.step : e \in {x \in ToSet(es) : x.outcome # "failed"}}

LEMMA EligibleAre == \A es \in Seq(Entry) :
  /\ Eligible(es) \in Seq(Entry) /\ ToSet(Eligible(es)) = {x \in ToSet(es) : x.outcome # "failed"}
  /\ Climbing(es) => Climbing(Eligible(es))
<1> SUFFICES ASSUME NEW es \in Seq(Entry)
             PROVE  /\ Eligible(es) \in Seq(Entry) /\ ToSet(Eligible(es)) = {x \in ToSet(es) : x.outcome # "failed"}
                    /\ Climbing(es) => Climbing(Eligible(es))
  OBVIOUS
<1>1. PICK ks : ks = {k \in DOMAIN es : es[k].outcome # "failed"}
  OBVIOUS
<1>2. PICK r : r = Picked(es, ks)
  OBVIOUS
<1>3. Eligible(es) = r
  BY <1>1, <1>2 DEF Eligible
<1>4. r \in Seq(Entry) /\ ToSet(r) = {es[k] : k \in ks \cap DOMAIN es} /\ Follows(r, es, ks \cap DOMAIN es)
  BY <1>2, PickedSet, PickedFollows
<1>5. {es[k] : k \in ks \cap DOMAIN es} = {x \in ToSet(es) : x.outcome # "failed"}
  BY <1>1 DEF ToSet
<1>6. PICK at \in [1..Len(r) -> ks \cap DOMAIN es] :
          /\ \A k \in 1..Len(r) : r[k] = es[at[k]]
          /\ \A k, n \in 1..Len(r) : k < n => at[k] < at[n]
  BY <1>4 DEF Follows
<1>7. DOMAIN r = 1..Len(r) /\ \A k \in 1..Len(r) : at[k] \in DOMAIN es
  BY <1>4, <1>6
<1>8. Climbing(es) => Climbing(r)
  BY <1>6, <1>7 DEF Climbing
<1>9. QED
  BY <1>3, <1>4, <1>5, <1>8

LEMMA ReverseFalls == \A es \in Seq(Entry) : Climbing(es) =>
  InReverse(es) \in Seq(Nat) /\ Falling(InReverse(es)) /\ ToSet(InReverse(es)) = {e.step : e \in ToSet(es)}
<1> SUFFICES ASSUME NEW es \in Seq(Entry), Climbing(es)
             PROVE  /\ InReverse(es) \in Seq(Nat) /\ Falling(InReverse(es))
                    /\ ToSet(InReverse(es)) = {e.step : e \in ToSet(es)}
  OBVIOUS
<1>1. PICK n : n = Len(es) /\ n \in Nat
  OBVIOUS
<1>2. DOMAIN es = 1..n /\ \A k \in 1..n : (n - k) + 1 \in 1..n /\ (n - ((n - k) + 1)) + 1 = k
  BY <1>1
<1>3. DOMAIN Reverse(es) = 1..n /\ \A k \in 1..n : Reverse(es)[k] = es[(n - k) + 1]
  BY <1>1 DEF Reverse
<1>4. PICK r : r = InReverse(es)
  OBVIOUS
<1>5. r = [k \in 1..n |-> es[(n - k) + 1].step]
  BY <1>3, <1>4 DEF InReverse
<1>6. \A k \in 1..n : es[k].step \in Nat
  <2>1. \A k \in DOMAIN es : es[k] \in Entry
    OBVIOUS
  <2>2. \A k \in 1..n : es[k] \in Entry
    BY <1>2, <2>1
  <2>3. QED
    BY <2>2, AuditAssumption DEF Entry
<1>7. DOMAIN r = 1..n /\ \A k \in 1..n : r[k] = es[(n - k) + 1].step /\ r[k] \in Nat
  BY <1>2, <1>5, <1>6
<1>8. r \in Seq(Nat)
  BY <1>1, <1>2, <1>5, <1>6
<1>9. ASSUME NEW j \in DOMAIN r, NEW k \in DOMAIN r, j < k PROVE r[j] > r[k]
  <2>0. j \in 1..n /\ k \in 1..n
    BY <1>7
  <2>1. (n - k) + 1 \in DOMAIN es /\ (n - j) + 1 \in DOMAIN es /\ (n - k) + 1 < (n - j) + 1
    <3>1. (n - k) + 1 \in DOMAIN es /\ (n - j) + 1 \in DOMAIN es
      BY <1>2, <2>0
    <3>2. QED
      BY <1>1, <1>9, <2>0, <3>1
  <2>2. es[(n - k) + 1].step < es[(n - j) + 1].step
    BY <2>1 DEF Climbing
  <2>3. QED
    BY <1>7, <2>2
<1>10. ASSUME NEW x \in ToSet(r) PROVE \E e \in ToSet(es) : x = e.step
  BY <1>2, <1>7 DEF ToSet
<1>11. ASSUME NEW e \in ToSet(es) PROVE e.step \in ToSet(r)
  <2>1. PICK k \in 1..n : e = es[k]
    BY <1>2 DEF ToSet
  <2>2. r[(n - k) + 1] = e.step /\ (n - k) + 1 \in DOMAIN r
    <3>1. PICK m : m = (n - k) + 1
      OBVIOUS
    <3>2. m \in 1..n /\ (n - m) + 1 = k
      BY <1>2, <3>1
    <3>3. QED
      BY <1>7, <2>1, <3>1, <3>2
  <2>3. QED
    BY <2>2 DEF ToSet
<1>12. QED
  BY <1>4, <1>8, <1>9, <1>10, <1>11 DEF Falling

-----------------------------------------------------------------------------
(* The steps an undo reverses.                                             *)

StepsType ==
  /\ kind \in [Proc -> {"run", "undo"}]
  /\ steps \in [Proc -> Seq(Entry)]
  /\ todo \in [Proc -> Seq(Nat)] /\ reversed \in [Proc -> Seq(Nat)]
  /\ declined \in [Proc -> SUBSET Nat] /\ blocked \in [Proc -> SUBSET Nat]

(* A plan of the table holds what took effect and was neither reversed nor *)
(* passed over yet, all of it older than what was reversed.                   *)
Tabled(es, plan, done, refused) ==
  /\ Falling(plan) /\ Falling(done)
  /\ ToSet(plan) \cup ToSet(done) \subseteq GoodOf(es)
  /\ \A x \in ToSet(done), y \in ToSet(plan) : x > y
  /\ GoodOf(es) \subseteq ToSet(plan) \cup ToSet(done) \cup refused

(* A plan of the model stands for no step.                                 *)
Modelled(plan, done) == ToSet(plan) \cup ToSet(done) \subseteq {0}

Undoing(es, plan, done, refused) == Tabled(es, plan, done, refused) \/ Modelled(plan, done)

Fits(at, as, es, plan, done, refused) ==
  /\ at \in {"idle", "retention", "rewrite"} => plan = <<>> /\ done = <<>> /\ refused = {}
  /\ at = "idle" => as = "run"
  /\ as = "run" => plan = <<>> /\ done = <<>> /\ refused = {}
  /\ at \in {"execute", "append", "retry", "over"} /\ as = "undo" => Undoing(es, plan, done, refused)

Planned(p) == Fits(phase[p], kind[p], steps[p], todo[p], reversed[p], declined[p] \cup blocked[p])

StepsInv ==
  /\ StepsType
  /\ Rising(written)
  /\ \A p \in Proc : phase[p] = "append" => pending[p].step > 0
  /\ \A p \in Proc : Climbing(steps[p])
  /\ \A p \in Proc : Planned(p)

(* The log is rising because what is appended is numbered last.            *)
LEMMA RisingAppend == \A w \in Seq(Entry) : \A e \in Entry :
  Rising(w) /\ e.step > 0 /\ (\A f \in ToSet(w) : f.run = e.run => f.step < e.step) => Rising(Append(w, e))
<1> SUFFICES ASSUME NEW w \in Seq(Entry), NEW e \in Entry, Rising(w), e.step > 0,
                    \A f \in ToSet(w) : f.run = e.run => f.step < e.step
             PROVE  Rising(Append(w, e))
  OBVIOUS
<1>1. PICK t : t = Append(w, e)
  OBVIOUS
<1>2. /\ DOMAIN t = 1..(Len(w) + 1) /\ DOMAIN w = 1..Len(w) /\ Len(w) \in Nat
      /\ t[Len(w) + 1] = e /\ \A k \in 1..Len(w) : t[k] = w[k]
  BY <1>1
<1>3. ASSUME NEW k \in DOMAIN t, t[k].run # Legacy
      PROVE  t[k].step > 0 /\ \A j \in 1..(k - 1) : t[j].run = t[k].run => t[j].step < t[k].step
  <2>1. \A j \in 1..(k - 1) : j \in DOMAIN w /\ t[j] = w[j]
    BY <1>2
  <2>2. CASE k = Len(w) + 1
    BY <1>2, <2>1, <2>2 DEF ToSet
  <2>3. CASE k # Len(w) + 1
    <3>1. k \in DOMAIN w /\ t[k] = w[k]
      BY <1>2, <2>3
    <3>2. QED
      BY <1>3, <2>1, <3>1 DEF Rising
  <2>4. QED
    BY <2>2, <2>3
<1>4. QED
  BY <1>1, <1>3 DEF Rising

(* What the table or the model plans is what an undo begins with.          *)
LEMMA PlanFits == \A es \in Seq(Entry) : \A moved \in BOOLEAN : Climbing(es) =>
  \A plan \in Plans(es, moved) : plan \in Seq(Nat) /\ Undoing(es, plan, <<>>, {})
<1> SUFFICES ASSUME NEW es \in Seq(Entry), NEW moved \in BOOLEAN, Climbing(es), NEW plan \in Plans(es, moved)
             PROVE  plan \in Seq(Nat) /\ Undoing(es, plan, <<>>, {})
  OBVIOUS
<1>1. ToSet(<<>>) = {} /\ Falling(<<>>) /\ <<>> \in Seq(Nat)
  BY DEF ToSet, Falling
<1>2. PICK r : r = Eligible(es)
  OBVIOUS
<1>3. r \in Seq(Entry) /\ ToSet(r) = {x \in ToSet(es) : x.outcome # "failed"} /\ Climbing(r)
  BY <1>2, EligibleAre
<1>4. GoodOf(es) = {e.step : e \in ToSet(r)}
  BY <1>3 DEF GoodOf
<1>5. CASE r = <<>>
  <2>1. plan = <<>> /\ GoodOf(es) = {}
    BY <1>1, <1>2, <1>4, <1>5 DEF Plans
  <2>2. QED
    BY <1>1, <2>1 DEF Undoing, Tabled
<1>6. CASE r # <<>> /\ Heuristic(es, moved)
  <2>1. plan = InReverse(r)
    BY <1>2, <1>6 DEF Plans
  <2>2. plan \in Seq(Nat) /\ Falling(plan) /\ ToSet(plan) = GoodOf(es)
    BY <1>3, <1>4, <2>1, ReverseFalls
  <2>3. QED
    BY <1>1, <2>2 DEF Undoing, Tabled
<1>7. CASE r # <<>> /\ ~Heuristic(es, moved)
  <2>1. plan \in LLMPlans
    BY <1>2, <1>7 DEF Plans
  <2>2. PICK n \in 0..MaxSteps : plan = [k \in 1..n |-> 0]
    BY <2>1 DEF LLMPlans
  <2>3. n \in Nat
    BY AuditAssumption
  <2>4. plan \in Seq(Nat) /\ DOMAIN plan = 1..n /\ \A k \in 1..n : plan[k] = 0
    BY <2>2, <2>3
  <2>5. QED
    BY <1>1, <2>4 DEF Undoing, Modelled, ToSet
<1>8. QED
  BY <1>5, <1>6, <1>7

(* Reversing the next step, or passing it over.                            *)
LEMMA UndoingOn == \A es : \A plan, done \in Seq(Nat) : \A refused \in SUBSET Nat :
  Undoing(es, plan, done, refused) /\ plan # <<>> =>
    /\ Undoing(es, Tail(plan), Append(done, Head(plan)), refused)
    /\ Undoing(es, Tail(plan), done, refused \cup {Head(plan)})
<1> SUFFICES ASSUME NEW es, NEW plan \in Seq(Nat), NEW done \in Seq(Nat), NEW refused \in SUBSET Nat,
                    Undoing(es, plan, done, refused), plan # <<>>
             PROVE  /\ Undoing(es, Tail(plan), Append(done, Head(plan)), refused)
                    /\ Undoing(es, Tail(plan), done, refused \cup {Head(plan)})
  OBVIOUS
<1>1. PICK h, rest, more : h = Head(plan) /\ rest = Tail(plan) /\ more = Append(done, Head(plan))
  OBVIOUS
<1>2. h \in Nat /\ rest \in Seq(Nat) /\ ToSet(plan) = ToSet(rest) \cup {h}
  BY <1>1, TailSet
<1>3. ToSet(more) = ToSet(done) \cup {h}
  BY <1>1, <1>2, AppendSet
<1>4. CASE Tabled(es, plan, done, refused)
  <2>1. Falling(rest) /\ \A x \in ToSet(rest) : h > x
    BY <1>1, <1>4, FallingTail DEF Tabled
  <2>2. \A y \in ToSet(done) : y > h
    BY <1>2, <1>4 DEF Tabled
  <2>3. Falling(more)
    BY <1>1, <1>2, <1>4, <2>2, FallingAppend DEF Tabled
  <2>4. Tabled(es, rest, more, refused)
    BY <1>2, <1>3, <1>4, <2>1, <2>3 DEF Tabled
  <2>5. Tabled(es, rest, done, refused \cup {h})
    BY <1>2, <1>4, <2>1 DEF Tabled
  <2>6. QED
    BY <1>1, <2>4, <2>5 DEF Undoing
<1>5. CASE Modelled(plan, done)
  BY <1>1, <1>2, <1>3, <1>5 DEF Undoing, Modelled
<1>6. QED
  BY <1>4, <1>5 DEF Undoing

(* What a step does to one process leaves the others' plans alone.         *)
LEMMA PlansElsewhere ==
  ASSUME LogInv, StepsInv, StepsType', Rising(written)', NEW p \in Proc,
         \A q \in Proc : phase'[q] = "append" => pending'[q].step > 0,
         \A q \in Proc \ {p} : /\ phase'[q] = phase[q] /\ kind'[q] = kind[q] /\ steps'[q] = steps[q]
                               /\ todo'[q] = todo[q] /\ reversed'[q] = reversed[q]
                               /\ declined'[q] = declined[q] /\ blocked'[q] = blocked[q],
         Climbing(steps'[p]), Fits(phase'[p], kind'[p], steps'[p], todo'[p], reversed'[p], declined'[p] \cup blocked'[p])
  PROVE  StepsInv'
<1>1. ASSUME NEW q \in Proc PROVE Climbing(steps'[q]) /\ Planned(q)'
  <2>1. CASE q = p
    BY <2>1 DEF Planned
  <2>2. CASE q # p
    BY <2>2 DEF StepsInv, Planned
  <2>3. QED
    BY <2>1, <2>2
<1>2. (\A q \in Proc : Climbing(steps[q]))'
  BY <1>1 DEF Climbing
<1>3. (\A q \in Proc : phase[q] = "append" => pending[q].step > 0)'
  OBVIOUS
<1>4. QED
  BY <1>1, <1>2, <1>3 DEF StepsInv

(* An undo is to reverse what its target has in the log.                   *)
LEMMA StartsToReverse ==
  ASSUME LogInv, OrderInv, StepsInv, NEW p \in Proc, NEW named \in BOOLEAN, StartUndo(p, named)
  PROVE  StepsOf(ReadAll, target'[p]) \in Seq(Entry) /\ Climbing(StepsOf(ReadAll, target'[p]))
<1>1. PICK w : w = ReadAll
  OBVIOUS
<1>2. w \in Seq(Entry)
  BY <1>1, ReadAllOf DEF LogInv, UndoType
<1>3. Rising(w)
  <2>1. OrderedIn(w, written) /\ written \in Seq(Entry) /\ Rising(written)
    BY <1>1 DEF OrderInv, StepsInv
  <2>2. w = Picked(written, {k \in DOMAIN written : written[k] \in ToSet(w)})
    BY <2>1 DEF OrderedIn, Only
  <2>3. Rising(Picked(written, {k \in DOMAIN written : written[k] \in ToSet(w)}))
    BY <2>1, RisingPart
  <2>4. QED
    BY <2>2, <2>3
<1>4. target'[p] \in Runs(w)
  <2>1. CASE named
    BY <1>1, <2>1 DEF StartUndo, LogInv, UndoType
  <2>2. CASE ~named
    <3>1. DefaultTarget(w) \in Runs(w)
      BY <1>1, <1>2, <2>2, TargetFound DEF StartUndo, Candidates
    <3>2. QED
      BY <1>1, <2>2, <3>1 DEF StartUndo, LogInv, UndoType
  <2>3. QED
    BY <2>1, <2>2
<1>5. target'[p] # Legacy
  BY <1>4 DEF Runs
<1>6. QED
  BY <1>1, <1>2, <1>3, <1>5, StepsClimb

(* Making the plan.                                                        *)
LEMMA PrepareFits ==
  ASSUME LogInv, StepsInv, NEW p \in Proc, phase[p] \in {"retention", "rewrite"}, Prepare(p),
         kind' = kind, steps' = steps, reversed' = reversed, declined' = declined /\ blocked' = blocked
  PROVE  /\ todo' \in [Proc -> Seq(Nat)]
         /\ \A q \in Proc \ {p} : phase'[q] = phase[q] /\ todo'[q] = todo[q]
         /\ phase'[p] \in {"execute", "over"}
         /\ Fits(phase'[p], kind'[p], steps'[p], todo'[p], reversed'[p], declined'[p] \cup blocked'[p])
<1>1. /\ phase \in [Proc -> Phase] /\ kind[p] \in {"run", "undo"} /\ steps[p] \in Seq(Entry)
      /\ todo \in [Proc -> Seq(Nat)] /\ Climbing(steps[p])
  BY DEF LogInv, UndoType, StepsInv, StepsType
<1>2. todo[p] = <<>> /\ reversed[p] = <<>> /\ declined[p] \cup blocked[p] = {}
  BY DEF StepsInv, Planned, Fits
<1>3. CASE kind[p] = "run"
  <2>1. phase' = [phase EXCEPT ![p] = "execute"] /\ todo' = todo
    BY <1>3 DEF Prepare, Goto
  <2>2. phase'[p] = "execute" /\ \A q \in Proc \ {p} : phase'[q] = phase[q]
    BY <1>1, <2>1
  <2>3. Fits("execute", "run", steps[p], <<>>, <<>>, {})
    BY DEF Fits
  <2>4. QED
    BY <1>1, <1>2, <1>3, <2>1, <2>2, <2>3
<1>4. CASE kind[p] = "undo"
  <2>1. PICK moved \in BOOLEAN : \E plan \in Plans(steps[p], moved) :
           /\ todo' = [todo EXCEPT ![p] = plan]
           /\ phase' = [phase EXCEPT ![p] = IF plan = <<>> THEN "over" ELSE "execute"]
    BY <1>4 DEF Prepare, Goto
  <2>a. PICK plan \in Plans(steps[p], moved) :
           /\ todo' = [todo EXCEPT ![p] = plan]
           /\ phase' = [phase EXCEPT ![p] = IF plan = <<>> THEN "over" ELSE "execute"]
    BY <2>1
  <2>2. plan \in Seq(Nat) /\ Undoing(steps[p], plan, <<>>, {})
    BY <1>1, PlanFits
  <2>3. todo' \in [Proc -> Seq(Nat)] /\ todo'[p] = plan /\ \A q \in Proc \ {p} : todo'[q] = todo[q]
    BY <1>1, <2>a, <2>2
  <2>4. phase'[p] \in {"execute", "over"} /\ \A q \in Proc \ {p} : phase'[q] = phase[q]
    BY <1>1, <2>a
  <2>5. Fits(phase'[p], "undo", steps[p], plan, <<>>, {})
    BY <2>2, <2>4 DEF Fits
  <2>6. QED
    BY <1>2, <1>4, <2>3, <2>4, <2>5
<1>5. QED
  BY <1>1, <1>3, <1>4

(* Where a process is matters only for whether its plan is made.           *)
LEMMA FitsOn == \A as, es, plan, done, refused :
  /\ \A at, to \in {"execute", "append", "retry", "over"} :
       Fits(at, as, es, plan, done, refused) => Fits(to, as, es, plan, done, refused)
  /\ \A at \in {"idle", "retention", "rewrite"} : \A to \in {"retention", "rewrite"} :
       Fits(at, as, es, plan, done, refused) => Fits(to, as, es, plan, done, refused)
<1> SUFFICES ASSUME NEW as, NEW es, NEW plan, NEW done, NEW refused
             PROVE  /\ \A at, to \in {"execute", "append", "retry", "over"} :
                         Fits(at, as, es, plan, done, refused) => Fits(to, as, es, plan, done, refused)
                    /\ \A at \in {"idle", "retention", "rewrite"} : \A to \in {"retention", "rewrite"} :
                         Fits(at, as, es, plan, done, refused) => Fits(to, as, es, plan, done, refused)
  OBVIOUS
<1>1. ASSUME NEW at \in {"execute", "append", "retry", "over"}, NEW to \in {"execute", "append", "retry", "over"},
             Fits(at, as, es, plan, done, refused)
      PROVE  Fits(to, as, es, plan, done, refused)
  <2>1. /\ as = "run" => plan = <<>> /\ done = <<>> /\ refused = {}
        /\ as = "undo" => Undoing(es, plan, done, refused)
    BY <1>1 DEF Fits
  <2>2. to \notin {"idle", "retention", "rewrite"} /\ to # "idle"
    OBVIOUS
  <2>3. QED
    BY <2>1, <2>2 DEF Fits
<1>2. ASSUME NEW at \in {"idle", "retention", "rewrite"}, NEW to \in {"retention", "rewrite"},
             Fits(at, as, es, plan, done, refused)
      PROVE  Fits(to, as, es, plan, done, refused)
  <2>1. plan = <<>> /\ done = <<>> /\ refused = {}
    BY <1>2 DEF Fits
  <2>2. to \notin {"execute", "append", "retry", "over"} /\ to # "idle"
    OBVIOUS
  <2>3. QED
    BY <2>1, <2>2 DEF Fits
<1>3. QED
  BY <1>1, <1>2

(* What is appended is numbered, so the log stays rising.                  *)
LEMMA StepsWritten ==
  ASSUME LogInv, OrderInv, StepsInv, NEW p \in Proc, phase[p] = "append", Write(p) \/ WriteTorn(p)
  PROVE  Rising(written)'
<1>1. PICK e : e = pending[p]
  OBVIOUS
<1>2. e \in Entry /\ e.run = p /\ e.step = count[p] /\ e.step > 0 /\ written \in Seq(Entry) /\ Rising(written)
  BY <1>1 DEF LogInv, UndoType, NumberInv, OrderInv, StepsInv
<1>3. \A f \in ToSet(written) : f.run = e.run => f.step < e.step
  BY <1>2 DEF OrderInv, Numbered
<1>4. Rising(Append(written, e))
  BY <1>2, <1>3, RisingAppend
<1>5. written' = Append(written, e)
  BY <1>1 DEF Write, WriteTorn
<1>6. QED
  BY <1>4, <1>5 DEF Rising

LEMMA StepsKeep == LogInv /\ OrderInv /\ StepsInv /\ [Next]_vars => StepsInv'
<1> SUFFICES ASSUME LogInv, OrderInv, StepsInv, [Next]_vars PROVE StepsInv'
  OBVIOUS
<1>0. /\ StepsType /\ Rising(written) /\ \A q \in Proc : Climbing(steps[q]) /\ Planned(q)
      /\ \A q \in Proc : phase[q] = "append" => pending[q].step > 0
  BY DEF StepsInv
<1>t. /\ phase \in [Proc -> Phase] /\ kind \in [Proc -> {"run", "undo"}]
      /\ steps \in [Proc -> Seq(Entry)] /\ todo \in [Proc -> Seq(Nat)] /\ reversed \in [Proc -> Seq(Nat)]
      /\ declined \in [Proc -> SUBSET Nat] /\ blocked \in [Proc -> SUBSET Nat]
      /\ pending \in [Proc -> Entry]
  BY <1>0 DEF StepsType, LogInv, UndoType
<1>1. CASE UNCHANGED vars \/ (Tick /\ UNCHANGED process)
  <2>1. /\ UNCHANGED process /\ pending' = pending /\ written' = written
    BY <1>1 DEF vars, auditVars, local, histories, Tick
  <2>2. QED
    BY <2>1 DEF StepsInv, StepsType, Planned, Rising, Climbing, process
<1>2. ASSUME NEW p \in Proc, StartRun(p) PROVE StepsInv'
  <2>1. /\ phase' = [phase EXCEPT ![p] = "retention"] /\ phase[p] = "idle" /\ pending' = pending /\ written' = written
        /\ kind' = kind /\ steps' = steps /\ todo' = todo /\ reversed' = reversed /\ declined' = declined /\ blocked' = blocked
    BY <1>2 DEF StartRun, Goto, auditVars, local, histories
  <2>2. phase'[p] = "retention" /\ \A q \in Proc \ {p} : phase'[q] = phase[q]
    BY <1>t, <2>1
  <2>3. StepsType' /\ Rising(written)' /\ Climbing(steps'[p])
    BY <1>0, <2>1 DEF StepsType, Rising
  <2>4. \A q \in Proc : phase'[q] = "append" => pending'[q].step > 0
    BY <1>0, <2>1, <2>2
  <2>5. Fits(phase'[p], kind'[p], steps'[p], todo'[p], reversed'[p], declined'[p] \cup blocked'[p])
    BY <1>0, <2>1, <2>2, FitsOn DEF Planned
  <2>6. QED
    BY <2>1, <2>2, <2>3, <2>4, <2>5, PlansElsewhere
<1>3. ASSUME NEW p \in Proc, NEW named \in BOOLEAN, StartUndo(p, named) PROVE StepsInv'
  <2>1. /\ phase' = [phase EXCEPT ![p] = "retention"] /\ phase[p] = "idle" /\ pending' = pending /\ written' = written
        /\ kind' = [kind EXCEPT ![p] = "undo"] /\ steps' = [steps EXCEPT ![p] = StepsOf(ReadAll, target'[p])]
        /\ todo' = todo /\ reversed' = reversed /\ declined' = declined /\ blocked' = blocked
    BY <1>3 DEF StartUndo, Goto, auditVars, local, histories
  <2>2. PICK es : es = StepsOf(ReadAll, target'[p])
    OBVIOUS
  <2>3. es \in Seq(Entry) /\ Climbing(es)
    BY <1>3, <2>2, StartsToReverse
  <2>4. /\ phase'[p] = "retention" /\ kind'[p] = "undo" /\ steps'[p] = es
        /\ \A q \in Proc \ {p} : phase'[q] = phase[q] /\ kind'[q] = kind[q] /\ steps'[q] = steps[q]
    BY <1>t, <2>1, <2>2
  <2>5. StepsType' /\ Rising(written)'
    <3>1. steps' \in [Proc -> Seq(Entry)]
      BY <1>t, <2>1, <2>2, <2>3
    <3>2. kind' \in [Proc -> {"run", "undo"}]
      BY <1>t, <2>1
    <3>3. QED
      BY <1>0, <1>t, <2>1, <3>1, <3>2 DEF StepsType, Rising
  <2>6. \A q \in Proc : phase'[q] = "append" => pending'[q].step > 0
    BY <1>0, <2>1, <2>4
  <2>7. todo[p] = <<>> /\ reversed[p] = <<>> /\ declined[p] \cup blocked[p] = {}
    BY <1>0, <2>1 DEF Planned, Fits
  <2>8. Fits("retention", "undo", es, <<>>, <<>>, {})
    BY DEF Fits
  <2>9. QED
    BY <2>1, <2>3, <2>4, <2>5, <2>6, <2>7, <2>8, PlansElsewhere
<1>4. ASSUME NEW p \in Proc, ReadToClean(p) PROVE StepsInv'
  <2>1. /\ phase' = [phase EXCEPT ![p] = "rewrite"] /\ phase[p] = "retention" /\ pending' = pending /\ written' = written
        /\ kind' = kind /\ steps' = steps /\ todo' = todo /\ reversed' = reversed /\ declined' = declined /\ blocked' = blocked
    BY <1>4 DEF ReadToClean, ReadForRetention, Goto, histories
  <2>2. phase'[p] = "rewrite" /\ \A q \in Proc \ {p} : phase'[q] = phase[q]
    BY <1>t, <2>1
  <2>3. StepsType' /\ Rising(written)' /\ Climbing(steps'[p])
    BY <1>0, <2>1 DEF StepsType, Rising
  <2>4. \A q \in Proc : phase'[q] = "append" => pending'[q].step > 0
    BY <1>0, <2>1, <2>2
  <2>5. Fits(phase'[p], kind'[p], steps'[p], todo'[p], reversed'[p], declined'[p] \cup blocked'[p])
    BY <1>0, <2>1, <2>2, FitsOn DEF Planned
  <2>6. QED
    BY <2>1, <2>2, <2>3, <2>4, <2>5, PlansElsewhere
<1>5. ASSUME NEW p \in Proc, SkipCleaning(p) \/ Cleaned(p) PROVE StepsInv'
  <2>1. /\ phase[p] \in {"retention", "rewrite"} /\ Prepare(p) /\ pending' = pending /\ written' = written
        /\ kind' = kind /\ steps' = steps /\ reversed' = reversed /\ declined' = declined /\ blocked' = blocked
    BY <1>5 DEF SkipCleaning, Cleaned, Rename, Abandon, auditVars, local, histories
  <2>2. /\ todo' \in [Proc -> Seq(Nat)]
        /\ \A q \in Proc \ {p} : phase'[q] = phase[q] /\ todo'[q] = todo[q]
        /\ phase'[p] \in {"execute", "over"}
        /\ Fits(phase'[p], kind'[p], steps'[p], todo'[p], reversed'[p], declined'[p] \cup blocked'[p])
    BY <2>1, PrepareFits
  <2>3. StepsType' /\ Rising(written)' /\ Climbing(steps'[p])
    BY <1>0, <1>t, <2>1, <2>2 DEF StepsType, Rising
  <2>4. \A q \in Proc : phase'[q] = "append" => pending'[q].step > 0
    BY <1>0, <2>1, <2>2
  <2>5. QED
    BY <2>1, <2>2, <2>3, <2>4, PlansElsewhere
<1>6. ASSUME NEW p \in Proc, NEW outcome \in Outcome \cup {"failed"}, Execute(p, outcome) PROVE StepsInv'
  <2>1. PICK new : new = [run |-> p, step |-> count[p] + 1, undoOf |-> target[p], time |-> now, outcome |-> outcome]
    OBVIOUS
  <2>2. /\ phase' = [phase EXCEPT ![p] = "append"] /\ phase[p] \in {"execute", "retry"}
        /\ pending' = [pending EXCEPT ![p] = new]
        /\ written' = written /\ kind' = kind /\ steps' = steps /\ declined' = declined /\ blocked' = blocked
        /\ kind[p] = "undo" => todo[p] # <<>>
    BY <1>6, <2>1 DEF Execute, Open, Goto, histories
  <2>3. new.step > 0
    <3>1. new.step = count[p] + 1
      BY <2>1
    <3>2. count[p] \in Nat
      BY AuditAssumption DEF LogInv, UndoType
    <3>3. QED
      BY <3>1, <3>2
  <2>4. phase'[p] = "append" /\ pending'[p] = new
        /\ \A q \in Proc \ {p} : phase'[q] = phase[q] /\ pending'[q] = pending[q]
    BY <1>t, <2>2
  <2>5. \A q \in Proc : phase'[q] = "append" => pending'[q].step > 0
    BY <1>0, <2>3, <2>4
  <2>6. PICK plan, done : plan = todo[p] /\ done = reversed[p] /\ plan \in Seq(Nat) /\ done \in Seq(Nat)
    BY <1>t
  <2>7. CASE kind[p] = "undo" /\ outcome # "failed"
    <3>1. todo' = [todo EXCEPT ![p] = Tail(plan)] /\ reversed' = [reversed EXCEPT ![p] = Append(done, Head(plan))]
      BY <1>6, <2>6, <2>7 DEF Execute
    <3>2. plan # <<>> /\ Head(plan) \in Nat /\ Tail(plan) \in Seq(Nat)
      BY <2>2, <2>6, <2>7, TailSet
    <3>3. Append(done, Head(plan)) \in Seq(Nat)
      BY <2>6, <3>2, AppendIs
    <3>4. todo' \in [Proc -> Seq(Nat)] /\ todo'[p] = Tail(plan) /\ \A q \in Proc \ {p} : todo'[q] = todo[q]
      BY <1>t, <3>1, <3>2
    <3>5. /\ reversed' \in [Proc -> Seq(Nat)] /\ reversed'[p] = Append(done, Head(plan))
          /\ \A q \in Proc \ {p} : reversed'[q] = reversed[q]
      BY <1>t, <3>1, <3>3
    <3>6. Undoing(steps[p], plan, done, declined[p] \cup blocked[p])
      BY <1>0, <2>2, <2>6, <2>7 DEF Planned, Fits
    <3>7. Undoing(steps[p], Tail(plan), Append(done, Head(plan)), declined[p] \cup blocked[p])
      BY <1>t, <2>6, <3>2, <3>6, UndoingOn
    <3>8. Fits("append", "undo", steps[p], Tail(plan), Append(done, Head(plan)), declined[p] \cup blocked[p])
      BY <3>7 DEF Fits
    <3>9. StepsType' /\ Rising(written)' /\ Climbing(steps'[p])
      BY <1>0, <1>t, <2>2, <3>4, <3>5 DEF StepsType, Rising
    <3>10. QED
      BY <2>2, <2>4, <2>5, <2>7, <3>4, <3>5, <3>8, <3>9, PlansElsewhere
  <2>8. CASE ~(kind[p] = "undo" /\ outcome # "failed")
    <3>1. todo' = todo /\ reversed' = reversed
      BY <1>6, <2>8 DEF Execute
    <3>2. StepsType' /\ Rising(written)' /\ Climbing(steps'[p])
      BY <1>0, <2>2, <3>1 DEF StepsType, Rising
    <3>3. Fits(phase'[p], kind'[p], steps'[p], todo'[p], reversed'[p], declined'[p] \cup blocked'[p])
      BY <1>0, <2>2, <2>4, <3>1, FitsOn DEF Planned
    <3>4. QED
      BY <2>2, <2>4, <2>5, <3>1, <3>2, <3>3, PlansElsewhere
  <2>9. QED
    BY <2>7, <2>8
<1>7. ASSUME NEW p \in Proc, Decline(p) \/ PassBlocked(p) PROVE StepsInv'
  <2>1. PICK plan, done, refused : plan = todo[p] /\ done = reversed[p] /\ refused = declined[p] \cup blocked[p]
                                   /\ plan \in Seq(Nat) /\ done \in Seq(Nat) /\ refused \in SUBSET Nat
    BY <1>t
  <2>2. /\ phase[p] = "execute" /\ kind[p] = "undo" /\ plan # <<>> /\ phase' = phase /\ pending' = pending
        /\ written' = written /\ kind' = kind /\ steps' = steps /\ reversed' = reversed
        /\ todo' = [todo EXCEPT ![p] = Tail(plan)]
    BY <1>7, <2>1 DEF Decline, PassBlocked, auditVars, local, histories
  <2>3. Head(plan) \in Nat /\ Tail(plan) \in Seq(Nat)
    BY <2>1, <2>2, TailSet
  <2>4. /\ todo' \in [Proc -> Seq(Nat)] /\ todo'[p] = Tail(plan) /\ \A q \in Proc \ {p} : todo'[q] = todo[q]
    BY <1>t, <2>2, <2>3
  <2>5. \/ /\ blocked' = blocked
           /\ declined' = [declined EXCEPT ![p] = @ \cup {Head(plan)}]
        \/ /\ declined' = declined
           /\ blocked' = [blocked EXCEPT ![p] = @ \cup {Head(plan)}]
    BY <1>7, <2>1 DEF Decline, PassBlocked
  <2>a. declined[p] \cup {Head(plan)} \in SUBSET Nat /\ blocked[p] \cup {Head(plan)} \in SUBSET Nat
    BY <1>t, <2>3
  <2>6. /\ declined' \in [Proc -> SUBSET Nat] /\ blocked' \in [Proc -> SUBSET Nat]
        /\ \A q \in Proc \ {p} : declined'[q] = declined[q] /\ blocked'[q] = blocked[q]
    BY <1>t, <2>5, <2>a
  <2>b. declined'[p] \cup blocked'[p] = refused \cup {Head(plan)}
    BY <1>t, <2>1, <2>5
  <2>7. Undoing(steps[p], plan, done, refused)
    BY <1>0, <2>1, <2>2 DEF Planned, Fits
  <2>8. Undoing(steps[p], Tail(plan), done, refused \cup {Head(plan)})
    BY <2>1, <2>2, <2>7, UndoingOn
  <2>9. Fits("execute", "undo", steps[p], Tail(plan), done, refused \cup {Head(plan)})
    BY <2>8 DEF Fits
  <2>10. StepsType' /\ Rising(written)' /\ Climbing(steps'[p])
    BY <1>0, <1>t, <2>2, <2>4, <2>6 DEF StepsType, Rising
  <2>11. \A q \in Proc : phase'[q] = "append" => pending'[q].step > 0
    BY <1>0, <2>2
  <2>12. Fits(phase'[p], kind'[p], steps'[p], todo'[p], reversed'[p], declined'[p] \cup blocked'[p])
    BY <2>1, <2>2, <2>4, <2>b, <2>9
  <2>13. QED
    BY <2>2, <2>4, <2>6, <2>10, <2>11, <2>12, PlansElsewhere
<1>8. ASSUME NEW p \in Proc, Record(p) \/ Die(p) PROVE StepsInv'
  <2>1. /\ kind' = kind /\ steps' = steps /\ todo' = todo /\ reversed' = reversed /\ declined' = declined /\ blocked' = blocked
        /\ pending' = pending \/ pending' = [pending EXCEPT ![p] = NoEntry]
    BY <1>8 DEF Record, Die, Write, WriteTorn, Abandon, Close
  <2>2. /\ phase[p] \in {"append", "rewrite"}
        /\ phase[p] = "rewrite" => phase' = [phase EXCEPT ![p] = "over"]
        /\ \E there \in {"execute", "retry", "over"} : phase' = [phase EXCEPT ![p] = there]
    BY <1>8 DEF Record, Die, Goto
  <2>3. phase'[p] \in {"execute", "retry", "over"} /\ \A q \in Proc \ {p} : phase'[q] = phase[q]
    BY <1>t, <2>2
  <2>4. \A q \in Proc \ {p} : pending'[q] = pending[q]
    BY <1>t, <2>1
  <2>5. \A q \in Proc : phase'[q] = "append" => pending'[q].step > 0
    BY <1>0, <2>3, <2>4
  <2>6. Rising(written)'
    <3>1. CASE Abandon(p)
      BY <1>0, <3>1 DEF Abandon, histories, Rising
    <3>2. CASE ~Abandon(p)
      BY <1>8, <3>2, StepsWritten DEF Record, Die
    <3>3. QED
      BY <3>1, <3>2
  <2>7. StepsType' /\ Climbing(steps'[p])
    BY <1>0, <2>1 DEF StepsType
  <2>8. Fits(phase'[p], kind'[p], steps'[p], todo'[p], reversed'[p], declined'[p] \cup blocked'[p])
    <3>1. CASE phase[p] = "append"
      BY <1>0, <2>1, <2>3, <3>1, FitsOn DEF Planned
    <3>2. CASE phase[p] = "rewrite"
      <4>1. todo[p] = <<>> /\ reversed[p] = <<>> /\ declined[p] \cup blocked[p] = {}
        BY <1>0, <3>2 DEF Planned, Fits
      <4>2. QED
        BY <1>0, <2>1, <2>3, <4>1 DEF Fits, Undoing, Modelled, ToSet
    <3>3. QED
      BY <2>2, <3>1, <3>2
  <2>9. QED
    BY <2>1, <2>3, <2>5, <2>6, <2>7, <2>8, PlansElsewhere
<1>9. QED
  BY <1>1, <1>2, <1>3, <1>4, <1>5, <1>6, <1>7, <1>8 DEF Next

LEMMA StepsStart == Init => StepsInv
<1> SUFFICES ASSUME Init PROVE StepsInv
  OBVIOUS
<1>1. Rising(written)
  BY AuditAssumption DEF Init, AuditInit
<1>2. /\ kind = [p \in Proc |-> "run"] /\ phase = [p \in Proc |-> "idle"] /\ steps = [p \in Proc |-> <<>>]
      /\ todo = [p \in Proc |-> <<>>] /\ reversed = [p \in Proc |-> <<>>] /\ declined = [p \in Proc |-> {}]
      /\ blocked = [p \in Proc |-> {}]
  BY DEF Init
<1>3. <<>> \in Seq(Entry) /\ <<>> \in Seq(Nat)
  OBVIOUS
<1>4. StepsType
  BY <1>2, <1>3 DEF StepsType
<1>5. \A p \in Proc : Climbing(steps[p]) /\ Planned(p) /\ phase[p] # "append"
  BY <1>2 DEF Climbing, Planned, Fits
<1>6. QED
  BY <1>1, <1>4, <1>5 DEF StepsInv

(* The steps an undo reverses took effect, the newest first, and none is   *)
(* passed over but those the user declined or the safety engine blocked,   *)
(* whatever else happens to the log.                                       *)
THEOREM ReversalHolds == Spec => []ReversesInOrder
<1>1. ASSUME LogInv, StepsInv, NEW p \in Proc
      PROVE  LET mine == Without(reversed[p], 0)
                 good == GoodOf(steps[p])
             IN  /\ \A j, k \in DOMAIN mine : j < k => mine[j] > mine[k]
                 /\ ToSet(mine) \subseteq good
                 /\ \A s \in good, k \in ToSet(mine) :
                      s > k => s \in ToSet(mine) \cup declined[p] \cup blocked[p]
  <2>1. PICK done, plan, refused : done = reversed[p] /\ plan = todo[p] /\ refused = declined[p] \cup blocked[p]
                                   /\ done \in Seq(Nat) /\ plan \in Seq(Nat)
    BY <1>1 DEF StepsInv, StepsType
  <2>2. PICK mine : mine = Without(done, 0)
    OBVIOUS
  <2>3. mine \in Seq(Nat) /\ ToSet(mine) = ToSet(done) \ {0}
    BY <2>1, <2>2, WithoutType, WithoutSet
  <2>4. \/ done = <<>>
        \/ Modelled(plan, done)
        \/ Tabled(steps[p], plan, done, refused)
    <3>1. kind[p] \in {"run", "undo"} /\ Planned(p)
      BY <1>1 DEF StepsInv, StepsType
    <3>2. Fits(phase[p], kind[p], steps[p], plan, done, refused)
      BY <2>1, <3>1 DEF Planned
    <3>3. CASE kind[p] = "run" \/ phase[p] \in {"idle", "retention", "rewrite"}
      BY <3>2, <3>3 DEF Fits
    <3>4. CASE kind[p] = "undo" /\ phase[p] \in {"execute", "append", "retry", "over"}
      BY <3>2, <3>4 DEF Fits, Undoing
    <3>5. phase[p] \in Phase
      BY <1>1 DEF LogInv, UndoType
    <3>6. QED
      BY <3>1, <3>3, <3>4, <3>5 DEF Phase
  <2>5. CASE done = <<>> \/ Modelled(plan, done)
    <3>1. ToSet(mine) = {}
      <4>1. ToSet(<<>>) = {}
        BY DEF ToSet
      <4>2. ToSet(done) \subseteq {0}
        BY <2>5, <4>1 DEF Modelled
      <4>3. QED
        BY <2>3, <4>2
    <3>2. DOMAIN mine = {}
      BY <3>1 DEF ToSet
    <3>3. QED
      BY <2>1, <2>2, <3>1, <3>2
  <2>6. CASE Tabled(steps[p], plan, done, refused)
    <3>1. Falling(mine)
      BY <2>1, <2>2, <2>6, FallingPart DEF Tabled
    <3>2. \A x \in GoodOf(steps[p]) : x # 0 /\ x \in Int
      <4>1. Climbing(steps[p]) /\ steps[p] \in Seq(Entry)
        BY <1>1 DEF StepsInv, StepsType
      <4>2. \A e \in ToSet(steps[p]) : e.step > 0 /\ e \in Entry
        BY <4>1 DEF Climbing, ToSet
      <4>3. \A e \in ToSet(steps[p]) : e.step # 0 /\ e.step \in Int
        BY <4>2, AuditAssumption DEF Entry
      <4>4. QED
        BY <4>3 DEF GoodOf
    <3>3. ToSet(mine) = ToSet(done) /\ ToSet(mine) \subseteq GoodOf(steps[p])
      BY <2>3, <2>6, <3>2 DEF Tabled
    <3>4. ASSUME NEW s \in GoodOf(steps[p]), NEW k \in ToSet(mine), s > k
          PROVE  s \in ToSet(mine) \cup refused
      <4>1. s \in ToSet(plan) \cup ToSet(done) \cup refused
        BY <2>6 DEF Tabled
      <4>2. s \in ToSet(plan) => k > s
        BY <2>6, <3>3 DEF Tabled
      <4>3. s \in Int /\ k \in Int
        BY <3>2, <3>3
      <4>4. s \notin ToSet(plan)
        BY <3>4, <4>2, <4>3
      <4>5. QED
        BY <3>3, <4>1, <4>4
    <3>5. QED
      BY <2>1, <2>2, <3>1, <3>3, <3>4 DEF Falling
  <2>7. QED
    BY <2>4, <2>5, <2>6
<1>2. LogInv /\ StepsInv => ReversesInOrder
  BY <1>1 DEF ReversesInOrder, GoodOf
<1>3. QED
  BY <1>2, LogStarts, LogKeeps, OrderStarts, OrderKeeps, StepsStart, StepsKeep, PTL DEF Spec

LEMMA SetIs == \A R : \A s \in Seq(R) : \A c : c \in ToSet(s) <=> \E i \in 1..Len(s) : s[i] = c
  BY DEF ToSet

-----------------------------------------------------------------------------
(* Reversal: the tables of inverses and the machine, paths and trees first. *)


(* Paths are ordered by being a beginning of one another.                     *)
LEMMA TokenIs == \A q \in Token : q \in Seq(Names) /\ Len(q) \in Nat /\ Len(q) > 0
  BY DEF Token

LEMMA PrefixIs == \A s, t \in Seq(Names) :
    IsPrefix(s, t) <=> Len(s) <= Len(t) /\ \A i \in 1..Len(s) : s[i] = t[i]
<1> SUFFICES ASSUME NEW s \in Seq(Names), NEW t \in Seq(Names)
             PROVE  IsPrefix(s, t) <=> Len(s) <= Len(t) /\ \A i \in 1..Len(s) : s[i] = t[i]
  OBVIOUS
<1> DEFINE n == Len(s)
           u == SubSeq(s, 1, n)
           v == SubSeq(t, 1, n)
<1>1. n \in Nat /\ Len(t) \in Nat
  OBVIOUS
<1>2. u \in Seq(Names) /\ Len(u) = n /\ \A k \in 1..n : u[k] = s[k]
  <2> HIDE DEF n
  <2>1. 1 \in Int /\ n \in Int /\ 1 <= 1 /\ n <= Len(s)
    BY <1>1 DEF n
  <2>2. /\ u \in Seq(Names) /\ Len(u) = IF 1 <= n THEN n - 1 + 1 ELSE 0
        /\ \A k \in 1..(n - 1 + 1) : u[k] = s[1 + k - 1]
    BY <2>1, Subs
  <2>3. QED
    BY <1>1, <2>2
<1>3. ASSUME n <= Len(t)
      PROVE  v \in Seq(Names) /\ Len(v) = n /\ \A k \in 1..n : v[k] = t[k]
  <2> HIDE DEF n
  <2>1. 1 \in Int /\ n \in Int /\ 1 <= 1
    BY <1>1
  <2>2. /\ v \in Seq(Names) /\ Len(v) = IF 1 <= n THEN n - 1 + 1 ELSE 0
        /\ \A k \in 1..(n - 1 + 1) : v[k] = t[1 + k - 1]
    BY <1>3, <2>1, Subs
  <2>3. QED
    BY <1>1, <2>2
<1>4. IsPrefix(s, t) <=> n <= Len(t) /\ u = v
  BY DEF IsPrefix
<1> HIDE DEF n, u, v
<1>5. n <= Len(t) => (u = v <=> \A i \in 1..n : s[i] = t[i])
  BY <1>2, <1>3, SameText
<1>6. QED
  BY <1>4, <1>5 DEF n

LEMMA PrefixSelf == \A s \in Token : IsPrefix(s, s)
  BY TokenIs, PrefixIs

LEMMA PrefixTrans == \A r, s, t \in Token : IsPrefix(r, s) /\ IsPrefix(s, t) => IsPrefix(r, t)
<1> SUFFICES ASSUME NEW r \in Token, NEW s \in Token, NEW t \in Token, IsPrefix(r, s), IsPrefix(s, t)
             PROVE  IsPrefix(r, t)
  OBVIOUS
<1>1. /\ r \in Seq(Names) /\ s \in Seq(Names) /\ t \in Seq(Names)
      /\ Len(r) \in Nat /\ Len(s) \in Nat /\ Len(t) \in Nat
  BY TokenIs
<1>2. Len(r) <= Len(s) /\ \A i \in 1..Len(r) : r[i] = s[i]
  BY <1>1, PrefixIs
<1>3. Len(s) <= Len(t) /\ \A i \in 1..Len(s) : s[i] = t[i]
  BY <1>1, PrefixIs
<1>4. Len(r) <= Len(t) /\ \A i \in 1..Len(r) : r[i] = t[i]
  BY <1>1, <1>2, <1>3
<1>5. QED
  BY <1>1, <1>4, PrefixIs

LEMMA PrefixBoth == \A s, t \in Token : IsPrefix(s, t) /\ IsPrefix(t, s) => s = t
<1> SUFFICES ASSUME NEW s \in Token, NEW t \in Token, IsPrefix(s, t), IsPrefix(t, s) PROVE s = t
  OBVIOUS
<1>1. s \in Seq(Names) /\ t \in Seq(Names) /\ Len(s) \in Nat /\ Len(t) \in Nat
  BY TokenIs
<1>2. Len(s) <= Len(t) /\ Len(t) <= Len(s) /\ \A i \in 1..Len(s) : s[i] = t[i]
  BY <1>1, PrefixIs
<1>3. Len(s) = Len(t)
  BY <1>1, <1>2
<1>4. QED
  BY <1>1, <1>2, <1>3, SameText

LEMMA PrefixLine ==
    \A r, s, t \in Token : IsPrefix(r, t) /\ IsPrefix(s, t) => IsPrefix(r, s) \/ IsPrefix(s, r)
<1> SUFFICES ASSUME NEW r \in Token, NEW s \in Token, NEW t \in Token, IsPrefix(r, t), IsPrefix(s, t)
             PROVE  IsPrefix(r, s) \/ IsPrefix(s, r)
  OBVIOUS
<1>1. /\ r \in Seq(Names) /\ s \in Seq(Names) /\ t \in Seq(Names)
      /\ Len(r) \in Nat /\ Len(s) \in Nat /\ Len(t) \in Nat
  BY TokenIs
<1>2. Len(r) <= Len(t) /\ \A i \in 1..Len(r) : r[i] = t[i]
  BY <1>1, PrefixIs
<1>3. Len(s) <= Len(t) /\ \A i \in 1..Len(s) : s[i] = t[i]
  BY <1>1, PrefixIs
<1>4. \/ Len(r) <= Len(s) /\ \A i \in 1..Len(r) : r[i] = s[i]
      \/ Len(s) <= Len(r) /\ \A i \in 1..Len(s) : s[i] = r[i]
  BY <1>1, <1>2, <1>3
<1>5. QED
  BY <1>1, <1>4, PrefixIs

LEMMA ParentIs ==
    \A q \in Token : \A p : p \in Parents(q) <=> p \in Token /\ IsPrefix(p, q) /\ p /= q
<1> SUFFICES ASSUME NEW q \in Token PROVE \A p : p \in Parents(q) <=> p \in Token /\ IsPrefix(p, q) /\ p /= q
  OBVIOUS
<1>1. q \in Seq(Names) /\ Len(q) \in Nat /\ Len(q) > 0
  BY TokenIs
<1>2. ASSUME NEW i \in 1..(Len(q) - 1)
      PROVE  /\ SubSeq(q, 1, i) \in Token /\ Len(SubSeq(q, 1, i)) = i
             /\ IsPrefix(SubSeq(q, 1, i), q) /\ SubSeq(q, 1, i) /= q
  <2> DEFINE p == SubSeq(q, 1, i)
  <2>1. 1 \in Int /\ i \in Int /\ 1 <= 1 /\ i <= Len(q) /\ 1 <= i
    BY <1>1
  <2>2. p \in Seq(Names) /\ Len(p) = i - 1 + 1 /\ \A k \in 1..(i - 1 + 1) : p[k] = q[1 + k - 1]
    <3> HIDE DEF p
    <3>1. /\ p \in Seq(Names) /\ Len(p) = IF 1 <= i THEN i - 1 + 1 ELSE 0
          /\ \A k \in 1..(i - 1 + 1) : p[k] = q[1 + k - 1]
      BY <1>1, <2>1, Subs DEF p
    <3>2. QED
      BY <2>1, <3>1
  <2> HIDE DEF p
  <2>3. Len(p) = i /\ \A k \in 1..i : p[k] = q[k]
    BY <2>1, <2>2
  <2>4. IsPrefix(p, q)
    BY <1>1, <2>1, <2>2, <2>3, PrefixIs
  <2>5. Len(p) /= Len(q)
    BY <1>1, <2>3
  <2>6. p \in Token
    BY <2>1, <2>2, <2>3 DEF Token
  <2>7. QED
    BY <2>3, <2>4, <2>5, <2>6 DEF p
<1>3. ASSUME NEW p \in Token, IsPrefix(p, q), p /= q PROVE p \in Parents(q)
  <2>1. p \in Seq(Names) /\ Len(p) \in Nat /\ Len(p) > 0
    BY TokenIs
  <2>2. Len(p) <= Len(q) /\ \A i \in 1..Len(p) : p[i] = q[i]
    BY <1>1, <1>3, <2>1, PrefixIs
  <2>3. Len(p) /= Len(q)
    BY <1>1, <1>3, <2>1, <2>2, SameText
  <2>4. Len(p) \in 1..(Len(q) - 1)
    BY <1>1, <2>1, <2>2, <2>3
  <2>5. SubSeq(q, 1, Len(p)) = p
    <3> DEFINE i == Len(p)
               u == SubSeq(q, 1, i)
    <3>1. u \in Token /\ Len(u) = i /\ IsPrefix(u, q)
      <4> HIDE DEF i
      <4>1. i \in 1..(Len(q) - 1)
        BY <2>4 DEF i
      <4>2. QED
        BY <1>2, <4>1
    <3> HIDE DEF i, u
    <3>2. u \in Seq(Names)
      BY <3>1, TokenIs
    <3>3. \A k \in 1..Len(u) : u[k] = q[k]
      BY <1>1, <3>1, <3>2, PrefixIs
    <3>4. u = p
      BY <2>1, <2>2, <3>1, <3>2, <3>3, SameText DEF i
    <3>5. QED
      BY <3>4 DEF u, i
  <2>6. QED
    BY <2>4, <2>5 DEF Parents
<1>4. QED
  BY <1>2, <1>3 DEF Parents

(* The directory a path is in is the last of those above it.                  *)
LEMMA FrontIs0 == \A q \in Token :
    Len(q) > 1 => /\ Front(q) \in Token /\ IsPrefix(Front(q), q) /\ Front(q) /= q
                  /\ \A p \in Token : IsPrefix(p, q) /\ p /= q => IsPrefix(p, Front(q))
<1> SUFFICES ASSUME NEW q \in Token, Len(q) > 1
             PROVE  /\ Front(q) \in Token /\ IsPrefix(Front(q), q) /\ Front(q) /= q
                    /\ \A p \in Token : IsPrefix(p, q) /\ p /= q => IsPrefix(p, Front(q))
  OBVIOUS
<1>1. q \in Seq(Names) /\ Len(q) \in Nat /\ Len(q) > 0
  BY TokenIs
<1> DEFINE n == Len(q) - 1
           f == SubSeq(q, 1, n)
<1>2. n \in Nat /\ n >= 1 /\ n = Len(q) - 1 /\ n \in 1..(Len(q) - 1) /\ 1 \in Int /\ n \in Int /\ n <= Len(q)
  BY <1>1
<1>3. Front(q) = f
  BY DEF Front
<1>4. f \in Parents(q)
  <2> HIDE DEF n
  <2>1. QED
    BY <1>2 DEF Parents
<1>5. /\ f \in Seq(Names) /\ Len(f) = n /\ \A k \in 1..n : f[k] = q[k]
  <2> HIDE DEF n
  <2>1. /\ f \in Seq(Names) /\ Len(f) = IF 1 <= n THEN n - 1 + 1 ELSE 0
        /\ \A k \in 1..(n - 1 + 1) : f[k] = q[1 + k - 1]
    BY <1>1, <1>2, Subs
  <2>2. QED
    BY <1>2, <2>1
<1> HIDE DEF f, n
<1>6. ASSUME NEW p \in Token, IsPrefix(p, q), p /= q PROVE IsPrefix(p, f)
  <2>1. p \in Seq(Names) /\ Len(p) \in Nat /\ Len(p) > 0
    BY TokenIs
  <2>2. Len(p) <= Len(q) /\ \A i \in 1..Len(p) : p[i] = q[i]
    BY <1>1, <1>6, <2>1, PrefixIs
  <2>3. Len(p) /= Len(q)
    BY <1>1, <1>6, <2>1, <2>2, SameText
  <2>4. Len(p) <= Len(f) /\ \A i \in 1..Len(p) : p[i] = f[i]
    BY <1>1, <1>2, <1>5, <2>1, <2>2, <2>3
  <2>5. QED
    BY <1>5, <2>1, <2>4, PrefixIs
<1>7. QED
  BY <1>3, <1>4, <1>6, ParentIs

(* What is below a goes below to.                                             *)
LEMMA MovedIs == \A a, to, q \in Token : IsPrefix(a, q) =>
    /\ Moved(q, a, to) \in Token /\ Len(Moved(q, a, to)) = Len(to) + (Len(q) - Len(a))
    /\ \A i \in 1..Len(to) : Moved(q, a, to)[i] = to[i]
    /\ \A i \in 1..(Len(q) - Len(a)) : Moved(q, a, to)[Len(to) + i] = q[Len(a) + i]
    /\ IsPrefix(to, Moved(q, a, to))
<1> SUFFICES ASSUME NEW a \in Token, NEW to \in Token, NEW q \in Token, IsPrefix(a, q)
             PROVE  /\ Moved(q, a, to) \in Token /\ Len(Moved(q, a, to)) = Len(to) + (Len(q) - Len(a))
                    /\ \A i \in 1..Len(to) : Moved(q, a, to)[i] = to[i]
                    /\ \A i \in 1..(Len(q) - Len(a)) : Moved(q, a, to)[Len(to) + i] = q[Len(a) + i]
                    /\ IsPrefix(to, Moved(q, a, to))
  OBVIOUS
<1> DEFINE la == Len(a)
           lt == Len(to)
           lq == Len(q)
           u == SubSeq(q, la + 1, lq)
           m == to \o u
<1>1. /\ a \in Seq(Names) /\ to \in Seq(Names) /\ q \in Seq(Names)
      /\ la \in Nat /\ lt \in Nat /\ lq \in Nat /\ la > 0 /\ lt > 0 /\ lq > 0
  BY TokenIs
<1>2. la <= lq
  BY <1>1, PrefixIs
<1>3. u \in Seq(Names) /\ Len(u) = lq - la /\ \A i \in 1..(lq - la) : u[i] = q[la + i]
  <2> HIDE DEF la
  <2>1. la + 1 \in Int /\ lq \in Int /\ 1 <= la + 1 /\ lq <= Len(q)
    BY <1>1
  <2>2. /\ u \in Seq(Names) /\ Len(u) = IF la + 1 <= lq THEN lq - (la + 1) + 1 ELSE 0
        /\ \A k \in 1..(lq - (la + 1) + 1) : u[k] = q[la + 1 + k - 1]
    <3> HIDE DEF lq
    <3>1. lq <= Len(q)
      BY <2>1
    <3>2. QED
      BY <1>1, <2>1, <3>1, Subs
  <2> HIDE DEF u, lq
  <2>3. Len(u) = lq - la
    BY <1>1, <1>2, <2>2
  <2>4. ASSUME NEW i \in 1..(lq - la) PROVE u[i] = q[la + i]
    <3>1. i \in 1..(lq - (la + 1) + 1) /\ la + 1 + i - 1 = la + i
      BY <1>1
    <3>2. QED
      BY <2>2, <3>1
  <2>5. QED
    BY <2>2, <2>3, <2>4
<1> HIDE DEF u
<1>4. /\ m \in Seq(Names) /\ Len(m) = lt + Len(u)
      /\ \A i \in 1..lt : m[i] = to[i]
      /\ \A i \in 1..Len(u) : m[lt + i] = u[i]
  <2>1. to \in Seq(Names) /\ u \in Seq(Names)
    BY <1>1, <1>3
  <2>2. QED
    BY <2>1, ConcatAt
<1>5. Moved(q, a, to) = m
  BY DEF Moved, u
<1> HIDE DEF m, la, lt, lq
<1>6. Len(m) = lt + (lq - la) /\ \A i \in 1..(lq - la) : m[lt + i] = q[la + i]
  BY <1>3, <1>4
<1>7. m \in Token
  <2>1. Len(m) > 0
    BY <1>1, <1>2, <1>6
  <2>2. QED
    BY <1>4, <2>1 DEF Token
<1>8. IsPrefix(to, m)
  <2>1. Len(to) <= Len(m)
    BY <1>1, <1>2, <1>6 DEF lt
  <2>2. \A i \in 1..Len(to) : to[i] = m[i]
    BY <1>4 DEF lt
  <2>3. QED
    BY <1>1, <1>4, <2>1, <2>2, PrefixIs
<1>9. QED
  BY <1>4, <1>5, <1>6, <1>7, <1>8 DEF la, lt, lq

LEMMA MovedBack == \A a, to, q \in Token : IsPrefix(a, q) => Moved(Moved(q, a, to), to, a) = q
<1> SUFFICES ASSUME NEW a \in Token, NEW to \in Token, NEW q \in Token, IsPrefix(a, q)
             PROVE  Moved(Moved(q, a, to), to, a) = q
  OBVIOUS
<1> DEFINE m == Moved(q, a, to)
           b == Moved(m, to, a)
<1>1. /\ a \in Seq(Names) /\ to \in Seq(Names) /\ q \in Seq(Names)
      /\ Len(a) \in Nat /\ Len(to) \in Nat /\ Len(q) \in Nat
  BY TokenIs
<1>2. Len(a) <= Len(q) /\ \A i \in 1..Len(a) : a[i] = q[i]
  BY <1>1, PrefixIs
<1>3. /\ m \in Token /\ Len(m) = Len(to) + (Len(q) - Len(a)) /\ IsPrefix(to, m)
      /\ \A i \in 1..(Len(q) - Len(a)) : m[Len(to) + i] = q[Len(a) + i]
  BY MovedIs
<1> HIDE DEF m
<1>4. /\ b \in Token /\ Len(b) = Len(a) + (Len(m) - Len(to))
      /\ \A i \in 1..Len(a) : b[i] = a[i]
      /\ \A i \in 1..(Len(m) - Len(to)) : b[Len(a) + i] = m[Len(to) + i]
  BY <1>3, MovedIs
<1> HIDE DEF b
<1>5. b \in Seq(Names) /\ Len(b) = Len(q)
  <2>1. Len(b) = Len(q)
    BY <1>1, <1>3, <1>4
  <2>2. QED
    BY <1>4, <2>1, TokenIs
<1>6. ASSUME NEW k \in 1..Len(b) PROVE b[k] = q[k]
  <2>1. CASE k <= Len(a)
    <3>1. k \in 1..Len(a)
      BY <1>1, <1>5, <2>1
    <3>2. QED
      BY <1>2, <1>4, <3>1
  <2>2. CASE ~(k <= Len(a))
    <3> DEFINE i == k - Len(a)
    <3>1. i \in 1..(Len(q) - Len(a)) /\ i \in 1..(Len(m) - Len(to)) /\ Len(a) + i = k
      BY <1>1, <1>2, <1>3, <1>5, <2>2
    <3> HIDE DEF i
    <3>2. b[Len(a) + i] = q[Len(a) + i]
      BY <1>3, <1>4, <3>1
    <3>3. QED
      BY <3>1, <3>2
  <2>3. QED
    BY <2>1, <2>2
<1>7. b = q
  BY <1>1, <1>5, <1>6, SameText
<1>8. QED
  BY <1>7 DEF b, m

LEMMA MovedOnto == \A a, to \in Token : Moved(a, a, to) = to
<1> SUFFICES ASSUME NEW a \in Token, NEW to \in Token PROVE Moved(a, a, to) = to
  OBVIOUS
<1> DEFINE m == Moved(a, a, to)
<1>1. a \in Seq(Names) /\ to \in Seq(Names) /\ Len(a) \in Nat /\ Len(to) \in Nat
  BY TokenIs
<1>2. m \in Token /\ Len(m) = Len(to) + (Len(a) - Len(a)) /\ \A i \in 1..Len(to) : m[i] = to[i]
  BY PrefixSelf, MovedIs
<1> HIDE DEF m
<1>3. m \in Seq(Names) /\ Len(m) = Len(to)
  <2>1. Len(m) = Len(to)
    BY <1>1, <1>2
  <2>2. QED
    BY <1>2, <2>1, TokenIs
<1>4. m = to
  BY <1>1, <1>2, <1>3, SameText
<1>5. QED
  BY <1>4 DEF m

LEMMA MovedOrder == \A a, to, r, s \in Token :
    IsPrefix(a, r) /\ IsPrefix(r, s) => IsPrefix(Moved(r, a, to), Moved(s, a, to))
<1> SUFFICES ASSUME NEW a \in Token, NEW to \in Token, NEW r \in Token, NEW s \in Token, IsPrefix(a, r), IsPrefix(r, s)
             PROVE  IsPrefix(Moved(r, a, to), Moved(s, a, to))
  OBVIOUS
<1> DEFINE m == Moved(r, a, to)
           n == Moved(s, a, to)
<1>1. /\ a \in Seq(Names) /\ to \in Seq(Names) /\ r \in Seq(Names) /\ s \in Seq(Names)
      /\ Len(a) \in Nat /\ Len(to) \in Nat /\ Len(r) \in Nat /\ Len(s) \in Nat
  BY TokenIs
<1>2. Len(a) <= Len(r)
  BY <1>1, PrefixIs
<1>3. Len(r) <= Len(s) /\ \A i \in 1..Len(r) : r[i] = s[i]
  BY <1>1, PrefixIs
<1>4. /\ m \in Token /\ Len(m) = Len(to) + (Len(r) - Len(a))
      /\ \A i \in 1..Len(to) : m[i] = to[i]
      /\ \A i \in 1..(Len(r) - Len(a)) : m[Len(to) + i] = r[Len(a) + i]
  BY MovedIs
<1>5. /\ n \in Token /\ Len(n) = Len(to) + (Len(s) - Len(a))
      /\ \A i \in 1..Len(to) : n[i] = to[i]
      /\ \A i \in 1..(Len(s) - Len(a)) : n[Len(to) + i] = s[Len(a) + i]
  <2>1. IsPrefix(a, s)
    BY PrefixTrans
  <2>2. QED
    BY <2>1, MovedIs
<1> HIDE DEF m, n
<1>6. m \in Seq(Names) /\ n \in Seq(Names)
  BY <1>4, <1>5, TokenIs
<1>7. Len(m) <= Len(n)
  BY <1>1, <1>3, <1>4, <1>5
<1>8. ASSUME NEW k \in 1..Len(m) PROVE m[k] = n[k]
  <2>1. CASE k <= Len(to)
    <3>1. k \in 1..Len(to)
      BY <1>1, <2>1
    <3>2. QED
      BY <1>4, <1>5, <3>1
  <2>2. CASE ~(k <= Len(to))
    <3> DEFINE i == k - Len(to)
    <3>1. /\ i \in 1..(Len(r) - Len(a)) /\ i \in 1..(Len(s) - Len(a)) /\ Len(a) + i \in 1..Len(r) /\ Len(to) + i = k
      BY <1>1, <1>2, <1>3, <1>4, <2>2
    <3> HIDE DEF i
    <3>2. m[Len(to) + i] = n[Len(to) + i]
      BY <1>3, <1>4, <1>5, <3>1
    <3>3. QED
      BY <3>1, <3>2
  <2>3. QED
    BY <2>1, <2>2
<1>9. IsPrefix(m, n)
  BY <1>6, <1>7, <1>8, PrefixIs
<1>10. QED
  BY <1>9 DEF m, n

(* Trees: all that is above a path of one is a directory of it.               *)
Hangs(q, T) == q \in Token /\ \A p \in Token : IsPrefix(p, q) /\ p /= q => p \in DOMAIN T /\ T[p] = "dir"
IsTree(T) == T = [q \in DOMAIN T |-> T[q]] /\ \A q \in DOMAIN T : Hangs(q, T)

(* A tree with the user's files at the paths in E.                            *)
Free(T, E) == E \cap DOMAIN T = {} /\ \A p \in E : Hangs(p, T)
Plus(T, E) == [q \in DOMAIN T \cup E |-> IF q \in E THEN "mine" ELSE T[q]]

Made(T, path) == [q \in DOMAIN T \cup {path} |-> IF q \in DOMAIN T THEN T[q] ELSE "dir"]
Cut(T, path) == [q \in DOMAIN T \ {path} |-> T[q]]

LEMMA HangsIn == \A T : \A q \in Token :
    IsTree(T) /\ Len(q) > 1 /\ Front(q) \in DOMAIN T /\ T[Front(q)] = "dir" => Hangs(q, T)
<1> SUFFICES ASSUME NEW T, NEW q \in Token, IsTree(T), Len(q) > 1, Front(q) \in DOMAIN T, T[Front(q)] = "dir"
             PROVE  Hangs(q, T)
  OBVIOUS
<1>1. \A p \in Token : IsPrefix(p, q) /\ p /= q => IsPrefix(p, Front(q))
  BY FrontIs0
<1>2. \A p \in Token : IsPrefix(p, Front(q)) /\ p /= Front(q) => p \in DOMAIN T /\ T[p] = "dir"
  BY DEF IsTree, Hangs
<1>3. QED
  BY <1>1, <1>2 DEF Hangs

LEMMA FrontHangs ==
    \A T : \A q \in Token : Hangs(q, T) /\ Len(q) > 1 => Front(q) \in DOMAIN T /\ T[Front(q)] = "dir"
  BY FrontIs0 DEF Hangs

(* What a tree has below a path that is not in it: nothing.                   *)
LEMMA NoneBelow ==
    \A T : \A p, q \in Token : Hangs(q, T) /\ p \notin DOMAIN T /\ p /= q => ~IsPrefix(p, q)
  BY DEF Hangs

LEMMA PlusNone == \A T : IsTree(T) => Plus(T, {}) = T
<1> SUFFICES ASSUME NEW T, IsTree(T) PROVE Plus(T, {}) = T
  OBVIOUS
<1>1. Plus(T, {}) = [q \in DOMAIN T |-> T[q]]
  BY DEF Plus
<1>2. QED
  BY <1>1 DEF IsTree

LEMMA MadeCut ==
    ASSUME NEW T, IsTree(T), NEW path, Hangs(path, T), path \notin DOMAIN T,
           NEW E, Free(Made(T, path), E)
    PROVE  /\ IsTree(Made(T, path))
           /\ path \in DOMAIN Plus(Made(T, path), E) /\ Plus(Made(T, path), E)[path] = "dir"
           /\ E = {} => Below(path, Plus(Made(T, path), E)) = {path}
           /\ Below(path, Plus(Made(T, path), E)) = {path} =>
                Cut(Plus(Made(T, path), E), path) = Plus(T, E) /\ Free(T, E)
<1> DEFINE U == Made(T, path)
           H == Plus(U, E)
<1>1. path \in Token /\ \A q \in DOMAIN T : q \in Token /\ Hangs(q, T)
  BY DEF IsTree, Hangs
<1>2. /\ DOMAIN U = DOMAIN T \cup {path} /\ U[path] = "dir" /\ \A q \in DOMAIN T : U[q] = T[q]
      /\ U = [q \in DOMAIN U |-> U[q]]
  BY DEF Made
<1> HIDE DEF U
<1>3. E \cap DOMAIN U = {} /\ \A p \in E : p \in Token /\ Hangs(p, U)
  BY DEF Free, Hangs, U
<1>4. DOMAIN H = DOMAIN U \cup E /\ \A q \in DOMAIN H : H[q] = IF q \in E THEN "mine" ELSE U[q]
  BY DEF Plus
<1>5. IsTree(U)
  <2>1. ASSUME NEW q \in DOMAIN U PROVE Hangs(q, U)
    <3>1. Hangs(q, T)
      BY <1>1, <1>2, <2>1
    <3>2. QED
      BY <1>2, <3>1 DEF Hangs
  <2>2. QED
    BY <1>2, <2>1 DEF IsTree
<1>6. path \in DOMAIN H /\ H[path] = "dir"
  BY <1>2, <1>3, <1>4
<1>7. Below(path, H) \ E = {path}
  <2>1. IsPrefix(path, path)
    BY <1>1, PrefixSelf
  <2>2. ASSUME NEW q \in DOMAIN T PROVE ~IsPrefix(path, q)
    <3>1. q /= path /\ Hangs(q, T) /\ q \in Token
      BY <1>1, <2>2
    <3>2. QED
      BY <1>1, <3>1, NoneBelow
  <2>3. QED
    BY <1>2, <1>3, <1>4, <2>1, <2>2 DEF Below
<1>8. ASSUME Below(path, H) = {path} PROVE Cut(H, path) = Plus(T, E) /\ Free(T, E)
  <2>1. \A p \in E : ~IsPrefix(path, p)
    BY <1>2, <1>3, <1>4, <1>8 DEF Below
  <2>2. Free(T, E)
    <3>1. ASSUME NEW p \in E, NEW s \in Token, IsPrefix(s, p), s /= p PROVE s \in DOMAIN T /\ T[s] = "dir"
      <4>1. s \in DOMAIN U /\ U[s] = "dir"
        BY <1>3, <3>1 DEF Hangs
      <4>2. s /= path
        BY <2>1, <3>1
      <4>3. QED
        BY <1>2, <4>1, <4>2
    <3>2. QED
      BY <1>2, <1>3, <3>1 DEF Free, Hangs
  <2>3. DOMAIN H \ {path} = DOMAIN T \cup E
    BY <1>2, <1>3, <1>4
  <2>4. \A q \in DOMAIN T \cup E : H[q] = IF q \in E THEN "mine" ELSE T[q]
    BY <1>2, <1>4
  <2>5. Cut(H, path) = [q \in DOMAIN T \cup E |-> H[q]]
    BY <2>3 DEF Cut
  <2>6. Cut(H, path) = Plus(T, E)
    BY <2>4, <2>5 DEF Plus
  <2>7. QED
    BY <2>2, <2>6
<1>9. QED
  BY <1>5, <1>6, <1>7, <1>8 DEF U, H

(* The tree a move leaves.                                                    *)
Shifted(T, a, to) ==
    LET stay == DOMAIN T \ (Below(a, T) \cup {to})
    IN  [q \in stay \cup {Moved(r, a, to) : r \in Below(a, T)} |-> IF q \in stay THEN T[q] ELSE T[Moved(q, to, a)]]

(* A move to where nothing is, of a that is there and not above it.           *)
Movable(T, a, to) == /\ IsTree(T) /\ a \in DOMAIN T /\ to \notin DOMAIN T /\ Hangs(to, T) /\ ~IsPrefix(a, to)

Stays(T, a, U) == \A q \in DOMAIN T : ~IsPrefix(a, q) => q \in DOMAIN U /\ U[q] = T[q]
Carries(T, a, to, U) == \A r \in DOMAIN T : IsPrefix(a, r) =>
    /\ Moved(r, a, to) \in Token /\ IsPrefix(to, Moved(r, a, to))
    /\ Moved(r, a, to) \in DOMAIN U /\ U[Moved(r, a, to)] = T[r]
Comes(T, a, to, U) == \A q \in DOMAIN U :
    \/ q \in DOMAIN T /\ ~IsPrefix(a, q) /\ ~IsPrefix(to, q)
    \/ q \in Token /\ IsPrefix(to, q) /\ q \notin DOMAIN T
       /\ Moved(q, to, a) \in DOMAIN T /\ IsPrefix(a, Moved(q, to, a)) /\ Moved(Moved(q, to, a), a, to) = q

LEMMA ShiftedIs ==
    ASSUME NEW T, NEW a, NEW to, Movable(T, a, to)
    PROVE  /\ a \in Token /\ to \in Token /\ ~IsPrefix(to, a) /\ \A q \in DOMAIN T : ~IsPrefix(to, q)
           /\ DOMAIN Shifted(T, a, to) = (DOMAIN T \ Below(a, T)) \cup {Moved(r, a, to) : r \in Below(a, T)}
           /\ Stays(T, a, Shifted(T, a, to)) /\ Carries(T, a, to, Shifted(T, a, to)) /\ Comes(T, a, to, Shifted(T, a, to))
           /\ IsTree(Shifted(T, a, to))
<1> DEFINE U == Shifted(T, a, to)
           stay == DOMAIN T \ (Below(a, T) \cup {to})
           B == Below(a, T)
<1>1. /\ \A q \in DOMAIN T : q \in Token /\ Hangs(q, T)
      /\ a \in DOMAIN T /\ a \in Token /\ to \in Token /\ to \notin DOMAIN T /\ Hangs(to, T) /\ ~IsPrefix(a, to)
  BY DEF Movable, IsTree, Hangs
<1>2. \A q \in DOMAIN T : ~IsPrefix(to, q)
  <2> SUFFICES ASSUME NEW q \in DOMAIN T PROVE ~IsPrefix(to, q)
    OBVIOUS
  <2>1. q \in Token /\ Hangs(q, T) /\ to /= q
    BY <1>1
  <2>2. QED
    BY <1>1, <2>1, NoneBelow
<1>3. stay = DOMAIN T \ B /\ B = {q \in DOMAIN T : IsPrefix(a, q)}
  BY <1>1 DEF Below
<1>4. \A r \in B : Moved(r, a, to) \in Token /\ IsPrefix(to, Moved(r, a, to)) /\ Moved(Moved(r, a, to), to, a) = r
  BY <1>1, <1>3, MovedIs, MovedBack
<1>5. U = [q \in stay \cup {Moved(r, a, to) : r \in B} |-> IF q \in stay THEN T[q] ELSE T[Moved(q, to, a)]]
  BY DEF Shifted
<1> HIDE DEF U, stay, B
<1>6. /\ DOMAIN U = stay \cup {Moved(r, a, to) : r \in B} /\ U = [q \in DOMAIN U |-> U[q]]
      /\ \A q \in DOMAIN U : U[q] = IF q \in stay THEN T[q] ELSE T[Moved(q, to, a)]
  BY <1>5
<1>7. ASSUME NEW r \in B
      PROVE  Moved(r, a, to) \in DOMAIN U /\ Moved(r, a, to) \notin DOMAIN T /\ U[Moved(r, a, to)] = T[r]
  <2>1. Moved(r, a, to) \in DOMAIN U
    BY <1>6
  <2>2. Moved(r, a, to) \notin DOMAIN T
    BY <1>2, <1>4
  <2>3. QED
    BY <1>3, <1>4, <1>6, <2>1, <2>2
<1>8. \A q \in DOMAIN T : ~IsPrefix(a, q) => q \in DOMAIN U /\ U[q] = T[q]
  BY <1>3, <1>6
<1>9. ASSUME NEW q \in DOMAIN U
      PROVE  \/ q \in DOMAIN T /\ ~IsPrefix(a, q) /\ ~IsPrefix(to, q)
             \/ q \in Token /\ IsPrefix(to, q) /\ q \notin DOMAIN T
                /\ Moved(q, to, a) \in DOMAIN T /\ IsPrefix(a, Moved(q, to, a)) /\ Moved(Moved(q, to, a), a, to) = q
  <2>1. CASE q \in stay
    BY <1>2, <1>3, <2>1
  <2>2. CASE q \notin stay
    <3>1. PICK r \in B : q = Moved(r, a, to)
      BY <1>6, <2>2
    <3>2. q \in Token /\ IsPrefix(to, q) /\ Moved(q, to, a) = r
      BY <1>4, <3>1
    <3>3. q \notin DOMAIN T
      BY <1>7, <3>1
    <3>4. r \in DOMAIN T /\ IsPrefix(a, r)
      BY <1>3
    <3>5. QED
      BY <3>1, <3>2, <3>3, <3>4
  <2>3. QED
    BY <2>1, <2>2
<1>10. ASSUME NEW q \in DOMAIN U PROVE Hangs(q, U)
  <2>1. CASE q \in DOMAIN T /\ ~IsPrefix(a, q)
    <3>1. q \in Token /\ \A p \in Token : IsPrefix(p, q) /\ p /= q => p \in DOMAIN T /\ T[p] = "dir"
      BY <1>1, <2>1 DEF Hangs
    <3>2. ASSUME NEW p \in Token, IsPrefix(p, q), p /= q PROVE p \in DOMAIN U /\ U[p] = "dir"
      <4>1. p \in DOMAIN T /\ T[p] = "dir"
        BY <3>1, <3>2
      <4>2. ~IsPrefix(a, p)
        BY <1>1, <2>1, <3>1, <3>2, PrefixTrans
      <4>3. QED
        BY <1>8, <4>1, <4>2
    <3>3. QED
      BY <3>1, <3>2 DEF Hangs
  <2>2. CASE ~(q \in DOMAIN T /\ ~IsPrefix(a, q))
    <3> DEFINE r == Moved(q, to, a)
    <3>1. q \in Token /\ IsPrefix(to, q) /\ r \in DOMAIN T /\ IsPrefix(a, r) /\ Moved(r, a, to) = q
      BY <1>9, <2>2
    <3>2. r \in Token /\ Hangs(r, T)
      BY <1>1, <3>1
    <3>3. ASSUME NEW p \in Token, IsPrefix(p, q), p /= q PROVE p \in DOMAIN U /\ U[p] = "dir"
      <4>1. IsPrefix(p, to) \/ IsPrefix(to, p)
        BY <1>1, <3>1, <3>3, PrefixLine
      <4>2. CASE IsPrefix(to, p)
        <5> DEFINE s == Moved(p, to, a)
        <5>1. s \in Token /\ IsPrefix(a, s) /\ Moved(s, a, to) = p
          BY <1>1, <4>2, MovedIs, MovedBack
        <5>2. IsPrefix(s, r)
          BY <1>1, <3>1, <3>3, <4>2, MovedOrder
        <5>3. s /= r
          BY <3>1, <3>3, <5>1
        <5> HIDE DEF s, r
        <5>4. s \in DOMAIN T /\ T[s] = "dir"
          BY <3>2, <5>1, <5>2, <5>3 DEF Hangs
        <5>5. s \in B
          BY <1>3, <5>1, <5>4
        <5>6. QED
          BY <1>7, <5>1, <5>4, <5>5
      <4>3. CASE ~IsPrefix(to, p)
        <5>1. IsPrefix(p, to) /\ p /= to
          BY <1>1, <4>1, <4>3, PrefixSelf
        <5>2. p \in DOMAIN T /\ T[p] = "dir"
          BY <1>1, <5>1 DEF Hangs
        <5>3. ~IsPrefix(a, p)
          BY <1>1, <3>3, <5>1, PrefixTrans
        <5>4. QED
          BY <1>8, <5>2, <5>3
      <4>4. QED
        BY <4>2, <4>3
    <3>4. QED
      BY <3>1, <3>3 DEF Hangs
  <2>3. QED
    BY <2>1, <2>2
<1>11. IsTree(U)
  BY <1>6, <1>10 DEF IsTree
<1>12. ~IsPrefix(to, a)
  BY <1>1, <1>2
<1>13. DOMAIN U = (DOMAIN T \ Below(a, T)) \cup {Moved(r, a, to) : r \in Below(a, T)}
  BY <1>3, <1>6 DEF B
<1>14. \A r \in DOMAIN T : IsPrefix(a, r) =>
         /\ Moved(r, a, to) \in Token /\ IsPrefix(to, Moved(r, a, to))
         /\ Moved(r, a, to) \in DOMAIN U /\ U[Moved(r, a, to)] = T[r]
  BY <1>3, <1>4, <1>7
<1>15. Stays(T, a, U) /\ Carries(T, a, to, U) /\ Comes(T, a, to, U)
  <2>1. Stays(T, a, U)
    BY <1>8 DEF Stays
  <2>2. Carries(T, a, to, U)
    BY <1>14 DEF Carries
  <2>3. Comes(T, a, to, U)
    BY <1>9 DEF Comes
  <2>4. QED
    BY <2>1, <2>2, <2>3
<1>16. QED
  BY <1>1, <1>2, <1>11, <1>12, <1>13, <1>15 DEF U

LEMMA ShiftedStays ==
  ASSUME NEW T, NEW a, NEW to, Movable(T, a, to)
  PROVE  Stays(T, a, Shifted(T, a, to))
  BY ShiftedIs
LEMMA ShiftedCarries ==
  ASSUME NEW T, NEW a, NEW to, Movable(T, a, to)
  PROVE  Carries(T, a, to, Shifted(T, a, to))
  BY ShiftedIs
LEMMA ShiftedComes ==
  ASSUME NEW T, NEW a, NEW to, Movable(T, a, to)
  PROVE  Comes(T, a, to, Shifted(T, a, to))
  BY ShiftedIs

(* Where the user's files are once what is below to has gone back below a.    *)
Carried(E, a, to) == {p \in E : ~IsPrefix(to, p) /\ p /= a} \cup {Moved(p, to, a) : p \in {q \in E : IsPrefix(to, q)}}

(* The move back, with files of the user in the tree it finds.                *)
LEMMA CarriedFree ==
    ASSUME NEW T, NEW a, NEW to, Movable(T, a, to), NEW E, Free(Shifted(T, a, to), E)
    PROVE  Free(T, Carried(E, a, to))
<1> DEFINE U == Shifted(T, a, to)
<1>1. /\ a \in Token /\ to \in Token /\ ~IsPrefix(to, a)
      /\ a \in DOMAIN T /\ Hangs(a, T) /\ \A q \in DOMAIN T : q \in Token
  BY ShiftedIs DEF Movable, IsTree, Hangs
<1>2. \A q \in DOMAIN T : ~IsPrefix(a, q) => q \in DOMAIN U /\ U[q] = T[q]
  BY ShiftedStays DEF Stays
<1>3. ASSUME NEW r \in DOMAIN T, IsPrefix(a, r) PROVE Moved(r, a, to) \in DOMAIN U /\ U[Moved(r, a, to)] = T[r]
  BY <1>3, ShiftedCarries DEF Carries
<1>4. \A q \in DOMAIN U :
         \/ q \in DOMAIN T /\ ~IsPrefix(a, q) /\ ~IsPrefix(to, q)
         \/ q \in Token /\ IsPrefix(to, q) /\ q \notin DOMAIN T
            /\ Moved(q, to, a) \in DOMAIN T /\ IsPrefix(a, Moved(q, to, a)) /\ Moved(Moved(q, to, a), a, to) = q
  BY ShiftedComes DEF Comes
<1> HIDE DEF U
<1>5. E \cap DOMAIN U = {} /\ \A p \in E : p \in Token /\ Hangs(p, U)
  BY DEF Free, Hangs, U
<1>6. a \notin DOMAIN U
  BY <1>1, <1>4, PrefixSelf
<1>7. ASSUME NEW p \in E, ~IsPrefix(to, p), p /= a PROVE p \notin DOMAIN T /\ Hangs(p, T)
  <2>1. ~IsPrefix(a, p)
    BY <1>1, <1>5, <1>6, <1>7 DEF Hangs
  <2>2. p \notin DOMAIN T
    BY <1>2, <1>5, <2>1
  <2>3. ASSUME NEW s \in Token, IsPrefix(s, p), s /= p PROVE s \in DOMAIN T /\ T[s] = "dir"
    <3>1. s \in DOMAIN U /\ U[s] = "dir"
      BY <1>5, <2>3 DEF Hangs
    <3>2. ~IsPrefix(to, s)
      BY <1>1, <1>5, <1>7, <2>3, PrefixTrans
    <3>3. QED
      BY <1>2, <1>4, <3>1, <3>2
  <2>4. QED
    BY <1>5, <2>2, <2>3 DEF Hangs
<1>8. ASSUME NEW p \in E, IsPrefix(to, p) PROVE Moved(p, to, a) \notin DOMAIN T /\ Hangs(Moved(p, to, a), T)
  <2> DEFINE r == Moved(p, to, a)
  <2>1. r \in Token /\ IsPrefix(a, r) /\ Moved(r, a, to) = p
    BY <1>1, <1>5, <1>8, MovedIs, MovedBack
  <2> HIDE DEF r
  <2>2. r \notin DOMAIN T
    BY <1>3, <1>5, <2>1
  <2>3. ASSUME NEW s \in Token, IsPrefix(s, r), s /= r PROVE s \in DOMAIN T /\ T[s] = "dir"
    <3>1. IsPrefix(s, a) \/ IsPrefix(a, s)
      BY <1>1, <2>1, <2>3, PrefixLine
    <3>2. CASE IsPrefix(a, s)
      <4> DEFINE u == Moved(s, a, to)
      <4>1. u \in Token /\ IsPrefix(to, u) /\ Moved(u, to, a) = s
        BY <1>1, <3>2, MovedIs, MovedBack
      <4>2. IsPrefix(u, p)
        BY <1>1, <2>1, <2>3, <3>2, MovedOrder
      <4>3. u /= p
        BY <2>3, <4>1 DEF r
      <4>4. u \in DOMAIN U /\ U[u] = "dir"
        <5> HIDE DEF u
        <5>1. QED
          BY <1>5, <4>1, <4>2, <4>3 DEF Hangs
      <4>5. s \in DOMAIN T
        <5> HIDE DEF u
        <5>1. QED
          BY <1>4, <4>1, <4>4
      <4>6. QED
        BY <1>3, <3>2, <4>4, <4>5
    <3>3. CASE ~IsPrefix(a, s)
      <4>1. IsPrefix(s, a) /\ s /= a
        BY <1>1, <3>1, <3>3, PrefixSelf
      <4>2. QED
        BY <1>1, <4>1 DEF Hangs
    <3>4. QED
      BY <3>2, <3>3
  <2>4. QED
    BY <2>1, <2>2, <2>3 DEF Hangs, r
<1>9. \A p \in Carried(E, a, to) : p \notin DOMAIN T /\ Hangs(p, T)
  BY <1>7, <1>8 DEF Carried
<1>10. QED
  BY <1>9 DEF Free

LEMMA ShiftBack ==
    ASSUME NEW T, NEW a, NEW to, Movable(T, a, to), NEW E, Free(Shifted(T, a, to), E)
    PROVE  Shifted(Plus(Shifted(T, a, to), E), to, a) = Plus(T, Carried(E, a, to))
<1> DEFINE U == Shifted(T, a, to)
           H == Plus(U, E)
           G == Carried(E, a, to)
           stay == DOMAIN H \ (Below(to, H) \cup {a})
           F == Shifted(H, to, a)
<1>1. /\ a \in Token /\ to \in Token /\ ~IsPrefix(to, a)
      /\ a \in DOMAIN T /\ \A q \in DOMAIN T : q \in Token /\ ~IsPrefix(to, q)
  BY ShiftedIs DEF Movable, IsTree, Hangs
<1>2. \A q \in DOMAIN T : ~IsPrefix(a, q) => q \in DOMAIN U /\ U[q] = T[q]
  BY ShiftedStays DEF Stays
<1>3. ASSUME NEW r \in DOMAIN T, IsPrefix(a, r)
      PROVE  Moved(r, a, to) \in DOMAIN U /\ U[Moved(r, a, to)] = T[r] /\ IsPrefix(to, Moved(r, a, to))
  BY <1>3, ShiftedCarries DEF Carries
<1>4. \A q \in DOMAIN U :
         \/ q \in DOMAIN T /\ ~IsPrefix(a, q) /\ ~IsPrefix(to, q)
         \/ q \in Token /\ IsPrefix(to, q) /\ q \notin DOMAIN T
            /\ Moved(q, to, a) \in DOMAIN T /\ IsPrefix(a, Moved(q, to, a)) /\ Moved(Moved(q, to, a), a, to) = q
  BY ShiftedComes DEF Comes
<1>5. G \cap DOMAIN T = {}
  BY CarriedFree DEF Free
<1>6. F = [q \in stay \cup {Moved(r, to, a) : r \in Below(to, H)} |-> IF q \in stay THEN H[q] ELSE H[Moved(q, a, to)]]
  BY DEF Shifted
<1> HIDE DEF U, F
<1>7. E \cap DOMAIN U = {} /\ \A p \in E : p \in Token
  BY DEF Free, Hangs, U
<1>8. DOMAIN H = DOMAIN U \cup E /\ \A q \in DOMAIN H : H[q] = IF q \in E THEN "mine" ELSE U[q]
  BY DEF Plus
<1>9. /\ \A p \in E : ~IsPrefix(to, p) /\ p /= a => p \in G
      /\ \A p \in E : IsPrefix(to, p) => Moved(p, to, a) \in G
      /\ \A q \in G : (q \in E /\ ~IsPrefix(to, q) /\ q /= a) \/ \E p \in E : IsPrefix(to, p) /\ q = Moved(p, to, a)
  BY DEF Carried
<1>10. Plus(T, G) = [q \in DOMAIN T \cup G |-> IF q \in G THEN "mine" ELSE T[q]]
  BY DEF Plus
<1>11. Below(to, H) = {q \in DOMAIN H : IsPrefix(to, q)}
  BY DEF Below
<1> HIDE DEF H, G
<1>12. ASSUME NEW q \in stay PROVE q \in DOMAIN T \cup G /\ H[q] = IF q \in G THEN "mine" ELSE T[q]
  <2>1. q \in DOMAIN H /\ ~IsPrefix(to, q) /\ q /= a
    BY <1>11
  <2>2. CASE q \in E
    <3>1. q \in G
      BY <1>9, <2>1, <2>2
    <3>2. QED
      BY <1>8, <2>1, <2>2, <3>1
  <2>3. CASE q \notin E
    <3>1. q \in DOMAIN U
      BY <1>8, <2>1, <2>3
    <3>2. q \in DOMAIN T /\ ~IsPrefix(a, q)
      BY <1>4, <2>1, <3>1
    <3>3. QED
      BY <1>2, <1>5, <1>8, <2>1, <2>3, <3>2
  <2>4. QED
    BY <2>2, <2>3
<1>13. ASSUME NEW r \in Below(to, H)
       PROVE  /\ Moved(r, to, a) \in DOMAIN T \cup G
              /\ Moved(Moved(r, to, a), a, to) = r
              /\ H[r] = IF Moved(r, to, a) \in G THEN "mine" ELSE T[Moved(r, to, a)]
  <2>1. r \in DOMAIN H /\ IsPrefix(to, r)
    BY <1>11
  <2>2. r \in Token
    BY <1>4, <1>1, <1>7, <1>8, <2>1
  <2>3. Moved(Moved(r, to, a), a, to) = r
    BY <1>1, <2>1, <2>2, MovedBack
  <2>4. CASE r \in E
    <3>1. Moved(r, to, a) \in G
      BY <1>9, <2>1, <2>4
    <3>2. QED
      BY <1>8, <2>1, <2>3, <2>4, <3>1
  <2>5. CASE r \notin E
    <3>1. r \in DOMAIN U /\ H[r] = U[r]
      BY <1>8, <2>1, <2>5
    <3>2. Moved(r, to, a) \in DOMAIN T /\ IsPrefix(a, Moved(r, to, a))
      BY <1>4, <2>1, <3>1
    <3>3. U[r] = T[Moved(r, to, a)]
      <4> DEFINE s == Moved(r, to, a)
      <4>1. s \in DOMAIN T /\ IsPrefix(a, s) /\ Moved(s, a, to) = r
        BY <2>3, <3>2
      <4> HIDE DEF s
      <4>2. U[r] = T[s]
        BY <1>3, <4>1
      <4>3. QED
        BY <4>2 DEF s
    <3>4. Moved(r, to, a) \notin G
      BY <1>5, <3>2
    <3>5. QED
      BY <2>3, <3>1, <3>2, <3>3, <3>4
  <2>6. QED
    BY <2>4, <2>5
<1>14. ASSUME NEW q \in DOMAIN T PROVE q \in stay \cup {Moved(r, to, a) : r \in Below(to, H)}
  <2>1. CASE IsPrefix(a, q)
    <3> DEFINE r == Moved(q, a, to)
    <3>1. r \in Below(to, H)
      BY <1>3, <1>8, <1>11, <2>1
    <3>2. Moved(r, to, a) = q
      BY <1>1, <2>1, MovedBack
    <3> HIDE DEF r
    <3>3. QED
      BY <3>1, <3>2
  <2>2. CASE ~IsPrefix(a, q)
    BY <1>1, <1>2, <1>8, <1>11, <2>2, PrefixSelf
  <2>3. QED
    BY <2>1, <2>2
<1>15. ASSUME NEW q \in G PROVE q \in stay \cup {Moved(r, to, a) : r \in Below(to, H)}
  <2>1. CASE q \in E /\ ~IsPrefix(to, q) /\ q /= a
    BY <1>8, <1>11, <2>1
  <2>2. CASE \E p \in E : IsPrefix(to, p) /\ q = Moved(p, to, a)
    BY <1>8, <1>11, <2>2
  <2>3. QED
    BY <1>9, <2>1, <2>2
<1> DEFINE D == stay \cup {Moved(r, to, a) : r \in Below(to, H)}
<1>16. D = DOMAIN T \cup G
  BY <1>12, <1>13, <1>14, <1>15
<1>17. ASSUME NEW q \in D
       PROVE  (IF q \in stay THEN H[q] ELSE H[Moved(q, a, to)]) = IF q \in G THEN "mine" ELSE T[q]
  <2>1. CASE q \in stay
    BY <1>12, <2>1
  <2>2. CASE q \notin stay
    <3>1. PICK r \in Below(to, H) : q = Moved(r, to, a)
      BY <1>17, <2>2
    <3>2. Moved(q, a, to) = r /\ H[r] = IF q \in G THEN "mine" ELSE T[q]
      BY <1>13, <3>1
    <3>3. QED
      BY <2>2, <3>2
  <2>3. QED
    BY <2>1, <2>2
<1>18. F = [q \in D |-> IF q \in stay THEN H[q] ELSE H[Moved(q, a, to)]]
  BY <1>6
<1> HIDE DEF D, stay
<1>19. F = Plus(T, G)
  BY <1>10, <1>16, <1>17, <1>18
<1>20. QED
  BY <1>19 DEF F, H, U, G

(* A file of the user's apart from the move stays where it is.                *)
LEMMA CarriedApart ==
    \A E, a, to : (\A p \in E : p /= a /\ ~IsPrefix(to, p)) => Carried(E, a, to) = E
  BY DEF Carried

LEMMA CarriedNone == \A E, a, to : a \notin E => (Carried(E, a, to) = {} <=> E = {})
  BY DEF Carried

(* What the files of a tree hold.                                             *)
HeldBy(T) == {T[q] : q \in DOMAIN T} \ {"dir"}

LEMMA HeldMade == \A T, path : HeldBy(Made(T, path)) = HeldBy(T)
  BY DEF HeldBy, Made

LEMMA HeldShifted ==
  ASSUME NEW T, NEW a, NEW to, Movable(T, a, to)
  PROVE  HeldBy(Shifted(T, a, to)) = HeldBy(T)
<1> DEFINE U == Shifted(T, a, to)
<1>1. \A q \in DOMAIN T : ~IsPrefix(a, q) => q \in DOMAIN U /\ U[q] = T[q]
  BY ShiftedStays DEF Stays
<1>2. \A r \in DOMAIN T : IsPrefix(a, r) => Moved(r, a, to) \in DOMAIN U /\ U[Moved(r, a, to)] = T[r]
  BY ShiftedCarries DEF Carries
<1>3. \A q \in DOMAIN U :
         \/ q \in DOMAIN T /\ ~IsPrefix(a, q)
         \/ Moved(q, to, a) \in DOMAIN T /\ IsPrefix(a, Moved(q, to, a)) /\ Moved(Moved(q, to, a), a, to) = q
  BY ShiftedComes DEF Comes
<1> HIDE DEF U
<1>4. \A q \in DOMAIN T : \E s \in DOMAIN U : U[s] = T[q]
  BY <1>1, <1>2
<1>5. ASSUME NEW q \in DOMAIN U PROVE \E s \in DOMAIN T : U[q] = T[s]
  <2>1. CASE q \in DOMAIN T /\ ~IsPrefix(a, q)
    BY <1>1, <2>1
  <2>2. CASE Moved(q, to, a) \in DOMAIN T /\ IsPrefix(a, Moved(q, to, a)) /\ Moved(Moved(q, to, a), a, to) = q
    <3> DEFINE s == Moved(q, to, a)
    <3>1. s \in DOMAIN T /\ IsPrefix(a, s) /\ Moved(s, a, to) = q
      BY <2>2
    <3> HIDE DEF s
    <3>2. U[q] = T[s]
      BY <1>2, <3>1
    <3>3. QED
      BY <3>1, <3>2
  <2>3. QED
    BY <1>3, <2>1, <2>2
<1>6. {U[q] : q \in DOMAIN U} = {T[q] : q \in DOMAIN T}
  BY <1>4, <1>5
<1>7. QED
  BY <1>6 DEF HeldBy, U

LEMMA HeldPlus ==
    \A T, E : E \cap DOMAIN T = {} => HeldBy(Plus(T, E)) = HeldBy(T) \cup {x \in {"mine"} : E /= {}}
<1> SUFFICES ASSUME NEW T, NEW E, E \cap DOMAIN T = {}
             PROVE  HeldBy(Plus(T, E)) = HeldBy(T) \cup {x \in {"mine"} : E /= {}}
  OBVIOUS
<1> DEFINE H == Plus(T, E)
<1>1. DOMAIN H = DOMAIN T \cup E /\ \A q \in DOMAIN T \cup E : H[q] = IF q \in E THEN "mine" ELSE T[q]
  BY DEF Plus
<1> HIDE DEF H
<1>2. \A q \in DOMAIN T : q \in DOMAIN H /\ H[q] = T[q]
  BY <1>1
<1>3. \A q \in E : q \in DOMAIN H /\ H[q] = "mine"
  BY <1>1
<1>4. {H[q] : q \in DOMAIN H} = {T[q] : q \in DOMAIN T} \cup {x \in {"mine"} : E /= {}}
  BY <1>1, <1>2, <1>3
<1>5. "mine" /= "dir"
  OBVIOUS
<1>6. QED
  BY <1>4, <1>5 DEF HeldBy, H

LEMMA PlusLess == ASSUME NEW T, IsTree(T), "mine" \notin HeldBy(T), NEW E, Free(T, E)
                  PROVE  [q \in {p \in DOMAIN Plus(T, E) : Plus(T, E)[p] /= "mine"} |-> Plus(T, E)[q]] = T
<1> DEFINE H == Plus(T, E)
           D == {p \in DOMAIN H : H[p] /= "mine"}
<1>1. DOMAIN H = DOMAIN T \cup E /\ \A q \in DOMAIN T \cup E : H[q] = IF q \in E THEN "mine" ELSE T[q]
  BY DEF Plus
<1>2. E \cap DOMAIN T = {} /\ T = [q \in DOMAIN T |-> T[q]]
  BY DEF Free, IsTree
<1>3. "mine" /= "dir"
  OBVIOUS
<1>4. \A q \in DOMAIN T : T[q] /= "mine"
  BY <1>3 DEF HeldBy
<1> HIDE DEF H
<1>5. D = DOMAIN T
  BY <1>1, <1>2, <1>4
<1>6. \A q \in D : H[q] = T[q]
  BY <1>1, <1>2, <1>5
<1>7. [q \in D |-> H[q]] = [q \in DOMAIN T |-> T[q]]
  BY <1>5, <1>6
<1>8. QED
  BY <1>2, <1>7 DEF H

(* Machines by their parts.                                                   *)
Mach(T, P, N, A) == [tree |-> T, packages |-> P, enabled |-> N, active |-> A]
Put(m, E) == Mach(Plus(m.tree, E), m.packages, m.enabled, m.active)

LEMMA MachIs == ASSUME NEW m, IsMachine(m)
                PROVE  /\ m = Mach(m.tree, m.packages, m.enabled, m.active) /\ IsTree(m.tree)
                       /\ m.enabled \cup m.active \subseteq m.packages
<1> DEFINE T == [q \in DOMAIN m.tree |-> m.tree[q]]
<1>1. m = [tree |-> T, packages |-> m.packages, enabled |-> m.enabled, active |-> m.active]
  BY DEF IsMachine
<1> HIDE DEF T
<1>2. m.tree = T
  BY <1>1
<1>3. m = Mach(m.tree, m.packages, m.enabled, m.active)
  BY <1>1, <1>2 DEF Mach
<1>4. \A q \in DOMAIN m.tree : Hangs(q, m.tree)
  BY ParentIs DEF IsMachine, Hangs
<1>5. IsTree(m.tree)
  BY <1>2, <1>4 DEF IsTree, T
<1>6. QED
  BY <1>3, <1>5 DEF IsMachine

LEMMA MachineIs == \A T, P, N, A : IsTree(T) /\ N \cup A \subseteq P => IsMachine(Mach(T, P, N, A))
<1> SUFFICES ASSUME NEW T, NEW P, NEW N, NEW A, IsTree(T), N \cup A \subseteq P PROVE IsMachine(Mach(T, P, N, A))
  OBVIOUS
<1> DEFINE m == Mach(T, P, N, A)
<1>1. m.tree = T /\ m.packages = P /\ m.enabled = N /\ m.active = A
  BY DEF Mach
<1>2. T = [q \in DOMAIN T |-> T[q]]
  BY DEF IsTree
<1>3. m = [tree |-> [q \in DOMAIN m.tree |-> m.tree[q]], packages |-> m.packages, enabled |-> m.enabled, active |-> m.active]
  BY <1>1, <1>2 DEF Mach
<1>4. \A q \in DOMAIN T : q \in Token /\ \A p \in Parents(q) : p \in DOMAIN T /\ T[p] = "dir"
  BY ParentIs DEF IsTree, Hangs
<1> HIDE DEF m
<1>5. QED
  BY <1>1, <1>3, <1>4 DEF IsMachine, m

LEMMA MachParts == \A T, P, N, A : /\ Mach(T, P, N, A).tree = T /\ Mach(T, P, N, A).packages = P
                                   /\ Mach(T, P, N, A).enabled = N /\ Mach(T, P, N, A).active = A
                                   /\ \A U : [Mach(T, P, N, A) EXCEPT !.tree = U] = Mach(U, P, N, A)
  BY DEF Mach

(* ------------------------- what the commands do to trees --------------------- *)

LEMMA AttemptIs == \A ok, m, new : /\ Attempt(ok, m, new).ok = ok /\ (ok => Attempt(ok, m, new).host = new)
                                   /\ (~ok => Attempt(ok, m, new).host = m)
  BY DEF Attempt

(* There is no path of no names.                                              *)
LEMMA LongEnough == ASSUME NEW T, IsTree(T), NEW q \in Token, Front(q) \in DOMAIN T PROVE Len(q) > 1
<1>1. q \in Seq(Names) /\ Len(q) \in Nat /\ Len(q) > 0 /\ Front(q) \in Token
  BY TokenIs DEF IsTree, Hangs
<1>2. ASSUME Len(q) = 1 PROVE FALSE
  <2> DEFINE n == Len(q) - 1
             f == SubSeq(q, 1, n)
  <2>1. Front(q) = f
    BY DEF Front
  <2>2. n = 0
    BY <1>2
  <2> HIDE DEF n
  <2>3. 1 \in Int /\ n \in Int /\ 1 <= 1 /\ n <= Len(q)
    BY <1>1, <2>2
  <2>4. Len(f) = IF 1 <= n THEN n - 1 + 1 ELSE 0
    BY <1>1, <2>3, Subs
  <2> HIDE DEF f
  <2>5. Len(f) = 0 /\ f \in Token
    BY <1>1, <2>1, <2>2, <2>4
  <2>6. QED
    BY <2>5, TokenIs
<1>3. QED
  <2> DEFINE n == Len(q)
  <2>1. n \in Nat /\ n > 0 /\ n /= 1
    BY <1>1, <1>2, TokenIs
  <2> HIDE DEF n
  <2>2. n > 1
    BY <2>1
  <2>3. QED
    BY <2>2 DEF n

LEMMA MakeDirIs ==
    ASSUME NEW T, NEW P, NEW N, NEW A, IsTree(T), NEW path \in Token, NEW parents, NEW root,
           parents => Front(path) \in DOMAIN T, MakeDir(Mach(T, P, N, A), path, parents, root).ok
    PROVE  /\ path \notin DOMAIN T /\ Hangs(path, T) /\ (Guarded(path) => root)
           /\ MakeDir(Mach(T, P, N, A), path, parents, root).host = Mach(Made(T, path), P, N, A)
<1> DEFINE m == Mach(T, P, N, A)
           D == DOMAIN T \cup Parents(path) \cup {path}
           U == [q \in D |-> IF q \in DOMAIN T THEN T[q] ELSE "dir"]
           good == /\ path \notin DOMAIN m.tree /\ (parents \/ Front(path) \in DOMAIN m.tree)
                   /\ \A q \in Parents(path) \cap DOMAIN m.tree : m.tree[q] = "dir"
                   /\ Guarded(path) => root
           new == [m EXCEPT !.tree = [q \in DOMAIN m.tree \cup Parents(path) \cup {path} |-> IF q \in DOMAIN m.tree THEN m.tree[q] ELSE "dir"]]
<1>1. MakeDir(m, path, parents, root) = Attempt(good, m, new)
  BY DEF MakeDir
<1>2. m.tree = T
  BY MachParts
<1>3. new = Mach(U, P, N, A)
  BY DEF Mach
<1> HIDE DEF new, m, good
<1>4. good /\ MakeDir(m, path, parents, root).host = Mach(U, P, N, A)
  BY <1>1, <1>3, AttemptIs DEF m
<1>5. /\ path \notin DOMAIN T /\ Front(path) \in DOMAIN T /\ (Guarded(path) => root)
      /\ \A q \in Parents(path) : q \in DOMAIN T => T[q] = "dir"
  BY <1>2, <1>4 DEF good
<1>6. Len(path) > 1
  BY <1>5, LongEnough
<1>7. Front(path) \in Parents(path) /\ T[Front(path)] = "dir"
  BY <1>5, <1>6, FrontIs0, ParentIs
<1>8. Hangs(path, T)
  BY <1>5, <1>6, <1>7, HangsIn
<1>9. Parents(path) \subseteq DOMAIN T
  BY <1>8, ParentIs DEF Hangs
<1>10. D = DOMAIN T \cup {path}
  BY <1>9
<1>11. U = Made(T, path)
  BY <1>10 DEF Made
<1>12. QED
  BY <1>4, <1>5, <1>8, <1>11 DEF m

LEMMA RemoveIs ==
    ASSUME NEW T, NEW P, NEW N, NEW A, NEW path, NEW kinds, NEW root
    PROVE  /\ RemoveEmpty(Mach(T, P, N, A), path, kinds, root).ok <=>
                path \in DOMAIN T /\ Below(path, T) = {path} /\ T[path] \in kinds /\ (Guarded(path) => root)
           /\ RemoveEmpty(Mach(T, P, N, A), path, kinds, root).ok =>
                RemoveEmpty(Mach(T, P, N, A), path, kinds, root).host = Mach(Cut(T, path), P, N, A)
<1> DEFINE m == Mach(T, P, N, A)
           good == /\ path \in DOMAIN m.tree /\ Below(path, m.tree) = {path} /\ m.tree[path] \in kinds
                   /\ Guarded(path) => root
           new == [m EXCEPT !.tree = [q \in DOMAIN m.tree \ {path} |-> m.tree[q]]]
<1>1. RemoveEmpty(m, path, kinds, root) = Attempt(good, m, new)
  BY DEF RemoveEmpty
<1>2. m.tree = T
  BY MachParts
<1>3. new = Mach(Cut(T, path), P, N, A)
  BY DEF Mach, Cut
<1> HIDE DEF new
<1>4. good <=> path \in DOMAIN T /\ Below(path, T) = {path} /\ T[path] \in kinds /\ (Guarded(path) => root)
  <2> HIDE DEF m
  <2>1. QED
    BY <1>2
<1> HIDE DEF good, m
<1>5. RemoveEmpty(m, path, kinds, root).ok = good
  BY <1>1, AttemptIs
<1>6. good => RemoveEmpty(m, path, kinds, root).host = Mach(Cut(T, path), P, N, A)
  BY <1>1, <1>3 DEF Attempt
<1>7. QED
  BY <1>4, <1>5, <1>6 DEF m

(* What a move asks for, once it is known where it goes.                      *)
Allowed(T, a, to, root) ==
    /\ a \in DOMAIN T /\ Len(a) > 1 /\ ~IsPrefix(a, to)
    /\ Front(to) \in DOMAIN T /\ T[Front(to)] = "dir"
    /\ (to \in DOMAIN T => T[a] /= "dir" /\ T[to] /= "dir")
    /\ (Guarded(a) \/ Guarded(to) => root)

LEMMA MoveIs ==
    ASSUME NEW T, NEW P, NEW N, NEW A, NEW a, NEW b, NEW root, ~(b \in DOMAIN T /\ T[b] = "dir")
    PROVE  /\ Move(Mach(T, P, N, A), a, b, root).ok <=> Allowed(T, a, b, root)
           /\ Move(Mach(T, P, N, A), a, b, root).ok =>
                Move(Mach(T, P, N, A), a, b, root).host = Mach(Shifted(T, a, b), P, N, A)
<1> DEFINE m == Mach(T, P, N, A)
           to == Target(m, a, b)
           stay == DOMAIN m.tree \ (Below(a, m.tree) \cup {to})
           new == [q \in stay \cup {Moved(r, a, to) : r \in Below(a, m.tree)} |->
                     IF q \in stay THEN m.tree[q] ELSE m.tree[Moved(q, to, a)]]
           good == /\ a \in DOMAIN m.tree /\ Len(a) > 1 /\ ~IsPrefix(a, to)
                   /\ Front(to) \in DOMAIN m.tree /\ m.tree[Front(to)] = "dir"
                   /\ (to \in DOMAIN m.tree => m.tree[a] /= "dir" /\ m.tree[to] /= "dir")
                   /\ (Guarded(a) \/ Guarded(to) => root)
<1>1. Move(m, a, b, root) = Attempt(good, m, [m EXCEPT !.tree = new])
  BY DEF Move
<1>2. m.tree = T /\ [m EXCEPT !.tree = new] = Mach(new, P, N, A)
  <2> HIDE DEF new
  <2>1. QED
    BY MachParts
<1> HIDE DEF m
<1>3. to = b
  BY <1>2 DEF Target
<1> HIDE DEF to
<1>4. new = Shifted(T, a, b)
  BY <1>2, <1>3 DEF Shifted
<1> HIDE DEF new
<1>5. good <=> Allowed(T, a, b, root)
  BY <1>2, <1>3 DEF Allowed
<1> HIDE DEF good
<1>6. Move(m, a, b, root).ok = good
  BY <1>1, AttemptIs
<1>7. good => Move(m, a, b, root).host = Mach(Shifted(T, a, b), P, N, A)
  BY <1>1, <1>2, <1>4 DEF Attempt
<1>8. QED
  BY <1>5, <1>6, <1>7 DEF m

LEMMA AllowedMovable ==
    ASSUME NEW T, IsTree(T), NEW a, NEW to \in Token, to \notin DOMAIN T, NEW root, Allowed(T, a, to, root)
    PROVE  Movable(T, a, to) /\ Len(to) > 1
<1>1. Len(to) > 1
  BY LongEnough DEF Allowed
<1>2. Hangs(to, T)
  BY <1>1, HangsIn DEF Allowed
<1>3. QED
  BY <1>1, <1>2 DEF Allowed, Movable

(* A move is allowed back if nothing of the user's is where it goes to.       *)
LEMMA AllowedBack ==
    ASSUME NEW T, NEW a, NEW to, NEW root, Movable(T, a, to), Len(a) > 1, Len(to) > 1, Allowed(T, a, to, root),
           NEW E, Free(Shifted(T, a, to), E)
    PROVE  /\ ~(a \in DOMAIN Plus(Shifted(T, a, to), E) /\ Plus(Shifted(T, a, to), E)[a] = "dir")
           /\ a \notin E => Allowed(Plus(Shifted(T, a, to), E), to, a, root)
<1> DEFINE U == Shifted(T, a, to)
           H == Plus(U, E)
           f == Front(a)
<1>1. /\ a \in Token /\ to \in Token /\ ~IsPrefix(to, a)
      /\ a \in DOMAIN T /\ Hangs(a, T) /\ \A q \in DOMAIN T : q \in Token
  BY ShiftedIs DEF Movable, IsTree, Hangs
<1>2. \A q \in DOMAIN T : ~IsPrefix(a, q) => q \in DOMAIN U /\ U[q] = T[q]
  BY ShiftedStays DEF Stays
<1>3. \A r \in DOMAIN T : IsPrefix(a, r) => Moved(r, a, to) \in DOMAIN U
  BY ShiftedCarries DEF Carries
<1>4. a \notin DOMAIN U
  <2>1. \A q \in DOMAIN U : ~IsPrefix(a, q) \/ IsPrefix(to, q)
    BY ShiftedComes DEF Comes
  <2>2. QED
    BY <1>1, <2>1, PrefixSelf
<1> HIDE DEF U
<1>5. E \cap DOMAIN U = {}
  BY DEF Free, U
<1>6. DOMAIN H = DOMAIN U \cup E /\ \A q \in DOMAIN H : H[q] = IF q \in E THEN "mine" ELSE U[q]
  BY DEF Plus
<1> HIDE DEF H
<1>7. ~(a \in DOMAIN H /\ H[a] = "dir")
  BY <1>4, <1>6
<1>8. to \in DOMAIN U
  BY <1>1, <1>3, PrefixSelf, MovedOnto
<1>9. f \in DOMAIN U /\ U[f] = "dir"
  <2>1. f \in DOMAIN T /\ T[f] = "dir" /\ f \in Token /\ IsPrefix(f, a) /\ f /= a
    BY <1>1, FrontHangs, FrontIs0
  <2> HIDE DEF f
  <2>2. ~IsPrefix(a, f)
    BY <1>1, <2>1, PrefixBoth
  <2>3. QED
    BY <1>2, <2>1, <2>2
<1>10. a \notin E => Allowed(H, to, a, root)
  <2>1. Guarded(a) \/ Guarded(to) => root
    BY DEF Allowed
  <2>2. a \notin E => a \notin DOMAIN H
    BY <1>4, <1>6
  <2>3. f \in DOMAIN H /\ H[f] = "dir"
    BY <1>5, <1>6, <1>9
  <2>4. QED
    BY <1>1, <1>6, <1>8, <2>1, <2>2, <2>3 DEF Allowed
<1>11. QED
  BY <1>7, <1>10 DEF H, U

(* -------------------------------- the commands ------------------------------- *)

LEMMA WordsAre == \A v, w : (W(v) = W(w) <=> v = w) /\ W(v)[1] = v
  BY DEF W

(* The verbs the machine knows are different.                                 *)
Verbs == {"mkdir", "rmdir", "mv", "New-Item", "Remove-Item", "systemctl"}
LEMMA VerbsDiffer == \A v, w \in Verbs : W(v) = W(w) => v = w
  BY WordsAre

LEMMA ManagersAre ==
    /\ DOMAIN UnixVerbs = {W("apt"), W("apt-get"), W("dnf"), W("brew")} /\ DOMAIN WindowsVerbs = {W("winget"), W("scoop")}
    /\ \A m \in DOMAIN UnixVerbs : UnixVerbs[m] \in {W("uninstall"), W("remove")}
    /\ \A m \in DOMAIN WindowsVerbs : WindowsVerbs[m] = W("uninstall")
    /\ \A m \in DOMAIN UnixVerbs \cup DOMAIN WindowsVerbs : m /= W("sudo") /\ m /= W("&&") /\ \A v \in Verbs : m /= W(v)
<1>1. DOMAIN UnixVerbs = {W("apt"), W("apt-get"), W("dnf"), W("brew")} /\ DOMAIN WindowsVerbs = {W("winget"), W("scoop")}
  BY DEF UnixVerbs, WindowsVerbs
<1>2. \A m \in DOMAIN UnixVerbs : UnixVerbs[m] \in {W("uninstall"), W("remove")}
  BY DEF UnixVerbs
<1>3. \A m \in DOMAIN WindowsVerbs : WindowsVerbs[m] = W("uninstall")
  BY DEF WindowsVerbs
<1>4. \A m \in DOMAIN UnixVerbs \cup DOMAIN WindowsVerbs : m /= W("sudo") /\ m /= W("&&") /\ \A v \in Verbs : m /= W(v)
  BY <1>1, WordsAre DEF Verbs
<1>5. QED
  BY <1>1, <1>2, <1>3, <1>4

LEMMA PathToken ==
    \A t, dir : t \in Token /\ (Absolute(t) \/ dir \in Token) => PathOf(t, dir) \in Token
<1> SUFFICES ASSUME NEW t \in Token, NEW dir, Absolute(t) \/ dir \in Token PROVE PathOf(t, dir) \in Token
  OBVIOUS
<1>1. CASE Absolute(t)
  BY <1>1 DEF PathOf
<1>2. CASE ~Absolute(t)
  <2>1. dir \in Seq(Names) /\ t \in Seq(Names) /\ Len(dir) \in Nat /\ Len(t) \in Nat /\ Len(t) > 0
    BY <1>2, TokenIs
  <2> DEFINE u == dir \o t
  <2>2. u \in Seq(Names) /\ Len(u) = Len(dir) + Len(t)
    BY <2>1, ConcatAt
  <2> HIDE DEF u
  <2>3. Len(u) > 0 /\ Len(<<>>) = 0
    BY <2>1, <2>2
  <2>4. u \in Token
    BY <2>2, <2>3 DEF Token
  <2>5. PathOf(t, dir) = u
    BY <1>2 DEF PathOf, u
  <2>6. QED
    BY <2>4, <2>5
<1>3. QED
  BY <1>1, <1>2

(* The commands of one operand, of two, of no flags.                          *)
LEMMA PairIs == \A v, p : /\ Len(<<v, p>>) = 2 /\ <<v, p>>[1] = v /\ <<v, p>>[2] = p
  OBVIOUS
LEMMA TripleIs ==
    \A v, p, q : /\ Len(<<v, p, q>>) = 3 /\ <<v, p, q>>[1] = v /\ <<v, p, q>>[2] = p /\ <<v, p, q>>[3] = q
  OBVIOUS
LEMMA OneOperand == \A c : Len(c) = 2 /\ ~IsFlag(c[2]) => Operands(c) = {2}
<1> SUFFICES ASSUME NEW c, Len(c) = 2, ~IsFlag(c[2]) PROVE Operands(c) = {2}
  OBVIOUS
<1>1. 2..Len(c) = {2}
  BY SMT
<1>2. QED
  BY <1>1 DEF Operands
LEMMA TwoOperands == \A c : Len(c) = 3 /\ ~IsFlag(c[2]) /\ ~IsFlag(c[3]) => Operands(c) = {2, 3}
<1> SUFFICES ASSUME NEW c, Len(c) = 3, ~IsFlag(c[2]), ~IsFlag(c[3]) PROVE Operands(c) = {2, 3}
  OBVIOUS
<1>1. 2..Len(c) = {2, 3}
  BY SMT
<1>2. QED
  BY <1>1 DEF Operands
LEMMA EndsOfOne == \A i \in Nat : FirstAt({i}) = i /\ LastAt({i}) = i
<1> SUFFICES ASSUME NEW i \in Nat PROVE FirstAt({i}) = i /\ LastAt({i}) = i
  OBVIOUS
<1>1. \A k \in {i} : k = i
  OBVIOUS
<1>2. \E k \in {i} : \A j \in {i} : k <= j
  OBVIOUS
<1>3. \E k \in {i} : \A j \in {i} : j <= k
  OBVIOUS
<1>4. QED
  BY <1>1, <1>2, <1>3 DEF FirstAt, LastAt
LEMMA EndsOfTwo == FirstAt({2, 3}) = 2 /\ LastAt({2, 3}) = 3
<1>1. \A k \in {2, 3} : (\A j \in {2, 3} : k <= j) <=> k = 2
  OBVIOUS
<1>2. \A k \in {2, 3} : (\A j \in {2, 3} : j <= k) <=> k = 3
  OBVIOUS
<1>3. QED
  BY <1>1, <1>2 DEF FirstAt, LastAt

LEMMA NotRefused == \A m, x : ~Refused(m).ok /\ Refused(m).host = m
  BY DEF Refused, Attempt

LEMMA SimpleMkdir == \A m, dir, c, root : c /= <<>> /\ Operands(c) = {2} /\ c[1] = W("mkdir") =>
    Simple(m, dir, c, root) = MakeDir(m, PathOf(c[2], dir), W("-p") \in ToSet(c), root)
<1> SUFFICES ASSUME NEW m, NEW dir, NEW c, NEW root, c /= <<>>, Operands(c) = {2}, c[1] = W("mkdir")
             PROVE  Simple(m, dir, c, root) = MakeDir(m, PathOf(c[2], dir), W("-p") \in ToSet(c), root)
  OBVIOUS
<1>1. LastAt({2}) = 2
  BY EndsOfOne
<1>2. QED
  BY <1>1 DEF Simple

LEMMA SimpleRmdir == \A m, dir, c, root : c /= <<>> /\ Operands(c) = {2} /\ c[1] = W("rmdir") =>
    Simple(m, dir, c, root) = RemoveEmpty(m, PathOf(c[2], dir), {"dir"}, root)
<1> SUFFICES ASSUME NEW m, NEW dir, NEW c, NEW root, c /= <<>>, Operands(c) = {2}, c[1] = W("rmdir")
             PROVE  Simple(m, dir, c, root) = RemoveEmpty(m, PathOf(c[2], dir), {"dir"}, root)
  OBVIOUS
<1>1. LastAt({2}) = 2 /\ c[1] /= W("mkdir")
  BY EndsOfOne, VerbsDiffer DEF Verbs
<1>2. QED
  BY <1>1 DEF Simple

LEMMA SimpleMv == \A m, dir, c, root : c /= <<>> /\ Operands(c) = {2, 3} /\ c[1] = W("mv") =>
    Simple(m, dir, c, root) = Move(m, PathOf(c[2], dir), PathOf(c[3], dir), root)
<1> SUFFICES ASSUME NEW m, NEW dir, NEW c, NEW root, c /= <<>>, Operands(c) = {2, 3}, c[1] = W("mv")
             PROVE  Simple(m, dir, c, root) = Move(m, PathOf(c[2], dir), PathOf(c[3], dir), root)
  OBVIOUS
<1>1. FirstAt({2, 3}) = 2 /\ LastAt({2, 3}) = 3 /\ c[1] /= W("mkdir") /\ c[1] /= W("rmdir")
  BY EndsOfTwo, VerbsDiffer DEF Verbs
<1>2. QED
  BY <1>1 DEF Simple

OneItem(c, i) == i \in Operands(c) /\ i \in Nat /\ Items(c) = {i}

LEMMA SimpleNewItem ==
    ASSUME NEW m, NEW dir, NEW c, NEW root, NEW i, NEW yes, yes = TRUE,
           c /= <<>>, OneItem(c, i), c[1] = W("New-Item")
    PROVE  Simple(m, dir, c, root) = MakeDir(m, PathOf(c[i], dir), yes, yes)
<1>1. LastAt({i}) = i /\ c[1] /= W("mkdir") /\ c[1] /= W("rmdir") /\ c[1] /= W("mv")
  BY EndsOfOne, VerbsDiffer DEF Verbs, OneItem
<1>2. QED
  BY <1>1 DEF Simple, OneItem

LEMMA SimpleRemoveItem == \A m, dir, c, root : c /= <<>> /\ Operands(c) = {2} /\ c[1] = W("Remove-Item") =>
    Simple(m, dir, c, root) = RemoveEmpty(m, PathOf(c[2], dir), {"dir", "text", "mine"}, TRUE)
<1> SUFFICES ASSUME NEW m, NEW dir, NEW c, NEW root, c /= <<>>, Operands(c) = {2}, c[1] = W("Remove-Item")
             PROVE  Simple(m, dir, c, root) = RemoveEmpty(m, PathOf(c[2], dir), {"dir", "text", "mine"}, TRUE)
  OBVIOUS
<1>1. LastAt({2}) = 2 /\ c[1] /= W("mkdir") /\ c[1] /= W("rmdir") /\ c[1] /= W("mv") /\ c[1] /= W("New-Item")
  BY EndsOfOne, VerbsDiffer DEF Verbs
<1>2. QED
  BY <1>1 DEF Simple

LEMMA SimpleSystemctl == \A m, dir, c, root :
      /\ c /= <<>> /\ Operands(c) /= {} /\ c[1] = W("systemctl")
      /\ c[2] \in {W("enable"), W("disable"), W("start"), W("stop")}
    => Simple(m, dir, c, root) = Attempt(root /\ Named(c) \subseteq m.packages, m,
                                      Service(m, c[2][1], Named(c), W("--now") \in ToSet(c)))
<1> SUFFICES ASSUME NEW m, NEW dir, NEW c, NEW root, c /= <<>>, Operands(c) /= {}, c[1] = W("systemctl"),
                    c[2] \in {W("enable"), W("disable"), W("start"), W("stop")}
             PROVE  Simple(m, dir, c, root) = Attempt(root /\ Named(c) \subseteq m.packages, m,
                                                  Service(m, c[2][1], Named(c), W("--now") \in ToSet(c)))
  OBVIOUS
<1>1. /\ c[1] /= W("mkdir") /\ c[1] /= W("rmdir") /\ c[1] /= W("mv") /\ c[1] /= W("New-Item")
      /\ c[1] /= W("Remove-Item")
  BY VerbsDiffer DEF Verbs
<1>2. QED
  BY <1>1 DEF Simple

LEMMA SimpleManager == \A m, dir, c, root :
      /\ c /= <<>> /\ Operands(c) /= {} /\ c[1] \in DOMAIN UnixVerbs \cup DOMAIN WindowsVerbs
      /\ c[2] \in {W("install"), W("remove"), W("uninstall")}
    => Simple(m, dir, c, root) = Attempt(root \/ c[1] \in {W("brew")} \cup DOMAIN WindowsVerbs, m,
                     IF c[2] = W("install") THEN Install(m, Named(c)) ELSE Uninstall(m, Named(c)))
<1> SUFFICES ASSUME NEW m, NEW dir, NEW c, NEW root, c /= <<>>, Operands(c) /= {},
                    c[1] \in DOMAIN UnixVerbs \cup DOMAIN WindowsVerbs,
                    c[2] \in {W("install"), W("remove"), W("uninstall")}
             PROVE  Simple(m, dir, c, root) = Attempt(root \/ c[1] \in {W("brew")} \cup DOMAIN WindowsVerbs, m,
                                    IF c[2] = W("install") THEN Install(m, Named(c)) ELSE Uninstall(m, Named(c)))
  OBVIOUS
<1>1. /\ c[1] /= W("mkdir") /\ c[1] /= W("rmdir") /\ c[1] /= W("mv") /\ c[1] /= W("New-Item")
      /\ c[1] /= W("Remove-Item") /\ c[1] /= W("systemctl")
  BY ManagersAre DEF Verbs
<1>2. QED
  BY <1>1 DEF Simple

(* A command that fails leaves the machine as it was.                         *)
LEMMA SimpleFails == ASSUME NEW m, NEW dir, NEW c, NEW root, ~Simple(m, dir, c, root).ok
                     PROVE  Simple(m, dir, c, root).host = m
<1>1. \A ok, new : Attempt(ok, m, new).ok \/ Attempt(ok, m, new).host = m
  BY DEF Attempt
<1>2. \E ok, new : Simple(m, dir, c, root) = Attempt(ok, m, new)
  BY DEF Simple, Refused, MakeDir, RemoveEmpty, Move
<1>3. QED
  BY <1>1, <1>2

(* An attempt that succeeds.                                                *)
Works(r) == r.ok

(* u, run in place, takes back what c did to m in dir, whatever files the user*)
(* has put on the tree since; they stay where they are if they were apart     *)
(* from what c moved.                                                         *)
Clear(c, dir, E) == c[1] = W("mv") => \A p \in E : p /= PathOf(c[2], dir) /\ ~IsPrefix(PathOf(c[3], dir), p)
BackTo(m, c, dir, E, back) ==
    /\ E = {} => back.ok
    /\ back.ok => \E G : /\ Free(m.tree, G) /\ back.host = Put(m, G) /\ (G /= {} => E /= {})
                         /\ (Clear(c, dir, E) => G = E)
IsUndoneBy(m, dir, c, root, place0, u) ==
    LET post == Simple(m, dir, c, root).host
    IN  /\ IsMachine(post) /\ HeldBy(post.tree) = HeldBy(m.tree)
        /\ \A E : Free(post.tree, E) => BackTo(m, c, dir, E, Simple(Put(post, E), place0, u, root))

LEMMA MkdirUndone ==
    ASSUME NEW m, IsMachine(m), NEW dir \in Token, NEW place0, NEW root,
           NEW v \in {W("mkdir")}, NEW p \in Token, ~IsFlag(p), PathOf(p, place0) = PathOf(p, dir),
           Simple(m, dir, <<v, p>>, root).ok
    PROVE  IsUndoneBy(m, dir, <<v, p>>, root, place0, <<W("rmdir"), p>>)
<1> DEFINE c == <<v, p>>
           u == <<W("rmdir"), p>>
           T == m.tree
           path == PathOf(p, dir)
           post == Simple(m, dir, c, root).host
<1>1. m = Mach(T, m.packages, m.enabled, m.active) /\ IsTree(T) /\ m.enabled \cup m.active \subseteq m.packages
  BY MachIs
<1>2. Operands(c) = {2} /\ c /= <<>> /\ c[1] = W("mkdir") /\ c[2] = p
  BY PairIs, OneOperand
<1>3. Operands(u) = {2} /\ u /= <<>> /\ u[1] = W("rmdir") /\ u[2] = p
  BY PairIs, OneOperand
<1>4. path \in Token
  BY PathToken
<1>5. W("-p") \notin ToSet(c)
  <2>1. W("-p") /= W("mkdir")
    BY WordsAre
  <2>2. W("-p") /= p
    BY ReversalAssumption, WordsAre DEF IsFlag
  <2>3. ToSet(c) = {v, p}
    BY DEF ToSet
  <2>4. QED
    BY <2>1, <2>2, <2>3
<1> HIDE DEF c, u, T, path
<1> DEFINE U == Made(T, path)
<1>6. Simple(m, dir, c, root) = MakeDir(m, path, W("-p") \in ToSet(c), root)
  BY <1>2, SimpleMkdir DEF path
<1>7. /\ path \notin DOMAIN T /\ Hangs(path, T) /\ (Guarded(path) => root)
      /\ MakeDir(m, path, W("-p") \in ToSet(c), root).host = Mach(U, m.packages, m.enabled, m.active)
  <2>1. MakeDir(Mach(T, m.packages, m.enabled, m.active), path, W("-p") \in ToSet(c), root).ok
    BY <1>1, <1>6 DEF c
  <2> DEFINE parents == W("-p") \in ToSet(c)
  <2> HIDE DEF parents
  <2>2. parents => Front(path) \in DOMAIN T
    BY <1>5 DEF parents
  <2>5. MakeDir(Mach(T, m.packages, m.enabled, m.active), path, parents, root).ok
    BY <2>1 DEF parents
  <2>3. /\ path \notin DOMAIN T /\ Hangs(path, T) /\ (Guarded(path) => root)
        /\ MakeDir(Mach(T, m.packages, m.enabled, m.active), path, parents, root).host
             = Mach(Made(T, path), m.packages, m.enabled, m.active)
    BY <1>1, <1>4, <2>2, <2>5, MakeDirIs
  <2>4. QED
    BY <1>1, <2>3 DEF parents
<1>8. post = Mach(U, m.packages, m.enabled, m.active) /\ post.tree = U
  BY <1>6, <1>7, MachParts
<1> HIDE DEF post, U
<1>9. IsTree(U)
  <2>1. Free(U, {})
    BY DEF Free
  <2>2. QED
    BY <1>1, <1>7, <2>1, MadeCut DEF U
<1>10. IsMachine(post) /\ HeldBy(post.tree) = HeldBy(T)
  BY <1>1, <1>8, <1>9, MachineIs, HeldMade DEF U
<1>11. ASSUME NEW E, Free(post.tree, E) PROVE BackTo(m, c, dir, E, Simple(Put(post, E), place0, u, root))
  <2> DEFINE H == Plus(U, E)
             h == Mach(H, m.packages, m.enabled, m.active)
             back == Simple(h, place0, u, root)
  <2>1. Put(post, E) = h
    BY <1>8, MachParts DEF Put
  <2>2. back = RemoveEmpty(h, path, {"dir"}, root)
    <3> HIDE DEF h
    <3>1. QED
      BY <1>3, SimpleRmdir DEF path
  <2>3. Free(U, E)
    BY <1>8, <1>11
  <2>4. /\ path \in DOMAIN H /\ H[path] = "dir"
        /\ E = {} => Below(path, H) = {path}
        /\ Below(path, H) = {path} => Cut(H, path) = Plus(T, E) /\ Free(T, E)
    BY <1>1, <1>7, <2>3, MadeCut DEF U
  <2> HIDE DEF H
  <2>5. /\ RemoveEmpty(h, path, {"dir"}, root).ok <=>
             path \in DOMAIN H /\ Below(path, H) = {path} /\ H[path] \in {"dir"} /\ (Guarded(path) => root)
        /\ RemoveEmpty(h, path, {"dir"}, root).ok =>
             RemoveEmpty(h, path, {"dir"}, root).host = Mach(Cut(H, path), m.packages, m.enabled, m.active)
    BY RemoveIs
  <2> HIDE DEF h, back
  <2>6. E = {} => back.ok
    BY <1>7, <2>2, <2>4, <2>5
  <2>7. back.ok => Free(T, E) /\ back.host = Put(m, E)
    BY <2>2, <2>4, <2>5 DEF Put, T
  <2>8. QED
    BY <2>1, <2>6, <2>7 DEF BackTo, T, back
<1>12. QED
  BY <1>10, <1>11 DEF IsUndoneBy, post, c, u, T

LEMMA MvUndone ==
    ASSUME NEW m, IsMachine(m), NEW dir \in Token, NEW place0, NEW root, NEW v \in {W("mv")},
           NEW p \in Token, NEW q \in Token, ~IsFlag(p), ~IsFlag(q),
           PathOf(p, place0) = PathOf(p, dir), PathOf(q, place0) = PathOf(q, dir), PathOf(q, dir) \notin DOMAIN m.tree,
           Simple(m, dir, <<v, p, q>>, root).ok
    PROVE  IsUndoneBy(m, dir, <<v, p, q>>, root, place0, <<W("mv"), q, p>>)
<1> DEFINE c == <<v, p, q>>
           u == <<W("mv"), q, p>>
           T == m.tree
           a == PathOf(p, dir)
           to == PathOf(q, dir)
           post == Simple(m, dir, c, root).host
<1>1. m = Mach(T, m.packages, m.enabled, m.active) /\ IsTree(T) /\ m.enabled \cup m.active \subseteq m.packages
  BY MachIs
<1>2. Operands(c) = {2, 3} /\ c /= <<>> /\ c[1] = W("mv") /\ c[2] = p /\ c[3] = q
  BY TripleIs, TwoOperands
<1>3. Operands(u) = {2, 3} /\ u /= <<>> /\ u[1] = W("mv") /\ u[2] = q /\ u[3] = p
  BY TripleIs, TwoOperands
<1>4. a \in Token /\ to \in Token /\ to \notin DOMAIN T
  BY PathToken
<1> HIDE DEF c, u, T, a, to
<1> DEFINE U == Shifted(T, a, to)
<1>6. Simple(m, dir, c, root) = Move(m, a, to, root)
  BY <1>2, SimpleMv DEF a, to
<1>7. Allowed(T, a, to, root) /\ Move(m, a, to, root).host = Mach(U, m.packages, m.enabled, m.active)
  <2>1. Move(Mach(T, m.packages, m.enabled, m.active), a, to, root).ok
    BY <1>1, <1>6 DEF c
  <2>2. ~(to \in DOMAIN T /\ T[to] = "dir")
    BY <1>4
  <2>3. /\ Allowed(T, a, to, root)
        /\ Move(Mach(T, m.packages, m.enabled, m.active), a, to, root).host
             = Mach(Shifted(T, a, to), m.packages, m.enabled, m.active)
    BY <2>1, <2>2, MoveIs
  <2>4. QED
    BY <1>1, <2>3
<1>8. post = Mach(U, m.packages, m.enabled, m.active) /\ post.tree = U
  BY <1>6, <1>7, MachParts
<1>9. Movable(T, a, to) /\ Len(to) > 1 /\ Len(a) > 1
  BY <1>1, <1>4, <1>7, AllowedMovable DEF Allowed
<1> HIDE DEF post
<1>10. IsMachine(post) /\ HeldBy(post.tree) = HeldBy(T)
  <2>1. IsTree(U)
    BY <1>9, ShiftedIs
  <2>2. HeldBy(U) = HeldBy(T)
    BY <1>9, HeldShifted
  <2> HIDE DEF U
  <2>3. QED
    BY <1>1, <1>8, <2>1, <2>2, MachineIs
<1>11. ASSUME NEW E, Free(post.tree, E) PROVE BackTo(m, c, dir, E, Simple(Put(post, E), place0, u, root))
  <2> DEFINE H == Plus(U, E)
             h == Mach(H, m.packages, m.enabled, m.active)
             back == Simple(h, place0, u, root)
             G == Carried(E, a, to)
  <2>1. Put(post, E) = h
    BY <1>8, MachParts DEF Put
  <2>2. back = Move(h, to, a, root)
    <3> HIDE DEF h
    <3>1. QED
      BY <1>3, SimpleMv DEF a, to
  <2>3. Free(U, E)
    BY <1>8, <1>11
  <2>4. ~(a \in DOMAIN H /\ H[a] = "dir") /\ (a \notin E => Allowed(H, to, a, root))
    BY <1>7, <1>9, <2>3, AllowedBack
  <2>5. Free(T, G) /\ Shifted(H, to, a) = Plus(T, G)
    BY <1>9, <2>3, CarriedFree, ShiftBack
  <2> HIDE DEF H
  <2>6. /\ Move(h, to, a, root).ok <=> Allowed(H, to, a, root)
        /\ Move(h, to, a, root).ok => Move(h, to, a, root).host = Mach(Shifted(H, to, a), m.packages, m.enabled, m.active)
    BY <2>4, MoveIs
  <2> HIDE DEF h, back, G
  <2>7. E = {} => back.ok
    BY <2>2, <2>4, <2>6
  <2>8. back.ok => back.host = Put(m, G)
    BY <2>2, <2>5, <2>6 DEF Put, T
  <2>9. G /= {} => E /= {}
    BY DEF G, Carried
  <2>10. Clear(c, dir, E) => G = E
    <3>1. Clear(c, dir, E) => \A x \in E : x /= a /\ ~IsPrefix(to, x)
      BY <1>2 DEF Clear, a, to
    <3>2. QED
      BY <3>1, CarriedApart DEF G
  <2>11. QED
    BY <2>1, <2>5, <2>7, <2>8, <2>9, <2>10 DEF BackTo, T, back
<1>12. QED
  BY <1>10, <1>11 DEF IsUndoneBy, post, c, u, T

LEMMA NoOperands == ASSUME NEW m, NEW dir, NEW c, NEW root, Simple(m, dir, c, root).ok
                    PROVE  c /= <<>> /\ Operands(c) /= {}
<1>1. c = <<>> \/ Operands(c) = {} => Simple(m, dir, c, root) = Refused(m)
  BY DEF Simple
<1>2. QED
  BY <1>1, NotRefused

LEMMA ToSetConcat ==
  ASSUME NEW R, NEW s \in Seq(R), NEW t \in Seq(R)
  PROVE  ToSet(s \o t) = ToSet(s) \cup ToSet(t)
<1> DEFINE u == s \o t
<1>1. /\ u \in Seq(R) /\ Len(s) \in Nat /\ Len(t) \in Nat /\ Len(u) = Len(s) + Len(t)
      /\ \A i \in 1..Len(s) : u[i] = s[i]
      /\ \A i \in 1..Len(t) : u[Len(s) + i] = t[i]
  BY ConcatAt
<1> HIDE DEF u
<1>2. /\ \A c : c \in ToSet(s) <=> \E i \in 1..Len(s) : s[i] = c
      /\ \A c : c \in ToSet(t) <=> \E i \in 1..Len(t) : t[i] = c
      /\ \A c : c \in ToSet(u) <=> \E i \in 1..Len(u) : u[i] = c
  BY <1>1, SetIs
<1>3. ASSUME NEW c \in ToSet(s) PROVE c \in ToSet(u)
  <2>1. PICK i \in 1..Len(s) : s[i] = c
    BY <1>2
  <2>2. i \in 1..Len(u) /\ u[i] = c
    BY <1>1, <2>1
  <2>3. QED
    BY <1>2, <2>2
<1>4. ASSUME NEW c \in ToSet(t) PROVE c \in ToSet(u)
  <2>1. PICK i \in 1..Len(t) : t[i] = c
    BY <1>2
  <2>2. Len(s) + i \in 1..Len(u) /\ u[Len(s) + i] = c
    BY <1>1, <2>1
  <2>3. QED
    BY <1>2, <2>2
<1>5. ASSUME NEW c \in ToSet(u) PROVE c \in ToSet(s) \/ c \in ToSet(t)
  <2>1. PICK i \in 1..Len(u) : u[i] = c
    BY <1>2
  <2>2. CASE i <= Len(s)
    <3>1. i \in 1..Len(s) /\ s[i] = c
      BY <1>1, <2>1, <2>2
    <3>2. QED
      BY <1>2, <3>1
  <2>3. CASE ~(i <= Len(s))
    <3> DEFINE k == i - Len(s)
    <3>1. k \in 1..Len(t) /\ Len(s) + k = i
      BY <1>1, <2>3
    <3> HIDE DEF k
    <3>2. t[k] = c
      BY <1>1, <2>1, <3>1
    <3>3. QED
      BY <1>2, <3>1, <3>2
  <2>4. QED
    BY <2>2, <2>3
<1>6. QED
  BY <1>3, <1>4, <1>5 DEF u

(* What a command of two words and r names.                                   *)
Says(r) == {x[1] : x \in {y \in ToSet(r) : ~IsFlag(y)}}
Behind(c, r) == Len(c) = Len(r) + 2 /\ \A k \in 1..Len(r) : c[k + 2] = r[k]

LEMMA NamedBehind ==
    ASSUME NEW R, NEW c \in Seq(R), NEW r \in Seq(R), Behind(c, r)
    PROVE  /\ Named(c) = Says(r) /\ ToSet(c) = {c[1], c[2]} \cup ToSet(r)
           /\ Says(r) /= {} => Operands(c) /= {}
<1>1. /\ Len(c) \in Nat /\ Len(r) \in Nat /\ Len(c) = Len(r) + 2 /\ \A k \in 1..Len(r) : c[k + 2] = r[k]
  BY DEF Behind
<1>2. /\ \A x : x \in ToSet(c) <=> \E i \in 1..Len(c) : c[i] = x
      /\ \A x : x \in ToSet(r) <=> \E i \in 1..Len(r) : r[i] = x
  BY SetIs
<1>3. ASSUME NEW i \in Operands(c) \ {2} PROVE c[i] \in ToSet(r) /\ ~IsFlag(c[i])
  <2>1. i \in 2..Len(c) /\ i /= 2 /\ ~IsFlag(c[i])
    BY DEF Operands
  <2> DEFINE k == i - 2
  <2>2. k \in 1..Len(r) /\ k + 2 = i
    BY <1>1, <2>1
  <2> HIDE DEF k
  <2>3. r[k] = c[i]
    BY <1>1, <2>2
  <2>4. QED
    BY <1>2, <2>1, <2>2, <2>3
<1>4. ASSUME NEW x \in ToSet(r), ~IsFlag(x) PROVE \E i \in Operands(c) \ {2} : c[i] = x
  <2>1. PICK k \in 1..Len(r) : r[k] = x
    BY <1>2
  <2> DEFINE i == k + 2
  <2>2. i \in 2..Len(c) /\ i /= 2 /\ c[i] = x
    BY <1>1, <2>1
  <2> HIDE DEF i
  <2>3. i \in Operands(c) \ {2}
    BY <1>4, <2>2 DEF Operands
  <2>4. QED
    BY <2>2, <2>3
<1>5. Named(c) = Says(r)
  <2>1. \A x \in Named(c) : x \in Says(r)
    BY <1>3 DEF Named, Says
  <2>2. \A x \in Says(r) : x \in Named(c)
    BY <1>4 DEF Named, Says
  <2>3. QED
    BY <2>1, <2>2
<1>6. ToSet(c) = {c[1], c[2]} \cup ToSet(r)
  <2>1. ASSUME NEW x \in ToSet(c) PROVE x \in {c[1], c[2]} \cup ToSet(r)
    <3>1. PICK i \in 1..Len(c) : c[i] = x
      BY <1>2
    <3>2. CASE i \in {1, 2}
      BY <3>1, <3>2
    <3>3. CASE i \notin {1, 2}
      <4> DEFINE k == i - 2
      <4>1. k \in 1..Len(r) /\ k + 2 = i
        BY <1>1, <3>3
      <4> HIDE DEF k
      <4>2. r[k] = x
        BY <1>1, <3>1, <4>1
      <4>3. QED
        BY <1>2, <4>1, <4>2
    <3>4. QED
      BY <3>2, <3>3
  <2>2. 1 \in 1..Len(c) /\ 2 \in 1..Len(c)
    BY <1>1
  <2>3. ASSUME NEW x \in ToSet(r) PROVE x \in ToSet(c)
    <3>1. PICK k \in 1..Len(r) : r[k] = x
      BY <1>2
    <3>2. k + 2 \in 1..Len(c) /\ c[k + 2] = x
      BY <1>1, <3>1
    <3>3. QED
      BY <1>2, <3>2
  <2>4. QED
    BY <1>2, <2>1, <2>2, <2>3
<1>7. Says(r) /= {} => Operands(c) /= {}
  BY <1>5 DEF Named
<1>8. QED
  BY <1>5, <1>6, <1>7

LEMMA BehindRest == \A R : \A c \in Seq(R) : Len(c) >= 3 =>
    SubSeq(c, 3, Len(c)) \in Seq(R) /\ Behind(c, SubSeq(c, 3, Len(c)))
<1> SUFFICES ASSUME NEW R, NEW c \in Seq(R), Len(c) >= 3
             PROVE  SubSeq(c, 3, Len(c)) \in Seq(R) /\ Behind(c, SubSeq(c, 3, Len(c)))
  OBVIOUS
<1> DEFINE n == Len(c)
           i == 3
           r == SubSeq(c, i, n)
<1>1. n \in Nat /\ n >= 3 /\ i = 3
  OBVIOUS
<1> HIDE DEF i
<1>2. i \in Int /\ n \in Int /\ 1 <= i /\ i <= n /\ n <= Len(c)
  BY <1>1
<1>3. /\ r \in Seq(R) /\ Len(r) = IF i <= n THEN n - i + 1 ELSE 0
      /\ \A k \in 1..(n - i + 1) : r[k] = c[i + k - 1]
  <2> HIDE DEF n
  <2>1. n <= Len(c)
    BY <1>2
  <2>2. QED
    BY <1>2, <2>1, Subs
<1> HIDE DEF r, n
<1>4. Len(r) = n - 2
  BY <1>1, <1>2, <1>3
<1>5. ASSUME NEW k \in 1..Len(r) PROVE c[k + 2] = r[k]
  <2>1. k \in 1..(n - i + 1) /\ i + k - 1 = k + 2
    BY <1>1, <1>4
  <2>2. QED
    BY <1>3, <2>1
<1>6. n = Len(r) + 2
  BY <1>1, <1>4
<1>7. QED
  BY <1>3, <1>5, <1>6 DEF Behind, r, n, i

LEMMA BehindTwo == \A R : \A v, w \in R : \A r \in Seq(R) :
    /\ <<v, w>> \o r \in Seq(R) /\ Behind(<<v, w>> \o r, r) /\ (<<v, w>> \o r)[1] = v /\ (<<v, w>> \o r)[2] = w
    /\ <<v, w>> \o r /= <<>>
<1> SUFFICES ASSUME NEW R, NEW v \in R, NEW w \in R, NEW r \in Seq(R)
             PROVE  /\ <<v, w>> \o r \in Seq(R) /\ Behind(<<v, w>> \o r, r) /\ (<<v, w>> \o r)[1] = v /\ (<<v, w>> \o r)[2] = w
                    /\ <<v, w>> \o r /= <<>>
  OBVIOUS
<1> DEFINE d == <<v, w>>
           u == d \o r
<1>1. d \in Seq(R) /\ Len(d) = 2 /\ d[1] = v /\ d[2] = w
  OBVIOUS
<1> HIDE DEF d
<1>2. /\ u \in Seq(R) /\ Len(r) \in Nat /\ Len(u) = Len(d) + Len(r)
      /\ \A i \in 1..Len(d) : u[i] = d[i]
      /\ \A i \in 1..Len(r) : u[Len(d) + i] = r[i]
  BY <1>1, ConcatAt
<1> HIDE DEF u
<1>3. u[1] = v /\ u[2] = w
  <2>1. 1 \in 1..Len(d) /\ 2 \in 1..Len(d)
    BY <1>1
  <2>2. QED
    BY <1>1, <1>2, <2>1
<1>4. ASSUME NEW k \in 1..Len(r) PROVE u[k + 2] = r[k]
  <2>1. u[Len(d) + k] = r[k]
    BY <1>2
  <2>2. Len(d) + k = k + 2
    BY <1>1, <1>2
  <2>3. QED
    BY <2>1, <2>2
<1>5. Len(u) = Len(r) + 2 /\ Len(u) /= 0
  BY <1>1, <1>2
<1>6. u /= <<>>
  <2>1. Len(<<>>) = 0
    OBVIOUS
  <2>2. QED
    BY <1>5, <2>1
<1>7. QED
  BY <1>2, <1>3, <1>4, <1>5, <1>6 DEF Behind, u, d

(* A command that does nothing to the tree.                                   *)
LEMMA ElseUndone ==
    ASSUME NEW m, IsMachine(m), NEW dir, NEW c, NEW root, NEW place0, NEW u, NEW P, NEW N, NEW A, N \cup A \subseteq P,
           Simple(m, dir, c, root).host = Mach(m.tree, P, N, A),
           \A H : /\ Simple(Mach(H, P, N, A), place0, u, root).ok
                  /\ Simple(Mach(H, P, N, A), place0, u, root).host = Mach(H, m.packages, m.enabled, m.active)
    PROVE  IsUndoneBy(m, dir, c, root, place0, u)
<1> DEFINE T == m.tree
           post == Simple(m, dir, c, root).host
<1>1. IsTree(T)
  BY MachIs
<1> HIDE DEF T
<1>2. post = Mach(T, P, N, A) /\ post.tree = T
  BY MachParts DEF T
<1> HIDE DEF post
<1>3. IsMachine(post) /\ HeldBy(post.tree) = HeldBy(T)
  BY <1>1, <1>2, MachineIs
<1>4. ASSUME NEW E, Free(post.tree, E) PROVE BackTo(m, c, dir, E, Simple(Put(post, E), place0, u, root))
  <2> DEFINE h == Put(post, E)
             back == Simple(h, place0, u, root)
  <2>1. h = Mach(Plus(T, E), P, N, A)
    BY <1>2, MachParts DEF Put
  <2>2. back.ok /\ back.host = Put(m, E)
    <3> HIDE DEF h
    <3>1. QED
      BY <2>1 DEF Put, T
  <2>3. Free(T, E)
    BY <1>2, <1>4
  <2> HIDE DEF back
  <2>4. QED
    BY <2>2, <2>3 DEF BackTo, back, T
<1>5. QED
  BY <1>3, <1>4 DEF IsUndoneBy, post, T

LEMMA InstallIs == \A T, P, N, A, S :
    /\ Install(Mach(T, P, N, A), S) = Mach(T, P \cup S, N, A)
    /\ Uninstall(Mach(T, P, N, A), S) = Mach(T, P \ S, N \ S, A \ S)
<1> SUFFICES ASSUME NEW T, NEW P, NEW N, NEW A, NEW S
             PROVE  /\ Install(Mach(T, P, N, A), S) = Mach(T, P \cup S, N, A)
                    /\ Uninstall(Mach(T, P, N, A), S) = Mach(T, P \ S, N \ S, A \ S)
  OBVIOUS
<1>1. Install(Mach(T, P, N, A), S) = Mach(T, P \cup S, N, A)
  BY DEF Install, Mach
<1>2. Uninstall(Mach(T, P, N, A), S) = Mach(T, P \ S, N \ S, A \ S)
  BY DEF Uninstall, Mach
<1>3. QED
  BY <1>1, <1>2

LEMMA PackageUndone ==
    ASSUME NEW m, IsMachine(m), NEW dir, NEW place0, NEW root,
           NEW c \in Seq(Token), Len(c) >= 3, c[1] \in DOMAIN UnixVerbs \cup DOMAIN WindowsVerbs, c[2] = W("install"),
           NEW verb \in {W("remove"), W("uninstall")}, Named(c) \cap m.packages = {}, Simple(m, dir, c, root).ok
    PROVE  IsUndoneBy(m, dir, c, root, place0, <<c[1], verb>> \o SubSeq(c, 3, Len(c)))
<1> DEFINE r == SubSeq(c, 3, Len(c))
           u == <<c[1], verb>> \o r
           R == Token \cup {verb}
           S == Named(c)
           may == root \/ c[1] \in {W("brew")} \cup DOMAIN WindowsVerbs
<1>1. c \in Seq(R) /\ c[1] \in R /\ verb \in R
  OBVIOUS
<1>2. r \in Seq(R) /\ Behind(c, r)
  <2> HIDE DEF R, r
  <2>1. r \in Seq(R) /\ Behind(c, r)
    BY <1>1, BehindRest DEF r
  <2>2. QED
    BY <2>1
<1> HIDE DEF R, r
<1>3. u \in Seq(R) /\ Behind(u, r) /\ u[1] = c[1] /\ u[2] = verb /\ u /= <<>>
  BY <1>1, <1>2, BehindTwo
<1> HIDE DEF u
<1>4. Named(u) = S
  BY <1>1, <1>2, <1>3, NamedBehind
<1>5. Operands(u) /= {}
  <2>1. ~IsFlag(verb)
    BY ReversalAssumption, WordsAre DEF IsFlag
  <2>2. Len(u) = Len(c) /\ Len(c) \in Nat
    BY <1>2, <1>3 DEF Behind
  <2>3. 2 \in 2..Len(u)
    BY <2>2
  <2>4. QED
    BY <1>3, <2>1, <2>3 DEF Operands
<1>6. c /= <<>> /\ Operands(c) /= {}
  BY NoOperands
<1> HIDE DEF S
<1>7. Simple(m, dir, c, root) = Attempt(may, m, Install(m, S))
  BY <1>6, SimpleManager DEF S
<1>8. /\ m = Mach(m.tree, m.packages, m.enabled, m.active)
      /\ m.enabled \cup m.active \subseteq m.packages
  BY MachIs
<1>9. may /\ Simple(m, dir, c, root).host = Mach(m.tree, m.packages \cup S, m.enabled, m.active)
  <2> HIDE DEF may
  <2>1. may
    BY <1>7, AttemptIs
  <2>2. Install(m, S) = Mach(m.tree, m.packages \cup S, m.enabled, m.active)
    BY <1>8, InstallIs
  <2>3. QED
    BY <1>7, <2>1, <2>2 DEF Attempt
<1>10. ASSUME NEW H
       PROVE  /\ Simple(Mach(H, m.packages \cup S, m.enabled, m.active), place0, u, root).ok
              /\ Simple(Mach(H, m.packages \cup S, m.enabled, m.active), place0, u, root).host
                   = Mach(H, m.packages, m.enabled, m.active)
  <2> DEFINE h == Mach(H, m.packages \cup S, m.enabled, m.active)
  <2>1. u[2] /= W("install")
    BY <1>3, WordsAre
  <2>2. Simple(h, place0, u, root) = Attempt(may, h, Uninstall(h, S))
    <3> HIDE DEF h
    <3>1. u[2] \in {W("install"), W("remove"), W("uninstall")} /\ u[1] \in DOMAIN UnixVerbs \cup DOMAIN WindowsVerbs
      BY <1>3
    <3>2. Simple(h, place0, u, root)
            = Attempt(root \/ u[1] \in {W("brew")} \cup DOMAIN WindowsVerbs, h,
                      IF u[2] = W("install") THEN Install(h, Named(u)) ELSE Uninstall(h, Named(u)))
      BY <1>3, <1>5, <3>1, SimpleManager
    <3>3. QED
      BY <1>3, <1>4, <2>1, <3>2
  <2>3. Uninstall(h, S) = Mach(H, m.packages, m.enabled, m.active)
    <3>1. Uninstall(h, S) = Mach(H, (m.packages \cup S) \ S, m.enabled \ S, m.active \ S)
      BY InstallIs
    <3>2. (m.packages \cup S) \ S = m.packages /\ m.enabled \ S = m.enabled /\ m.active \ S = m.active
      BY <1>8 DEF S
    <3>3. QED
      BY <3>1, <3>2
  <2> HIDE DEF h, may
  <2>4. Simple(h, place0, u, root).ok /\ Simple(h, place0, u, root).host = Mach(H, m.packages, m.enabled, m.active)
    BY <1>9, <2>2, <2>3 DEF Attempt
  <2>5. QED
    BY <2>4 DEF h
<1>11. m.enabled \cup m.active \subseteq m.packages \cup S
  BY <1>8
<1>12. IsUndoneBy(m, dir, c, root, place0, u)
  <2> DEFINE P == m.packages \cup S
             N == m.enabled
             A == m.active
  <2>1. N \cup A \subseteq P /\ Simple(m, dir, c, root).host = Mach(m.tree, P, N, A)
    BY <1>9, <1>11
  <2>2. \A H : /\ Simple(Mach(H, P, N, A), place0, u, root).ok
               /\ Simple(Mach(H, P, N, A), place0, u, root).host = Mach(H, m.packages, m.enabled, m.active)
    BY <1>10
  <2> HIDE DEF P, N, A
  <2>3. QED
    BY <2>1, <2>2, ElseUndone
<1>13. QED
  BY <1>12 DEF u, r

(* What is enabled and what is active after a command of systemctl.           *)
EnabledAfter(N, verb, S) == (N \cup {u \in S : verb = "enable"}) \ {u \in S : verb = "disable"}
ActiveAfter(A, verb, S, nowToo) == (A \cup {u \in S : verb = "start" \/ (verb = "enable" /\ nowToo)})
                                  \ {u \in S : verb = "stop" \/ (verb = "disable" /\ nowToo)}

LEMMA ServiceIs == \A T, P, N, A, verb, S, nowToo :
    Service(Mach(T, P, N, A), verb, S, nowToo) = Mach(T, P, EnabledAfter(N, verb, S), ActiveAfter(A, verb, S, nowToo))
  BY DEF Service, Mach, EnabledAfter, ActiveAfter

LEMMA WordsBehind ==
    ASSUME NEW R, NEW c \in Seq(R), NEW r \in Seq(R), Behind(c, r)
    PROVE  \A x : x \in ToSet(c) <=> x = c[1] \/ x = c[2] \/ x \in ToSet(r)
  BY NamedBehind

LEMMA OppositeIs == /\ DOMAIN Opposite = {W("enable"), W("start")}
                    /\ Opposite[W("enable")] = W("disable") /\ Opposite[W("start")] = W("stop")
<1>1. DOMAIN Opposite = {W("enable"), W("start")} /\ W("enable") /= W("start")
  BY WordsAre DEF Opposite
<1>2. QED
  BY <1>1 DEF Opposite

LEMMA PickedWords == \A R : \A s \in Seq(R) : \A ks :
    Picked(s, ks) \in Seq(R) /\ \A x : x \in ToSet(Picked(s, ks)) <=> \E k \in DOMAIN s : k \in ks /\ s[k] = x
<1> SUFFICES ASSUME NEW R, NEW s \in Seq(R), NEW ks
             PROVE  Picked(s, ks) \in Seq(R) /\ \A x : x \in ToSet(Picked(s, ks)) <=> \E k \in DOMAIN s : k \in ks /\ s[k] = x
  OBVIOUS
<1> DEFINE r == Picked(s, ks)
<1>1. r \in Seq(R) /\ {r[k] : k \in DOMAIN r} = {s[k] : k \in ks \cap DOMAIN s}
  BY PickedOf
<1> HIDE DEF r
<1>2. ToSet(r) = {s[k] : k \in ks \cap DOMAIN s}
  BY <1>1 DEF ToSet
<1>3. \A x : x \in ToSet(r) <=> \E k \in DOMAIN s : k \in ks /\ s[k] = x
  BY <1>2
<1>4. QED
  BY <1>1, <1>3 DEF r

LEMMA PickedParts ==
    ASSUME NEW R, NEW rest \in Seq(R), NEW dashed, \A k \in DOMAIN rest : k \in dashed <=> IsFlag(rest[k])
    PROVE  /\ Picked(rest, dashed) \in Seq(R) /\ Picked(rest, DOMAIN rest \ dashed) \in Seq(R)
           /\ \A x : x \in ToSet(Picked(rest, dashed)) <=> x \in ToSet(rest) /\ IsFlag(x)
           /\ \A x : x \in ToSet(Picked(rest, DOMAIN rest \ dashed)) <=> x \in ToSet(rest) /\ ~IsFlag(x)
<1> DEFINE others == DOMAIN rest \ dashed
<1>1. \A k \in DOMAIN rest : k \in others <=> ~IsFlag(rest[k])
  OBVIOUS
<1> HIDE DEF others
<1>2. Picked(rest, dashed) \in Seq(R) /\ \A x : x \in ToSet(Picked(rest, dashed)) <=> \E k \in DOMAIN rest : k \in dashed /\ rest[k] = x
  BY PickedWords
<1>3. Picked(rest, others) \in Seq(R) /\ \A x : x \in ToSet(Picked(rest, others)) <=> \E k \in DOMAIN rest : k \in others /\ rest[k] = x
  BY PickedWords
<1>4. \A x : x \in ToSet(rest) <=> \E k \in DOMAIN rest : rest[k] = x
  BY DEF ToSet
<1>5. \A x : x \in ToSet(Picked(rest, dashed)) <=> x \in ToSet(rest) /\ IsFlag(x)
  BY <1>2, <1>4
<1>6. \A x : x \in ToSet(Picked(rest, others)) <=> x \in ToSet(rest) /\ ~IsFlag(x)
  BY <1>1, <1>3, <1>4
<1>7. QED
  BY <1>2, <1>3, <1>5, <1>6 DEF others

LEMMA BehindThree ==
    ASSUME NEW R, NEW v \in R, NEW w \in R, NEW flags \in Seq(R), NEW units \in Seq(R)
    PROVE  /\ flags \o units \in Seq(R) /\ \A x : x \in ToSet(flags \o units) <=> x \in ToSet(flags) \/ x \in ToSet(units)
           /\ <<v, w>> \o flags \o units \in Seq(R) /\ Behind(<<v, w>> \o flags \o units, flags \o units)
           /\ (<<v, w>> \o flags \o units)[1] = v /\ (<<v, w>> \o flags \o units)[2] = w
           /\ <<v, w>> \o flags \o units /= <<>>
<1> DEFINE d == <<v, w>>
           r == flags \o units
           u == d \o flags \o units
<1>1. d \in Seq(R)
  OBVIOUS
<1>2. r \in Seq(R)
  BY ConcatAt
<1>3. ToSet(r) = ToSet(flags) \cup ToSet(units)
  BY ToSetConcat
<1> HIDE DEF d
<1>4. u = d \o r
  BY <1>1, ConcatThree
<1> HIDE DEF r, u
<1>5. d \o r \in Seq(R) /\ Behind(d \o r, r) /\ (d \o r)[1] = v /\ (d \o r)[2] = w /\ d \o r /= <<>>
  BY <1>2, BehindTwo DEF d
<1>6. u \in Seq(R) /\ Behind(u, r) /\ u[1] = v /\ u[2] = w /\ u /= <<>>
  BY <1>4, <1>5
<1>7. \A x : x \in ToSet(r) <=> x \in ToSet(flags) \/ x \in ToSet(units)
  BY <1>3
<1>8. QED
  BY <1>2, <1>6, <1>7 DEF d, r, u

SameWords(r, s) == \A x : x \in ToSet(r) <=> x \in ToSet(s)
(* u has the words of c but for its verb.                                     *)
Reworded(R, c, rest, verb, r, one, u) ==
    /\ c \in Seq(R) /\ rest \in Seq(R) /\ Behind(c, rest)
    /\ c[1] = W("systemctl") /\ c[2] \in {W("enable"), W("start")} /\ verb \in {W("disable"), W("stop")}
    /\ r \in Seq(R) /\ SameWords(r, rest) /\ one \in ToSet(rest) /\ ~IsFlag(one)
    /\ u \in Seq(R) /\ Behind(u, r) /\ u[1] = c[1] /\ u[2] = verb

(* The inverse names the same service and has the same flags.                 *)
LEMMA RewordedText ==
    ASSUME NEW R, NEW c, NEW rest, NEW verb, NEW r, NEW one, NEW u, Reworded(R, c, rest, verb, r, one, u)
    PROVE  /\ Named(u) = Named(c) /\ Operands(u) /= {}
           /\ W("--now") \in ToSet(u) <=> W("--now") \in ToSet(c)
           /\ \A x : x \in ToSet(u) => x \in ToSet(c) \/ x = verb
<1> SUFFICES ASSUME c \in Seq(R), rest \in Seq(R), Behind(c, rest),
                    c[1] = W("systemctl"), c[2] \in {W("enable"), W("start")}, verb \in {W("disable"), W("stop")},
                    r \in Seq(R), SameWords(r, rest), one \in ToSet(rest), ~IsFlag(one),
                    u \in Seq(R), Behind(u, r), u[1] = c[1], u[2] = verb
             PROVE  /\ Named(u) = Named(c) /\ Operands(u) /= {}
                    /\ W("--now") \in ToSet(u) <=> W("--now") \in ToSet(c)
                    /\ \A x : x \in ToSet(u) => x \in ToSet(c) \/ x = verb
  BY DEF Reworded
<1>1. Named(c) = Says(rest)
  BY NamedBehind
<1>2. Named(u) = Says(r)
  BY NamedBehind
<1>3. Says(r) /= {} => Operands(u) /= {}
  BY NamedBehind
<1>4. \A x : x \in ToSet(c) <=> x = c[1] \/ x = c[2] \/ x \in ToSet(rest)
  BY WordsBehind
<1>5. \A x : x \in ToSet(u) <=> x = u[1] \/ x = u[2] \/ x \in ToSet(r)
  BY WordsBehind
<1>6. Says(r) = Says(rest)
  BY DEF Says, SameWords
<1>7. Says(rest) /= {}
  BY DEF Says
<1>8. c[2] /= W("--now") /\ c[1] /= W("--now") /\ verb /= W("--now")
  BY WordsAre
<1>9. W("--now") \in ToSet(u) <=> W("--now") \in ToSet(c)
  BY <1>4, <1>5, <1>8 DEF SameWords
<1>10. \A x : x \in ToSet(u) => x \in ToSet(c) \/ x = verb
  BY <1>4, <1>5 DEF SameWords
<1>11. QED
  BY <1>1, <1>2, <1>3, <1>6, <1>7, <1>9, <1>10

LEMMA SystemctlUndone ==
    ASSUME NEW m, IsMachine(m), NEW dir, NEW place0, NEW root, NEW c, NEW u,
           c[1] = W("systemctl"), c[2] \in DOMAIN Opposite, u /= <<>>, u[1] = c[1], u[2] = Opposite[c[2]],
           Named(u) = Named(c), Operands(u) /= {}, W("--now") \in ToSet(u) <=> W("--now") \in ToSet(c),
           Named(c) \cap (m.enabled \cup m.active) = {}, Works(Simple(m, dir, c, root))
    PROVE  IsUndoneBy(m, dir, c, root, place0, u)
<1> DEFINE verb == Opposite[c[2]]
           S == Named(c)
           nowToo == W("--now") \in ToSet(c)
           may == root /\ Named(c) \subseteq m.packages
<1>1. /\ c[2] \in {W("enable"), W("start")} /\ verb \in {W("disable"), W("stop")}
      /\ c[2] = W("enable") => verb = W("disable") /\ verb[1] = "disable" /\ c[2][1] = "enable"
      /\ c[2] = W("start") => verb = W("stop") /\ verb[1] = "stop" /\ c[2][1] = "start"
  BY OppositeIs, WordsAre DEF verb
<1>2. nowToo <=> W("--now") \in ToSet(u)
  OBVIOUS
<1>3. c /= <<>> /\ Operands(c) /= {}
  BY NoOperands DEF Works
<1> HIDE DEF S, nowToo, verb
<1> DEFINE En == EnabledAfter(m.enabled, c[2][1], S)
           Ac == ActiveAfter(m.active, c[2][1], S, nowToo)
<1>4. Simple(m, dir, c, root) = Attempt(may, m, Service(m, c[2][1], S, nowToo))
  BY <1>1, <1>3, SimpleSystemctl DEF S, nowToo
<1>5. /\ m = Mach(m.tree, m.packages, m.enabled, m.active)
      /\ m.enabled \cup m.active \subseteq m.packages
  BY MachIs
<1>6. may /\ Simple(m, dir, c, root).host = Mach(m.tree, m.packages, En, Ac)
  <2> HIDE DEF may
  <2>1. may
    BY <1>4, AttemptIs DEF Works
  <2>2. Service(m, c[2][1], S, nowToo) = Mach(m.tree, m.packages, En, Ac)
    <3>1. Service(Mach(m.tree, m.packages, m.enabled, m.active), c[2][1], S, nowToo) = Mach(m.tree, m.packages, En, Ac)
      BY ServiceIs
    <3> HIDE DEF En, Ac
    <3>2. QED
      BY <1>5, <3>1
  <2> HIDE DEF En, Ac
  <2>3. QED
    BY <1>4, <2>1, <2>2 DEF Attempt
<1>7. S \subseteq m.packages /\ root
  BY <1>6 DEF S
<1>8. EnabledAfter(En, verb[1], S) = m.enabled /\ ActiveAfter(Ac, verb[1], S, nowToo) = m.active
  <2>1. S \cap (m.enabled \cup m.active) = {}
    BY DEF S
  <2>2. CASE c[2] = W("enable")
    BY <1>1, <2>1, <2>2 DEF EnabledAfter, ActiveAfter
  <2>3. CASE c[2] = W("start")
    BY <1>1, <2>1, <2>3 DEF EnabledAfter, ActiveAfter
  <2>4. QED
    BY <1>1, <2>2, <2>3
<1>9. En \cup Ac \subseteq m.packages
  BY <1>5, <1>7 DEF EnabledAfter, ActiveAfter
<1> HIDE DEF En, Ac
<1>10. ASSUME NEW H
       PROVE  /\ Simple(Mach(H, m.packages, En, Ac), place0, u, root).ok
              /\ Simple(Mach(H, m.packages, En, Ac), place0, u, root).host = Mach(H, m.packages, m.enabled, m.active)
  <2> DEFINE h == Mach(H, m.packages, En, Ac)
             good == root /\ S \subseteq h.packages
             back == W("--now") \in ToSet(u)
  <2>1. h.packages = m.packages
    BY MachParts
  <2>2. Simple(h, place0, u, root) = Attempt(good, h, Service(h, verb[1], S, back))
    <3> HIDE DEF h
    <3>1. u[2] \in {W("enable"), W("disable"), W("start"), W("stop")} /\ Operands(u) /= {}
      BY <1>1 DEF verb
    <3>2. u[1] = W("systemctl") /\ Named(u) = S /\ u[2] = verb
      BY DEF verb, S
    <3>3. Simple(h, place0, u, root) = Attempt(root /\ Named(u) \subseteq h.packages, h,
                                          Service(h, u[2][1], Named(u), W("--now") \in ToSet(u)))
      BY <3>1, <3>2, SimpleSystemctl
    <3>4. QED
      BY <3>2, <3>3
  <2>3. Service(h, verb[1], S, back) = Mach(H, m.packages, m.enabled, m.active)
    <3> HIDE DEF back
    <3>1. back <=> nowToo
      BY <1>2 DEF back
    <3>2. Service(h, verb[1], S, back)
            = Mach(H, m.packages, EnabledAfter(En, verb[1], S), ActiveAfter(Ac, verb[1], S, back))
      BY ServiceIs
    <3>3. ActiveAfter(Ac, verb[1], S, back) = m.active
      BY <1>8, <3>1 DEF ActiveAfter
    <3>4. QED
      BY <1>8, <3>2, <3>3
  <2>4. good
    BY <1>7, <2>1
  <2> HIDE DEF h, good, back
  <2>5. Simple(h, place0, u, root).ok /\ Simple(h, place0, u, root).host = Mach(H, m.packages, m.enabled, m.active)
    BY <2>2, <2>3, <2>4 DEF Attempt
  <2>6. QED
    BY <2>5 DEF h
<1>11. IsUndoneBy(m, dir, c, root, place0, u)
  <2> DEFINE P == m.packages
  <2>1. En \cup Ac \subseteq P /\ Simple(m, dir, c, root).host = Mach(m.tree, P, En, Ac)
    BY <1>6, <1>9
  <2>2. \A H : /\ Simple(Mach(H, P, En, Ac), place0, u, root).ok
               /\ Simple(Mach(H, P, En, Ac), place0, u, root).host = Mach(H, m.packages, m.enabled, m.active)
    BY <1>10
  <2> HIDE DEF P
  <2>3. QED
    BY <2>1, <2>2, ElseUndone
<1>12. QED
  BY <1>11

LEMMA TailIs == \A R : \A c \in Seq(R) : c /= <<>> =>
    /\ Tail(c) \in Seq(R) /\ Len(c) \in Nat /\ Len(c) > 0 /\ Len(Tail(c)) = Len(c) - 1
    /\ \A k \in 1..(Len(c) - 1) : Tail(c)[k] = c[k + 1]
  OBVIOUS

(* Which tokens are the values of flags.                                      *)
IsFlagValues(f, a) == f = [i \in 0..Len(a) |-> i > 1 /\ IsFlag(a[i - 1]) /\ ~f[i - 1]]

LEMMA FlagValuesIs ==
    ASSUME NEW a \in Seq(Token)
    PROVE  /\ FlagValues(a) \in [0..Len(a) -> BOOLEAN]
           /\ \A k \in 1..Len(a) : FlagValues(a)[k] = (k > 1 /\ IsFlag(a[k - 1]) /\ ~FlagValues(a)[k - 1])
<1> DEFINE m == Len(a)
           F == [k \in 1..m |-> [b \in BOOLEAN |-> k > 1 /\ IsFlag(a[k - 1]) /\ ~b]]
<1>1. m \in Nat /\ FALSE \in BOOLEAN
  OBVIOUS
<1>2. F \in [1..m -> [BOOLEAN -> BOOLEAN]]
  OBVIOUS
<1>3. PICK f \in [0..m -> BOOLEAN] : Goes(f, FALSE, F, m)
  <2> HIDE DEF m, F
  <2>1. QED
    BY <1>1, <1>2, TableIn
<1>4. f[0] = FALSE /\ \A k \in 1..m : f[k] = F[k][f[k - 1]]
  <2> HIDE DEF m, F
  <2>1. QED
    BY <1>3 DEF Goes
<1>5. \A k \in 1..m : f[k] = (k > 1 /\ IsFlag(a[k - 1]) /\ ~f[k - 1])
  <2> SUFFICES ASSUME NEW k \in 1..m PROVE f[k] = (k > 1 /\ IsFlag(a[k - 1]) /\ ~f[k - 1])
    OBVIOUS
  <2>1. k - 1 \in 0..m
    BY <1>1
  <2>2. f[k - 1] \in BOOLEAN
    BY <2>1
  <2>3. f[k] = F[k][f[k - 1]]
    BY <1>4
  <2>4. QED
    BY <2>2, <2>3
<1>6. IsFlagValues(f, a)
  <2> DEFINE h == [k \in 0..m |-> k > 1 /\ IsFlag(a[k - 1]) /\ ~f[k - 1]]
  <2>1. \A k \in 0..m : h[k] = f[k]
    <3> SUFFICES ASSUME NEW k \in 0..m PROVE h[k] = f[k]
      OBVIOUS
    <3>1. CASE k = 0
      BY <1>4, <3>1
    <3>2. CASE k \in 1..m
      <4>1. h[k] = (k > 1 /\ IsFlag(a[k - 1]) /\ ~f[k - 1])
        BY <3>2
      <4>2. QED
        BY <4>1, <1>5, <3>2
    <3>3. QED
      BY <3>1, <3>2
  <2>2. h = [k \in 0..m |-> f[k]]
    <3>1. h = [k \in 0..m |-> h[k]]
      OBVIOUS
    <3> HIDE DEF h
    <3>2. QED
      BY <2>1, <3>1
  <2>3. f = [k \in 0..m |-> f[k]]
    OBVIOUS
  <2>4. f = h
    BY <2>2, <2>3
  <2>5. QED
    BY <2>4 DEF IsFlagValues
<1>7. FlagValues(a) = CHOOSE g : IsFlagValues(g, a)
  BY DEF FlagValues, IsFlagValues
<1>8. IsFlagValues(FlagValues(a), a)
  BY <1>6, <1>7
<1> DEFINE v == FlagValues(a)
<1> HIDE DEF v
<1>9. v = [k \in 0..m |-> k > 1 /\ IsFlag(a[k - 1]) /\ ~v[k - 1]]
  BY <1>8 DEF IsFlagValues, v
<1>10. v \in [0..m -> BOOLEAN]
  <2> DEFINE h == [k \in 0..m |-> k > 1 /\ IsFlag(a[k - 1]) /\ ~v[k - 1]]
  <2>1. h \in [0..m -> BOOLEAN]
    OBVIOUS
  <2>2. v = h
    BY <1>9
  <2> HIDE DEF h
  <2>3. QED
    BY <2>1, <2>2
<1>11. \A k \in 1..m : v[k] = (k > 1 /\ IsFlag(a[k - 1]) /\ ~v[k - 1])
  <2> DEFINE h == [k \in 0..m |-> k > 1 /\ IsFlag(a[k - 1]) /\ ~v[k - 1]]
  <2>1. \A k \in 1..m : h[k] = (k > 1 /\ IsFlag(a[k - 1]) /\ ~v[k - 1])
    OBVIOUS
  <2>2. v = h
    BY <1>9
  <2> HIDE DEF h
  <2>3. QED
    BY <2>1, <2>2
<1>12. QED
  BY <1>10, <1>11 DEF v

(* The path that the inverse of a New-Item takes away is that which it made.  *)
LEMMA NewItemPath ==
    ASSUME NEW c \in Seq(Token), c /= <<>>, NEW d, d \in DeriveNewItem(c),
           NEW i \in Operands(c), c[i - 1] /= W("-ItemType")
    PROVE  d = [command |-> <<W("Remove-Item"), c[i]>>, relative |-> ~Absolute(c[i])]
<1> DEFINE a == Tail(c)
           value == FlagValues(a)
           flags == {k \in DOMAIN a : ~value[k] /\ IsFlag(a[k])}
           Given(f) == {k \in flags : a[k] = W(f)}
           paths == {k \in DOMAIN a : ~value[k] /\ k \notin flags} \cup {k + 1 : k \in Given("-Path")}
           path == a[CHOOSE k \in paths : TRUE]
           k0 == i - 1
<1>1. /\ flags = Given("-ItemType") \cup Given("-Path") /\ \E k \in paths : paths = {k}
      /\ d = [command |-> <<W("Remove-Item"), path>>, relative |-> ~Absolute(path)]
  <2> DEFINE good == /\ flags = Given("-ItemType") \cup Given("-Path") /\ Len(a) \notin flags
                     /\ Given("-ItemType") /= {} /\ \A k \in Given("-ItemType") : a[k + 1] = W("Directory")
                     /\ \E k \in paths : paths = {k}
  <2>1. DeriveNewItem(c) = IF good THEN Reversing(<<W("Remove-Item"), path>>, ~Absolute(path)) ELSE NoInverse
    BY DEF DeriveNewItem
  <2> HIDE DEF good, path
  <2>2. good /\ d = [command |-> <<W("Remove-Item"), path>>, relative |-> ~Absolute(path)]
    BY <2>1 DEF NoInverse, Reversing
  <2>3. QED
    BY <2>2 DEF good
<1>2. /\ a \in Seq(Token) /\ Len(c) \in Nat /\ Len(a) = Len(c) - 1 /\ \A k \in 1..(Len(c) - 1) : a[k] = c[k + 1]
  BY TailIs
<1>3. \A k \in 1..Len(a) : value[k] = (k > 1 /\ IsFlag(a[k - 1]) /\ ~value[k - 1])
  <2> HIDE DEF a
  <2>1. QED
    BY <1>2, FlagValuesIs
<1>4. DOMAIN a = 1..Len(a)
  BY <1>2
<1> HIDE DEF a, value
<1>5. i \in 2..Len(c) /\ ~IsFlag(c[i])
  BY DEF Operands
<1>6. k0 \in 1..Len(a) /\ k0 + 1 = i /\ a[k0] = c[i]
  BY <1>2, <1>5
<1> HIDE DEF k0
<1>7. k0 \in paths
  <2>1. CASE ~value[k0]
    BY <1>4, <1>5, <1>6, <2>1
  <2>2. CASE value[k0]
    <3> DEFINE l == k0 - 1
    <3>1. k0 > 1 /\ IsFlag(a[l]) /\ ~value[l]
      BY <1>3, <1>6, <2>2
    <3>2. l \in 1..Len(a) /\ l \in 1..(Len(c) - 1) /\ l + 1 = k0 /\ l + 1 = i - 1
      BY <1>2, <1>5, <1>6, <3>1
    <3> HIDE DEF l
    <3>3. l \in flags
      BY <1>4, <3>1, <3>2
    <3>4. a[l] /= W("-ItemType")
      BY <1>2, <3>2
    <3>5. l \in Given("-Path")
      BY <1>1, <3>3, <3>4
    <3>6. QED
      BY <3>2, <3>5
  <2>3. QED
    BY <2>1, <2>2
<1> HIDE DEF paths
<1>8. path = c[i]
  BY <1>1, <1>6, <1>7
<1>9. QED
  BY <1>1, <1>8

LEMMA NewItemItems ==
    ASSUME NEW m, NEW dir, NEW c, NEW root, c[1] = W("New-Item"), Simple(m, dir, c, root).ok
    PROVE  \E i \in Operands(c) : Items(c) = {i}
<1>1. c /= <<>> /\ Operands(c) /= {}
  BY NoOperands
<1>2. /\ c[1] /= W("mkdir") /\ c[1] /= W("rmdir") /\ c[1] /= W("mv")
      /\ c[1] /= W("Remove-Item") /\ c[1] /= W("systemctl")
  BY VerbsDiffer DEF Verbs
<1>3. c[1] \notin DOMAIN UnixVerbs \cup DOMAIN WindowsVerbs
  BY ManagersAre DEF Verbs
<1>4. ~(\E i \in Operands(c) : Items(c) = {i}) => Simple(m, dir, c, root) = Refused(m)
  BY <1>1, <1>2, <1>3 DEF Simple
<1>5. QED
  BY <1>4, NotRefused

LEMMA NewItemEqual ==
    ASSUME NEW m, NEW dir, NEW c, NEW root, c /= <<>>, c[1] = W("New-Item"), NEW i, OneItem(c, i)
    PROVE  \E yes : yes = TRUE /\ Simple(m, dir, c, root) = MakeDir(m, PathOf(c[i], dir), yes, yes)
<1>1. \E yes : yes = TRUE
  OBVIOUS
<1>2. PICK yes : yes = TRUE
  BY <1>1
<1>3. Simple(m, dir, c, root) = MakeDir(m, PathOf(c[i], dir), yes, yes)
  BY <1>2, SimpleNewItem
<1>4. QED
  BY <1>2, <1>3

LEMMA NewItemMakes ==
    ASSUME NEW m, NEW dir, NEW c, NEW root, c /= <<>>, c[1] = W("New-Item"), NEW i, OneItem(c, i),
           Works(Simple(m, dir, c, root))
    PROVE  \E yes : /\ yes = TRUE /\ MakeDir(m, PathOf(c[i], dir), yes, yes).ok
                    /\ Simple(m, dir, c, root).host = MakeDir(m, PathOf(c[i], dir), yes, yes).host
<1>1. PICK yes : yes = TRUE /\ Simple(m, dir, c, root) = MakeDir(m, PathOf(c[i], dir), yes, yes)
  BY NewItemEqual
<1> DEFINE s == Simple(m, dir, c, root)
           d == MakeDir(m, PathOf(c[i], dir), yes, yes)
<1>3. Works(s)
  OBVIOUS
<1>4. s = d
  BY <1>1
<1> HIDE DEF s, d
<1>5. d.ok /\ s.host = d.host
  BY <1>3, <1>4 DEF Works
<1>6. QED
  BY <1>1, <1>5 DEF s, d

LEMMA NewItemUndone ==
    ASSUME NEW m, IsMachine(m), NEW dir \in Token, NEW place0, NEW root,
           NEW c, c /= <<>>, c[1] = W("New-Item"), NEW i, OneItem(c, i),
           NEW p \in Token, p = c[i], PathOf(p, place0) = PathOf(p, dir), Front(PathOf(p, dir)) \in DOMAIN m.tree,
           Works(Simple(m, dir, c, root))
    PROVE  IsUndoneBy(m, dir, c, root, place0, <<W("Remove-Item"), p>>)
<1> DEFINE u == <<W("Remove-Item"), p>>
           T == m.tree
           path == PathOf(p, dir)
           post == Simple(m, dir, c, root).host
<1>1. m = Mach(T, m.packages, m.enabled, m.active) /\ IsTree(T) /\ m.enabled \cup m.active \subseteq m.packages
  BY MachIs
<1>2. ~IsFlag(p)
  BY DEF Operands, OneItem
<1>3. Operands(u) = {2} /\ u /= <<>> /\ u[1] = W("Remove-Item") /\ u[2] = p
  BY <1>2, PairIs, OneOperand
<1>4. path \in Token /\ Front(path) \in DOMAIN T
  BY PathToken
<1> HIDE DEF u, T, path
<1> DEFINE U == Made(T, path)
<1>5. PICK yes : /\ yes = TRUE /\ MakeDir(m, PathOf(c[i], dir), yes, yes).ok
                 /\ Simple(m, dir, c, root).host = MakeDir(m, PathOf(c[i], dir), yes, yes).host
  BY NewItemMakes
<1>6. yes /\ MakeDir(m, path, yes, yes).ok /\ post = MakeDir(m, path, yes, yes).host
  BY <1>5 DEF path
<1>7. /\ path \notin DOMAIN T /\ Hangs(path, T)
      /\ MakeDir(m, path, yes, yes).host = Mach(U, m.packages, m.enabled, m.active)
  <2>1. MakeDir(Mach(T, m.packages, m.enabled, m.active), path, yes, yes).ok
    BY <1>1, <1>6
  <2>2. yes => Front(path) \in DOMAIN T
    BY <1>4
  <2>3. /\ path \notin DOMAIN T /\ Hangs(path, T)
        /\ MakeDir(Mach(T, m.packages, m.enabled, m.active), path, yes, yes).host
             = Mach(Made(T, path), m.packages, m.enabled, m.active)
    BY <1>1, <1>4, <2>1, <2>2, MakeDirIs
  <2>4. QED
    BY <1>1, <2>3
<1>8. post = Mach(U, m.packages, m.enabled, m.active) /\ post.tree = U
  <2> HIDE DEF post, U
  <2>1. post = Mach(U, m.packages, m.enabled, m.active)
    BY <1>6, <1>7
  <2>2. QED
    BY <2>1, MachParts
<1> HIDE DEF post, U
<1>9. IsTree(U)
  <2>1. Free(U, {})
    BY DEF Free
  <2>2. QED
    BY <1>1, <1>7, <2>1, MadeCut DEF U
<1>10. IsMachine(post) /\ HeldBy(post.tree) = HeldBy(T)
  BY <1>1, <1>8, <1>9, MachineIs, HeldMade DEF U
<1>11. ASSUME NEW E, Free(post.tree, E) PROVE BackTo(m, c, dir, E, Simple(Put(post, E), place0, u, root))
  <2> DEFINE H == Plus(U, E)
             h == Mach(H, m.packages, m.enabled, m.active)
             back == Simple(h, place0, u, root)
             kinds == {"dir", "text", "mine"}
  <2>1. Put(post, E) = h
    BY <1>8, MachParts DEF Put
  <2>2. back = RemoveEmpty(h, path, kinds, yes)
    <3> HIDE DEF h
    <3>1. QED
      BY <1>3, <1>5, SimpleRemoveItem DEF path
  <2>3. Free(U, E)
    BY <1>8, <1>11
  <2>4. /\ path \in DOMAIN H /\ H[path] = "dir"
        /\ E = {} => Below(path, H) = {path}
        /\ Below(path, H) = {path} => Cut(H, path) = Plus(T, E) /\ Free(T, E)
    BY <1>1, <1>7, <2>3, MadeCut DEF U
  <2>5. "dir" \in kinds /\ yes
    BY <1>6
  <2> HIDE DEF H, kinds
  <2>6. /\ RemoveEmpty(h, path, kinds, yes).ok <=>
             path \in DOMAIN H /\ Below(path, H) = {path} /\ H[path] \in kinds /\ (Guarded(path) => yes)
        /\ RemoveEmpty(h, path, kinds, yes).ok =>
             RemoveEmpty(h, path, kinds, yes).host = Mach(Cut(H, path), m.packages, m.enabled, m.active)
    BY RemoveIs
  <2> HIDE DEF h, back
  <2>7. E = {} => back.ok
    BY <2>2, <2>4, <2>5, <2>6
  <2>8. back.ok => Free(T, E) /\ back.host = Put(m, E)
    BY <2>2, <2>4, <2>6 DEF Put, T
  <2>9. QED
    BY <2>1, <2>7, <2>8 DEF BackTo, T, back
<1>12. QED
  BY <1>10, <1>11 DEF IsUndoneBy, post, u, T

(* What the inverses are written with.                                        *)
Spoken == Token \cup {W("rmdir"), W("mv"), W("Remove-Item"), W("disable"), W("stop"), W("remove"), W("uninstall")}
Runnable(u) == u \in Seq(Spoken) /\ u /= <<>> /\ u[1] /= W("sudo") /\ W("&&") \notin ToSet(u)
Undoes(m, dir, c, root, place0, u) == IsUndoneBy(m, dir, c, root, place0, u) /\ Runnable(u)
(* An inverse with a relative path is run where the command was.              *)
Suits(i, place0, dir) == i.relative => place0 = dir

LEMMA ReversingIs == \A u, r : \A i \in Reversing(u, r) : i.command = u /\ i.relative = r
  BY DEF Reversing

LEMMA PairSound ==
    \A v \in Spoken : \A p \in Token : v /= W("sudo") /\ v /= W("&&") /\ p /= W("&&") => Runnable(<<v, p>>)
<1> SUFFICES ASSUME NEW v \in Spoken, NEW p \in Token, v /= W("sudo"), v /= W("&&"), p /= W("&&") PROVE Runnable(<<v, p>>)
  OBVIOUS
<1> DEFINE u == <<v, p>>
<1>1. p \in Spoken
  BY DEF Spoken
<1>2. u \in Seq(Spoken)
  BY <1>1
<1>3. Len(u) = 2 /\ u[1] = v /\ u[2] = p
  BY PairIs
<1> HIDE DEF u
<1>4. u /= <<>>
  <2>1. Len(<<>>) = 0
    OBVIOUS
  <2>2. QED
    BY <1>3, <2>1
<1>5. W("&&") \notin ToSet(u)
  <2>1. \A x : x \in ToSet(u) <=> \E k \in 1..Len(u) : u[k] = x
    BY <1>2, SetIs
  <2>2. 1..Len(u) = {1, 2}
    BY <1>3
  <2>3. QED
    BY <1>3, <2>1, <2>2
<1>6. QED
  BY <1>2, <1>3, <1>4, <1>5 DEF Runnable, u

LEMMA TripleSound == \A v \in Spoken : \A p, q \in Token :
    v /= W("sudo") /\ v /= W("&&") /\ p /= W("&&") /\ q /= W("&&") => Runnable(<<v, p, q>>)
<1> SUFFICES ASSUME NEW v \in Spoken, NEW p \in Token, NEW q \in Token,
                    v /= W("sudo"), v /= W("&&"), p /= W("&&"), q /= W("&&") PROVE Runnable(<<v, p, q>>)
  OBVIOUS
<1> DEFINE u == <<v, p, q>>
<1>1. p \in Spoken /\ q \in Spoken
  BY DEF Spoken
<1>2. u \in Seq(Spoken)
  BY <1>1
<1>3. Len(u) = 3 /\ u[1] = v /\ u[2] = p /\ u[3] = q
  BY TripleIs
<1> HIDE DEF u
<1>4. u /= <<>>
  <2>1. Len(<<>>) = 0
    OBVIOUS
  <2>2. QED
    BY <1>3, <2>1
<1>5. W("&&") \notin ToSet(u)
  <2>1. \A x : x \in ToSet(u) <=> \E k \in 1..Len(u) : u[k] = x
    BY <1>2, SetIs
  <2>2. 1..Len(u) = {1, 2, 3}
    BY <1>3
  <2>3. QED
    BY <1>3, <2>1, <2>2
<1>6. QED
  BY <1>2, <1>3, <1>4, <1>5 DEF Runnable, u

LEMMA PathSame ==
    \A p, dir, place0 : (~Absolute(p) => place0 = dir) => PathOf(p, place0) = PathOf(p, dir)
  BY DEF PathOf

LEMMA WordIn == \A c \in Seq(Token) : \A k \in 1..Len(c) : c[k] \in ToSet(c) /\ c[k] \in Token
  BY SeqsAre, SetIs

LEMMA MkdirAnswer ==
    ASSUME NEW m, IsMachine(m), NEW dir \in Token, NEW place0, NEW root, NEW c \in Seq(Token), c[1] = W("mkdir"),
           W("&&") \notin ToSet(c), NEW i \in DeriveMkdir(c), Suits(i, place0, dir), Works(Simple(m, dir, c, root))
    PROVE  Undoes(m, dir, c, root, place0, i.command)
<1> DEFINE p == c[2]
           v == c[1]
<1>1. Len(c) = 2 /\ ~IsFlag(p) /\ i \in Reversing(<<W("rmdir"), p>>, ~Absolute(p))
  BY DEF DeriveMkdir, NoInverse
<1>2. i.command = <<W("rmdir"), p>> /\ i.relative = ~Absolute(p)
  <2> DEFINE u == <<W("rmdir"), p>>
             r == ~Absolute(p)
  <2>1. i \in Reversing(u, r)
    BY <1>1
  <2> HIDE DEF u, r
  <2>2. i.command = u /\ i.relative = r
    BY <2>1, ReversingIs
  <2>3. QED
    BY <2>2 DEF u, r
<1>3. p \in Token /\ p /= W("&&")
  BY <1>1, WordIn
<1>4. c = <<v, p>>
  BY <1>1
<1> HIDE DEF p, v
<1>5. PathOf(p, place0) = PathOf(p, dir)
  BY <1>2, PathSame DEF Suits
<1>6. v \in {W("mkdir")}
  BY DEF v
<1>7. IsUndoneBy(m, dir, <<v, p>>, root, place0, <<W("rmdir"), p>>)
  <2>1. Simple(m, dir, <<v, p>>, root).ok
    BY <1>4 DEF Works
  <2>2. QED
    BY <1>1, <1>3, <1>5, <1>6, <2>1, MkdirUndone
<1>8. Runnable(<<W("rmdir"), p>>)
  <2>1. W("rmdir") /= W("sudo") /\ W("rmdir") /= W("&&")
    BY WordsAre
  <2>2. W("rmdir") \in Spoken
    BY DEF Spoken
  <2>3. QED
    BY <1>3, <2>1, <2>2, PairSound
<1>9. QED
  BY <1>2, <1>4, <1>7, <1>8 DEF Undoes

LEMMA MvAnswer ==
    ASSUME NEW m, IsMachine(m), NEW dir \in Token, NEW place0, NEW root, NEW c \in Seq(Token), c[1] = W("mv"),
           W("&&") \notin ToSet(c), NEW i \in DeriveMv(c), Suits(i, place0, dir), Works(Simple(m, dir, c, root)),
           NothingInTheWay(m, dir, c)
    PROVE  Undoes(m, dir, c, root, place0, i.command)
<1> DEFINE p == c[2]
           q == c[3]
           v == c[1]
<1>1. Len(c) = 3 /\ ~IsFlag(p) /\ ~IsFlag(q) /\ i \in Reversing(<<W("mv"), q, p>>, ~Absolute(p) \/ ~Absolute(q))
  BY DEF DeriveMv, NoInverse
<1>2. i.command = <<W("mv"), q, p>> /\ i.relative = (~Absolute(p) \/ ~Absolute(q))
  <2> DEFINE u == <<W("mv"), q, p>>
             r == ~Absolute(p) \/ ~Absolute(q)
  <2>1. i \in Reversing(u, r)
    BY <1>1
  <2> HIDE DEF u, r
  <2>2. i.command = u /\ i.relative = r
    BY <2>1, ReversingIs
  <2>3. QED
    BY <2>2 DEF u, r
<1>3. p \in Token /\ p /= W("&&") /\ q \in Token /\ q /= W("&&")
  BY <1>1, WordIn
<1>4. c = <<v, p, q>>
  BY <1>1
<1>10. PathOf(q, dir) \notin DOMAIN m.tree
  <2>1. Operands(c) = {2, 3}
    BY <1>1, TwoOperands
  <2>2. PathOf(c[LastAt(Operands(c))], dir) \notin DOMAIN m.tree
    BY DEF NothingInTheWay
  <2>3. QED
    BY <2>1, <2>2, EndsOfTwo
<1> HIDE DEF p, q, v
<1>5. PathOf(p, place0) = PathOf(p, dir)
  BY <1>2, PathSame DEF Suits
<1>11. PathOf(q, place0) = PathOf(q, dir)
  BY <1>2, PathSame DEF Suits
<1>6. v \in {W("mv")}
  BY DEF v
<1>7. IsUndoneBy(m, dir, <<v, p, q>>, root, place0, <<W("mv"), q, p>>)
  <2>1. Simple(m, dir, <<v, p, q>>, root).ok
    BY <1>4 DEF Works
  <2>2. QED
    BY <1>1, <1>3, <1>5, <1>6, <1>10, <1>11, <2>1, MvUndone
<1>8. Runnable(<<W("mv"), q, p>>)
  <2>1. W("mv") /= W("sudo") /\ W("mv") /= W("&&")
    BY WordsAre
  <2>2. W("mv") \in Spoken
    BY DEF Spoken
  <2>3. QED
    BY <1>3, <2>1, <2>2, TripleSound
<1>9. QED
  BY <1>2, <1>4, <1>7, <1>8 DEF Undoes

LEMMA ItemsOne ==
    ASSUME NEW m, NEW dir, NEW c, NEW root, c[1] = W("New-Item"), Works(Simple(m, dir, c, root))
    PROVE  c /= <<>> /\ \E i : OneItem(c, i) /\ LastAt(Items(c)) = i /\ c[i - 1] /= W("-ItemType")
<1>1. Simple(m, dir, c, root).ok
  BY DEF Works
<1>2. c /= <<>>
  BY <1>1, NoOperands
<1>3. PICK i \in Operands(c) : Items(c) = {i}
  BY <1>1, NewItemItems
<1>4. i \in Nat
  BY DEF Operands
<1>5. LastAt({i}) = i
  BY <1>4, EndsOfOne
<1>6. i \in Items(c)
  BY <1>3
<1>7. c[i - 1] /= W("-ItemType")
  BY <1>6 DEF Items
<1>8. QED
  BY <1>2, <1>3, <1>4, <1>5, <1>7 DEF OneItem

LEMMA NewItemAnswer ==
    ASSUME NEW m, IsMachine(m), NEW dir \in Token, NEW place0, NEW root, NEW c \in Seq(Token), c[1] = W("New-Item"),
           W("&&") \notin ToSet(c), NEW d, d \in DeriveNewItem(c), Suits(d, place0, dir), Works(Simple(m, dir, c, root)),
           NothingInTheWay(m, dir, c)
    PROVE  Undoes(m, dir, c, root, place0, d.command)
<1>1. PICK i : c /= <<>> /\ OneItem(c, i) /\ LastAt(Items(c)) = i /\ c[i - 1] /= W("-ItemType")
  BY ItemsOne
<1> DEFINE p == c[i]
<1>2. d = [command |-> <<W("Remove-Item"), p>>, relative |-> ~Absolute(p)]
  BY <1>1, NewItemPath DEF OneItem
<1>3. d.command = <<W("Remove-Item"), p>> /\ d.relative = ~Absolute(p)
  BY <1>2
<1>4. p \in Token /\ p /= W("&&")
  BY <1>1, WordIn DEF OneItem, Operands
<1>5. Front(PathOf(p, dir)) \in DOMAIN m.tree
  BY <1>1 DEF NothingInTheWay
<1>6. p = c[i]
  OBVIOUS
<1> HIDE DEF p
<1>7. PathOf(p, place0) = PathOf(p, dir)
  BY <1>3, PathSame DEF Suits
<1>8. IsUndoneBy(m, dir, c, root, place0, <<W("Remove-Item"), p>>)
  BY <1>1, <1>4, <1>5, <1>6, <1>7, NewItemUndone
<1>9. Runnable(<<W("Remove-Item"), p>>)
  <2>1. W("Remove-Item") /= W("sudo") /\ W("Remove-Item") /= W("&&")
    BY WordsAre
  <2>2. W("Remove-Item") \in Spoken
    BY DEF Spoken
  <2>3. QED
    BY <1>4, <2>1, <2>2, PairSound
<1>10. QED
  BY <1>3, <1>8, <1>9 DEF Undoes

LEMMA BehindSound ==
    ASSUME NEW r \in Seq(Spoken), NEW u \in Seq(Spoken), Behind(u, r), u /= <<>>, W("&&") \notin ToSet(r),
           u[1] /= W("sudo"), u[1] /= W("&&"), u[2] /= W("&&")
    PROVE  Runnable(u)
<1>1. \A x : x \in ToSet(u) <=> x = u[1] \/ x = u[2] \/ x \in ToSet(r)
  BY WordsBehind
<1>2. W("&&") \notin ToSet(u)
  BY <1>1
<1>3. QED
  BY <1>2 DEF Runnable

LEMMA RestIs == ASSUME NEW c \in Seq(Token), Len(c) >= 3, W("&&") \notin ToSet(c), NEW r, r = SubSeq(c, 3, Len(c))
                PROVE  /\ r \in Seq(Token) /\ Behind(c, r) /\ W("&&") \notin ToSet(r)
                       /\ Token \subseteq Spoken /\ c \in Seq(Spoken) /\ r \in Seq(Spoken)
<1>1. r \in Seq(Token) /\ Behind(c, r)
  BY BehindRest
<1>2. \A x : x \in ToSet(c) <=> x = c[1] \/ x = c[2] \/ x \in ToSet(r)
  BY <1>1, WordsBehind
<1>3. Token \subseteq Spoken
  BY DEF Spoken
<1>4. \A s \in Seq(Token) : s \in Seq(Spoken)
  BY <1>3
<1>5. QED
  BY <1>1, <1>2, <1>3, <1>4

LEMMA PackageAnswer ==
    ASSUME NEW m, IsMachine(m), NEW dir \in Token, NEW place0, NEW root, NEW c \in Seq(Token),
           c[1] \in DOMAIN UnixVerbs \cup DOMAIN WindowsVerbs, W("&&") \notin ToSet(c),
           NEW verb \in {W("remove"), W("uninstall")}, NEW i \in DerivePackageInstall(c, verb),
           Works(Simple(m, dir, c, root)), NothingInTheWay(m, dir, c)
    PROVE  Undoes(m, dir, c, root, place0, i.command)
<1> DEFINE r == SubSeq(c, 3, Len(c))
           u == <<c[1], verb>> \o r
<1>1. Len(c) >= 3 /\ c[2] = W("install") /\ i \in Reversing(u, FALSE)
  BY DEF DerivePackageInstall, NoInverse
<1>2. i.command = u
  <2> HIDE DEF u
  <2>1. QED
    BY <1>1, ReversingIs
<1>3. Named(c) \cap m.packages = {}
  BY DEF NothingInTheWay
<1>4. IsUndoneBy(m, dir, c, root, place0, u)
  <2>1. Simple(m, dir, c, root).ok
    BY DEF Works
  <2>2. QED
    BY <1>1, <1>3, <2>1, PackageUndone
<1>5. r \in Seq(Token) /\ Behind(c, r) /\ W("&&") \notin ToSet(r) /\ r \in Seq(Spoken)
  BY <1>1, RestIs
<1>6. c[1] \in Spoken /\ verb \in Spoken
  <2>1. 1 \in 1..Len(c)
    BY <1>1
  <2>2. QED
    BY <2>1, WordIn DEF Spoken
<1> HIDE DEF r
<1>7. u \in Seq(Spoken) /\ Behind(u, r) /\ u[1] = c[1] /\ u[2] = verb /\ u /= <<>>
  BY <1>5, <1>6, BehindTwo
<1> HIDE DEF u
<1>8. c[1] /= W("sudo") /\ c[1] /= W("&&") /\ verb /= W("&&")
  BY ManagersAre, WordsAre
<1>9. Runnable(u)
  BY <1>5, <1>7, <1>8, BehindSound
<1>10. QED
  BY <1>2, <1>4, <1>9 DEF Undoes

LEMMA SystemctlAnswer ==
    ASSUME NEW m, IsMachine(m), NEW dir \in Token, NEW place0, NEW root, NEW c \in Seq(Token),
           c[1] = W("systemctl"), W("&&") \notin ToSet(c), NEW i \in DeriveSystemctl(c),
           Works(Simple(m, dir, c, root)), NothingInTheWay(m, dir, c)
    PROVE  Undoes(m, dir, c, root, place0, i.command)
<1> DEFINE rest == SubSeq(c, 3, Len(c))
           dashed == {k \in DOMAIN rest : IsFlag(rest[k])}
           flags == Picked(rest, dashed)
           units == Picked(rest, DOMAIN rest \ dashed)
           verb == Opposite[c[2]]
           u == <<c[1], verb>> \o flags \o units
           r == flags \o units
<1>1. Len(c) >= 3 /\ c[2] \in DOMAIN Opposite /\ Len(units) = 1 /\ i \in Reversing(u, FALSE)
  BY DEF DeriveSystemctl, NoInverse
<1>2. i.command = u
  <2> HIDE DEF u
  <2>1. QED
    BY <1>1, ReversingIs
<1>3. rest \in Seq(Token) /\ Behind(c, rest) /\ W("&&") \notin ToSet(rest) /\ rest \in Seq(Spoken)
      /\ c \in Seq(Spoken) /\ Token \subseteq Spoken
  BY <1>1, RestIs
<1> HIDE DEF rest
<1>4. \A k \in DOMAIN rest : k \in dashed <=> IsFlag(rest[k])
  OBVIOUS
<1> HIDE DEF dashed
<1>5. /\ flags \in Seq(Spoken) /\ units \in Seq(Spoken)
      /\ \A x : x \in ToSet(flags) <=> x \in ToSet(rest) /\ IsFlag(x)
      /\ \A x : x \in ToSet(units) <=> x \in ToSet(rest) /\ ~IsFlag(x)
  BY <1>3, <1>4, PickedParts
<1>6. /\ c[2] \in {W("enable"), W("start")} /\ verb \in {W("disable"), W("stop")}
  BY <1>1, OppositeIs
<1>7. c[1] \in Spoken /\ verb \in Spoken
  <2>1. 1 \in 1..Len(c)
    BY <1>1
  <2>2. QED
    BY <1>3, <1>6, <2>1, WordIn DEF Spoken
<1> HIDE DEF flags, units, verb
<1>8. /\ r \in Seq(Spoken) /\ \A x : x \in ToSet(r) <=> x \in ToSet(flags) \/ x \in ToSet(units)
      /\ u \in Seq(Spoken) /\ Behind(u, r) /\ u[1] = c[1] /\ u[2] = verb /\ u /= <<>>
  BY <1>5, <1>7, BehindThree
<1> HIDE DEF r, u
<1>9. SameWords(r, rest)
  BY <1>5, <1>8 DEF SameWords
<1>10. units[1] \in ToSet(rest) /\ ~IsFlag(units[1])
  <2>1. 1 \in 1..Len(units)
    BY <1>1
  <2>2. units[1] \in ToSet(units)
    BY <1>5, <2>1, SetIs
  <2>3. QED
    BY <1>5, <2>2
<1>11. /\ Named(u) = Named(c) /\ Operands(u) /= {}
       /\ W("--now") \in ToSet(u) <=> W("--now") \in ToSet(c)
       /\ \A x : x \in ToSet(u) => x \in ToSet(c) \/ x = verb
  <2> DEFINE one == units[1]
  <2>1. one \in ToSet(rest) /\ ~IsFlag(one)
    BY <1>10
  <2> HIDE DEF one
  <2>2. u \in Seq(Spoken) /\ r \in Seq(Spoken) /\ Behind(u, r) /\ u[1] = c[1] /\ u[2] = verb
    BY <1>8
  <2>3. c \in Seq(Spoken) /\ rest \in Seq(Spoken) /\ Behind(c, rest)
    BY <1>3
  <2>4. Reworded(Spoken, c, rest, verb, r, one, u)
    BY <1>6, <1>9, <2>1, <2>2, <2>3 DEF Reworded
  <2>5. QED
    BY <2>4, RewordedText
<1>12. verb /= W("&&") /\ W("systemctl") /= W("sudo")
  BY <1>6, WordsAre
<1>13. Runnable(u)
  <2>1. u \in Seq(Spoken) /\ u /= <<>> /\ u[1] = W("systemctl")
    BY <1>8
  <2>2. W("&&") \notin ToSet(u)
    BY <1>11, <1>12
  <2>3. QED
    BY <1>12, <2>1, <2>2 DEF Runnable
<1>14. Named(c) \cap (m.enabled \cup m.active) = {}
  BY DEF NothingInTheWay
<1>15. IsUndoneBy(m, dir, c, root, place0, u)
  <2>1. u[2] = Opposite[c[2]]
    BY <1>8 DEF verb
  <2>2. u /= <<>> /\ u[1] = c[1]
    BY <1>8
  <2>3. QED
    BY <1>1, <1>11, <1>14, <2>1, <2>2, SystemctlUndone
<1>16. QED
  BY <1>2, <1>13, <1>15 DEF Undoes

IsStep(j) == j = [command |-> j.command, relative |-> j.relative]

LEMMA ReversingSteps == \A u, r : \A j \in Reversing(u, r) : IsStep(j)
  BY DEF Reversing, IsStep
LEMMA MkdirSteps == \A t : \A j \in DeriveMkdir(t) : IsStep(j)
  BY ReversingSteps DEF DeriveMkdir, NoInverse
LEMMA MvSteps == \A t : \A j \in DeriveMv(t) : IsStep(j)
  BY ReversingSteps DEF DeriveMv, NoInverse
LEMMA PackageSteps == \A t, verb : \A j \in DerivePackageInstall(t, verb) : IsStep(j)
  BY ReversingSteps DEF DerivePackageInstall, NoInverse
LEMMA SystemctlSteps == \A t : \A j \in DeriveSystemctl(t) : IsStep(j)
  BY ReversingSteps DEF DeriveSystemctl, NoInverse

LEMMA TailOfJoined ==
    ASSUME NEW R, NEW w \in R, NEW u \in Seq(R)
    PROVE  Tail(<<w>> \o u) = u /\ (<<w>> \o u)[1] = w
<1> DEFINE d == <<w>> \o u
<1>1. d \in Seq(R) /\ Len(d) = Len(u) + 1 /\ Len(u) \in Nat
  OBVIOUS
<1>2. d[1] = w /\ \A k \in 1..Len(u) : d[k + 1] = u[k]
  OBVIOUS
<1> HIDE DEF d
<1>3. d /= <<>>
  BY <1>1
<1>4. Tail(d) \in Seq(R) /\ Len(Tail(d)) = Len(u) /\ \A k \in 1..Len(u) : Tail(d)[k] = u[k]
  BY <1>1, <1>2, <1>3
<1>5. Tail(d) = u
  BY <1>4, SeqEqual
<1>6. QED
  BY <1>2, <1>5 DEF d

LEMMA SetOfJoined ==
    ASSUME NEW R, NEW w \in R, NEW u \in Seq(R)
    PROVE  ToSet(<<w>> \o u) = {w} \cup ToSet(u)
<1> DEFINE s == <<w>>
<1>1. s \in Seq(R)
  OBVIOUS
<1>2. ToSet(s) = {w}
  BY DEF ToSet
<1> HIDE DEF s
<1>3. ToSet(s \o u) = ToSet(s) \cup ToSet(u)
  BY <1>1, ToSetConcat
<1>4. QED
  BY <1>2, <1>3 DEF s

(* The inverse with the rights of the command is run with them.               *)
LEMMA SudoRuns ==
    ASSUME NEW u, Runnable(u), NEW root \in BOOLEAN, NEW d, d = PrefixSudo(u, root)
    PROVE  \A h, place0 : Perform(h, place0, d) = Simple(h, place0, u, root)
<1>1. u \in Seq(Spoken) /\ u /= <<>> /\ u[1] /= W("sudo") /\ W("&&") \notin ToSet(u)
  BY DEF Runnable
<1>2. ~Compound(d) /\ Bare(d) = u /\ AsRoot(d) = root
  <2>1. CASE ~root
    <3>1. d = u
      BY <2>1 DEF PrefixSudo
    <3>2. QED
      BY <1>1, <2>1, <3>1 DEF Compound, Bare, AsRoot
  <2>2. CASE root
    <3> DEFINE R == Spoken \cup {W("sudo")}
               w == W("sudo")
    <3>1. u \in Seq(R) /\ w \in R
      BY <1>1
    <3>2. d = <<w>> \o u
      BY <2>2 DEF PrefixSudo
    <3> HIDE DEF R
    <3>3. Tail(d) = u /\ d[1] = w
      <4> HIDE DEF w
      <4>1. QED
        BY <3>1, <3>2, TailOfJoined
    <3>4. W("&&") \notin ToSet(d)
      <4>1. w /= W("&&")
        BY WordsAre
      <4> HIDE DEF w
      <4>2. ToSet(<<w>> \o u) = {w} \cup ToSet(u)
        BY <3>1, SetOfJoined
      <4>3. QED
        BY <1>1, <3>2, <4>1, <4>2
    <3>5. QED
      BY <2>2, <3>3, <3>4 DEF Compound, Bare, AsRoot
  <2>3. QED
    BY <2>1, <2>2
<1>3. QED
  BY <1>2 DEF Perform, Single

(* The inverse d of t, run in place0, takes back what t did to m in dir.      *)
Takes(m, dir, t, place0, d) ==
    \E u : /\ IsUndoneBy(m, dir, Bare(t), AsRoot(t), place0, u)
           /\ \A h : Perform(h, place0, d) = Simple(h, place0, u, AsRoot(t))

LEMMA BareIs == ASSUME NEW t \in Seq(Token), t /= <<>>, ~Compound(t)
                PROVE  Bare(t) \in Seq(Token) /\ W("&&") \notin ToSet(Bare(t))
<1>1. W("&&") \notin ToSet(t)
  BY DEF Compound
<1>2. CASE AsRoot(t)
  <2>1. Tail(t) \in Seq(Token) /\ Len(t) \in Nat /\ Len(Tail(t)) = Len(t) - 1 /\ \A k \in 1..(Len(t) - 1) : Tail(t)[k] = t[k + 1]
    BY TailIs
  <2> DEFINE c == Tail(t)
  <2>2. \A x : x \in ToSet(c) <=> \E k \in 1..Len(c) : c[k] = x
    <3> HIDE DEF c
    <3>1. c \in Seq(Token)
      BY <2>1 DEF c
    <3>2. QED
      BY <3>1, SetIs
  <2>3. \A x : x \in ToSet(t) <=> \E k \in 1..Len(t) : t[k] = x
    BY SetIs
  <2>4. ASSUME NEW k \in 1..Len(c) PROVE c[k] \in ToSet(t)
    <3>1. k + 1 \in 1..Len(t) /\ c[k] = t[k + 1]
      BY <2>1
    <3>2. QED
      BY <2>3, <3>1
  <2> HIDE DEF c
  <2>5. W("&&") \notin ToSet(c)
    BY <1>1, <2>2, <2>4
  <2>6. Bare(t) = c
    BY <1>2 DEF Bare, c
  <2>7. QED
    BY <2>1, <2>5, <2>6 DEF c
<1>3. CASE ~AsRoot(t)
  BY <1>1, <1>3 DEF Bare
<1>4. QED
  BY <1>2, <1>3

LEMMA AnswerTakes ==
    ASSUME NEW m, NEW dir, NEW t, NEW place0, NEW u, Undoes(m, dir, Bare(t), AsRoot(t), place0, u),
           NEW d, d = PrefixSudo(u, AsRoot(t))
    PROVE  Takes(m, dir, t, place0, d)
<1> DEFINE root == AsRoot(t)
<1>1. IsUndoneBy(m, dir, Bare(t), root, place0, u) /\ Runnable(u)
  BY DEF Undoes
<1>2. root \in BOOLEAN
  BY DEF AsRoot
<1>3. d = PrefixSudo(u, root)
  OBVIOUS
<1> HIDE DEF root
<1>4. \A h, place1 : Perform(h, place1, d) = Simple(h, place1, u, root)
  BY <1>1, <1>2, <1>3, SudoRuns
<1>5. \A h : Perform(h, place0, d) = Simple(h, place0, u, root)
  BY <1>4
<1>6. IsUndoneBy(m, dir, Bare(t), AsRoot(t), place0, u) /\ \A h : Perform(h, place0, d) = Simple(h, place0, u, AsRoot(t))
  BY <1>1, <1>5 DEF root
<1>7. QED
  BY <1>6 DEF Takes

LEMMA UnixTakes ==
    ASSUME NEW m, IsMachine(m), NEW dir \in Token, NEW place0, NEW t \in Seq(Token), t /= <<>>, ~Compound(t),
           NEW i \in DeriveUnix(t), Suits(i, place0, dir), Works(Single(m, dir, t)), NothingInTheWay(m, dir, Bare(t))
    PROVE  Takes(m, dir, t, place0, i.command)
<1> DEFINE c == Bare(t)
           root == AsRoot(t)
           found == IF c = <<>> THEN NoInverse
                    ELSE {j \in DeriveMkdir(c) : c[1] = W("mkdir")} \cup {j \in DeriveMv(c) : c[1] = W("mv")}
                         \cup {j \in DeriveSystemctl(c) : c[1] = W("systemctl")} \cup Manager(c, UnixVerbs)
<1>1. PICK j \in found : i = [j EXCEPT !.command = PrefixSudo(j.command, root)]
  BY DEF DeriveUnix
<1>2. /\ c /= <<>>
      /\ \/ j \in DeriveMkdir(c) /\ c[1] = W("mkdir")
         \/ j \in DeriveMv(c) /\ c[1] = W("mv")
         \/ j \in DeriveSystemctl(c) /\ c[1] = W("systemctl")
         \/ c[1] \in DOMAIN UnixVerbs /\ j \in DerivePackageInstall(c, UnixVerbs[c[1]])
  <2> HIDE DEF c
  <2>1. QED
    BY <1>1 DEF NoInverse, Manager
<1>3. c \in Seq(Token) /\ W("&&") \notin ToSet(c)
  BY BareIs
<1>4. Works(Simple(m, dir, c, root)) /\ NothingInTheWay(m, dir, c)
  BY DEF Single
<1> HIDE DEF c, root, found
<1>5. IsStep(j)
  BY <1>2, MkdirSteps, MvSteps, SystemctlSteps, PackageSteps
<1>6. i.command = PrefixSudo(j.command, root) /\ i.relative = j.relative
  <2> DEFINE u == j.command
             r == j.relative
             d == PrefixSudo(u, root)
  <2>1. j = [command |-> u, relative |-> r]
    BY <1>5 DEF IsStep
  <2>2. i = [j EXCEPT !.command = d]
    BY <1>1
  <2> HIDE DEF u, r, d
  <2>3. i = [command |-> d, relative |-> r]
    BY <2>1, <2>2
  <2>4. i.command = d /\ i.relative = r
    BY <2>3
  <2>5. QED
    BY <2>4 DEF d, u, r
<1>7. Suits(j, place0, dir)
  BY <1>6 DEF Suits
<1>8. Undoes(m, dir, c, root, place0, j.command)
  <2>1. CASE j \in DeriveMkdir(c) /\ c[1] = W("mkdir")
    BY <1>3, <1>4, <1>7, <2>1, MkdirAnswer
  <2>2. CASE j \in DeriveMv(c) /\ c[1] = W("mv")
    BY <1>3, <1>4, <1>7, <2>2, MvAnswer
  <2>3. CASE j \in DeriveSystemctl(c) /\ c[1] = W("systemctl")
    BY <1>3, <1>4, <2>3, SystemctlAnswer
  <2>4. CASE c[1] \in DOMAIN UnixVerbs /\ j \in DerivePackageInstall(c, UnixVerbs[c[1]])
    <3> DEFINE verb == UnixVerbs[c[1]]
    <3>1. verb \in {W("remove"), W("uninstall")} /\ c[1] \in DOMAIN UnixVerbs \cup DOMAIN WindowsVerbs
      BY <2>4, ManagersAre
    <3>2. j \in DerivePackageInstall(c, verb)
      BY <2>4
    <3> HIDE DEF verb
    <3>3. QED
      BY <1>3, <1>4, <3>1, <3>2, PackageAnswer
  <2>5. QED
    BY <1>2, <2>1, <2>2, <2>3, <2>4
<1>9. Undoes(m, dir, Bare(t), AsRoot(t), place0, j.command) /\ i.command = PrefixSudo(j.command, AsRoot(t))
  BY <1>6, <1>8 DEF c, root
<1>10. QED
  BY <1>9, AnswerTakes

LEMMA WindowsTakes ==
    ASSUME NEW m, IsMachine(m), NEW dir \in Token, NEW place0, NEW t \in Seq(Token), t /= <<>>, ~Compound(t),
           NEW i, i \in DeriveWindows(t), Suits(i, place0, dir), Works(Single(m, dir, t)), NothingInTheWay(m, dir, Bare(t))
    PROVE  Takes(m, dir, t, place0, i.command)
<1> DEFINE root == AsRoot(t)
<1>1. \/ t[1] = W("New-Item") /\ i \in DeriveNewItem(t)
      \/ t[1] \in DOMAIN WindowsVerbs /\ i \in DerivePackageInstall(t, WindowsVerbs[t[1]])
  BY DEF DeriveWindows, Manager, NoInverse
<1>2. ~AsRoot(t) /\ Bare(t) = t
  <2>1. W("New-Item") /= W("sudo")
    BY WordsAre
  <2>2. QED
    BY <1>1, <2>1, ManagersAre DEF AsRoot, Bare
<1>3. W("&&") \notin ToSet(t)
  BY DEF Compound
<1>4. Works(Simple(m, dir, t, root)) /\ NothingInTheWay(m, dir, t)
  BY <1>2 DEF Single
<1> HIDE DEF root
<1>5. Undoes(m, dir, t, root, place0, i.command)
  <2>1. CASE t[1] = W("New-Item") /\ i \in DeriveNewItem(t)
    BY <1>3, <1>4, <2>1, NewItemAnswer
  <2>2. CASE t[1] \in DOMAIN WindowsVerbs /\ i \in DerivePackageInstall(t, WindowsVerbs[t[1]])
    <3> DEFINE verb == WindowsVerbs[t[1]]
    <3>1. verb \in {W("remove"), W("uninstall")} /\ t[1] \in DOMAIN UnixVerbs \cup DOMAIN WindowsVerbs
      BY <2>2, ManagersAre
    <3>2. i \in DerivePackageInstall(t, verb)
      BY <2>2
    <3> HIDE DEF verb
    <3>3. QED
      BY <1>3, <1>4, <3>1, <3>2, PackageAnswer
  <2>3. QED
    BY <1>1, <2>1, <2>2
<1>6. Undoes(m, dir, Bare(t), AsRoot(t), place0, i.command) /\ i.command = PrefixSudo(i.command, AsRoot(t))
  BY <1>2, <1>5 DEF root, PrefixSudo
<1>7. QED
  BY <1>6, AnswerTakes

LEMMA DerivedTakes ==
    ASSUME NEW m, IsMachine(m), Here[platform] \in Token, NEW place0, NEW t \in Seq(Token), t /= <<>>, ~Compound(t),
           NEW i, i \in DeriveStep(t, place0), Works(Single(m, Here[platform], t)),
           NothingInTheWay(m, Here[platform], Bare(t))
    PROVE  Takes(m, Here[platform], t, place0, i.command)
<1>1. i \in Derive(t) /\ (~i.relative \/ place0 = Here[platform])
  BY DEF DeriveStep
<1>2. Suits(i, place0, Here[platform])
  BY <1>1 DEF Suits
<1>3. CASE platform = "windows"
  BY <1>1, <1>2, <1>3, WindowsTakes DEF Derive
<1>4. CASE platform /= "windows"
  BY <1>1, <1>2, <1>4, UnixTakes DEF Derive
<1>5. QED
  BY <1>3, <1>4

(* ----------------------------- a run and its undo ---------------------------- *)

(* What the files of M are over the machine m: the user's, put there since.   *)
Over(M, h, m, E) == Free(m.tree, E) /\ h = Put(m, E) /\ (E /= {} => "mine" \notin HeldBy(m.tree) /\ M /= {})

(* b is the machine a, or what a is once the user has put the files of M.     *)
Link(M, a, b) == b = a \/ (M /= {} /\ Free(a.tree, M) /\ "mine" \notin HeldBy(a.tree) /\ b = Put(a, M))

LEMMA PutParts == \A m, E : /\ Put(m, E).tree = Plus(m.tree, E) /\ Put(m, E).packages = m.packages
                            /\ Put(m, E).enabled = m.enabled /\ Put(m, E).active = m.active
  BY MachParts DEF Put

LEMMA PutNone == ASSUME NEW m, IsMachine(m) PROVE Put(m, {}) = m
<1>1. m = Mach(m.tree, m.packages, m.enabled, m.active) /\ IsTree(m.tree)
  BY MachIs
<1>2. Plus(m.tree, {}) = m.tree
  BY <1>1, PlusNone
<1>3. QED
  BY <1>1, <1>2 DEF Put

LEMMA HeldPut == \A m, E : Free(m.tree, E) =>
    /\ \A x : x \in HeldBy(m.tree) => x \in HeldBy(Put(m, E).tree)
    /\ \A x : x \in HeldBy(Put(m, E).tree) /\ x /= "mine" => x \in HeldBy(m.tree)
    /\ E /= {} => "mine" \in HeldBy(Put(m, E).tree)
    /\ E = {} /\ "mine" \in HeldBy(Put(m, E).tree) => "mine" \in HeldBy(m.tree)
<1> SUFFICES ASSUME NEW m, NEW E, Free(m.tree, E)
             PROVE  /\ \A x : x \in HeldBy(m.tree) => x \in HeldBy(Put(m, E).tree)
                    /\ \A x : x \in HeldBy(Put(m, E).tree) /\ x /= "mine" => x \in HeldBy(m.tree)
                    /\ E /= {} => "mine" \in HeldBy(Put(m, E).tree)
                    /\ E = {} /\ "mine" \in HeldBy(Put(m, E).tree) => "mine" \in HeldBy(m.tree)
  OBVIOUS
<1> DEFINE T == m.tree
<1>1. E \cap DOMAIN T = {}
  BY DEF Free
<1>2. Put(m, E).tree = Plus(T, E)
  BY PutParts
<1> HIDE DEF T
<1>3. HeldBy(Plus(T, E)) = HeldBy(T) \cup {x \in {"mine"} : E /= {}}
  BY <1>1, HeldPlus
<1>4. QED
  BY <1>2, <1>3 DEF T

LEMMA FreeNone == \A T : Free(T, {})
  BY DEF Free

(* What is over b is over a, too.                                             *)
LEMMA OverLink ==
    ASSUME NEW M, NEW a, IsMachine(a), NEW b, Link(M, a, b), NEW h, NEW E, Over(M, h, b, E)
    PROVE  \E F : /\ Over(M, h, a, F) /\ F \in {E, M}
                  /\ "mine" \in HeldBy(b.tree) \/ E /= {} => "mine" \in HeldBy(a.tree) \/ F /= {}
                  /\ \A x : x \in HeldBy(b.tree) /\ x /= "mine" => x \in HeldBy(a.tree)
<1>1. CASE b = a
  <2>1. /\ Over(M, h, a, E) /\ E \in {E, M}
        /\ "mine" \in HeldBy(b.tree) \/ E /= {} => "mine" \in HeldBy(a.tree) \/ E /= {}
        /\ \A x : x \in HeldBy(b.tree) /\ x /= "mine" => x \in HeldBy(a.tree)
    BY <1>1
  <2>2. QED
    BY <2>1
<1>2. CASE M /= {} /\ Free(a.tree, M) /\ "mine" \notin HeldBy(a.tree) /\ b = Put(a, M)
  <2>1. "mine" \in HeldBy(b.tree) /\ \A x : x \in HeldBy(b.tree) /\ x /= "mine" => x \in HeldBy(a.tree)
    BY <1>2, HeldPut
  <2>2. E = {}
    BY <2>1 DEF Over
  <2>3. h = Put(b, {})
    BY <2>2 DEF Over
  <2>4. Plus(b.tree, {}) = b.tree
    <3>1. b.tree = Plus(a.tree, M)
      BY <1>2, PutParts
    <3> DEFINE P == Plus(a.tree, M)
    <3>2. P = [q \in DOMAIN P |-> P[q]]
      BY DEF Plus
    <3> HIDE DEF P
    <3>3. Plus(P, {}) = [q \in DOMAIN P |-> P[q]]
      BY DEF Plus
    <3>4. QED
      BY <3>1, <3>2, <3>3 DEF P
  <2>5. h = Put(a, M)
    BY <1>2, <2>3, <2>4, PutParts DEF Put
  <2>6. Over(M, h, a, M)
    BY <1>2, <2>5 DEF Over
  <2>7. QED
    BY <1>2, <2>1, <2>6
<1>3. QED
  BY <1>1, <1>2 DEF Link

(* The k-th of the commands cs ran on pre[k] and left, but for what the user  *)
(* did, pre[k + 1].                                                           *)
Ran(dir, m, t) == /\ IsMachine(m) /\ t \in Seq(Token) /\ t /= <<>> /\ ~Compound(t)
                  /\ Works(Single(m, dir, t)) /\ NothingInTheWay(m, dir, Bare(t))
Chained(dir, first, M, n, cs, pre) ==
    /\ Link(M, first, pre[1])
    /\ \A k \in 1..n : Ran(dir, pre[k], cs[k]) /\ Link(M, Single(pre[k], dir, cs[k]).host, pre[k + 1])

(* What is left to run of an undo, inv, and what it finds.                    *)
StillToRun(dir, first, M, apart, inv, place0, old, h, cs, pre, E) ==
    /\ Chained(dir, first, M, Len(inv), cs, pre) /\ Over(M, h, pre[Len(inv) + 1], E)
    /\ \A k \in 1..Len(inv) : Takes(pre[k], dir, cs[k], place0, inv[Len(inv) + 1 - k])
    /\ \A x \in old : x /= "mine" => x \in HeldBy(pre[Len(inv) + 1].tree)
    /\ apart => /\ E \in {{}, M} /\ ("mine" \in old => "mine" \in HeldBy(pre[Len(inv) + 1].tree) \/ E /= {})
                /\ \A k \in 1..Len(inv) : Clear(Bare(cs[k]), dir, M)

LEMMA WaitsKept ==
    ASSUME NEW dir, NEW first, NEW M, NEW apart, NEW inv, NEW place0, NEW old, NEW h, NEW cs, NEW pre, NEW E,
           StillToRun(dir, first, M, apart, inv, place0, old, h, cs, pre, E)
    PROVE  (\A x \in old : x /= "mine" => x \in HeldBy(h.tree)) /\ (apart => \A x \in old : x \in HeldBy(h.tree))
<1> DEFINE m == pre[Len(inv) + 1]
<1>1. /\ Over(M, h, m, E) /\ \A x \in old : x /= "mine" => x \in HeldBy(m.tree)
      /\ apart => ("mine" \in old => "mine" \in HeldBy(m.tree) \/ E /= {})
  BY DEF StillToRun
<1> HIDE DEF m
<1>2. Free(m.tree, E) /\ h = Put(m, E)
  BY <1>1 DEF Over
<1>3. \A x : x \in HeldBy(m.tree) => x \in HeldBy(h.tree)
  BY <1>2, HeldPut
<1>4. E /= {} => "mine" \in HeldBy(h.tree)
  BY <1>2, HeldPut
<1>5. QED
  BY <1>1, <1>3, <1>4

(* The machine g is m again, but for the user's files. b was it after t, with *)
(* the user's files E.                                                        *)
Restored(dir, M, m, t, b, E, g) ==
    \E G : /\ Over(M, g, m, G)
           /\ Clear(Bare(t), dir, M) /\ E \in {{}, M} =>
                /\ G \in {{}, M}
                /\ "mine" \in HeldBy(b.tree) \/ E /= {} => "mine" \in HeldBy(m.tree) \/ G /= {}

(* The inverse of the last command takes it back.                             *)
LEMMA TakesBack ==
    ASSUME NEW dir, NEW m, NEW t, NEW place0, NEW d, Ran(dir, m, t), Takes(m, dir, t, place0, d),
           NEW M, NEW b, Link(M, Single(m, dir, t).host, b), NEW h, NEW E, Over(M, h, b, E)
    PROVE  /\ ~Perform(h, place0, d).ok => M /= {} /\ Perform(h, place0, d).host = h
           /\ \A x : x \in HeldBy(b.tree) /\ x /= "mine" => x \in HeldBy(m.tree)
           /\ Perform(h, place0, d).ok =>
                Restored(dir, M, m, t, b, E, Perform(h, place0, d).host)
<1> DEFINE c == Bare(t)
           root == AsRoot(t)
           post == Simple(m, dir, c, root).host
           after == Perform(h, place0, d)
<1>1. PICK u : IsUndoneBy(m, dir, c, root, place0, u) /\ \A g : Perform(g, place0, d) = Simple(g, place0, u, root)
  BY DEF Takes
<1>2. after = Simple(h, place0, u, root)
  BY <1>1
<1>3. Link(M, post, b)
  BY DEF Single
<1> HIDE DEF after
<1>4. /\ IsMachine(post) /\ HeldBy(post.tree) = HeldBy(m.tree)
      /\ \A E0 : Free(post.tree, E0) => BackTo(m, c, dir, E0, Simple(Put(post, E0), place0, u, root))
  BY <1>1 DEF IsUndoneBy
<1> HIDE DEF post
<1>5. PICK F : /\ Over(M, h, post, F) /\ F \in {E, M}
               /\ "mine" \in HeldBy(b.tree) \/ E /= {} => "mine" \in HeldBy(post.tree) \/ F /= {}
               /\ \A x : x \in HeldBy(b.tree) /\ x /= "mine" => x \in HeldBy(post.tree)
  BY <1>3, <1>4, OverLink
<1>6. Free(post.tree, F) /\ h = Put(post, F) /\ (F /= {} => "mine" \notin HeldBy(post.tree) /\ M /= {})
  BY <1>5 DEF Over
<1>7. BackTo(m, c, dir, F, after)
  BY <1>2, <1>4, <1>6
<1>8. ~after.ok => M /= {} /\ after.host = h
  <2>1. ~after.ok => F /= {}
    BY <1>7 DEF BackTo
  <2>2. ~after.ok => after.host = h
    BY <1>2, SimpleFails
  <2>3. QED
    BY <1>6, <2>1, <2>2
<1>9. \A x : x \in HeldBy(b.tree) /\ x /= "mine" => x \in HeldBy(m.tree)
  BY <1>4, <1>5
<1>10. ASSUME after.ok
       PROVE  \E G : /\ Over(M, after.host, m, G)
                     /\ Clear(c, dir, M) /\ E \in {{}, M} =>
                            /\ G \in {{}, M}
                            /\ "mine" \in HeldBy(b.tree) \/ E /= {} => "mine" \in HeldBy(m.tree) \/ G /= {}
  <2>1. PICK G : /\ Free(m.tree, G) /\ after.host = Put(m, G) /\ (G /= {} => F /= {})
                 /\ (Clear(c, dir, F) => G = F)
    BY <1>7, <1>10 DEF BackTo
  <2>2. Over(M, after.host, m, G)
    BY <1>4, <1>6, <2>1 DEF Over
  <2>3. ASSUME Clear(c, dir, M), E \in {{}, M} PROVE G = F /\ F \in {{}, M}
    <3>1. F \in {{}, M}
      BY <1>5, <2>3
    <3>2. Clear(c, dir, {})
      BY DEF Clear
    <3>3. Clear(c, dir, F)
      BY <2>3, <3>1, <3>2
    <3>4. QED
      BY <2>1, <3>1, <3>3
  <2>4. Clear(c, dir, M) /\ E \in {{}, M} =>
           /\ G \in {{}, M}
           /\ "mine" \in HeldBy(b.tree) \/ E /= {} => "mine" \in HeldBy(m.tree) \/ G /= {}
    BY <1>4, <1>5, <2>3
  <2>5. QED
    BY <2>2, <2>4
<1>11. QED
  BY <1>8, <1>9, <1>10 DEF after, c, Restored

LEMMA WaitsNext ==
    ASSUME NEW dir, NEW first, NEW M, NEW apart, NEW R, NEW inv \in Seq(R), inv /= <<>>, NEW place0, NEW old, NEW h,
           NEW cs, NEW pre, NEW E, StillToRun(dir, first, M, apart, inv, place0, old, h, cs, pre, E)
    PROVE  /\ ~Perform(h, place0, Head(inv)).ok => M /= {} /\ Perform(h, place0, Head(inv)).host = h
           /\ Perform(h, place0, Head(inv)).ok =>
                \E G : StillToRun(dir, first, M, apart, Tail(inv), place0, old, Perform(h, place0, Head(inv)).host, cs, pre, G)
<1> DEFINE r == Len(inv)
           rest == Tail(inv)
           d == Head(inv)
           m == pre[r]
           t == cs[r]
           b == pre[r + 1]
           after == Perform(h, place0, d)
<1>1. /\ r \in Nat /\ r > 0 /\ Len(rest) = r - 1 /\ d = inv[1] /\ rest \in Seq(R)
      /\ \A k \in 1..(r - 1) : rest[k] = inv[k + 1]
  <2>1. inv[1] = Head(inv)
    OBVIOUS
  <2>2. QED
    BY <2>1, TailIs
<1>2. /\ Chained(dir, first, M, r, cs, pre) /\ Over(M, h, b, E)
      /\ \A k \in 1..r : Takes(pre[k], dir, cs[k], place0, inv[r + 1 - k])
      /\ \A x \in old : x /= "mine" => x \in HeldBy(b.tree)
      /\ apart => /\ E \in {{}, M} /\ ("mine" \in old => "mine" \in HeldBy(b.tree) \/ E /= {})
                  /\ \A k \in 1..r : Clear(Bare(cs[k]), dir, M)
  BY DEF StillToRun
<1> HIDE DEF rest, r
<1>3. r \in 1..r /\ r + 1 - r = 1
  BY <1>1
<1>4. Ran(dir, m, t) /\ Link(M, Single(m, dir, t).host, b)
  BY <1>2, <1>3 DEF Chained
<1>5. Takes(m, dir, t, place0, d)
  BY <1>1, <1>2, <1>3
<1> HIDE DEF m, t, b, d
<1>6. /\ ~after.ok => M /= {} /\ after.host = h
      /\ \A x : x \in HeldBy(b.tree) /\ x /= "mine" => x \in HeldBy(m.tree)
      /\ after.ok => Restored(dir, M, m, t, b, E, after.host)
  BY <1>2, <1>4, <1>5, TakesBack
<1> HIDE DEF after
<1>7. ASSUME after.ok PROVE \E G : StillToRun(dir, first, M, apart, rest, place0, old, after.host, cs, pre, G)
  <2>1. PICK G : /\ Over(M, after.host, m, G)
                 /\ Clear(Bare(t), dir, M) /\ E \in {{}, M} =>
                       /\ G \in {{}, M}
                       /\ "mine" \in HeldBy(b.tree) \/ E /= {} => "mine" \in HeldBy(m.tree) \/ G /= {}
    BY <1>6, <1>7 DEF Restored
  <2> DEFINE n == Len(rest)
  <2>2. n + 1 = r /\ n \in Nat /\ \A k \in 1..n : k \in 1..r
    BY <1>1
  <2> HIDE DEF n
  <2>3. m = pre[n + 1]
    BY <2>2 DEF m
  <2>4. Chained(dir, first, M, n, cs, pre)
    BY <1>2, <2>2 DEF Chained
  <2>5. Over(M, after.host, pre[n + 1], G)
    BY <2>1, <2>3
  <2>6. ASSUME NEW k \in 1..n PROVE Takes(pre[k], dir, cs[k], place0, rest[n + 1 - k])
    <3> DEFINE i == n + 1 - k
    <3>1. i \in 1..(r - 1) /\ i + 1 = r + 1 - k
      BY <2>2
    <3> HIDE DEF i
    <3>2. rest[i] = inv[r + 1 - k]
      BY <1>1, <3>1
    <3>3. Takes(pre[k], dir, cs[k], place0, inv[r + 1 - k])
      BY <1>2, <2>2
    <3>4. QED
      BY <3>2, <3>3 DEF i
  <2>7. \A x \in old : x /= "mine" => x \in HeldBy(pre[n + 1].tree)
    BY <1>2, <1>6, <2>3
  <2>8. ASSUME apart
        PROVE  /\ G \in {{}, M} /\ ("mine" \in old => "mine" \in HeldBy(pre[n + 1].tree) \/ G /= {})
               /\ \A k \in 1..n : Clear(Bare(cs[k]), dir, M)
    <3>1. E \in {{}, M} /\ ("mine" \in old => "mine" \in HeldBy(b.tree) \/ E /= {}) /\ \A k \in 1..r : Clear(Bare(cs[k]), dir, M)
      BY <1>2, <2>8
    <3>2. Clear(Bare(t), dir, M)
      BY <1>3, <3>1 DEF t
    <3>3. G \in {{}, M} /\ ("mine" \in HeldBy(b.tree) \/ E /= {} => "mine" \in HeldBy(m.tree) \/ G /= {})
      BY <2>1, <3>1, <3>2
    <3>4. \A k \in 1..n : Clear(Bare(cs[k]), dir, M)
      BY <2>2, <3>1
    <3>5. QED
      BY <2>3, <3>1, <3>3, <3>4
  <2>9. StillToRun(dir, first, M, apart, rest, place0, old, after.host, cs, pre, G)
    BY <2>4, <2>5, <2>6, <2>7, <2>8 DEF StillToRun, n
  <2>10. QED
    BY <2>9
<1>8. QED
  BY <1>6, <1>7 DEF after, rest, d

LEMMA Unmeddle == ASSUME NEW m, IsMachine(m), "mine" \notin HeldBy(m.tree), NEW E, Free(m.tree, E)
                  PROVE  Unmeddled(Put(m, E)) = m
<1> DEFINE T == m.tree
           P == Plus(T, E)
           L == [q \in {p \in DOMAIN P : P[p] /= "mine"} |-> P[q]]
<1>1. m = Mach(T, m.packages, m.enabled, m.active) /\ IsTree(T)
  BY MachIs
<1>2. L = T
  BY <1>1, PlusLess
<1>3. Put(m, E) = Mach(P, m.packages, m.enabled, m.active)
  BY DEF Put
<1> HIDE DEF T
<1> DEFINE h == Put(m, E)
<1>4. h.tree = P
  BY <1>3, MachParts
<1>5. Unmeddled(h) = [h EXCEPT !.tree = L]
  <2>1. Unmeddled(h) = [h EXCEPT !.tree = [q \in {p \in DOMAIN h.tree : h.tree[p] /= "mine"} |-> h.tree[q]]]
    BY DEF Unmeddled
  <2> HIDE DEF h
  <2>2. QED
    BY <1>4, <2>1
<1> HIDE DEF h, L, P
<1>6. [h EXCEPT !.tree = L] = Mach(L, m.packages, m.enabled, m.active)
  BY <1>3, MachParts DEF h
<1>7. QED
  BY <1>1, <1>2, <1>5, <1>6 DEF h

LEMMA WaitsEnd ==
    ASSUME NEW dir, NEW first, IsMachine(first), "mine" \notin HeldBy(first.tree), NEW M, NEW apart, NEW inv, inv = <<>>,
           NEW place0, NEW old, NEW h, NEW cs, NEW pre, NEW E, StillToRun(dir, first, M, apart, inv, place0, old, h, cs, pre, E)
    PROVE  Unmeddled(h) = first
<1>1. Len(inv) + 1 = 1
  OBVIOUS
<1>2. Link(M, first, pre[1]) /\ Over(M, h, pre[1], E)
  BY <1>1 DEF StillToRun, Chained
<1>3. \E F : /\ Over(M, h, first, F) /\ F \in {E, M}
             /\ "mine" \in HeldBy(pre[1].tree) \/ E /= {} => "mine" \in HeldBy(first.tree) \/ F /= {}
             /\ \A x : x \in HeldBy(pre[1].tree) /\ x /= "mine" => x \in HeldBy(first.tree)
  <2> DEFINE b == pre[1]
  <2>1. Link(M, first, b) /\ Over(M, h, b, E)
    BY <1>2
  <2> HIDE DEF b
  <2>2. \E F : /\ Over(M, h, first, F) /\ F \in {E, M}
               /\ "mine" \in HeldBy(b.tree) \/ E /= {} => "mine" \in HeldBy(first.tree) \/ F /= {}
               /\ \A x : x \in HeldBy(b.tree) /\ x /= "mine" => x \in HeldBy(first.tree)
    BY <2>1, OverLink
  <2>3. QED
    BY <2>2 DEF b
<1>4. PICK F : Free(first.tree, F) /\ h = Put(first, F)
  BY <1>3 DEF Over
<1>5. QED
  BY <1>4, Unmeddle

(* ---------------------------------- the run ---------------------------------- *)

(* The machine of a run after the commands cs, which all have an inverse.     *)
RunsTo(dir, first, M, n, cs, pre, h) ==
    /\ Chained(dir, first, M, n, cs, pre) /\ pre[n + 1] = h /\ IsMachine(h)
    /\ M = {} => "mine" \notin HeldBy(h.tree)

LEMMA ChainSame ==
    ASSUME NEW dir, NEW first, NEW M, NEW n \in Nat, NEW cs, NEW pre, Chained(dir, first, M, n, cs, pre),
           NEW ds, NEW post, \A k \in 1..n : ds[k] = cs[k], \A k \in 1..(n + 1) : post[k] = pre[k]
    PROVE  Chained(dir, first, M, n, ds, post)
<1>1. Link(M, first, pre[1]) /\ \A k \in 1..n : Ran(dir, pre[k], cs[k]) /\ Link(M, Single(pre[k], dir, cs[k]).host, pre[k + 1])
  BY DEF Chained
<1>2. 1 \in 1..(n + 1) /\ \A k \in 1..n : k \in 1..(n + 1) /\ k + 1 \in 1..(n + 1)
  OBVIOUS
<1>3. post[1] = pre[1] /\ \A k \in 1..n : ds[k] = cs[k] /\ post[k] = pre[k] /\ post[k + 1] = pre[k + 1]
  BY <1>2
<1>4. Link(M, first, post[1]) /\ \A k \in 1..n : Ran(dir, post[k], ds[k]) /\ Link(M, Single(post[k], dir, ds[k]).host, post[k + 1])
  BY <1>1, <1>3
<1>5. QED
  BY <1>4 DEF Chained

LEMMA ChainNext ==
    ASSUME NEW dir, NEW first, NEW M, NEW n \in Nat, NEW cs, NEW pre, Chained(dir, first, M, n, cs, pre),
           Ran(dir, pre[n + 1], cs[n + 1]), pre[n + 2] = Single(pre[n + 1], dir, cs[n + 1]).host
    PROVE  Chained(dir, first, M, n + 1, cs, pre)
<1>1. Link(M, first, pre[1]) /\ \A k \in 1..n : Ran(dir, pre[k], cs[k]) /\ Link(M, Single(pre[k], dir, cs[k]).host, pre[k + 1])
  BY DEF Chained
<1>2. n + 1 + 1 = n + 2 /\ \A k \in 1..(n + 1) : k \in 1..n \/ k = n + 1
  OBVIOUS
<1>3. Link(M, Single(pre[n + 1], dir, cs[n + 1]).host, pre[n + 2])
  BY DEF Link
<1>4. \A k \in 1..(n + 1) : Ran(dir, pre[k], cs[k]) /\ Link(M, Single(pre[k], dir, cs[k]).host, pre[k + 1])
  BY <1>1, <1>2, <1>3
<1>5. QED
  BY <1>1, <1>4 DEF Chained

(* A command that has an inverse and succeeds.                                *)
LEMMA RunsNext ==
    ASSUME NEW dir, NEW first, NEW M, NEW n \in Nat, NEW cs, NEW pre, NEW h, RunsTo(dir, first, M, n, cs, pre, h),
           NEW t, Ran(dir, h, t), NEW place0, NEW d, Takes(h, dir, t, place0, d), NEW ds, \A k \in 1..n : ds[k] = cs[k], ds[n + 1] = t
    PROVE  \E post : RunsTo(dir, first, M, n + 1, ds, post, Single(h, dir, t).host)
<1> DEFINE g == Single(h, dir, t).host
           post == [k \in 1..(n + 2) |-> IF k = n + 2 THEN g ELSE pre[k]]
<1>1. /\ Chained(dir, first, M, n, cs, pre) /\ pre[n + 1] = h /\ IsMachine(h)
      /\ M = {} => "mine" \notin HeldBy(h.tree)
  BY DEF RunsTo
<1>2. IsMachine(g) /\ HeldBy(g.tree) = HeldBy(h.tree)
  BY DEF Takes, IsUndoneBy, Single
<1> HIDE DEF g
<1>3. n + 1 \in 1..(n + 2) /\ n + 1 /= n + 2 /\ n + 2 \in 1..(n + 2) /\ \A k \in 1..(n + 1) : k \in 1..(n + 2) /\ k /= n + 2
  OBVIOUS
<1>4. post[n + 1] = h /\ post[n + 2] = g /\ \A k \in 1..(n + 1) : post[k] = pre[k]
  BY <1>1, <1>3
<1> HIDE DEF post
<1>5. Chained(dir, first, M, n, ds, post)
  BY <1>1, <1>4, ChainSame
<1>6. Chained(dir, first, M, n + 1, ds, post)
  <2>1. Ran(dir, post[n + 1], ds[n + 1]) /\ post[n + 2] = Single(post[n + 1], dir, ds[n + 1]).host
    BY <1>4 DEF g
  <2>2. QED
    BY <1>5, <2>1, ChainNext
<1>7. post[n + 1 + 1] = g
  BY <1>4
<1>8. RunsTo(dir, first, M, n + 1, ds, post, g)
  BY <1>1, <1>2, <1>6, <1>7 DEF RunsTo
<1>9. QED
  BY <1>8 DEF g

(* A file of the user's.                                                      *)
LEMMA PutMachine ==
  ASSUME NEW m, IsMachine(m), NEW p, Free(m.tree, {p})
  PROVE  IsMachine(Put(m, {p}))
<1> DEFINE T == m.tree
           P == Plus(T, {p})
<1>1. m = Mach(T, m.packages, m.enabled, m.active) /\ IsTree(T) /\ m.enabled \cup m.active \subseteq m.packages
  BY MachIs
<1> HIDE DEF T
<1>2. p \notin DOMAIN T /\ Hangs(p, T)
  BY DEF Free, T
<1>3. DOMAIN P = DOMAIN T \cup {p} /\ (\A q \in DOMAIN T : P[q] = T[q]) /\ P = [q \in DOMAIN P |-> P[q]]
  BY <1>2 DEF Plus
<1> HIDE DEF P
<1>4. \A q : Hangs(q, T) => Hangs(q, P)
  BY <1>3 DEF Hangs
<1>5. IsTree(P)
  BY <1>1, <1>2, <1>3, <1>4 DEF IsTree
<1>6. QED
  BY <1>1, <1>5, MachineIs DEF Put, P, T

LEMMA RunsMeddled ==
    ASSUME NEW dir, NEW first, NEW n \in Nat, NEW cs, NEW pre, NEW h, RunsTo(dir, first, {}, n, cs, pre, h),
           NEW p, Free(h.tree, {p})
    PROVE  \E post : RunsTo(dir, first, {p}, n, cs, post, Put(h, {p}))
<1> DEFINE g == Put(h, {p})
           M == {p}
           post == [k \in 1..(n + 1) |-> IF k = n + 1 THEN g ELSE pre[k]]
           none == {}
<1>1. none = {}
  OBVIOUS
<1> HIDE DEF none
<1>2. Chained(dir, first, none, n, cs, pre) /\ pre[n + 1] = h /\ IsMachine(h) /\ "mine" \notin HeldBy(h.tree)
  BY <1>1 DEF RunsTo
<1>3. IsMachine(g) /\ M /= {}
  BY <1>2, PutMachine
<1>4. \A a, b : Link(none, a, b) => b = a
  BY <1>1 DEF Link
<1>5. Link(M, h, g) /\ \A a : Link(M, a, a)
  BY <1>2, <1>3 DEF Link
<1> HIDE DEF g, M
<1>6. \A k \in 1..(n + 1) : post[k] = IF k = n + 1 THEN g ELSE pre[k]
  OBVIOUS
<1> HIDE DEF post
<1>7. pre[1] = first /\ \A k \in 1..n : Ran(dir, pre[k], cs[k]) /\ pre[k + 1] = Single(pre[k], dir, cs[k]).host
  BY <1>2, <1>4 DEF Chained
<1>8. \A k \in 1..(n + 1) : Link(M, pre[k], post[k]) /\ (k /= n + 1 => post[k] = pre[k])
  BY <1>2, <1>5, <1>6
<1>9. Link(M, first, post[1])
  <2>1. 1 \in 1..(n + 1)
    OBVIOUS
  <2>2. QED
    BY <1>7, <1>8, <2>1
<1>10. ASSUME NEW k \in 1..n PROVE Ran(dir, post[k], cs[k]) /\ Link(M, Single(post[k], dir, cs[k]).host, post[k + 1])
  <2>1. k \in 1..(n + 1) /\ k + 1 \in 1..(n + 1) /\ k /= n + 1
    OBVIOUS
  <2>2. post[k] = pre[k] /\ Link(M, pre[k + 1], post[k + 1])
    BY <1>8, <2>1
  <2>3. QED
    BY <1>7, <2>2
<1>11. Chained(dir, first, M, n, cs, post)
  BY <1>9, <1>10 DEF Chained
<1>12. post[n + 1] = g
  <2>1. n + 1 \in 1..(n + 1)
    OBVIOUS
  <2>2. QED
    BY <1>6, <2>1
<1>13. RunsTo(dir, first, M, n, cs, post, g)
  BY <1>3, <1>11, <1>12 DEF RunsTo
<1>14. QED
  BY <1>13 DEF g, M

(* The steps of a run that succeeded.                                         *)
Oks(hist) == Picked(hist, {k \in DOMAIN hist : hist[k].ok})
Listed(hist) == \E R : hist \in Seq(R)
Spelt(hist) == \A k \in DOMAIN hist : hist[k].command \in Seq(Token) /\ hist[k].command /= <<>>

LEMMA OksIn == ASSUME NEW hist, Listed(hist)
               PROVE  /\ \E R : Oks(hist) \in Seq(R)
                      /\ \A k \in DOMAIN Oks(hist) : Oks(hist)[k] \in ToSet(hist)
<1>1. PICK R : hist \in Seq(R)
  BY DEF Listed
<1> DEFINE ks == {k \in DOMAIN hist : hist[k].ok}
           r == Picked(hist, ks)
<1>2. r = Oks(hist)
  BY DEF Oks
<1> HIDE DEF ks
<1>3. r \in Seq(R) /\ {r[k] : k \in DOMAIN r} = {hist[k] : k \in ks \cap DOMAIN hist}
  BY <1>1, PickedOf
<1> HIDE DEF r
<1>4. \A k \in DOMAIN r : r[k] \in {hist[j] : j \in ks \cap DOMAIN hist}
  BY <1>3
<1>5. \A k \in DOMAIN r : r[k] \in ToSet(hist)
  BY <1>4 DEF ToSet
<1>6. QED
  BY <1>2, <1>3, <1>5

LEMMA OksNext ==
    ASSUME NEW hist, Listed(hist), NEW x
    PROVE  /\ Listed(Append(hist, x))
           /\ x.ok => Oks(Append(hist, x)) = Append(Oks(hist), x)
           /\ ~x.ok => Oks(Append(hist, x)) = Oks(hist)
           /\ Spelt(hist) /\ x.command \in Seq(Token) /\ x.command /= <<>> => Spelt(Append(hist, x))
<1>1. PICK Q : hist \in Seq(Q)
  BY DEF Listed
<1> DEFINE R == Q \cup {x}
           n == Len(hist)
           new == Append(hist, x)
           ks == {k \in DOMAIN hist : hist[k].ok}
           js == {k \in DOMAIN new : new[k].ok}
<1>2. hist \in Seq(R) /\ x \in R /\ n \in Nat /\ DOMAIN hist = 1..n
  BY <1>1
<1> HIDE DEF R
<1>3. new \in Seq(R) /\ DOMAIN new = 1..(n + 1) /\ new[n + 1] = x /\ \A k \in 1..n : new[k] = hist[k]
  BY <1>2
<1>4. Listed(new)
  BY <1>3 DEF Listed
<1> HIDE DEF n, new
<1>5. \A k \in DOMAIN hist : k \in ks <=> k \in js
  <2>1. \A k \in 1..n : k \in 1..(n + 1)
    BY <1>2
  <2>2. QED
    BY <1>2, <1>3, <2>1
<1>6. n + 1 \in js <=> x.ok
  <2>1. n + 1 \in 1..(n + 1)
    BY <1>2
  <2>2. QED
    BY <1>3, <2>1
<1>7. Oks(hist) = Picked(hist, ks) /\ Oks(new) = Picked(new, js)
  BY DEF Oks
<1> HIDE DEF ks, js
<1>8. Picked(hist, ks) = Picked(hist, js)
  BY <1>2, <1>5, PickedSame
<1>9. Picked(Append(hist, x), js) = IF Len(hist) + 1 \in js THEN Append(Picked(hist, js), x) ELSE Picked(hist, js)
  BY <1>2, PickedAppend
<1>10. Picked(new, js) = IF n + 1 \in js THEN Append(Picked(hist, js), x) ELSE Picked(hist, js)
  BY <1>9 DEF new, n
<1>11. x.ok => Oks(new) = Append(Oks(hist), x)
  BY <1>6, <1>7, <1>8, <1>10
<1>12. ~x.ok => Oks(new) = Oks(hist)
  BY <1>6, <1>7, <1>8, <1>10
<1>13. ASSUME Spelt(hist), x.command \in Seq(Token), x.command /= <<>> PROVE Spelt(new)
  <2>1. \A k \in 1..(n + 1) : k \in 1..n \/ k = n + 1
    BY <1>2
  <2>2. QED
    BY <1>2, <1>3, <1>13, <2>1 DEF Spelt
<1>14. QED
  BY <1>4, <1>11, <1>12, <1>13 DEF new

(* A move has an inverse only if it is of one file or directory.              *)
LEMMA DerivedMoves ==
  ASSUME NEW t, NEW i, i \in Derive(t), Bare(t)[1] = W("mv")
  PROVE  Len(Bare(t)) = 3
<1> DEFINE c == Bare(t)
<1>1. CASE platform = "windows"
  <2>1. t[1] = W("New-Item") \/ t[1] \in DOMAIN WindowsVerbs
    BY <1>1 DEF Derive, DeriveWindows, Manager, NoInverse
  <2>2. t[1] /= W("sudo") /\ t[1] /= W("mv")
    BY <2>1, WordsAre, ManagersAre DEF Verbs
  <2>3. QED
    BY <2>2 DEF Bare, AsRoot
<1>2. CASE platform /= "windows"
  <2> DEFINE found == IF c = <<>> THEN NoInverse
                      ELSE {j \in DeriveMkdir(c) : c[1] = W("mkdir")} \cup {j \in DeriveMv(c) : c[1] = W("mv")}
                           \cup {j \in DeriveSystemctl(c) : c[1] = W("systemctl")} \cup Manager(c, UnixVerbs)
  <2>1. PICK j : j \in found
    BY <1>2 DEF Derive, DeriveUnix
  <2>2. c[1] = W("mv")
    OBVIOUS
  <2> HIDE DEF c
  <2>3. c[1] /= W("mkdir") /\ c[1] /= W("systemctl") /\ c[1] \notin DOMAIN UnixVerbs
    BY <2>2, WordsAre, ManagersAre DEF Verbs
  <2>4. j \in DeriveMv(c)
    BY <2>1, <2>3 DEF NoInverse, Manager
  <2>5. Len(c) = 3
    BY <2>4 DEF DeriveMv, NoInverse
  <2>6. QED
    BY <2>5 DEF c
<1>3. QED
  BY <1>1, <1>2

LEMMA FilesHeld == \A m : FileContents(m) = HeldBy(m.tree)
  BY DEF FileContents, HeldBy

LEMMA GroundIs == ASSUME platform \in {"unix", "windows"}
                  PROVE  /\ Here[platform] \in Token /\ IsMachine(StartOf[platform]) /\ "mine" \notin HeldBy(StartOf[platform].tree)
                         /\ CommandsOf[platform] \subseteq Seq(Token) \ {<<>>}
  BY ReversalAssumption, FilesHeld

(* ------------------------- the undo of a run of commands --------------------- *)

DerivedOn(g, t) == IF g = "windows" THEN DeriveWindows(t) ELSE DeriveUnix(t)
Inverted(g, hist) == \A k \in 1..Len(Oks(hist)) : DerivedOn(g, Oks(hist)[k].command) /= {}
Sequel(hist) == [k \in 1..Len(Oks(hist)) |-> Oks(hist)[k].command]

UndoInvariant ==
    /\ platform \in {"unix", "windows"} /\ Listed(history) /\ Spelt(history)
    /\ plain =>
         /\ stage = "run" => /\ spared = {}
                             /\ Inverted(platform, history) =>
                                  \E pre : RunsTo(Here[platform], StartOf[platform], meddled, Len(Oks(history)), Sequel(history), pre, host)
         /\ stage = "undo" => \E R, cs, pre, E : /\ inverses \in Seq(R)
                                                 /\ StillToRun(Here[platform], StartOf[platform], meddled, Apart, inverses, place,
                                                          spared, host, cs, pre, E)
         /\ stage = "undone" => Unmeddled(host) = StartOf[platform]
         /\ stage = "failed" => meddled /= {}
         /\ \A x \in spared : x /= "mine" \/ Apart => x \in HeldBy(host.tree)

LEMMA UndoStarts == ReversalInit => UndoInvariant
<1> SUFFICES ASSUME ReversalInit PROVE UndoInvariant
  OBVIOUS
<1>1. /\ platform \in {"unix", "windows"} /\ host = StartOf[platform] /\ history = <<>> /\ stage = "run"
      /\ meddled = {} /\ spared = {}
  BY DEF ReversalInit
<1>2. IsMachine(host) /\ "mine" \notin HeldBy(host.tree)
  BY <1>1, GroundIs
<1>3. Listed(history) /\ Spelt(history)
  <2>1. <<>> \in Seq({}) /\ DOMAIN <<>> = {}
    OBVIOUS
  <2>2. QED
    BY <1>1, <2>1 DEF Listed, Spelt
<1>4. Len(Oks(history)) = 0
  <2> DEFINE r == Oks(history)
  <2>1. PICK R : r \in Seq(R)
    BY <1>3, OksIn
  <2>2. \A k \in DOMAIN r : r[k] \in ToSet(history)
    BY <1>3, OksIn
  <2> HIDE DEF r
  <2>3. ToSet(history) = {}
    BY <1>1 DEF ToSet
  <2>4. DOMAIN r = 1..Len(r) /\ Len(r) \in Nat
    BY <2>1
  <2>5. Len(r) = 0
    <3>1. 1 \notin 1..Len(r)
      BY <2>2, <2>3, <2>4
    <3>2. QED
      BY <2>4, <3>1
  <2>6. QED
    BY <2>5 DEF r
<1> DEFINE n == Len(Oks(history))
           cs == Sequel(history)
           pre == [k \in {1} |-> host]
<1>5. n = 0
  BY <1>4
<1> HIDE DEF n, cs
<1>6. pre[1] = host
  OBVIOUS
<1> HIDE DEF pre
<1>7. RunsTo(Here[platform], StartOf[platform], meddled, n, cs, pre, host)
  <2>1. Chained(Here[platform], StartOf[platform], meddled, n, cs, pre)
    <3>1. Link(meddled, StartOf[platform], pre[1])
      BY <1>1, <1>6 DEF Link
    <3>2. 1..n = {}
      BY <1>5
    <3>3. QED
      BY <3>1, <3>2 DEF Chained
  <2>2. n + 1 = 1
    BY <1>5
  <2>3. QED
    BY <1>2, <1>6, <2>1, <2>2 DEF RunsTo
<1>8. stage /= "undo" /\ stage /= "undone" /\ stage /= "failed"
  BY <1>1
<1>9. \E pre0 : RunsTo(Here[platform], StartOf[platform], meddled, Len(Oks(history)), Sequel(history), pre0, host)
  BY <1>7 DEF n, cs
<1>10. QED
  BY <1>1, <1>3, <1>8, <1>9 DEF UndoInvariant

LEMMA RunNext ==
    ASSUME platform \in {"unix", "windows"}, NEW hist, Listed(hist), NEW h, NEW M, NEW t \in Seq(Token), t /= <<>>, ~Compound(t),
           NEW x, x.command = t, x.ok = Perform(h, Here[platform], t).ok, x.ok => NothingInTheWay(h, Here[platform], Bare(t)),
           Inverted(platform, hist) => \E pre : RunsTo(Here[platform], StartOf[platform], M, Len(Oks(hist)), Sequel(hist), pre, h),
           NEW new, new = Append(hist, x), Inverted(platform, new)
    PROVE  \E pre : RunsTo(Here[platform], StartOf[platform], M, Len(Oks(new)), Sequel(new), pre, Perform(h, Here[platform], t).host)
<1> DEFINE dir == Here[platform]
           first == StartOf[platform]
           after == Perform(h, dir, t)
           one == Single(h, dir, t)
<1>1. after = one
  BY DEF Perform
<1>2. /\ x.ok => Oks(new) = Append(Oks(hist), x)
      /\ ~x.ok => Oks(new) = Oks(hist)
  BY OksNext
<1> DEFINE r == Oks(hist)
           s == Oks(new)
           n == Len(r)
<1>3. PICK R0 : r \in Seq(R0)
  BY OksIn
<1> DEFINE R == R0 \cup {x}
<1>4. r \in Seq(R) /\ x \in R /\ n \in Nat
  BY <1>3
<1> HIDE DEF R
<1>5. \A k \in 1..Len(s) : DerivedOn(platform, s[k].command) /= {}
  BY DEF Inverted
<1>6. CASE x.ok
  <2>1. s = Append(r, x)
    BY <1>2, <1>6
  <2> HIDE DEF r, s
  <2>2. Len(s) = n + 1 /\ s[n + 1] = x /\ \A k \in 1..n : s[k] = r[k]
    BY <1>4, <2>1
  <2> HIDE DEF n
  <2>3. n + 1 \in 1..Len(s) /\ \A k \in 1..n : k \in 1..Len(s)
    BY <1>4, <2>2
  <2>4. Inverted(platform, hist)
    <3>1. \A k \in 1..n : DerivedOn(platform, r[k].command) /= {}
      BY <1>5, <2>2, <2>3
    <3>2. QED
      BY <3>1 DEF Inverted, r, n
  <2>5. PICK pre : RunsTo(dir, first, M, n, Sequel(hist), pre, h)
    BY <2>4 DEF r, n
  <2>6. IsMachine(h)
    BY <2>5 DEF RunsTo
  <2>7. Works(one) /\ NothingInTheWay(h, dir, Bare(t))
    <3> HIDE DEF one, after
    <3>1. x.ok = after.ok
      BY DEF after
    <3>2. one.ok
      BY <1>1, <1>6, <3>1
    <3>3. QED
      BY <1>6, <3>2 DEF Works
  <2>8. Ran(dir, h, t)
    BY <2>6, <2>7 DEF Ran
  <2>9. Derive(t) /= {}
    <3>1. DerivedOn(platform, t) /= {}
      BY <1>5, <2>2, <2>3
    <3>2. QED
      BY <3>1 DEF Derive, DerivedOn
  <2>10. PICK d : d \in DeriveStep(t, dir)
    BY <2>9 DEF DeriveStep
  <2>11. Takes(h, dir, t, dir, d.command)
    BY <2>6, <2>7, <2>10, GroundIs, DerivedTakes
  <2> DEFINE u == d.command
             cs == Sequel(hist)
             ds == Sequel(new)
  <2>12. (\A k \in 1..n : ds[k] = cs[k]) /\ ds[n + 1] = t
    <3>1. cs = [k \in 1..n |-> r[k].command] /\ ds = [k \in 1..Len(s) |-> s[k].command]
      BY DEF Sequel, r, s, n
    <3> HIDE DEF cs, ds
    <3>2. QED
      BY <2>2, <2>3, <3>1
  <2> HIDE DEF one, cs, ds, u, dir
  <2>13. \E post : RunsTo(dir, first, M, n + 1, ds, post, Single(h, dir, t).host)
    <3>1. Takes(h, dir, t, dir, u)
      BY <2>11 DEF u
    <3>2. RunsTo(dir, first, M, n, cs, pre, h)
      BY <2>5 DEF cs
    <3> HIDE DEF first
    <3>3. QED
      BY <1>4, <2>8, <2>12, <3>1, <3>2, RunsNext
  <2>14. PICK post : RunsTo(dir, first, M, n + 1, ds, post, Single(h, dir, t).host)
    BY <2>13
  <2>15. Single(h, dir, t).host = after.host
    BY <1>1 DEF one
  <2>16. RunsTo(dir, first, M, Len(s), ds, post, after.host)
    BY <2>2, <2>14, <2>15
  <2>17. QED
    BY <2>16 DEF ds, s, dir
<1>7. CASE ~x.ok
  <2>1. s = r
    BY <1>2, <1>7
  <2>2. after.host = h
    <3>1. ~Single(h, dir, t).ok
      BY <1>1, <1>7
    <3>2. Single(h, dir, t) = Simple(h, dir, Bare(t), AsRoot(t))
      BY DEF Single
    <3>3. Simple(h, dir, Bare(t), AsRoot(t)).host = h
      BY <3>1, <3>2, SimpleFails
    <3>4. QED
      BY <1>1, <3>2, <3>3
  <2>3. Sequel(new) = Sequel(hist)
    BY <2>1 DEF Sequel
  <2>4. Inverted(platform, hist)
    BY <2>1 DEF Inverted
  <2>5. PICK pre : RunsTo(dir, first, M, n, Sequel(hist), pre, h)
    BY <2>4
  <2> HIDE DEF after
  <2>6. RunsTo(dir, first, M, Len(s), Sequel(new), pre, after.host)
    BY <2>1, <2>2, <2>3, <2>5
  <2>7. QED
    BY <2>6 DEF after
<1>8. QED
  BY <1>6, <1>7

LEMMA RunKeeps == UndoInvariant /\ (\E t \in CommandsOf[platform] : RunStep(t)) => UndoInvariant'
<1> SUFFICES ASSUME UndoInvariant, NEW t \in CommandsOf[platform], RunStep(t) PROVE UndoInvariant'
  OBVIOUS
<1> DEFINE dir == Here[platform]
           after == Perform(host, dir, t)
           x == [command |-> t, ok |-> after.ok]
<1>1. /\ stage = "run" /\ history' = Append(history, x) /\ host' = after.host
      /\ plain' = (plain /\ ~Compound(t) /\ (after.ok => NothingInTheWay(host, dir, Bare(t))))
      /\ platform' = platform /\ stage' = stage /\ meddled' = meddled /\ spared' = spared
  BY DEF RunStep
<1>2. platform \in {"unix", "windows"} /\ Listed(history) /\ Spelt(history)
  BY DEF UndoInvariant
<1>3. t \in Seq(Token) /\ t /= <<>>
  BY <1>2, GroundIs
<1>4. x.command = t /\ x.ok = after.ok
  OBVIOUS
<1> HIDE DEF x, after
<1>5. Listed(history') /\ Spelt(history')
  <2>1. Listed(Append(history, x)) /\ Spelt(Append(history, x))
    BY <1>2, <1>3, <1>4, OksNext
  <2>2. QED
    BY <1>1, <2>1
<1>6. ASSUME plain'
      PROVE  /\ spared' = {}
             /\ Inverted(platform', history') =>
                  \E pre : RunsTo(Here[platform'], StartOf[platform'], meddled', Len(Oks(history')), Sequel(history'), pre, host')
  <2>1. plain /\ ~Compound(t) /\ (after.ok => NothingInTheWay(host, dir, Bare(t)))
    BY <1>1, <1>6
  <2>2. spared = {}
        /\ (Inverted(platform, history) =>
              \E pre : RunsTo(dir, StartOf[platform], meddled, Len(Oks(history)), Sequel(history), pre, host))
    BY <1>1, <2>1 DEF UndoInvariant
  <2>3. ASSUME NEW new, new = Append(history, x), Inverted(platform, new)
        PROVE  \E pre : RunsTo(dir, StartOf[platform], meddled, Len(Oks(new)), Sequel(new), pre, Perform(host, dir, t).host)
    <3>1. x.ok = Perform(host, Here[platform], t).ok
      BY <1>4 DEF after
    <3>2. x.ok => NothingInTheWay(host, Here[platform], Bare(t))
      BY <1>4, <2>1
    <3>3. QED
      BY <1>2, <1>3, <1>4, <2>1, <2>2, <2>3, <3>1, <3>2, RunNext
  <2>4. Inverted(platform, history') =>
           \E pre : RunsTo(dir, StartOf[platform], meddled, Len(Oks(history')), Sequel(history'), pre, host')
    BY <1>1, <2>3 DEF after
  <2>5. QED
    BY <1>1, <2>2, <2>4
<1>7. stage' = "run"
  BY <1>1
<1>8. QED
  BY <1>1, <1>2, <1>5, <1>6, <1>7 DEF UndoInvariant

LEMMA PutIs ==
    ASSUME NEW m, IsMachine(m), NEW p, NEW h,
           h = [m EXCEPT !.tree = [q \in DOMAIN m.tree \cup {p} |-> IF q = p THEN "mine" ELSE m.tree[q]]]
    PROVE  h = Put(m, {p})
<1> DEFINE T == m.tree
           U == [q \in DOMAIN T \cup {p} |-> IF q = p THEN "mine" ELSE T[q]]
<1>1. m = Mach(T, m.packages, m.enabled, m.active)
  BY MachIs
<1>2. h = [m EXCEPT !.tree = U]
  OBVIOUS
<1> HIDE DEF T
<1>3. U = Plus(T, {p})
  BY DEF Plus
<1> HIDE DEF U
<1>4. [m EXCEPT !.tree = U] = Mach(U, m.packages, m.enabled, m.active)
  BY <1>1, MachParts
<1>5. QED
  BY <1>2, <1>3, <1>4 DEF Put, T

LEMMA MeddledFree ==
    ASSUME NEW m, IsMachine(m), NEW q \in DOMAIN m.tree, NEW name \in UserNames, NEW p, p = Append(q, name),
           p \notin DOMAIN m.tree, Front(p) \in DOMAIN m.tree, m.tree[Front(p)] = "dir"
    PROVE  Free(m.tree, {p})
<1>1. IsTree(m.tree)
  BY MachIs
<1>2. q \in Token
  BY <1>1 DEF IsTree, Hangs
<1>3. q \in Seq(Names) /\ Len(q) \in Nat /\ Len(q) > 0 /\ name \in Names
  BY <1>2, TokenIs, ReversalAssumption
<1>4. p \in Seq(Names) /\ Len(p) = Len(q) + 1
  BY <1>3
<1>5. p \in Token /\ Len(p) > 1
  <2>1. Len(<<>>) = 0
    OBVIOUS
  <2>2. Len(p) > 1
    BY <1>3, <1>4
  <2>3. QED
    BY <1>4, <2>1, <2>2 DEF Token
<1>6. Hangs(p, m.tree)
  BY <1>1, <1>5, HangsIn
<1>7. QED
  BY <1>6 DEF Free

LEMMA MeddleKeeps ==
    UndoInvariant /\ (\E q \in DOMAIN host.tree, name \in UserNames : Meddle(Append(q, name))) => UndoInvariant'
<1> SUFFICES ASSUME UndoInvariant, NEW q \in DOMAIN host.tree, NEW name \in UserNames, Meddle(Append(q, name))
             PROVE  UndoInvariant'
  OBVIOUS
<1> DEFINE p == Append(q, name)
           n == Len(Oks(history))
           cs == Sequel(history)
<1>1. /\ stage = "run" /\ meddled = {}
      /\ p \notin DOMAIN host.tree /\ Front(p) \in DOMAIN host.tree /\ host.tree[Front(p)] = "dir"
      /\ host' = [host EXCEPT !.tree = [r \in DOMAIN host.tree \cup {p} |-> IF r = p THEN "mine" ELSE host.tree[r]]]
      /\ meddled' = {p}
      /\ platform' = platform /\ history' = history /\ stage' = stage /\ plain' = plain /\ spared' = spared
  BY DEF Meddle
<1>2. platform \in {"unix", "windows"} /\ Listed(history) /\ Spelt(history)
  BY DEF UndoInvariant
<1>3. p = Append(q, name)
  OBVIOUS
<1> HIDE DEF p
<1>4. ASSUME plain
      PROVE  /\ spared = {}
             /\ Inverted(platform, history) =>
                  \E pre : RunsTo(Here[platform], StartOf[platform], {p}, n, cs, pre, host')
  <2>1. /\ spared = {}
        /\ Inverted(platform, history) => \E pre : RunsTo(Here[platform], StartOf[platform], meddled, n, cs, pre, host)
    BY <1>1, <1>4 DEF UndoInvariant
  <2>2. n \in Nat
    <3>1. PICK R : Oks(history) \in Seq(R)
      BY <1>2, OksIn
    <3>2. QED
      BY <3>1
  <2> DEFINE dir == Here[platform]
             first == StartOf[platform]
  <2> HIDE DEF n, cs, dir, first
  <2>3. ASSUME Inverted(platform, history) PROVE \E pre : RunsTo(dir, first, {p}, n, cs, pre, host')
    <3>1. PICK pre : RunsTo(dir, first, {}, n, cs, pre, host)
      BY <1>1, <2>1, <2>3 DEF dir, first
    <3>2. IsMachine(host)
      BY <3>1 DEF RunsTo
    <3>3. Free(host.tree, {p})
      BY <1>1, <1>3, <3>2, MeddledFree
    <3>4. host' = Put(host, {p})
      BY <1>1, <3>2, PutIs
    <3>5. \E post : RunsTo(dir, first, {p}, n, cs, post, Put(host, {p}))
      BY <2>2, <3>1, <3>3, RunsMeddled
    <3>6. QED
      BY <3>4, <3>5
  <2>4. QED
    BY <2>1, <2>3 DEF dir, first
<1>5. stage' = "run"
  BY <1>1
<1>6. QED
  BY <1>1, <1>2, <1>4, <1>5 DEF UndoInvariant, n, cs

(* ---------------------------------- the plan --------------------------------- *)

(* A machine at the end of a run, which all its files are on.                 *)
LEMMA WaitsFirst ==
    ASSUME NEW dir, NEW first, NEW M, NEW apart, NEW n \in Nat, NEW cs, NEW pre, NEW h, RunsTo(dir, first, M, n, cs, pre, h),
           NEW inv, Len(inv) = n, NEW place0, \A k \in 1..n : Takes(pre[k], dir, cs[k], place0, inv[n + 1 - k]),
           NEW old, old = FileContents(h), apart => \A k \in 1..n : Clear(Bare(cs[k]), dir, M)
    PROVE  \E E : StillToRun(dir, first, M, apart, inv, place0, old, h, cs, pre, E)
<1>1. Chained(dir, first, M, n, cs, pre) /\ pre[n + 1] = h /\ IsMachine(h)
  BY DEF RunsTo
<1>2. PICK E : E = {}
  OBVIOUS
<1>3. Over(M, h, h, E)
  BY <1>1, <1>2, PutNone, FreeNone DEF Over
<1>4. \A x \in old : x \in HeldBy(h.tree)
  BY FilesHeld
<1> DEFINE r == Len(inv)
<1>5. r = n
  OBVIOUS
<1> HIDE DEF r
<1>6. Chained(dir, first, M, r, cs, pre) /\ Over(M, h, pre[r + 1], E)
  BY <1>1, <1>3, <1>5
<1>7. \A k \in 1..r : Takes(pre[k], dir, cs[k], place0, inv[r + 1 - k])
  BY <1>5
<1>8. \A x \in old : x \in HeldBy(pre[r + 1].tree)
  BY <1>1, <1>4, <1>5
<1>9. apart => \A k \in 1..r : Clear(Bare(cs[k]), dir, M)
  BY <1>5
<1>10. StillToRun(dir, first, M, apart, inv, place0, old, h, cs, pre, E)
  BY <1>2, <1>6, <1>7, <1>8, <1>9 DEF StillToRun, r
<1>11. QED
  BY <1>10

LEMMA ApartClear ==
    ASSUME platform \in {"unix", "windows"}, Apart, NEW x \in ToSet(history), DerivedOn(platform, x.command) /= {}
    PROVE  Clear(Bare(x.command), Here[platform], meddled)
<1> DEFINE t == x.command
           c == Bare(t)
           dir == Here[platform]
<1>1. ASSUME c[1] = W("mv") PROVE \A p \in meddled : p /= PathOf(c[2], dir) /\ ~IsPrefix(PathOf(c[3], dir), p)
  <2>1. PICK i : i \in Derive(t)
    BY DEF Derive, DerivedOn
  <2>2. Len(c) = 3
    BY <1>1, <2>1, DerivedMoves
  <2>3. c \in {Bare(h.command) : h \in ToSet(history)}
    OBVIOUS
  <2> HIDE DEF c
  <2>4. c \in Moves
    BY <1>1, <2>2, <2>3 DEF Moves
  <2>5. PathOf(c[2], dir) \in Sources /\ PathOf(c[3], dir) \in Destinations
    BY <2>4 DEF Sources, Destinations
  <2>6. \A p \in meddled : p \notin Sources /\ \A d \in Destinations : ~IsPrefix(d, p)
    BY DEF Apart
  <2>7. QED
    BY <2>5, <2>6
<1>2. QED
  BY <1>1 DEF Clear

LEMMA PlanIs ==
    ASSUME NEW pl, PlanUndo(pl), Listed(history), NEW n, n = Len(Oks(history)), stage' = "undo"
    PROVE  /\ n \in Nat /\ \E R : inverses' \in Seq(R)
           /\ Len(inverses') = n
           /\ \A k \in 1..n : \E d \in DeriveStep(Oks(history)[k].command, pl) : inverses'[n + 1 - k] = d.command
<1> DEFINE r == Oks(history)
           backwards == Reverse(r)
           derived == [i \in DOMAIN backwards |-> DeriveStep(backwards[i].command, pl)]
           inv == [i \in DOMAIN backwards |-> (CHOOSE d \in derived[i] : TRUE).command]
<1>1. (\A i \in DOMAIN backwards : derived[i] /= NoInverse) /\ inverses' = inv
  <2>1. r = Picked(history, {k \in DOMAIN history : history[k].ok})
    BY DEF Oks
  <2>2. IF backwards = <<>> THEN stage' = "refused" /\ UNCHANGED inverses
        ELSE IF \E i \in DOMAIN backwards : derived[i] = NoInverse
        THEN stage' = "model" /\ UNCHANGED inverses
        ELSE inverses' = inv /\ stage' = "undo"
    BY <2>1 DEF PlanUndo
  <2> HIDE DEF backwards, derived, inv
  <2>3. QED
    BY <2>2
<1>2. n \in Nat /\ n = Len(r)
  <2>1. PICK R : r \in Seq(R)
    BY OksIn
  <2>2. QED
    BY <2>1
<1>3. DOMAIN backwards = 1..n /\ \A i \in 1..n : backwards[i] = r[n - i + 1]
  <2> HIDE DEF r
  <2>1. backwards = [i \in 1..n |-> r[(n - i) + 1]]
    BY <1>2 DEF Reverse
  <2> HIDE DEF backwards
  <2>2. QED
    BY <2>1
<1> HIDE DEF r, backwards
<1>4. inv = [i \in 1..n |-> (CHOOSE d \in derived[i] : TRUE).command] /\ derived = [i \in 1..n |-> DeriveStep(backwards[i].command, pl)]
  BY <1>3
<1> HIDE DEF derived
<1> DEFINE F(i) == (CHOOSE d \in derived[i] : TRUE).command
           S == {F(i) : i \in 1..n}
<1>5. inv \in Seq(S) /\ Len(inv) = n /\ \A i \in 1..n : inv[i] = F(i)
  <2>1. inv = [i \in 1..n |-> F(i)]
    BY <1>4
  <2>2. \A i \in 1..n : F(i) \in S
    OBVIOUS
  <2> HIDE DEF F, S, inv
  <2>3. QED
    BY <1>2, <2>1, <2>2
<1> HIDE DEF inv
<1>6. ASSUME NEW k \in 1..n PROVE \E d \in DeriveStep(r[k].command, pl) : inv[n + 1 - k] = d.command
  <2> DEFINE i == n + 1 - k
  <2>1. i \in 1..n /\ n - i + 1 = k
    BY <1>2
  <2> HIDE DEF i
  <2>2. backwards[i] = r[k]
    BY <1>3, <2>1
  <2>3. derived[i] = DeriveStep(r[k].command, pl) /\ derived[i] /= {}
    BY <1>1, <1>3, <1>4, <2>1, <2>2 DEF NoInverse
  <2>4. (CHOOSE d \in derived[i] : TRUE) \in derived[i]
    BY <2>3
  <2>5. inv[i] = (CHOOSE d \in derived[i] : TRUE).command
    BY <1>5, <2>1
  <2>6. QED
    BY <2>3, <2>4, <2>5 DEF i
<1>7. (\E R : inv \in Seq(R)) /\ Len(inv) = n
  BY <1>5
<1>8. QED
  BY <1>1, <1>2, <1>6, <1>7 DEF r

LEMMA PlanKeeps ==
    UndoInvariant /\ (\E pl \in {Here[platform], Elsewhere[platform]} : PlanUndo(pl)) => UndoInvariant'
<1> SUFFICES ASSUME UndoInvariant, NEW pl \in {Here[platform], Elsewhere[platform]}, PlanUndo(pl) PROVE UndoInvariant'
  OBVIOUS
<1>1. /\ stage = "run" /\ place' = pl /\ spared' = FileContents(host) /\ stage' \in {"refused", "model", "undo"}
      /\ platform' = platform /\ host' = host /\ history' = history /\ plain' = plain /\ meddled' = meddled
  BY DEF PlanUndo
<1>2. platform \in {"unix", "windows"} /\ Listed(history) /\ Spelt(history)
  BY DEF UndoInvariant
<1>3. \A x \in spared' : x \in HeldBy(host'.tree)
  BY <1>1, FilesHeld
<1> DEFINE dir == Here[platform]
           first == StartOf[platform]
           r == Oks(history)
           n == Len(r)
           cs == Sequel(history)
<1>4. ASSUME plain, stage' = "undo"
      PROVE  \E R, ds, pre, E : /\ inverses' \in Seq(R)
                                /\ StillToRun(Here[platform'], StartOf[platform'], meddled', Apart', inverses', place', spared', host', ds, pre, E)
  <2>1. /\ n \in Nat /\ Len(inverses') = n
        /\ \A k \in 1..n : \E d \in DeriveStep(r[k].command, pl) : inverses'[n + 1 - k] = d.command
    BY <1>2, <1>4, PlanIs
  <2>2. PICK R : inverses' \in Seq(R)
    BY <1>2, <1>4, PlanIs
  <2>3. \A k \in DOMAIN r : r[k] \in ToSet(history)
    BY <1>2, OksIn
  <2>4. DOMAIN r = 1..n
    <3>1. PICK R0 : r \in Seq(R0)
      BY <1>2, OksIn
    <3> HIDE DEF r
    <3>2. QED
      BY <3>1
  <2>5. \A k \in 1..n : cs[k] = r[k].command
    BY DEF Sequel
  <2> HIDE DEF r, cs
  <2>6. \A k \in 1..n : DerivedOn(platform, r[k].command) /= {}
    BY <2>1 DEF DeriveStep, Derive, DerivedOn
  <2>7. Inverted(platform, history)
    BY <2>6 DEF Inverted, r
  <2>8. PICK pre : RunsTo(dir, first, meddled, n, cs, pre, host)
    BY <1>1, <1>4, <2>7 DEF UndoInvariant, r, cs
  <2>9. ASSUME NEW k \in 1..n PROVE Takes(pre[k], dir, cs[k], pl, inverses'[n + 1 - k])
    <3>1. Ran(dir, pre[k], cs[k])
      BY <2>8 DEF RunsTo, Chained
    <3>2. PICK d \in DeriveStep(cs[k], pl) : inverses'[n + 1 - k] = d.command
      BY <2>1, <2>5
    <3> DEFINE m == pre[k]
               t == cs[k]
    <3>3. IsMachine(m) /\ t \in Seq(Token) /\ t /= <<>> /\ ~Compound(t) /\ Works(Single(m, dir, t)) /\ NothingInTheWay(m, dir, Bare(t))
      BY <3>1 DEF Ran
    <3>4. d \in DeriveStep(t, pl)
      BY <3>2
    <3> HIDE DEF m, t
    <3>5. Takes(m, dir, t, pl, d.command)
      BY <1>2, <3>3, <3>4, GroundIs, DerivedTakes
    <3>6. QED
      BY <3>2, <3>5 DEF m, t
  <2>10. ASSUME Apart, NEW k \in 1..n PROVE Clear(Bare(cs[k]), dir, meddled)
    <3> DEFINE x == r[k]
    <3>1. x \in ToSet(history) /\ DerivedOn(platform, x.command) /= {} /\ cs[k] = x.command
      BY <2>3, <2>4, <2>5, <2>6
    <3> HIDE DEF x
    <3>2. Clear(Bare(x.command), Here[platform], meddled)
      BY <1>2, <2>10, <3>1, ApartClear
    <3>3. QED
      BY <3>1, <3>2
  <2> DEFINE far == Apart
             inv == inverses'
             old == FileContents(host)
  <2>11. Apart' = far
    BY <1>1 DEF Apart, Moves, Sources, Destinations
  <2>12. far => \A k \in 1..n : Clear(Bare(cs[k]), dir, meddled)
    BY <2>10
  <2>13. (\A k \in 1..n : Takes(pre[k], dir, cs[k], pl, inv[n + 1 - k])) /\ Len(inv) = n
    BY <2>1, <2>9
  <2> HIDE DEF far, inv, old, n, dir, first
  <2>14. \E E : StillToRun(dir, first, meddled, far, inv, pl, old, host, cs, pre, E)
    <3>1. n \in Nat
      BY <2>1
    <3>2. old = FileContents(host)
      BY DEF old
    <3>3. QED
      BY <2>8, <2>12, <2>13, <3>1, <3>2, WaitsFirst
  <2>15. PICK E : StillToRun(dir, first, meddled, far, inv, pl, old, host, cs, pre, E)
    BY <2>14
  <2>16. StillToRun(Here[platform'], StartOf[platform'], meddled', Apart', inverses', place', spared', host', cs, pre, E)
    BY <1>1, <2>11, <2>15 DEF dir, first, inv, old
  <2>17. QED
    BY <2>2, <2>16
<1>5. stage' /= "run" /\ stage' /= "undone" /\ stage' /= "failed"
  BY <1>1
<1>6. QED
  BY <1>1, <1>2, <1>3, <1>4, <1>5 DEF UndoInvariant

LEMMA UndoKeeps == UndoInvariant /\ UndoStep => UndoInvariant'
<1> SUFFICES ASSUME UndoInvariant, UndoStep PROVE UndoInvariant'
  OBVIOUS
<1> DEFINE after == Perform(host, place, Head(inverses))
           dir == Here[platform]
           first == StartOf[platform]
<1>1. /\ stage = "undo"
      /\ inverses = <<>> => stage' = "undone" /\ host' = host /\ inverses' = inverses
      /\ inverses /= <<>> => /\ host' = after.host /\ inverses' = Tail(inverses)
                             /\ stage' = IF after.ok THEN "undo" ELSE "failed"
      /\ platform' = platform /\ history' = history /\ place' = place /\ plain' = plain
      /\ meddled' = meddled /\ spared' = spared
  BY DEF UndoStep
<1>2. platform \in {"unix", "windows"} /\ Listed(history) /\ Spelt(history)
  BY DEF UndoInvariant
<1>3. Apart' = Apart
  BY <1>1 DEF Apart, Moves, Sources, Destinations
<1>4. ASSUME plain
      PROVE  /\ stage' /= "run"
             /\ stage' = "undo" => \E R, cs, pre, E : /\ inverses' \in Seq(R)
                                                      /\ StillToRun(dir, first, meddled, Apart, inverses', place, spared, host', cs, pre, E)
             /\ stage' = "undone" => Unmeddled(host') = first
             /\ stage' = "failed" => meddled /= {}
             /\ \A x \in spared : x /= "mine" \/ Apart => x \in HeldBy(host'.tree)
  <2> DEFINE far == Apart
  <2>1. PICK R, cs, pre, E : inverses \in Seq(R) /\ StillToRun(dir, first, meddled, far, inverses, place, spared, host, cs, pre, E)
    BY <1>1, <1>4 DEF UndoInvariant
  <2>2. \A x \in spared : x /= "mine" \/ far => x \in HeldBy(host.tree)
    BY <1>1, <1>4 DEF UndoInvariant
  <2>3. IsMachine(first) /\ "mine" \notin HeldBy(first.tree)
    BY <1>2, GroundIs
  <2> HIDE DEF far, dir, first
  <2>4. CASE inverses = <<>>
    <3>1. Unmeddled(host) = first
      BY <2>1, <2>3, <2>4, WaitsEnd
    <3>2. QED
      BY <1>1, <2>2, <2>4, <3>1 DEF far
  <2>5. CASE inverses /= <<>>
    <3>1. /\ ~after.ok => meddled /= {} /\ after.host = host
          /\ after.ok => \E G : StillToRun(dir, first, meddled, far, Tail(inverses), place, spared, after.host, cs, pre, G)
      BY <2>1, <2>5, WaitsNext
    <3> HIDE DEF after
    <3>2. CASE ~after.ok
      BY <1>1, <2>2, <2>5, <3>1, <3>2 DEF far
    <3>3. CASE after.ok
      <4>1. PICK G : StillToRun(dir, first, meddled, far, Tail(inverses), place, spared, after.host, cs, pre, G)
        BY <3>1, <3>3
      <4> DEFINE inv == Tail(inverses)
                 g == after.host
      <4>2. inv \in Seq(R)
        BY <2>1, <2>5
      <4>3. StillToRun(dir, first, meddled, far, inv, place, spared, g, cs, pre, G)
        BY <4>1
      <4> HIDE DEF inv, g
      <4>4. (\A x \in spared : x /= "mine" => x \in HeldBy(g.tree)) /\ (far => \A x \in spared : x \in HeldBy(g.tree))
        BY <4>3, WaitsKept
      <4>5. inverses' = inv /\ host' = g /\ stage' = "undo"
        BY <1>1, <2>5, <3>3 DEF inv, g
      <4>6. inverses' \in Seq(R) /\ StillToRun(dir, first, meddled, far, inverses', place, spared, host', cs, pre, G)
        BY <4>2, <4>3, <4>5
      <4>7. \A x \in spared : x /= "mine" \/ far => x \in HeldBy(host'.tree)
        BY <4>4, <4>5
      <4>8. QED
        BY <4>5, <4>6, <4>7 DEF far
    <3>4. QED
      BY <3>2, <3>3
  <2>6. QED
    BY <2>4, <2>5
<1>5. QED
  BY <1>1, <1>2, <1>3, <1>4 DEF UndoInvariant

ReversalSpec == ReversalInit /\ [][ReversalNext]_reversalVars

LEMMA UndoGives == UndoInvariant => UndoRestores
<1> SUFFICES ASSUME UndoInvariant, plain PROVE /\ meddled = {} => stage /= "failed"
                                               /\ stage = "undone" => Unmeddled(host) = StartOf[platform]
                                               /\ spared \ {"mine"} \subseteq FileContents(host)
                                               /\ Apart => spared \subseteq FileContents(host)
  BY DEF UndoRestores
<1>1. /\ stage = "undone" => Unmeddled(host) = StartOf[platform]
      /\ stage = "failed" => meddled /= {}
      /\ \A x \in spared : x /= "mine" \/ Apart => x \in HeldBy(host.tree)
  BY DEF UndoInvariant
<1>2. FileContents(host) = HeldBy(host.tree)
  BY FilesHeld
<1>3. QED
  BY <1>1, <1>2

LEMMA UndoSteps == UndoInvariant /\ [ReversalNext]_reversalVars => UndoInvariant'
<1>1. UndoInvariant /\ ReversalNext => UndoInvariant'
  BY RunKeeps, MeddleKeeps, PlanKeeps, UndoKeeps DEF ReversalNext
<1>2. UndoInvariant /\ UNCHANGED reversalVars => UndoInvariant'
  <2> SUFFICES ASSUME UndoInvariant, UNCHANGED reversalVars PROVE UndoInvariant'
    OBVIOUS
  <2>1. /\ platform' = platform /\ host' = host /\ history' = history /\ stage' = stage /\ inverses' = inverses
        /\ place' = place /\ plain' = plain /\ meddled' = meddled /\ spared' = spared
    BY DEF reversalVars
  <2>2. Apart' = Apart
    BY <2>1 DEF Apart, Moves, Sources, Destinations
  <2>3. QED
    BY <2>1, <2>2 DEF UndoInvariant
<1>3. QED
  BY <1>1, <1>2

(* The undo gives back what the run found.                                    *)
THEOREM UndoGivesBack == ReversalSpec => []UndoRestores
<1>1. ReversalSpec => []UndoInvariant
  BY UndoStarts, UndoSteps, PTL DEF ReversalSpec
<1>2. QED
  BY <1>1, UndoGives, PTL
================================================================================
