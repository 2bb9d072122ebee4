------------------------------ MODULE HomeProofs ------------------------------
(* What holds of the processes of Home, any number of them, with any          *)
(* commands: all families of commands side by side, on the same files.        *)
EXTENDS Home, ListsProofs, FiniteSetTheorems

(* Any commands, on any files; a startup file has at most one block in it.    *)
(* (The provers do not know which constants are strings.)                     *)
Lines == STRING \cup {Begin, "hook v2", End, Blank, "mine"}
OneBegin(s) == \A i, j \in DOMAIN s : s[i] = Begin /\ s[j] = Begin => i = j

IsContent(c) == c = [own |-> c.own, active |-> c.active, profiles |-> c.profiles]

(* A configuration comrade can have written, or that does not parse; keys, in *)
(* a file that is there, by provider; one of the two stores for each process. *)
FilesBegin ==
    /\ \A p \in Proc : backend[p] \in {"keychain", "file"}
    /\ \/ file \in {Absent, Emptied, Garbled}
       \/ IsContent(file)
    /\ creds = Absent \/ "no" \notin DOMAIN creds
    /\ \A p \in Proc : InStores(p) /\ cmd[p].do \in {"login", "logout"} => cmd[p].provider \in Providers

(* What fix is called with: a command after --, or none, and its options.     *)
Named == Command \cup {None}
FixCommands == [do : {"fix"}, explicit : Named, rerun : BOOLEAN, dry : BOOLEAN,
                mode : {"info", "ask", "auto"}]

(* What an installer has put down.                                            *)
Installed == [by : {"setup"}, version : Nat, whole : {TRUE}, archive : {"own"}]

HomeBegin ==
    /\ FilesBegin
    /\ exe \in Installed /\ published \in Nat /\ windows \in BOOLEAN /\ signing \in BOOLEAN
    /\ \A p \in Proc : Initializing(p) => cmd[p].files \in Seq(RcFiles)
    /\ \A p \in Proc : Fixing(p) => cmd[p] \in FixCommands
    /\ rc \in [RcFiles -> Seq(Lines)] /\ \A f \in RcFiles : OneBegin(rc[f])
    /\ HomeInit
HomeSpec == HomeBegin /\ [][Next]_vars

(* --------------------------- who changes what ------------------------------- *)

(* A step of p moves p, if it moves any process.                              *)
Moves(p) == cmd' = cmd /\ (UNCHANGED pc \/ \E label : Goto(p, label))

(* The processes that do one of these commands are not moved.                 *)
Elsewhere(kinds) ==
    cmd' = cmd /\ (UNCHANGED pc \/ \E p \in Proc : \E label : ~Does(p, kinds) /\ Goto(p, label))

LEMMA StoresMoves == ASSUME NEW p \in Proc, StoresStep(p) PROVE InStores(p) /\ Moves(p)
<1> USE DEF Moves, Load
<1>1. CASE Refuse(p) \/ StatConfig(p) \/ Show(p) \/ ConfigSet(p) \/ LoginLoad(p) \/ LogoutLoad(p)
  BY <1>1 DEF Refuse, StatConfig, Show, ConfigSet, LoginLoad, LogoutLoad
<1>2. CASE ProfileUse(p) \/ ProfileAdd(p) \/ ProfileSet(p) \/ ProfileRemove(p)
  BY <1>2 DEF ProfileUse, ProfileAdd, ProfileSet, ProfileRemove
<1>3. CASE ReadConfig(p) \/ TruncateConfig(p) \/ WriteConfig(p)
  BY <1>3 DEF ReadConfig, TruncateConfig, WriteConfig
<1>4. CASE AskBaseURL(p) \/ AskModel(p) \/ Ping(p) \/ Rejected(p)
  BY <1>4 DEF AskBaseURL, AskModel, MayEnter, Ping, Rejected
<1>5. CASE InKeychain(p) \/ KeyRead(p) \/ KeyTruncate(p) \/ KeyWrite(p) \/ StoresDie(p)
  BY <1>5 DEF InKeychain, KeyRead, KeyTruncate, KeyWrite, StoresDie
<1>6. QED
  BY <1>1, <1>2, <1>3, <1>4, <1>5 DEF StoresStep

LEMMA UpdatesMoves == ASSUME NEW p \in Proc, UpdatesStep(p) PROVE Updating(p) /\ Moves(p)
<1> USE DEF Moves
<1>1. CASE Launch(p) \/ BeginUpgrade(p) \/ Fetch(p) \/ Download(p) \/ ReplaceUnix(p) \/ RemoveOld(p)
  BY <1>1 DEF Launch, BeginUpgrade, Fetch, Download, ReplaceUnix, RemoveOld
<1>2. CASE RenameAway(p) \/ Create(p) \/ Fill(p) \/ RenameBack(p)
  BY <1>2 DEF RenameAway, Create, Fill, RenameBack
<1>3. CASE Notice(p) \/ Ask(p) \/ Record(p) \/ UpdatesDie(p)
  BY <1>3 DEF Notice, Ask, Record, AfterRecord, UpdatesDie
<1>4. QED
  BY <1>1, <1>2, <1>3 DEF UpdatesStep

LEMMA RcMoves == ASSUME NEW p \in Proc, RcStep(p) PROVE Initializing(p) /\ Moves(p)
BY DEF RcStep, ReadAll, Confirm, ReadNext, WriteNext, Completions, RcDie, Moves

LEMMA FixMoves == ASSUME NEW p \in Proc, FixStep(p) PROVE Fixing(p) /\ Moves(p)
<1> USE DEF Moves
<1>1. CASE Collect(p) \/ Acquire(p) \/ Captured(p) \/ Paste(p) \/ Diagnose(p) \/ Execute(p)
  BY <1>1 DEF Collect, Acquire, Captured, Paste, Diagnose, Execute, Run
<1>2. CASE Verify(p) \/ Answer(p) \/ Verified(p) \/ Interrupt(p) \/ OrphanEnds(p)
  BY <1>2 DEF Verify, Answer, Verified, Interrupt, OrphanEnds, Run
<1>3. QED
  BY <1>1, <1>2 DEF FixStep

LEMMA ChatMoves == ASSUME NEW p \in Proc, ChatStep(p) PROVE Chatting(p) /\ Moves(p)
BY DEF ChatStep, Open, Enter, TurnDone, Dispatch, Reply, StartCommand, CommandEnds, DoDone, CtrlC,
       ScreenKilled, Moves

LEMMA DoctorMoves == ASSUME NEW p \in Proc, DoctorStep(p) PROVE Does(p, DoctorCmds) /\ Moves(p)
<1>1. Does(p, {"doctor"}) \/ Does(p, {"status"}) => Does(p, DoctorCmds)
  BY DEF Does, DoctorCmds
<1>2. QED
  BY <1>1 DEF DoctorStep, DoctorLoad, Check, Report, AskDoctor, Finish, StatusLoad, StatusRow, Load, Step, Moves

(* The steps of Home, seen from one family.                                   *)
LEMMA ChatApart ==
    ASSUME [Next]_vars
    PROVE  \/ \E p \in Proc : ChatStep(p)
           \/ UNCHANGED chatVars /\ Elsewhere({"chat"})
<1> DEFINE Apart == UNCHANGED chatVars /\ Elsewhere({"chat"})
<1>1. CASE UNCHANGED vars
  BY <1>1 DEF vars, Elsewhere
<1>2. CASE DoctorNext
  BY <1>2, DoctorMoves DEF DoctorNext, Moves, Elsewhere, Does, DoctorCmds
<1>3. CASE StoresNext
  BY <1>3, StoresMoves DEF StoresNext, Moves, Elsewhere, InStores, StoreCmds, Does
<1>4. CASE UpdatesNext
  BY <1>4, UpdatesMoves DEF UpdatesNext, Publish, Tick, Moves, Elsewhere, Updating, UpdateCmds, Does
<1>5. CASE RcNext
  BY <1>5, RcMoves DEF RcNext, Edit, Moves, Elsewhere, Initializing, RcCmds, Does
<1>6. CASE FixNext
  BY <1>6, FixMoves DEF FixNext, HookRecord, Minute, Moves, Elsewhere, Fixing, Does
<1>7. CASE ChatNext
  BY <1>7 DEF ChatNext
<1>8. QED
  BY <1>1, <1>2, <1>3, <1>4, <1>5, <1>6, <1>7 DEF Next

(* ----------------------------------- chat ----------------------------------- *)

(* The messages of the lines before line n of e that count, f their fates.    *)
ClearedIn(e, n) == {i \in 1..(n - 1) : e[i] = "clear"}
Exchange(e, f, n, i) == IF f[i] = "good" /\ (\A j \in ClearedIn(e, n) : j < i) THEN Pair(i) ELSE <<>>
Exchanges(e, f, n) == Joined([i \in 1..(n - 1) |-> Exchange(e, f, n, i)])

Kinds == {"text", "exit", "clear", "mode", "save", "do", "other"}
Messages == [role : {"user", "assistant"}, line : Nat]
Turns == [line : Nat, kind : Kinds, at : {"begun", "asking", "running", "done"}, context : Seq(Messages)]

ChatType ==
    /\ waiting \in [Proc -> BOOLEAN] /\ turns \in [Proc -> SUBSET Turns]
    /\ history \in [Proc -> Seq(Messages)]
    /\ saved \in [Proc -> [line : Nat, messages : Seq(Messages)]]
    /\ doing \in [Proc -> BOOLEAN] /\ stopped \in [Proc -> BOOLEAN]
    /\ entered \in [Proc -> Seq(Kinds)] /\ fate \in [Proc -> Seq({"pending", "good", "bad"})]

(* One line at a time is carried out, the last one entered.                   *)
OneTurn(p) ==
    /\ Len(fate[p]) = Len(entered[p])
    /\ turns[p] /= {} => waiting[p]
    /\ \A s, t \in turns[p] : s = t
    /\ \A t \in turns[p] :
          /\ t.line = Len(entered[p]) /\ t.line > 0 /\ entered[p][t.line] = t.kind
          /\ t.at /= "done" => fate[p][t.line] = "pending"
          /\ t.at = "asking" => t.kind = "text"
          /\ t.at = "running" => t.kind = "do"

(* The history is that of the lines carried out.                              *)
HistoryOf(p) ==
    /\ \A t \in turns[p] :
          /\ history[p] = Exchanges(entered[p], fate[p], IF t.at = "done" THEN t.line + 1 ELSE t.line)
          /\ t.at = "asking" => t.context = Exchanges(entered[p], fate[p], t.line)
    /\ turns[p] = {} => history[p] = Exchanges(entered[p], fate[p], Len(entered[p]) + 1)
    /\ saved[p].line <= Len(entered[p])
    /\ saved[p].line > 0 => saved[p].messages = Exchanges(entered[p], fate[p], saved[p].line)

(* A command of /do runs under its line, or Ctrl-C has come.                  *)
UnderDo(p) ==
    doing[p] /\ ~stopped[p] => Chatting(p) /\ pc[p] = "screen" /\ \E t \in turns[p] : t.at = "running"

ChatInv == DOMAIN pc = Proc /\ ChatType /\ \A p \in Proc : OneTurn(p) /\ HistoryOf(p) /\ UnderDo(p)

LEMMA ExchangeType ==
    ASSUME NEW e, NEW f, NEW n \in Nat
    PROVE  LET ss == [i \in 1..(n - 1) |-> Exchange(e, f, n, i)]
           IN  ss \in Seq(Seq(Messages)) /\ (n > 0 => Len(ss) = n - 1)
<1>1. ASSUME NEW i \in 1..(n - 1) PROVE Exchange(e, f, n, i) \in Seq(Messages)
  <2>1. i \in Nat
    OBVIOUS
  <2>2. Pair(i) \in Seq(Messages)
    BY <2>1 DEF Pair, Messages
  <2>3. <<>> \in Seq(Messages)
    OBVIOUS
  <2>4. QED
    BY <2>2, <2>3 DEF Exchange
<1>2. CASE n > 0
  <2>1. n - 1 \in Nat
    BY <1>2
  <2>2. QED
    BY <1>1, <2>1
<1>3. CASE n = 0
  <2>1. 1..(n - 1) = 1..0
    BY <1>3
  <2>2. QED
    BY <1>1, <1>3, <2>1
<1>4. QED
  BY <1>2, <1>3

(* What counts before line n depends on the lines before n only.              *)
Agree(e, f, g, h, n) == \A i \in 1..(n - 1) : e[i] = g[i] /\ f[i] = h[i]

LEMMA ExchangesSame == \A n \in Nat : \A e, f, g, h :
    Agree(e, f, g, h, n) => Exchanges(e, f, n) = Exchanges(g, h, n)
<1> SUFFICES ASSUME NEW n \in Nat, NEW e, NEW f, NEW g, NEW h, Agree(e, f, g, h, n)
             PROVE  Exchanges(e, f, n) = Exchanges(g, h, n)
  OBVIOUS
<1> USE DEF Agree
<1>1. ClearedIn(e, n) = ClearedIn(g, n)
  BY DEF ClearedIn
<1>2. \A i \in 1..(n - 1) : Exchange(e, f, n, i) = Exchange(g, h, n, i)
  BY <1>1 DEF Exchange
<1>3. [i \in 1..(n - 1) |-> Exchange(e, f, n, i)] = [i \in 1..(n - 1) |-> Exchange(g, h, n, i)]
  BY <1>2
<1>4. QED
  BY <1>3 DEF Exchanges

(* The next line adds its exchange if it was good, and /clear ends it all.    *)
LEMMA ExchangesNext == \A n \in Nat : \A e, f : n > 0 =>
    /\ e[n] /= "clear" =>
          Exchanges(e, f, n + 1) = Exchanges(e, f, n) \o (IF f[n] = "good" THEN Pair(n) ELSE <<>>)
    /\ e[n] = "clear" => Exchanges(e, f, n + 1) = <<>>
<1> SUFFICES ASSUME NEW n \in Nat, NEW e, NEW f, n > 0
             PROVE  /\ e[n] /= "clear" =>
                          Exchanges(e, f, n + 1) = Exchanges(e, f, n) \o (IF f[n] = "good" THEN Pair(n) ELSE <<>>)
                    /\ e[n] = "clear" => Exchanges(e, f, n + 1) = <<>>
  OBVIOUS
<1> DEFINE ss == [i \in 1..(n - 1) |-> Exchange(e, f, n, i)]
           tt == [i \in 1..((n + 1) - 1) |-> Exchange(e, f, n + 1, i)]
<1>1. ss \in Seq(Seq(Messages)) /\ Len(ss) = n - 1 /\ Joined(ss) = Exchanges(e, f, n)
  BY ExchangeType DEF Exchanges
<1>2. tt \in Seq(Seq(Messages)) /\ Len(tt) = n /\ Joined(tt) = Exchanges(e, f, n + 1)
  BY ExchangeType DEF Exchanges
<1>3. n - 1 \in Nat /\ (n - 1) + 1 = n /\ 1..((n + 1) - 1) = 1..n
  OBVIOUS
<1>4. ClearedIn(e, n + 1) = ClearedIn(e, n) \cup (IF e[n] = "clear" THEN {n} ELSE {})
  BY <1>3 DEF ClearedIn
<1>5. CASE e[n] /= "clear"
  <2>1. \A i \in 1..(n - 1) : tt[i] = ss[i]
    BY <1>3, <1>4, <1>5 DEF Exchange
  <2>2. tt[n] = IF f[n] = "good" THEN Pair(n) ELSE <<>>
    <3>1. \A j \in ClearedIn(e, n + 1) : j < n
      BY <1>4, <1>5 DEF ClearedIn
    <3>2. tt[n] = Exchange(e, f, n + 1, n)
      BY <1>3
    <3>3. QED
      BY <3>1, <3>2 DEF Exchange
  <2> HIDE DEF ss, tt
  <2>3. Joined(tt) = Joined(ss) \o tt[n]
    <3>1. Len(tt) = Len(ss) + 1 /\ (\A i \in 1..Len(ss) : tt[i] = ss[i])
      BY <1>1, <1>2, <1>3, <2>1
    <3>2. Joined(tt) = Joined(ss) \o tt[Len(tt)]
      BY <1>1, <1>2, <3>1, JoinedUpTo, Zenon
    <3>3. QED
      BY <1>2, <3>2
  <2>4. QED
    BY <1>1, <1>2, <1>5, <2>2, <2>3
<1>6. CASE e[n] = "clear"
  <2>1. \A i \in 1..n : tt[i] = <<>>
    <3>1. n \in ClearedIn(e, n + 1)
      BY <1>4, <1>6
    <3>2. QED
      BY <1>3, <3>1 DEF Exchange
  <2> HIDE DEF tt
  <2>2. Joined(tt) = <<>>
    BY <1>2, <2>1, JoinedNothing
  <2>3. QED
    BY <1>2, <1>6, <2>2
<1>7. QED
  BY <1>5, <1>6

LEMMA CountedExchanges == \A p, n : Counted(p, n) = Exchanges(entered[p], fate[p], n)
BY DEF Counted, Cleared, Exchanges, Exchange, ClearedIn

(* A step of p leaves the conversations of the others as they are.            *)
SameChat(q) ==
    /\ waiting'[q] = waiting[q] /\ turns'[q] = turns[q] /\ history'[q] = history[q] /\ saved'[q] = saved[q]
    /\ doing'[q] = doing[q] /\ stopped'[q] = stopped[q] /\ entered'[q] = entered[q] /\ fate'[q] = fate[q]

LEMMA ChatOthers ==
    ASSUME ChatInv, NEW p \in Proc, Moves(p), \A q \in Proc \ {p} : SameChat(q),
           ChatType', OneTurn(p)', HistoryOf(p)', UnderDo(p)'
    PROVE  ChatInv'
<1>1. DOMAIN pc' = Proc
  BY DEF ChatInv, Moves, Goto
<1>2. ASSUME NEW q \in Proc \ {p} PROVE OneTurn(q)' /\ HistoryOf(q)' /\ UnderDo(q)'
  <2>1. SameChat(q) /\ pc'[q] = pc[q] /\ cmd' = cmd /\ OneTurn(q) /\ HistoryOf(q) /\ UnderDo(q)
    BY DEF ChatInv, Moves, Goto
  <2>2. OneTurn(q)'
    BY <2>1 DEF OneTurn, SameChat
  <2>3. HistoryOf(q)'
    BY <2>1 DEF HistoryOf, SameChat
  <2>4. UnderDo(q)'
    BY <2>1 DEF UnderDo, SameChat, Chatting, Does
  <2>5. QED
    BY <2>2, <2>3, <2>4
<1>3. QED
  BY <1>1, <1>2 DEF ChatInv

(* The line t is carried a step further, and is not done.                     *)
LEMMA ChatBusy ==
    ASSUME ChatInv, NEW p \in Proc, NEW t \in turns[p], t.at = "begun", NEW u \in Turns,
           turns' = [turns EXCEPT ![p] = (@ \ {t}) \cup {u}],
           u.line = t.line, u.kind = t.kind, u.at /= "done",
           u.at = "asking" => u.kind = "text" /\ u.context = history[p],
           u.at = "running" => u.kind = "do",
           UNCHANGED <<cmd, pc, waiting, history, saved, doing, stopped, entered, fate>>
    PROVE  ChatInv'
<1>1. turns[p] = {t} /\ OneTurn(p) /\ HistoryOf(p) /\ UnderDo(p) /\ ChatType
  BY DEF ChatInv, OneTurn
<1>2. turns'[p] = {u} /\ \A q \in Proc \ {p} : turns'[q] = turns[q]
  BY <1>1 DEF ChatType
<1>3. ChatType'
  <2>1. turns' \in [Proc -> SUBSET Turns]
    BY DEF ChatInv, ChatType
  <2>2. QED
    BY <1>1, <2>1 DEF ChatType
<1>4. OneTurn(p)'
  BY <1>1, <1>2 DEF OneTurn
<1>5. HistoryOf(p)'
  BY <1>1, <1>2 DEF HistoryOf
<1>6. UnderDo(p)'
  BY <1>1, <1>2 DEF UnderDo
<1>7. QED
  BY <1>2, <1>3, <1>4, <1>5, <1>6, ChatOthers DEF SameChat, Moves

(* The line t is done with, kept in the history if it was good.               *)
LEMMA ChatSettles ==
    ASSUME ChatInv, NEW p \in Proc, NEW t \in turns[p], t.at /= "done", t.at = "running" => ~doing[p],
           Moved(p, t, "done"), NEW how \in {"good", "bad"}, Settled(p, t, how),
           history' \in [Proc -> Seq(Messages)], \A q \in Proc \ {p} : history'[q] = history[q],
           history'[p] = IF t.kind = "clear" THEN <<>>
                         ELSE IF how = "good" THEN history[p] \o Pair(t.line) ELSE history[p],
           saved' \in [Proc -> [line : Nat, messages : Seq(Messages)]],
           \A q \in Proc \ {p} : saved'[q] = saved[q],
           saved'[p] \in {saved[p], Unsaved, [line |-> t.line, messages |-> history[p]]},
           UNCHANGED <<cmd, pc, waiting, doing, stopped, entered>>
    PROVE  ChatInv'
<1> DEFINE u == [t EXCEPT !.at = "done"]
<1>a. PICK e, f, n : e = entered[p] /\ e = entered'[p] /\ f = fate'[p] /\ n = Len(entered[p])
  OBVIOUS
<1>1. turns[p] = {t} /\ OneTurn(p) /\ HistoryOf(p) /\ UnderDo(p) /\ ChatType /\ t \in Turns
  BY DEF ChatInv, OneTurn, ChatType
<1>2. u \in Turns /\ u.line = t.line /\ u.kind = t.kind /\ u.at = "done"
  BY <1>1 DEF Turns
<1> HIDE DEF u
<1>3. turns'[p] = {u} /\ \A q \in Proc \ {p} : turns'[q] = turns[q]
  BY <1>1 DEF ChatType, Moved, u
<1>4. t.line = n /\ n \in Nat /\ n > 0 /\ e[n] = t.kind
  BY <1>1, <1>a DEF ChatType, OneTurn, Turns
<1>5. /\ fate[p] \in Seq({"pending", "good", "bad"}) /\ Len(fate[p]) = n
      /\ f = [fate[p] EXCEPT ![n] = how] /\ \A q \in Proc \ {p} : fate'[q] = fate[q]
  BY <1>1, <1>4, <1>a DEF ChatType, OneTurn, Settled
<1>6. /\ f \in Seq({"pending", "good", "bad"}) /\ Len(f) = n /\ f[n] = how
      /\ \A i \in 1..(n - 1) : f[i] = fate[p][i]
  BY <1>4, <1>5
<1>7. ChatType'
  <2>1. turns' \in [Proc -> SUBSET Turns]
    BY <1>1, <1>2 DEF ChatType, Moved, u
  <2>2. fate' \in [Proc -> Seq({"pending", "good", "bad"})]
    BY <1>1, <1>6, <1>a DEF ChatType, Settled
  <2>3. QED
    BY <1>1, <2>1, <2>2 DEF ChatType
<1>8. OneTurn(p)'
  BY <1>1, <1>2, <1>3, <1>4, <1>6, <1>a DEF OneTurn
<1>9. \A m \in 0..n : Exchanges(e, f, m) = Exchanges(e, fate[p], m)
  <2> SUFFICES ASSUME NEW m \in 0..n PROVE Exchanges(e, f, m) = Exchanges(e, fate[p], m)
    OBVIOUS
  <2>1. m \in Nat
    BY <1>4
  <2>2. Agree(e, f, e, fate[p], m)
    BY <1>4, <1>6 DEF Agree
  <2>3. QED
    BY <2>1, <2>2, ExchangesSame
<1>10. history'[p] = Exchanges(e, f, n + 1)
  <2>1. history[p] = Exchanges(e, f, n)
    BY <1>1, <1>4, <1>9, <1>a DEF HistoryOf
  <2>2. /\ e[n] /= "clear" =>
              Exchanges(e, f, n + 1) = Exchanges(e, f, n) \o (IF f[n] = "good" THEN Pair(n) ELSE <<>>)
        /\ e[n] = "clear" => Exchanges(e, f, n + 1) = <<>>
    <3>1. n \in Nat /\ n > 0
      BY <1>4
    <3>2. QED
      BY <3>1, ExchangesNext, Zenon
  <2>3. history[p] \o <<>> = history[p]
    BY <1>1 DEF ChatType
  <2>4. QED
    BY <1>4, <1>6, <2>1, <2>2, <2>3
<1>11. HistoryOf(p)'
  <2>1. turns'[p] /= {} /\ \A v \in turns'[p] : v.at = "done" /\ v.line + 1 = n + 1
    BY <1>2, <1>3, <1>4
  <2>2. saved[p].line \in Nat /\ saved[p].line <= n
    BY <1>1, <1>a DEF HistoryOf, ChatType
  <2>3. /\ saved'[p].line <= n
        /\ saved'[p].line > 0 => saved'[p].messages = Exchanges(e, f, saved'[p].line)
    <3>1. CASE saved'[p] = saved[p]
      BY <1>1, <1>9, <1>a, <2>2, <3>1 DEF HistoryOf
    <3>2. CASE saved'[p] = Unsaved
      BY <1>4, <3>2 DEF Unsaved
    <3>3. CASE saved'[p] = [line |-> t.line, messages |-> history[p]]
      <4>1. history[p] = Exchanges(e, f, n)
        BY <1>1, <1>4, <1>9, <1>a DEF HistoryOf
      <4>2. saved'[p].line = n /\ saved'[p].messages = Exchanges(e, f, n)
        BY <1>4, <3>3, <4>1
      <4>3. QED
        BY <1>4, <4>2
    <3>4. QED
      BY <3>1, <3>2, <3>3
  <2>4. QED
    BY <1>10, <1>a, <2>1, <2>3 DEF HistoryOf
<1>12. UnderDo(p)'
  BY <1>1 DEF UnderDo
<1>13. \A q \in Proc \ {p} : SameChat(q)
  BY <1>3, <1>5 DEF SameChat
<1>14. QED
  BY <1>7, <1>8, <1>11, <1>12, <1>13, ChatOthers DEF Moves

LEMMA ChatStepKeeps ==
    ASSUME ChatInv, NEW p \in Proc, ChatStep(p)
    PROVE  ChatInv'
<1> USE DEF ChatInv
<1>0. ChatType /\ OneTurn(p) /\ HistoryOf(p) /\ UnderDo(p) /\ Moves(p)
  BY ChatMoves
<1>1. ASSUME UNCHANGED <<waiting, turns, history, saved, entered, fate>>,
             doing' \in [Proc -> BOOLEAN], stopped' \in [Proc -> BOOLEAN], UnderDo(p)',
             \A q \in Proc \ {p} : doing'[q] = doing[q] /\ stopped'[q] = stopped[q]
      PROVE  ChatInv'
  <2>1. ChatType' /\ OneTurn(p)' /\ HistoryOf(p)'
    BY <1>0, <1>1 DEF ChatType, OneTurn, HistoryOf
  <2>2. \A q \in Proc \ {p} : SameChat(q)
    BY <1>1 DEF SameChat
  <2> HIDE DEF ChatInv
  <2>3. QED
    BY <1>0, <1>1, <2>1, <2>2, ChatOthers
<1>2. CASE Open(p)
  BY <1>0, <1>1, <1>2 DEF Open, chatVars, UnderDo, ChatType
<1>3. CASE Enter(p)
  <2>1. PICK kind \in Kinds :
            /\ entered' = [entered EXCEPT ![p] = Append(@, kind)]
            /\ turns' = [turns EXCEPT ![p] = @ \cup
                   {[line |-> Len(entered[p]) + 1, kind |-> kind, at |-> "begun", context |-> <<>>]}]
    <3>1. PICK word \in Words, arg \in BOOLEAN :
              /\ entered' = [entered EXCEPT ![p] = Append(@, ParseChatInput(word, arg))]
              /\ turns' = [turns EXCEPT ![p] = @ \cup
                     {[line |-> Len(entered[p]) + 1, kind |-> ParseChatInput(word, arg), at |-> "begun",
                       context |-> <<>>]}]
      BY <1>3 DEF Enter
    <3>2. ParseChatInput(word, arg) \in Kinds
      BY DEF ParseChatInput, Kinds
    <3>3. QED
      BY <3>1, <3>2
  <2>2. PICK u : u = [line |-> Len(entered[p]) + 1, kind |-> kind, at |-> "begun", context |-> <<>>]
    OBVIOUS
  <2>3. /\ ~waiting[p] /\ waiting' = [waiting EXCEPT ![p] = TRUE] /\ turns[p] = {}
        /\ fate' = [fate EXCEPT ![p] = Append(@, "pending")]
        /\ UNCHANGED <<cmd, pc, history, mode, saved, doing, stopped>>
    BY <1>0, <1>3 DEF Enter, Ready, OneTurn
  <2>4. /\ turns'[p] = {u} /\ entered'[p] = Append(entered[p], kind) /\ fate'[p] = Append(fate[p], "pending")
        /\ waiting'[p] = TRUE /\ history' = history /\ saved' = saved
        /\ \A q \in Proc \ {p} : SameChat(q)
    BY <1>0, <2>1, <2>2, <2>3 DEF ChatType, SameChat
  <2>5. PICK n \in Nat : n = Len(entered[p]) /\ entered[p] \in Seq(Kinds) /\ Len(fate[p]) = n
            /\ fate[p] \in Seq({"pending", "good", "bad"})
    BY <1>0 DEF ChatType, OneTurn
  <2>6. /\ Len(entered'[p]) = n + 1 /\ Len(fate'[p]) = n + 1
        /\ entered'[p][n + 1] = kind /\ fate'[p][n + 1] = "pending"
        /\ \A i \in 1..n : entered'[p][i] = entered[p][i] /\ fate'[p][i] = fate[p][i]
    BY <2>4, <2>5
  <2>7. ChatType'
    <3>1. u \in Turns
      <4>1. <<>> \in Seq(Messages)
        OBVIOUS
      <4>2. QED
        BY <2>2, <2>5, <4>1 DEF Turns
    <3>2. turns' \in [Proc -> SUBSET Turns]
      BY <1>0, <2>1, <2>2, <3>1 DEF ChatType
    <3>3. entered' \in [Proc -> Seq(Kinds)]
      BY <1>0, <2>1 DEF ChatType
    <3>4. fate' \in [Proc -> Seq({"pending", "good", "bad"})]
      BY <1>0, <2>3 DEF ChatType
    <3>5. QED
      BY <1>0, <2>3, <3>2, <3>3, <3>4 DEF ChatType
  <2>8. OneTurn(p)'
    BY <2>2, <2>4, <2>5, <2>6 DEF OneTurn
  <2>9. HistoryOf(p)'
    <3>1. \A m \in 0..(n + 1) : Exchanges(entered'[p], fate'[p], m) = Exchanges(entered[p], fate[p], m)
      <4> SUFFICES ASSUME NEW m \in 0..(n + 1)
                   PROVE  Exchanges(entered'[p], fate'[p], m) = Exchanges(entered[p], fate[p], m)
        OBVIOUS
      <4>1. m \in Nat /\ Agree(entered'[p], fate'[p], entered[p], fate[p], m)
        BY <2>6 DEF Agree
      <4>2. QED
        BY <4>1, ExchangesSame
    <3>2. history[p] = Exchanges(entered[p], fate[p], n + 1)
      BY <1>0, <2>3, <2>5 DEF HistoryOf
    <3>3. saved[p].line \in Nat /\ saved[p].line <= n
      BY <1>0, <2>5 DEF HistoryOf, ChatType
    <3>4. /\ saved'[p].line <= Len(entered'[p])
          /\ saved'[p].line > 0 => saved'[p].messages = Exchanges(entered'[p], fate'[p], saved'[p].line)
      BY <1>0, <2>4, <2>6, <3>1, <3>3 DEF HistoryOf
    <3>5. history'[p] = Exchanges(entered'[p], fate'[p], n + 1)
      BY <2>4, <3>1, <3>2
    <3>6. turns'[p] /= {} /\ \A t \in turns'[p] : t.at = "begun" /\ t.line = n + 1
      BY <2>2, <2>4, <2>5
    <3>7. QED
      BY <3>4, <3>5, <3>6 DEF HistoryOf
  <2>10. UnderDo(p)'
    BY <1>0, <2>3 DEF UnderDo
  <2> HIDE DEF ChatInv
  <2>11. QED
    BY <1>0, <2>4, <2>7, <2>8, <2>9, <2>10, ChatOthers
<1>4. CASE TurnDone(p)
  <2>1. PICK t \in turns[p] : t.at = "done" /\ turns' = [turns EXCEPT ![p] = @ \ {t}]
    BY <1>4 DEF TurnDone
  <2>2. /\ waiting' = [waiting EXCEPT ![p] = FALSE]
        /\ UNCHANGED <<cmd, history, mode, saved, doing, stopped, entered, fate>>
    BY <1>4 DEF TurnDone
  <2>3. turns[p] = {t} /\ t.line = Len(entered[p]) /\ history[p] = Exchanges(entered[p], fate[p], t.line + 1)
    BY <1>0, <2>1 DEF OneTurn, HistoryOf
  <2>4. turns'[p] = {} /\ waiting'[p] = FALSE /\ \A q \in Proc \ {p} : SameChat(q)
    BY <1>0, <2>1, <2>2, <2>3 DEF ChatType, SameChat
  <2>5. ChatType'
    <3>1. turns' \in [Proc -> SUBSET Turns]
      BY <1>0, <2>1 DEF ChatType
    <3>2. QED
      BY <1>0, <2>2, <3>1 DEF ChatType
  <2>6. OneTurn(p)' /\ HistoryOf(p)'
    BY <1>0, <2>2, <2>3, <2>4 DEF OneTurn, HistoryOf
  <2>7. ~(doing[p] /\ ~stopped[p])
    BY <1>0, <2>1, <2>3 DEF UnderDo
  <2>8. UnderDo(p)'
    BY <2>2, <2>7 DEF UnderDo
  <2> HIDE DEF ChatInv
  <2>9. QED
    BY <1>0, <2>4, <2>5, <2>6, <2>8, ChatOthers
<1>5. CASE Dispatch(p)
  <2>1. PICK t \in turns[p] :
            /\ t.at = "begun"
            /\ \/ /\ t.kind = "text"
                  /\ turns' = [turns EXCEPT ![p] = (@ \ {t}) \cup
                                   {[t EXCEPT !.at = "asking", !.context = history[p]]}]
                  /\ UNCHANGED <<history, mode, saved, fate>>
               \/ t.kind = "do" /\ Moved(p, t, "running") /\ UNCHANGED <<history, mode, saved, fate>>
               \/ /\ t.kind = "clear" /\ Moved(p, t, "done") /\ Settled(p, t, "bad")
                  /\ history' = [history EXCEPT ![p] = <<>>] /\ saved' = saved
               \/ /\ t.kind = "save" /\ Moved(p, t, "done") /\ Settled(p, t, "bad")
                  /\ \E s \in {[line |-> t.line, messages |-> history[p]], saved[p], Unsaved} :
                         saved' = [saved EXCEPT ![p] = s]
                  /\ history' = history
               \/ /\ t.kind \notin {"text", "do", "clear", "save"}
                  /\ Moved(p, t, "done") /\ Settled(p, t, "bad") /\ UNCHANGED <<history, saved>>
    BY <1>5 DEF Dispatch
  <2>2. UNCHANGED <<cmd, pc, waiting, doing, stopped, entered>>
    BY <1>5 DEF Dispatch
  <2>3. t \in Turns /\ t.line \in Nat /\ history[p] \in Seq(Messages) /\ Unsaved.line = 0
    BY <1>0 DEF ChatType, Turns, Unsaved
  <2>4. CASE /\ t.kind = "text"
             /\ turns' = [turns EXCEPT ![p] = (@ \ {t}) \cup {[t EXCEPT !.at = "asking", !.context = history[p]]}]
             /\ UNCHANGED <<history, mode, saved, fate>>
    <3>1. PICK u : u = [t EXCEPT !.at = "asking", !.context = history[p]]
      OBVIOUS
    <3>2. u \in Turns /\ u.line = t.line /\ u.kind = "text" /\ u.at = "asking" /\ u.context = history[p]
      BY <2>3, <2>4, <3>1 DEF Turns
    <3> HIDE DEF ChatInv
    <3>3. QED
      BY <2>1, <2>2, <2>4, <3>1, <3>2, ChatBusy
  <2>5. CASE t.kind = "do" /\ Moved(p, t, "running") /\ UNCHANGED <<history, mode, saved, fate>>
    <3>1. PICK u : u = [t EXCEPT !.at = "running"]
      OBVIOUS
    <3>2. u \in Turns /\ u.line = t.line /\ u.kind = "do" /\ u.at = "running"
      BY <2>3, <2>5, <3>1 DEF Turns
    <3> HIDE DEF ChatInv
    <3>3. QED
      BY <2>1, <2>2, <2>5, <3>1, <3>2, ChatBusy DEF Moved
  <2>6. CASE /\ t.kind = "clear" /\ Moved(p, t, "done") /\ Settled(p, t, "bad")
             /\ history' = [history EXCEPT ![p] = <<>>] /\ saved' = saved
    <3>1. history' \in [Proc -> Seq(Messages)]
      <4>1. <<>> \in Seq(Messages)
        OBVIOUS
      <4>2. QED
        BY <1>0, <2>6, <4>1 DEF ChatType
    <3>2. history'[p] = <<>> /\ \A q \in Proc \ {p} : history'[q] = history[q]
      BY <1>0, <2>6 DEF ChatType
    <3>3. saved' \in [Proc -> [line : Nat, messages : Seq(Messages)]]
      BY <1>0, <2>6 DEF ChatType
    <3> HIDE DEF ChatInv
    <3>4. QED
      BY <2>1, <2>2, <2>6, <3>1, <3>2, <3>3, ChatSettles
  <2>7. CASE /\ t.kind = "save" /\ Moved(p, t, "done") /\ Settled(p, t, "bad")
             /\ \E s \in {[line |-> t.line, messages |-> history[p]], saved[p], Unsaved} :
                    saved' = [saved EXCEPT ![p] = s]
             /\ history' = history
    <3>1. PICK s \in {[line |-> t.line, messages |-> history[p]], saved[p], Unsaved} :
              saved' = [saved EXCEPT ![p] = s]
      BY <2>7
    <3>2. s \in [line : Nat, messages : Seq(Messages)]
      <4>1. <<>> \in Seq(Messages) /\ saved[p] \in [line : Nat, messages : Seq(Messages)]
        BY <1>0 DEF ChatType
      <4>2. Unsaved \in [line : Nat, messages : Seq(Messages)]
        BY <4>1 DEF Unsaved
      <4>3. [line |-> t.line, messages |-> history[p]] \in [line : Nat, messages : Seq(Messages)]
        BY <2>3
      <4>4. QED
        BY <3>1, <4>1, <4>2, <4>3
    <3>3. /\ saved' \in [Proc -> [line : Nat, messages : Seq(Messages)]]
          /\ saved'[p] = s /\ \A q \in Proc \ {p} : saved'[q] = saved[q]
      BY <1>0, <3>1, <3>2 DEF ChatType
    <3>4. history' \in [Proc -> Seq(Messages)] /\ history'[p] = history[p]
      BY <1>0, <2>7 DEF ChatType
    <3> HIDE DEF ChatInv
    <3>5. QED
      BY <2>1, <2>2, <2>7, <3>1, <3>3, <3>4, ChatSettles
  <2>8. CASE /\ t.kind \notin {"text", "do", "clear", "save"}
             /\ Moved(p, t, "done") /\ Settled(p, t, "bad") /\ UNCHANGED <<history, saved>>
    <3>1. /\ history' \in [Proc -> Seq(Messages)] /\ history'[p] = history[p]
          /\ saved' \in [Proc -> [line : Nat, messages : Seq(Messages)]]
      BY <1>0, <2>8 DEF ChatType
    <3> HIDE DEF ChatInv
    <3>2. QED
      BY <2>1, <2>2, <2>8, <3>1, ChatSettles
  <2>9. QED
    BY <2>1, <2>4, <2>5, <2>6, <2>7, <2>8
<1>6. ASSUME NEW t \in turns[p], t.at \in {"asking", "running"}, t.at = "running" => ~doing[p],
             Moved(p, t, "done"), NEW how \in {"good", "bad"}, Settled(p, t, how),
             history' = IF how = "good" THEN [history EXCEPT ![p] = @ \o Pair(t.line)] ELSE history,
             UNCHANGED <<cmd, pc, waiting, saved, doing, stopped, entered>>
      PROVE  ChatInv'
  <2>1. t \in Turns /\ t.line \in Nat /\ t.kind /= "clear"
    BY <1>0, <1>6 DEF ChatType, Turns, OneTurn
  <2>2. Pair(t.line) \in Seq(Messages)
    BY <2>1 DEF Pair, Messages
  <2>3. /\ history' \in [Proc -> Seq(Messages)] /\ \A q \in Proc \ {p} : history'[q] = history[q]
        /\ history'[p] = IF how = "good" THEN history[p] \o Pair(t.line) ELSE history[p]
    BY <1>0, <1>6, <2>2 DEF ChatType
  <2>4. saved' \in [Proc -> [line : Nat, messages : Seq(Messages)]]
    BY <1>0, <1>6 DEF ChatType
  <2> HIDE DEF ChatInv
  <2>5. QED
    BY <1>6, <2>1, <2>3, <2>4, ChatSettles
<1>7. CASE Reply(p)
  <2> HIDE DEF ChatInv
  <2>1. QED
    BY <1>6, <1>7 DEF Reply
<1>8. CASE DoDone(p)
  <2> HIDE DEF ChatInv
  <2>1. QED
    BY <1>6, <1>8 DEF DoDone
<1>9. CASE StartCommand(p)
  <2>1. /\ UNCHANGED <<cmd, pc, waiting, turns, history, saved, stopped, entered, fate>>
        /\ Chatting(p) /\ pc[p] = "screen" /\ \E t \in turns[p] : t.at = "running"
        /\ doing' = [doing EXCEPT ![p] = TRUE]
    BY <1>9 DEF StartCommand
  <2>2. UnderDo(p)'
    BY <2>1 DEF UnderDo, Chatting, Does
  <2>3. /\ doing' \in [Proc -> BOOLEAN] /\ stopped' \in [Proc -> BOOLEAN]
        /\ \A q \in Proc \ {p} : doing'[q] = doing[q] /\ stopped'[q] = stopped[q]
    BY <1>0, <2>1 DEF ChatType
  <2>4. QED
    BY <1>1, <2>1, <2>2, <2>3
<1>10. CASE CommandEnds(p)
  BY <1>0, <1>1, <1>10 DEF CommandEnds, UnderDo, ChatType
<1>11. CASE CtrlC(p)
  <2>1. UNCHANGED <<cmd, waiting, turns, history, saved, doing, entered, fate>>
    BY <1>11 DEF CtrlC
  <2>2. /\ stopped' \in [Proc -> BOOLEAN] /\ \A q \in Proc \ {p} : stopped'[q] = stopped[q]
        /\ doing' \in [Proc -> BOOLEAN]
    BY <1>0, <1>11 DEF CtrlC, ChatType
  <2>3. stopped'[p] = TRUE \/ ~\E t \in turns[p] : t.at = "running"
    BY <1>0, <1>11 DEF CtrlC, ChatType
  <2>4. stopped'[p] = stopped[p] \/ stopped'[p] = TRUE
    BY <1>0, <1>11 DEF CtrlC, ChatType
  <2>5. UnderDo(p)'
    BY <1>0, <2>1, <2>3, <2>4 DEF UnderDo
  <2>6. QED
    BY <1>1, <2>1, <2>2, <2>5
<1>12. CASE ScreenKilled(p)
  <2>1. stopped[p] /\ UNCHANGED chatVars
    BY <1>12 DEF ScreenKilled
  <2>2. UnderDo(p)'
    BY <2>1 DEF UnderDo, chatVars
  <2>3. QED
    BY <1>0, <1>1, <2>1, <2>2 DEF chatVars, ChatType
<1>13. QED
  BY <1>2, <1>3, <1>4, <1>5, <1>7, <1>8, <1>9, <1>10, <1>11, <1>12 DEF ChatStep

(* A step that is not chat's leaves the chats where they are.                 *)
LEMMA ChatKeeps == ChatInv /\ [Next]_vars => ChatInv'
<1> SUFFICES ASSUME ChatInv, [Next]_vars PROVE ChatInv'
  OBVIOUS
<1>1. CASE UNCHANGED chatVars /\ Elsewhere({"chat"})
  <2>1. DOMAIN pc' = Proc
    BY <1>1 DEF ChatInv, Elsewhere, Goto
  <2>2. ChatType'
    BY <1>1 DEF ChatInv, ChatType, chatVars
  <2>3. ASSUME NEW p \in Proc PROVE OneTurn(p)' /\ HistoryOf(p)' /\ UnderDo(p)'
    <3>1. OneTurn(p)' /\ HistoryOf(p)'
      BY <1>1 DEF ChatInv, OneTurn, HistoryOf, chatVars
    <3>2. Chatting(p) => Chatting(p)' /\ pc'[p] = pc[p]
      BY <1>1 DEF ChatInv, Elsewhere, Goto, Chatting, Does
    <3>3. UnderDo(p)'
      BY <1>1, <3>2 DEF ChatInv, UnderDo, chatVars
    <3>4. QED
      BY <3>1, <3>3
  <2>4. QED
    BY <2>1, <2>2, <2>3 DEF ChatInv
<1>2. QED
  BY <1>1, ChatApart, ChatStepKeeps

LEMMA ChatStarts == HomeInit => ChatInv
<1> SUFFICES ASSUME HomeInit PROVE ChatInv
  OBVIOUS
<1> USE DEF HomeInit, ChatInit
<1>1. ChatType
  <2>1. <<>> \in Seq(Messages) /\ <<>> \in Seq(Kinds) /\ <<>> \in Seq({"pending", "good", "bad"})
    OBVIOUS
  <2>2. Unsaved \in [line : Nat, messages : Seq(Messages)]
    BY <2>1 DEF Unsaved
  <2>3. QED
    BY <2>1, <2>2 DEF ChatType
<1>2. ASSUME NEW p \in Proc PROVE OneTurn(p) /\ HistoryOf(p) /\ UnderDo(p)
  <2>1. entered[p] = <<>> /\ fate[p] = <<>> /\ turns[p] = {} /\ history[p] = <<>> /\ saved[p] = Unsaved
    OBVIOUS
  <2>2. Exchanges(<<>>, <<>>, 1) = <<>>
    <3>1. PICK ss : ss = [i \in 1..(1 - 1) |-> Exchange(<<>>, <<>>, 1, i)]
      OBVIOUS
    <3>2. ss \in Seq(Seq(Messages)) /\ Len(ss) = 0
      BY <3>1, ExchangeType
    <3>3. Joined(ss) = <<>>
      <4>1. ss = <<>>
        BY <3>2
      <4>2. QED
        BY <4>1, JoinedEmpty
    <3>4. QED
      BY <3>1, <3>3 DEF Exchanges
  <2>3. Len(<<>>) = 0
    OBVIOUS
  <2>4. HistoryOf(p)
    BY <2>1, <2>2, <2>3 DEF HistoryOf, Unsaved
  <2>5. QED
    BY <2>1, <2>4 DEF OneTurn, UnderDo
<1>3. QED
  BY <1>1, <1>2 DEF ChatInv

(* Whatever runs beside it, a chat is one conversation.                       *)
THEOREM ChatIsOne == HomeSpec => []OneConversation
<1>1. ChatInv => OneConversation
  <2> SUFFICES ASSUME ChatInv, NEW p \in Proc
               PROVE  /\ \A t \in turns[p] : t.at = "asking" => t.context = Counted(p, t.line)
                      /\ saved[p].line > 0 => saved[p].messages = Counted(p, saved[p].line)
                      /\ turns[p] = {} => history[p] = Counted(p, Len(entered[p]) + 1)
                      /\ Ended(p) /\ doing[p] => stopped[p]
    BY DEF OneConversation
  <2>1. HistoryOf(p) /\ UnderDo(p)
    BY DEF ChatInv
  <2>2. \A n : Counted(p, n) = Exchanges(entered[p], fate[p], n)
    BY CountedExchanges
  <2>3. Ended(p) => pc[p] /= "screen"
    BY DEF Ended
  <2>4. QED
    BY <2>1, <2>2, <2>3 DEF HistoryOf, UnderDo
<1>2. HomeSpec => ChatInv
  BY ChatStarts DEF HomeSpec, HomeBegin
<1>3. QED
  BY <1>1, <1>2, ChatKeeps, PTL DEF HomeSpec

(* ------------------------------- startup files ------------------------------ *)

(* A content that keeps the user's lines of f, and at most one block.         *)
Keeps(f, s) == Own(s) = kept[f] /\ OneBegin(s)

RcType ==
    /\ rc \in [RcFiles -> Seq(Lines)] /\ kept \in [RcFiles -> Seq(Lines)]
    /\ stale \in [RcFiles -> BOOLEAN]
    /\ planned \in [Proc -> Seq([file : RcFiles, content : Seq(Lines)])] /\ turn \in [Proc -> Nat]

(* Where p stands in its plan: a removal plans a file when it reads it.       *)
InTurn(p) ==
    /\ turn[p] <= Len(planned[p])
    /\ pc[p] = "write" => turn[p] < Len(planned[p])
    /\ pc[p] = "start" => planned[p] = <<>>
    /\ cmd[p].do = "install" /\ pc[p] = "confirm" => planned[p] /= <<>> /\ turn[p] = 0
    /\ cmd[p].do = "uninstall" =>
          /\ pc[p] /= "confirm"
          /\ turn[p] <= Len(cmd[p].files)
          /\ pc[p] \in {"start", "next"} => turn[p] = Len(planned[p])
          /\ pc[p] = "write" => turn[p] + 1 = Len(planned[p]) /\ turn[p] < Len(cmd[p].files)

(* What is there and what p has still to write keep the user's lines, unless  *)
(* another wrote in between.                                                  *)
HoldsKept(p, f) == \A i \in (turn[p] + 1)..Len(planned[p]) :
    planned[p][i].file = f => Keeps(f, planned[p][i].content)

RcInv ==
    /\ DOMAIN pc = Proc /\ RcType
    /\ \A p \in Proc : Initializing(p) => cmd[p].files \in Seq(RcFiles) /\ InTurn(p)
    /\ \A f \in RcFiles : ~stale[f] =>
          /\ Keeps(f, rc[f])
          /\ \A p \in Proc : Initializing(p) /\ ~Ended(p) => HoldsKept(p, f)

(* -------- blocks and the user's lines, as operations on sequences ----------- *)

LEMMA OwnConcat == \A s, t \in Seq(Lines) : Without(s \o t, Blank) = Without(s, Blank) \o Without(t, Blank)
<1> SUFFICES ASSUME NEW s \in Seq(Lines), NEW t \in Seq(Lines)
             PROVE  Without(s \o t, Blank) = Without(s, Blank) \o Without(t, Blank)
  OBVIOUS
<1>1. QED
  BY WithoutConcat

NoBegin(s) == \A i \in DOMAIN s : s[i] /= Begin

LEMMA FirstIs ==
    ASSUME NEW s \in Seq(Lines), NEW line, NEW after \in Nat
    PROVE  /\ First(s, line, after) \in Nat
           /\ First(s, line, after) = 0 => \A i \in (after + 1)..Len(s) : s[i] /= line
           /\ First(s, line, after) /= 0 =>
                 /\ First(s, line, after) \in (after + 1)..Len(s) /\ s[First(s, line, after)] = line
                 /\ \A i \in (after + 1)..Len(s) : s[i] = line => First(s, line, after) <= i
<1> DEFINE at == {i \in (after + 1)..Len(s) : s[i] = line}
<1>1. CASE at = {}
  BY <1>1 DEF First
<1>2. CASE at /= {}
  <2>1. at \in SUBSET Nat
    OBVIOUS
  <2>2. \E i \in at : \A j \in at : i <= j
    <3> HIDE DEF at
    <3>1. QED
      BY <1>2, <2>1, Least
  <2>3. First(s, line, after) \in at /\ \A j \in at : First(s, line, after) <= j
    BY <1>2, <2>2 DEF First
  <2>4. QED
    BY <2>3
<1>3. QED
  BY <1>1, <1>2

LEMMA BeginIs ==
    ASSUME NEW s \in Seq(Lines)
    PROVE  /\ BeginOf(s) \in Nat /\ EndOf(s) \in Nat
           /\ BeginOf(s) = 0 => NoBegin(s) /\ EndOf(s) = 0
           /\ BeginOf(s) /= 0 => /\ BeginOf(s) \in 1..Len(s) /\ s[BeginOf(s)] = Begin
                                 /\ \A i \in 1..Len(s) : s[i] = Begin => BeginOf(s) <= i
           /\ EndOf(s) /= 0 => BeginOf(s) /= 0 /\ EndOf(s) \in (BeginOf(s) + 1)..Len(s)
<1>1. 0 + 1 = 1 /\ DOMAIN s = 1..Len(s)
  OBVIOUS
<1>2. /\ BeginOf(s) \in Nat
      /\ BeginOf(s) = 0 => \A i \in 1..Len(s) : s[i] /= Begin
      /\ BeginOf(s) /= 0 => /\ BeginOf(s) \in 1..Len(s) /\ s[BeginOf(s)] = Begin
                            /\ \A i \in 1..Len(s) : s[i] = Begin => BeginOf(s) <= i
  BY <1>1, FirstIs DEF BeginOf
<1>3. EndOf(s) \in Nat /\ (EndOf(s) /= 0 => BeginOf(s) /= 0 /\ EndOf(s) \in (BeginOf(s) + 1)..Len(s))
  BY <1>2, FirstIs DEF EndOf
<1>4. BeginOf(s) = 0 => EndOf(s) = 0
  BY DEF EndOf
<1>5. QED
  BY <1>1, <1>2, <1>3, <1>4 DEF NoBegin

LEMMA BlockType == Block \in Seq(Lines)
<1>1. Begin \in Lines /\ End \in Lines /\ "hook v2" \in Lines
  BY DEF Lines
<1>2. \A a, b, c \in Lines : <<a, b, c>> \in Seq(Lines)
  OBVIOUS
<1>3. QED
  BY <1>1, <1>2, Zenon DEF Block

(* A block with lines around it is without, and these are the user's.           *)
LEMMA OwnAround ==
    ASSUME NEW u \in Seq(Lines), NEW v \in Seq(Lines), NoBegin(u)
    PROVE  /\ u \o Block \o v \in Seq(Lines)
           /\ BeginOf(u \o Block \o v) /= 0 /\ EndOf(u \o Block \o v) /= 0
           /\ Before(u \o Block \o v) = u /\ After(u \o Block \o v) = v
           /\ Own(u \o Block \o v) = Without(u, Blank) \o Without(v, Blank)
           /\ NoBegin(v) => OneBegin(u \o Block \o v)
<1>1. PICK s, n, m : s = u \o Block \o v /\ n = Len(u) /\ m = Len(v)
  OBVIOUS
<1>n. n \in Nat /\ m \in Nat
  BY <1>1
<1>2. Block \in Seq(Lines) /\ Len(Block) = 3 /\ Block[1] = Begin /\ Block[3] = End
      /\ Block[2] /= Begin /\ Block[2] /= End /\ Begin /= End
  <2>2. Begin /= End /\ "hook v2" /= Begin /\ "hook v2" /= End
    BY DEF Begin, End
  <2>4. Len(Block) = 3 /\ Block[1] = Begin /\ Block[2] = "hook v2" /\ Block[3] = End
    BY DEF Block
  <2>5. QED
    BY <2>2, <2>4, BlockType
<1>3. u \o Block \in Seq(Lines) /\ Len(u \o Block) = n + 3
      /\ \A i \in 1..(n + 3) : (u \o Block)[i] = IF i <= n THEN u[i] ELSE Block[i - n]
  <2>1. /\ u \o Block \in Seq(Lines) /\ Len(u \o Block) = Len(u) + Len(Block)
        /\ \A i \in 1..(Len(u) + Len(Block)) : (u \o Block)[i] = IF i <= Len(u) THEN u[i] ELSE Block[i - Len(u)]
    BY <1>2, ConcatIs, Zenon
  <2>2. QED
    BY <1>1, <1>2, <2>1
<1>4. /\ s \in Seq(Lines) /\ Len(s) = n + 3 + m /\ n \in Nat /\ m \in Nat
      /\ \A i \in 1..(n + 3 + m) : s[i] = IF i <= n + 3 THEN (u \o Block)[i] ELSE v[i - (n + 3)]
  <2>1. n \in Nat /\ m \in Nat
    BY <1>1
  <2>2. /\ (u \o Block) \o v \in Seq(Lines) /\ Len((u \o Block) \o v) = Len(u \o Block) + Len(v)
        /\ \A i \in 1..(Len(u \o Block) + Len(v)) :
               ((u \o Block) \o v)[i] = IF i <= Len(u \o Block) THEN (u \o Block)[i] ELSE v[i - Len(u \o Block)]
    BY <1>3, ConcatIs, SMT
  <2>3. QED
    BY <1>1, <1>3, <2>1, <2>2
<1>5. /\ \A i \in 1..n : s[i] = u[i] /\ s[i] /= Begin
      /\ s[n + 1] = Begin /\ s[n + 2] /= Begin /\ s[n + 2] /= End /\ s[n + 3] = End /\ s[n + 3] /= Begin
      /\ \A i \in 1..m : s[n + 3 + i] = v[i]
  <2>1. ASSUME NEW i \in 1..n PROVE s[i] = u[i] /\ s[i] /= Begin
    <3>1. i \in 1..(n + 3) /\ i \in 1..(n + 3 + m) /\ i <= n + 3 /\ i <= n /\ i \in DOMAIN u
      BY <1>1, <1>n
    <3>2. s[i] = u[i]
      BY <1>3, <1>4, <3>1
    <3>3. QED
      BY <3>1, <3>2 DEF NoBegin
  <2>2. s[n + 1] = Block[1] /\ s[n + 2] = Block[2] /\ s[n + 3] = Block[3]
    <3>1. \A k \in 1..3 : n + k \in 1..(n + 3) /\ n + k \in 1..(n + 3 + m) /\ ~(n + k <= n) /\ (n + k) - n = k
      BY <1>n
    <3>2. ASSUME NEW k \in 1..3 PROVE s[n + k] = Block[k]
      <4>1. PICK i : i = n + k
        OBVIOUS
      <4>2. i \in 1..(n + 3) /\ i \in 1..(n + 3 + m) /\ ~(i <= n) /\ i - n = k /\ i <= n + 3
        BY <1>n, <4>1
      <4>3. s[i] = (u \o Block)[i] /\ (u \o Block)[i] = Block[k]
        BY <1>3, <1>4, <4>2
      <4>4. QED
        BY <4>1, <4>3
    <3>3. QED
      BY <3>2
  <2>3. \A i \in 1..m : s[n + 3 + i] = v[i]
    BY <1>4
  <2>4. QED
    BY <1>2, <2>1, <2>2, <2>3
<1>6. BeginOf(s) = n + 1
  <2>1. n + 1 \in 1..Len(s) /\ DOMAIN s = 1..Len(s)
    BY <1>4
  <2>2. BeginOf(s) /= 0
    BY <1>4, <1>5, <2>1, BeginIs DEF NoBegin
  <2>3. BeginOf(s) \in 1..Len(s) /\ s[BeginOf(s)] = Begin /\ BeginOf(s) <= n + 1
    BY <1>4, <1>5, <2>1, <2>2, BeginIs
  <2>4. BeginOf(s) \notin 1..n
    BY <1>5, <2>3
  <2>5. QED
    BY <1>4, <2>3, <2>4
<1>7. EndOf(s) = n + 3
  <2>1. n + 3 \in (n + 1 + 1)..Len(s) /\ n + 1 \in Nat
    BY <1>4
  <2>2. PICK k : k = First(s, End, n + 1)
    OBVIOUS
  <2>3. /\ k \in Nat
        /\ k = 0 => \A i \in (n + 1 + 1)..Len(s) : s[i] /= End
        /\ k /= 0 => /\ k \in (n + 1 + 1)..Len(s) /\ s[k] = End
                     /\ \A i \in (n + 1 + 1)..Len(s) : s[i] = End => k <= i
    BY <1>4, <2>1, <2>2, FirstIs
  <2>4. k = n + 3
    BY <1>4, <1>5, <2>1, <2>3, SMTT(30)
  <2>5. EndOf(s) = k
    BY <1>4, <1>6, <2>2 DEF EndOf
  <2>6. QED
    BY <2>4, <2>5
<1>8. Before(s) = u
  <2>1. Before(s) = SubSeq(s, 1, n)
    BY <1>4, <1>6 DEF Before
  <2>2. /\ SubSeq(s, 1, n) \in Seq(Lines) /\ Len(SubSeq(s, 1, n)) = n
        /\ \A i \in 1..n : SubSeq(s, 1, n)[i] = s[i]
    BY <1>4
  <2>3. QED
    BY <1>1, <1>5, <2>1, <2>2, SeqEqual
<1>9. After(s) = v
  <2>1. After(s) = SubSeq(s, n + 4, n + 3 + m)
    <3>1. (n + 3) + 1 = n + 4
      BY <1>n
    <3>2. QED
      BY <1>4, <1>7, <3>1 DEF After
  <2>2. /\ SubSeq(s, n + 4, n + 3 + m) \in Seq(Lines) /\ Len(SubSeq(s, n + 4, n + 3 + m)) = m
        /\ \A i \in 1..m : SubSeq(s, n + 4, n + 3 + m)[i] = s[n + 3 + i]
    <3>1. PICK a, b : a = n + 4 /\ b = n + 3 + m
      OBVIOUS
    <3>2. a \in Nat /\ b \in Nat /\ a >= 1 /\ b <= Len(s) /\ a <= b + 1 /\ (b - a) + 1 = m
      BY <1>n, <1>4, <3>1
    <3>3. SubSeq(s, a, b) \in Seq(Lines) /\ Len(SubSeq(s, a, b)) = m
      BY <1>n, <1>4, <3>2
    <3>4. \A i \in 1..m : SubSeq(s, a, b)[i] = s[a + i - 1] /\ a + i - 1 = n + 3 + i
      BY <1>n, <1>4, <3>1, <3>2
    <3>5. QED
      BY <3>1, <3>3, <3>4
  <2>3. PICK r : r = SubSeq(s, n + 4, n + 3 + m)
    OBVIOUS
  <2>4. r \in Seq(Lines) /\ Len(r) = m /\ \A i \in 1..m : r[i] = v[i]
    BY <1>5, <2>2, <2>3
  <2>5. r = v
    BY <1>1, <2>4, SeqEqual
  <2>6. QED
    BY <2>1, <2>3, <2>5
<1>10. Own(s) = Without(u, Blank) \o Without(v, Blank)
  <2>1. Own(s) = Without(u \o v, Blank)
    BY <1>4, <1>7, <1>8, <1>9 DEF Own
  <2>2. Without(u \o v, Blank) = Without(u, Blank) \o Without(v, Blank)
    BY WithoutConcat
  <2>3. QED
    BY <2>1, <2>2
<1>11. NoBegin(v) => OneBegin(s)
  <2> SUFFICES ASSUME NoBegin(v), NEW i \in DOMAIN s, s[i] = Begin PROVE i = n + 1
    BY DEF OneBegin
  <2>1. i \in 1..(n + 3 + m) /\ DOMAIN v = 1..m
    BY <1>1, <1>4
  <2>2. CASE i > n + 3
    <3>1. i - (n + 3) \in 1..m /\ n + 3 + (i - (n + 3)) = i
      BY <1>n, <2>1, <2>2
    <3>2. s[i] = v[i - (n + 3)]
      BY <1>5, <3>1
    <3>3. QED
      BY <2>1, <3>1, <3>2 DEF NoBegin
  <2>3. CASE ~(i > n + 3)
    <3>1. i \in 1..n \/ i = n + 1 \/ i = n + 2 \/ i = n + 3
      BY <1>4, <2>1, <2>3
    <3>2. QED
      BY <1>5, <3>1
  <2>4. QED
    BY <2>2, <2>3
<1>12. BeginOf(s) /= 0 /\ EndOf(s) /= 0
  BY <1>n, <1>6, <1>7
<1>13. QED
  BY <1>1, <1>4, <1>8, <1>9, <1>10, <1>11, <1>12

LEMMA AroundIs ==
    ASSUME NEW s \in Seq(Lines), EndOf(s) /= 0
    PROVE  /\ Before(s) \in Seq(Lines) /\ After(s) \in Seq(Lines) /\ NoBegin(Before(s))
           /\ OneBegin(s) => NoBegin(After(s))
           /\ Own(s) = Without(Before(s), Blank) \o Without(After(s), Blank)
<1>1. PICK b, e, n : b = BeginOf(s) /\ e = EndOf(s) /\ n = Len(s)
  OBVIOUS
<1>2. /\ n \in Nat /\ b \in 1..n /\ e \in (b + 1)..n /\ s[b] = Begin /\ DOMAIN s = 1..n
      /\ \A i \in 1..n : s[i] = Begin => b <= i
  BY <1>1, BeginIs
<1>3. Before(s) = SubSeq(s, 1, b - 1) /\ After(s) = SubSeq(s, e + 1, n)
  BY <1>1 DEF Before, After
<1>4. /\ SubSeq(s, 1, b - 1) \in Seq(Lines) /\ DOMAIN SubSeq(s, 1, b - 1) = 1..(b - 1)
      /\ \A i \in 1..(b - 1) : SubSeq(s, 1, b - 1)[i] = s[i]
  <2>1. PICK a : a = b - 1
    OBVIOUS
  <2>2. a \in Nat /\ a <= n
    BY <1>2, <2>1
  <2>3. SubSeq(s, 1, a) \in Seq(Lines) /\ Len(SubSeq(s, 1, a)) = a /\ \A i \in 1..a : SubSeq(s, 1, a)[i] = s[i]
    BY <1>1, <2>2
  <2>4. QED
    BY <2>1, <2>3
<1>5. /\ SubSeq(s, e + 1, n) \in Seq(Lines) /\ DOMAIN SubSeq(s, e + 1, n) = 1..(n - e)
      /\ \A i \in 1..(n - e) : SubSeq(s, e + 1, n)[i] = s[e + i]
  <2>1. PICK a : a = e + 1
    OBVIOUS
  <2>2. a \in Nat /\ a >= 1 /\ a <= n + 1 /\ n \in Nat /\ (n - a) + 1 = n - e
    BY <1>2, <2>1
  <2>3. SubSeq(s, a, n) \in Seq(Lines) /\ Len(SubSeq(s, a, n)) = n - e
    BY <1>1, <2>2
  <2>4. \A i \in 1..(n - e) : SubSeq(s, a, n)[i] = s[a + i - 1] /\ a + i - 1 = e + i
    <3>1. \A i \in 1..(n - a) + 1 : SubSeq(s, a, n)[i] = s[a + i - 1]
      BY <1>1, <2>2
    <3>2. QED
      BY <1>2, <2>1, <2>2, <3>1
  <2>5. QED
    BY <2>1, <2>3, <2>4
<1>6. NoBegin(Before(s))
  BY <1>2, <1>3, <1>4 DEF NoBegin
<1>7. ASSUME OneBegin(s) PROVE NoBegin(After(s))
  <2> SUFFICES ASSUME NEW i \in 1..(n - e), s[e + i] = Begin PROVE FALSE
    BY <1>3, <1>5 DEF NoBegin
  <2>1. e + i \in DOMAIN s /\ b \in DOMAIN s /\ e + i /= b
    BY <1>2
  <2>2. QED
    BY <1>2, <1>7, <2>1 DEF OneBegin
<1>8. Own(s) = Without(Before(s) \o After(s), Blank)
  BY DEF Own
<1>9. Without(Before(s) \o After(s), Blank) = Without(Before(s), Blank) \o Without(After(s), Blank)
  BY <1>3, <1>4, <1>5, OwnConcat
<1>10. QED
  BY <1>3, <1>4, <1>5, <1>6, <1>7, <1>8, <1>9

(* A blank line more at the end makes no difference.                          *)
LEMMA BlankLast ==
    ASSUME NEW s \in Seq(Lines)
    PROVE  Append(s, Blank) \in Seq(Lines) /\ Without(Append(s, Blank), Blank) = Without(s, Blank)
<1>1. Blank \in Lines
  BY DEF Lines
<1>2. <<Blank>> \in Seq(Lines) /\ Append(s, Blank) \in Seq(Lines) /\ Append(s, Blank) = s \o <<Blank>>
  BY <1>1
<1>3. Without(s \o <<Blank>>, Blank) = Without(s, Blank) \o Without(<<Blank>>, Blank)
  BY <1>2, OwnConcat
<1>4. Without(<<Blank>>, Blank) = <<>>
  BY WithoutOne
<1>5. Without(s, Blank) \o <<>> = Without(s, Blank)
  BY WithoutType, ConcatEmptySeq
<1>6. QED
  BY <1>2, <1>3, <1>4, <1>5

LEMMA ApplyKeeps ==
    ASSUME NEW s \in Seq(Lines), ~Unmatched(s)
    PROVE  /\ ApplyBlock(s) \in Seq(Lines)
           /\ OneBegin(s) => Own(ApplyBlock(s)) = Own(s) /\ OneBegin(ApplyBlock(s))
<1>1. CASE BeginOf(s) = 0
  <2>1. PICK u : u = IF s = <<>> THEN s ELSE Append(s, Blank)
    OBVIOUS
  <2>2. NoBegin(s) /\ EndOf(s) = 0
    BY <1>1, BeginIs
  <2>3. u \in Seq(Lines) /\ Without(u, Blank) = Without(s, Blank)
    BY <2>1, BlankLast
  <2>4. NoBegin(u)
    <3>1. Blank /= Begin
      BY DEF Blank, Begin
    <3>2. \A i \in DOMAIN Append(s, Blank) : Append(s, Blank)[i] = IF i \in DOMAIN s THEN s[i] ELSE Blank
      OBVIOUS
    <3>3. QED
      BY <2>1, <2>2, <3>1, <3>2 DEF NoBegin
  <2>5. <<>> \in Seq(Lines) /\ NoBegin(<<>>)
    BY DEF NoBegin
  <2>6. /\ u \o Block \o <<>> \in Seq(Lines) /\ OneBegin(u \o Block \o <<>>)
        /\ Own(u \o Block \o <<>>) = Without(u, Blank) \o Without(<<>>, Blank)
    BY <2>3, <2>4, <2>5, OwnAround
  <2>8. u \o Block \in Seq(Lines)
    BY <2>3, BlockType
  <2>9. u \o Block \o <<>> = u \o Block
    BY <2>8, ConcatEmptySeq
  <2>10. ApplyBlock(s) = u \o Block
    BY <1>1, <2>1 DEF ApplyBlock
  <2>11. Without(s, Blank) \o Without(<<>>, Blank) = Without(s, Blank)
    <3>1. Without(<<>>, Blank) = <<>> /\ Without(s, Blank) \in Seq(Lines)
      BY WithoutNothing, WithoutType
    <3>2. QED
      BY <3>1, ConcatEmptySeq
  <2>12. Own(s) = Without(s, Blank)
    BY <2>2 DEF Own
  <2>13. QED
    BY <2>3, <2>6, <2>8, <2>9, <2>10, <2>11, <2>12
<1>2. CASE BeginOf(s) /= 0
  <2>1. EndOf(s) /= 0
    BY <1>2, BeginIs DEF Unmatched
  <2>2. ApplyBlock(s) = Before(s) \o Block \o After(s)
    BY <1>2 DEF ApplyBlock
  <2>3. /\ Before(s) \in Seq(Lines) /\ After(s) \in Seq(Lines) /\ NoBegin(Before(s))
        /\ OneBegin(s) => NoBegin(After(s))
        /\ Own(s) = Without(Before(s), Blank) \o Without(After(s), Blank)
    BY <2>1, AroundIs
  <2>4. QED
    BY <2>2, <2>3, OwnAround
<1>3. QED
  BY <1>1, <1>2

LEMMA RemoveKeeps ==
    ASSUME NEW s \in Seq(Lines)
    PROVE  /\ RemoveBlock(s) \in Seq(Lines)
           /\ OneBegin(s) => Own(RemoveBlock(s)) = Own(s) /\ OneBegin(RemoveBlock(s))
<1>1. CASE EndOf(s) = 0
  BY <1>1 DEF RemoveBlock
<1>2. CASE EndOf(s) /= 0
  <2>1. PICK b, n, u, v : /\ b = Before(s) /\ n = Len(b) /\ v = After(s)
                          /\ u = IF n > 1 /\ b[n] = Blank THEN SubSeq(b, 1, n - 1) ELSE b
    OBVIOUS
  <2>2. RemoveBlock(s) = u \o v
    BY <1>2, <2>1 DEF RemoveBlock
  <2>3. /\ b \in Seq(Lines) /\ v \in Seq(Lines) /\ NoBegin(b) /\ (OneBegin(s) => NoBegin(v))
        /\ Own(s) = Without(b, Blank) \o Without(v, Blank)
    BY <1>2, <2>1, AroundIs
  <2>4. u \in Seq(Lines) /\ NoBegin(u) /\ Without(u, Blank) = Without(b, Blank)
    <3>1. CASE n > 1 /\ b[n] = Blank
      <4>1. n \in Nat /\ u = SubSeq(b, 1, n - 1) /\ n - 1 \in Nat
        BY <2>1, <2>3, <3>1
      <4>2. /\ u \in Seq(Lines) /\ Len(u) = n - 1 /\ \A i \in 1..(n - 1) : u[i] = b[i]
        <5>1. PICK m : m = n - 1
          OBVIOUS
        <5>2. m \in Nat /\ m <= Len(b)
          BY <2>1, <4>1, <5>1
        <5>3. SubSeq(b, 1, m) \in Seq(Lines) /\ Len(SubSeq(b, 1, m)) = m /\ \A i \in 1..m : SubSeq(b, 1, m)[i] = b[i]
          BY <2>3, <5>2
        <5>4. QED
          BY <4>1, <5>1, <5>3
      <4>3. Append(u, Blank) = b
        <5>1. Append(u, Blank) \in Seq(Lines) /\ Len(Append(u, Blank)) = n
          BY <4>1, <4>2, BlankLast
        <5>2. ASSUME NEW i \in 1..n PROVE Append(u, Blank)[i] = b[i]
          BY <3>1, <4>1, <4>2
        <5>3. QED
          BY <2>1, <2>3, <5>1, <5>2, SeqEqual
      <4>4. Without(Append(u, Blank), Blank) = Without(u, Blank)
        BY <4>2, BlankLast
      <4>5. NoBegin(u)
        BY <2>1, <2>3, <4>1, <4>2 DEF NoBegin
      <4>6. QED
        BY <4>2, <4>3, <4>4, <4>5
    <3>2. CASE ~(n > 1 /\ b[n] = Blank)
      BY <2>1, <2>3, <3>2
    <3>3. QED
      BY <3>1, <3>2
  <2>5. u \o v \in Seq(Lines)
    BY <2>3, <2>4
  <2>6. ASSUME OneBegin(s) PROVE NoBegin(u \o v)
    <3>1. /\ Len(u \o v) = Len(u) + Len(v) /\ Len(u) \in Nat /\ Len(v) \in Nat
          /\ \A i \in 1..(Len(u) + Len(v)) : (u \o v)[i] = IF i <= Len(u) THEN u[i] ELSE v[i - Len(u)]
      BY <2>3, <2>4, ConcatIs
    <3>2. ASSUME NEW i \in 1..(Len(u) + Len(v)) PROVE (u \o v)[i] /= Begin
      <4>1. CASE i <= Len(u)
        BY <2>4, <3>1, <4>1 DEF NoBegin
      <4>2. CASE ~(i <= Len(u))
        <5>1. i - Len(u) \in DOMAIN v
          BY <2>3, <3>1, <4>2
        <5>2. QED
          BY <2>3, <2>6, <3>1, <4>2, <5>1 DEF NoBegin
      <4>3. QED
        BY <4>1, <4>2
    <3>3. DOMAIN (u \o v) = 1..(Len(u) + Len(v))
      BY <2>5, <3>1
    <3>4. QED
      BY <3>2, <3>3 DEF NoBegin
  <2>7. ASSUME OneBegin(s) PROVE Own(u \o v) = Own(s) /\ OneBegin(u \o v)
    <3>1. NoBegin(u \o v)
      BY <2>6, <2>7
    <3>2. PICK w : w = u \o v
      OBVIOUS
    <3>3. EndOf(w) = 0
      <4>1. w \in Seq(Lines) /\ NoBegin(w) /\ DOMAIN w = 1..Len(w)
        BY <2>5, <3>1, <3>2
      <4>2. QED
        BY <4>1, BeginIs DEF NoBegin
    <3>4. Own(w) = Without(w, Blank)
      BY <3>3 DEF Own
    <3>5. Without(u \o v, Blank) = Without(u, Blank) \o Without(v, Blank)
      BY <2>3, <2>4, OwnConcat
    <3>6. OneBegin(w)
      BY <3>1, <3>2 DEF OneBegin, NoBegin
    <3>7. QED
      BY <2>3, <2>4, <3>2, <3>4, <3>5, <3>6
  <2>8. QED
    BY <2>2, <2>5, <2>7
<1>3. QED
  BY <1>1, <1>2

(* ---------------------- the steps on startup files -------------------------- *)

LEMMA RcApart ==
    ASSUME [Next]_vars
    PROVE  \/ \E p \in Proc : RcStep(p)
           \/ \E f \in RcFiles : Edit(f)
           \/ UNCHANGED rcVars /\ Elsewhere(RcCmds)
<1>1. CASE UNCHANGED vars
  BY <1>1 DEF vars, Elsewhere
<1>2. CASE DoctorNext
  BY <1>2, DoctorMoves DEF DoctorNext, Moves, Elsewhere, Does, DoctorCmds, RcCmds
<1>3. CASE StoresNext
  BY <1>3, StoresMoves DEF StoresNext, Moves, Elsewhere, InStores, StoreCmds, Does, RcCmds
<1>4. CASE UpdatesNext
  BY <1>4, UpdatesMoves DEF UpdatesNext, Publish, Tick, Moves, Elsewhere, Updating, UpdateCmds, Does, RcCmds
<1>5. CASE RcNext
  BY <1>5 DEF RcNext
<1>6. CASE FixNext
  BY <1>6, FixMoves DEF FixNext, HookRecord, Minute, Moves, Elsewhere, Fixing, Does, RcCmds
<1>7. CASE ChatNext
  BY <1>7, ChatMoves DEF ChatNext, Moves, Elsewhere, Chatting, Does, RcCmds
<1>8. QED
  BY <1>1, <1>2, <1>3, <1>4, <1>5, <1>6, <1>7 DEF Next

(* A step of p that spoils no file which is not stale keeps the invariant.    *)
LEMMA RcOthers ==
    ASSUME RcInv, NEW p \in Proc, Moves(p), RcType', InTurn(p)',
           \A q \in Proc \ {p} : planned'[q] = planned[q] /\ turn'[q] = turn[q],
           \A f \in RcFiles : ~stale'[f] =>
               /\ ~stale[f] /\ kept'[f] = kept[f]
               /\ Own(rc'[f]) = kept[f] /\ OneBegin(rc'[f])
               /\ Ended(p)' \/ HoldsKept(p, f)'
    PROVE  RcInv'
<1>1. DOMAIN pc' = Proc /\ cmd' = cmd
  BY DEF RcInv, Moves, Goto
<1>2. ASSUME NEW q \in Proc \ {p}
      PROVE  pc'[q] = pc[q] /\ planned'[q] = planned[q] /\ turn'[q] = turn[q]
  BY DEF RcInv, Moves, Goto
<1>3. ASSUME NEW q \in Proc, Initializing(q)' PROVE (cmd[q].files \in Seq(RcFiles) /\ InTurn(q))'
  <2>1. Initializing(q) /\ cmd[q].files \in Seq(RcFiles) /\ InTurn(q)
    BY <1>1, <1>3 DEF RcInv, Initializing, Does
  <2>2. CASE q = p
    BY <1>1, <2>1, <2>2
  <2>3. CASE q /= p
    BY <1>1, <1>2, <2>1, <2>3 DEF InTurn
  <2>4. QED
    BY <2>2, <2>3
<1>4. ASSUME NEW f \in RcFiles, ~stale'[f], NEW q \in Proc, Initializing(q)', ~Ended(q)'
      PROVE  HoldsKept(q, f)'
  <2>1. CASE q = p
    BY <1>4, <2>1
  <2>2. CASE q /= p
    <3>1. Initializing(q) /\ ~Ended(q) /\ ~stale[f] /\ kept'[f] = kept[f]
      BY <1>1, <1>2, <1>4, <2>2 DEF Initializing, Does, Ended
    <3>2. HoldsKept(q, f)
      BY <3>1 DEF RcInv
    <3>3. QED
      BY <1>2, <2>2, <3>1, <3>2 DEF HoldsKept, Keeps
  <2>3. QED
    BY <2>1, <2>2
<1>5. \A f \in RcFiles : ~stale'[f] => Keeps(f, rc[f])'
  BY DEF Keeps
<1>6. QED
  BY <1>1, <1>3, <1>4, <1>5 DEF RcInv

(* What install plans keeps the user's lines.                                 *)
LEMMA PlanIs ==
    ASSUME RcType, NEW files \in Seq(RcFiles), \A i \in DOMAIN files : ~Unmatched(rc[files[i]])
    PROVE  /\ Plan(files) \in Seq([file : RcFiles, content : Seq(Lines)])
           /\ \A i \in 1..Len(Plan(files)) :
                  /\ ~Unmatched(rc[Plan(files)[i].file])
                  /\ Plan(files)[i].content = ApplyBlock(rc[Plan(files)[i].file])
<1>1. PICK ks, picks : /\ ks = {i \in DOMAIN files : ApplyBlock(rc[files[i]]) /= rc[files[i]]}
                      /\ picks = Picked(files, ks)
  OBVIOUS
<1>2. picks \in Seq(RcFiles) /\ {picks[k] : k \in DOMAIN picks} = {files[k] : k \in ks \cap DOMAIN files}
  <2>1. /\ Picked(files, ks) \in Seq(RcFiles)
        /\ {Picked(files, ks)[k] : k \in DOMAIN Picked(files, ks)} = {files[k] : k \in ks \cap DOMAIN files}
    BY PickedOf
  <2>2. QED
    BY <1>1, <2>1
<1>3. Plan(files) = [i \in DOMAIN picks |-> [file |-> picks[i], content |-> ApplyBlock(rc[picks[i]])]]
  BY <1>1 DEF Plan
<1>4. ASSUME NEW i \in 1..Len(picks)
      PROVE  picks[i] \in RcFiles /\ ~Unmatched(rc[picks[i]]) /\ ApplyBlock(rc[picks[i]]) \in Seq(Lines)
  <2>1. i \in DOMAIN picks /\ picks[i] \in RcFiles
    BY <1>2
  <2>2. picks[i] \in {files[k] : k \in ks \cap DOMAIN files}
    BY <1>2, <2>1
  <2>3. ~Unmatched(rc[picks[i]])
    BY <2>2
  <2>4. rc[picks[i]] \in Seq(Lines)
    BY <2>1 DEF RcType
  <2>5. QED
    BY <2>1, <2>3, <2>4, ApplyKeeps
<1>5. PICK n \in Nat : n = Len(picks) /\ DOMAIN picks = 1..n
  BY <1>2
<1>6. PICK r : r = [i \in 1..n |-> [file |-> picks[i], content |-> ApplyBlock(rc[picks[i]])]]
  OBVIOUS
<1>7. r \in Seq([file : RcFiles, content : Seq(Lines)]) /\ Len(r) = n
  <2>1. \A i \in 1..n : r[i] \in [file : RcFiles, content : Seq(Lines)]
    BY <1>4, <1>5, <1>6
  <2>2. DOMAIN r = 1..n
    BY <1>6
  <2>3. r = [i \in 1..n |-> r[i]]
    BY <1>6
  <2>4. QED
    BY <1>5, <2>1, <2>3
<1>8. QED
  BY <1>3, <1>4, <1>5, <1>6, <1>7

LEMMA RcStepKeeps ==
    ASSUME RcInv, NEW p \in Proc, RcStep(p)
    PROVE  RcInv'
<1>0. /\ RcType /\ Initializing(p) /\ Moves(p) /\ DOMAIN pc = Proc /\ cmd' = cmd
      /\ cmd[p].files \in Seq(RcFiles) /\ InTurn(p) /\ cmd[p].do \in {"install", "uninstall"}
      /\ planned[p] \in Seq([file : RcFiles, content : Seq(Lines)]) /\ turn[p] \in Nat
  <2>1. Initializing(p) /\ Moves(p)
    BY RcMoves
  <2>2. cmd[p].do \in {"install", "uninstall"}
    BY <2>1 DEF Initializing, Does, RcCmds
  <2>3. QED
    BY <2>1, <2>2 DEF RcInv, RcType, Moves
<1>1. \A f \in RcFiles : ~stale[f] =>
          Own(rc[f]) = kept[f] /\ OneBegin(rc[f]) /\ (~Ended(p) => HoldsKept(p, f))
  BY <1>0 DEF RcInv, Keeps
(* Nothing is written or planned.                                             *)
<1>2. ASSUME UNCHANGED <<rc, planned, turn, kept, stale>>, InTurn(p)', ~Ended(p)
      PROVE  RcInv'
  <2>1. RcType'
    BY <1>0, <1>2 DEF RcType
  <2>2. \A f \in RcFiles : ~stale'[f] => HoldsKept(p, f)'
    BY <1>1, <1>2 DEF HoldsKept, Keeps
  <2>3. QED
    BY <1>0, <1>1, <1>2, <2>1, <2>2, RcOthers
<1>3. CASE ReadAll(p)
  <2>1. pc[p] = "start" /\ cmd[p].do = "install" /\ UNCHANGED <<rc, turn, kept, stale>>
    BY <1>3 DEF ReadAll
  <2>2. CASE \E i \in DOMAIN cmd[p].files : Unmatched(rc[cmd[p].files[i]])
    <3>1. pc'[p] = "done" /\ planned' = planned
      BY <1>0, <1>3, <2>2 DEF ReadAll, Goto
    <3>2. InTurn(p)'
      BY <1>0, <2>1, <3>1 DEF InTurn
    <3>3. QED
      BY <1>2, <2>1, <3>1, <3>2 DEF Ended
  <2>3. CASE ~\E i \in DOMAIN cmd[p].files : Unmatched(rc[cmd[p].files[i]])
    <3>1. PICK w : w = Plan(cmd[p].files)
      OBVIOUS
    <3>2. /\ w \in Seq([file : RcFiles, content : Seq(Lines)])
          /\ \A i \in 1..Len(w) : ~Unmatched(rc[w[i].file]) /\ w[i].content = ApplyBlock(rc[w[i].file])
      BY <1>0, <2>3, <3>1, PlanIs
    <3>3. /\ planned' = [planned EXCEPT ![p] = w]
          /\ pc'[p] = IF w = <<>> THEN "completions" ELSE IF cmd[p].yes THEN "write" ELSE "confirm"
      BY <1>0, <1>3, <2>3, <3>1 DEF ReadAll, Goto
    <3>4. planned'[p] = w /\ (\A q \in Proc \ {p} : planned'[q] = planned[q]) /\ RcType'
      BY <1>0, <2>1, <3>2, <3>3 DEF RcType
    <3>5. turn[p] = 0
      <4>1. Len(<<>>) = 0
        OBVIOUS
      <4>2. QED
        BY <1>0, <2>1, <4>1 DEF InTurn
    <3>6. Len(w) \in Nat /\ (w /= <<>> => Len(w) > 0)
      BY <3>2
    <3>7. InTurn(p)'
      BY <1>0, <2>1, <3>3, <3>4, <3>5, <3>6 DEF InTurn
    <3>8. ASSUME NEW f \in RcFiles, ~stale[f] PROVE HoldsKept(p, f)'
      <4> SUFFICES ASSUME NEW i \in 1..Len(w), w[i].file = f PROVE Keeps(f, w[i].content)'
        BY <2>1, <3>4, <3>5 DEF HoldsKept
      <4>1. rc[f] \in Seq(Lines) /\ ~Unmatched(rc[f]) /\ w[i].content = ApplyBlock(rc[f])
        BY <1>0, <3>2 DEF RcType
      <4>2. Own(rc[f]) = kept[f] /\ OneBegin(rc[f])
        BY <1>1, <3>8
      <4>3. Own(w[i].content) = kept[f] /\ OneBegin(w[i].content)
        BY <4>1, <4>2, ApplyKeeps
      <4>4. QED
        BY <2>1, <4>3 DEF Keeps
    <3>9. QED
      BY <1>0, <1>1, <2>1, <3>4, <3>7, <3>8, RcOthers
  <2>4. QED
    BY <2>2, <2>3
<1>4. CASE Confirm(p)
  <2>1. pc[p] = "confirm" /\ pc'[p] \in {"write", "done"} /\ UNCHANGED <<cmd, rcVars>>
    BY <1>0, <1>4 DEF Confirm, Goto
  <2>2. cmd[p].do = "install" /\ planned[p] /= <<>> /\ turn[p] = 0
    BY <1>0, <2>1 DEF InTurn
  <2>3. Len(planned[p]) > 0
    BY <1>0, <2>2
  <2>4. InTurn(p)'
    BY <1>0, <2>1, <2>2, <2>3 DEF InTurn, rcVars
  <2>5. QED
    BY <1>2, <2>1, <2>4 DEF rcVars, Ended
<1>5. CASE ReadNext(p)
  <2>1. /\ pc[p] \in {"start", "next"} /\ cmd[p].do = "uninstall" /\ turn[p] = Len(planned[p])
        /\ UNCHANGED <<rc, kept, stale>>
    BY <1>0, <1>5 DEF ReadNext, InTurn
  <2>2. CASE turn[p] = Len(cmd[p].files)
    <3>1. pc'[p] = "completions" /\ UNCHANGED <<planned, turn>>
      BY <1>0, <1>5, <2>2 DEF ReadNext, Goto
    <3>2. InTurn(p)'
      BY <1>0, <2>1, <3>1 DEF InTurn
    <3>3. QED
      BY <1>2, <2>1, <3>1, <3>2 DEF Ended
  <2>3. CASE turn[p] /= Len(cmd[p].files)
    <3>1. PICK g, s : g = cmd[p].files[turn[p] + 1] /\ s = [file |-> g, content |-> RemoveBlock(rc[g])]
      OBVIOUS
    <3>2. /\ planned' = [planned EXCEPT ![p] = Append(@, s)]
          /\ \/ turn' = [turn EXCEPT ![p] = @ + 1] /\ pc'[p] = "next"
             \/ turn' = turn /\ pc'[p] = "write"
      BY <1>0, <1>5, <2>3, <3>1 DEF ReadNext, Goto
    <3>3. turn[p] < Len(cmd[p].files) /\ g \in RcFiles
      <4>1. turn[p] <= Len(cmd[p].files) /\ Len(cmd[p].files) \in Nat
        BY <1>0, <2>1 DEF InTurn
      <4>2. turn[p] + 1 \in 1..Len(cmd[p].files)
        BY <1>0, <2>3, <4>1
      <4>3. QED
        BY <1>0, <3>1, <4>2
    <3>4. /\ rc[g] \in Seq(Lines) /\ RemoveBlock(rc[g]) \in Seq(Lines)
          /\ OneBegin(rc[g]) => Own(RemoveBlock(rc[g])) = Own(rc[g]) /\ OneBegin(RemoveBlock(rc[g]))
      BY <1>0, <3>3, RemoveKeeps DEF RcType
    <3>5. s \in [file : RcFiles, content : Seq(Lines)] /\ s.file = g /\ s.content = RemoveBlock(rc[g])
      BY <3>1, <3>3, <3>4
    <3>6. /\ planned'[p] = Append(planned[p], s)
          /\ \A q \in Proc \ {p} : planned'[q] = planned[q] /\ turn'[q] = turn[q]
          /\ turn'[p] \in {turn[p], turn[p] + 1} /\ turn'[p] \in Nat
          /\ \/ pc'[p] = "next" /\ turn'[p] = turn[p] + 1
             \/ pc'[p] = "write" /\ turn'[p] = turn[p]
      BY <1>0, <3>2 DEF RcType
    <3>7. RcType'
      <4>1. planned'[p] \in Seq([file : RcFiles, content : Seq(Lines)])
        BY <1>0, <3>5, <3>6
      <4>2. planned' \in [Proc -> Seq([file : RcFiles, content : Seq(Lines)])]
        BY <1>0, <3>2, <4>1 DEF RcType
      <4>3. turn' \in [Proc -> Nat]
        <5>1. turn \in [Proc -> Nat] /\ turn[p] + 1 \in Nat
          BY <1>0 DEF RcType
        <5>2. turn' = [turn EXCEPT ![p] = turn[p] + 1] \/ turn' = turn
          BY <3>2
        <5>3. QED
          BY <5>1, <5>2
      <4>4. QED
        BY <1>0, <2>1, <4>2, <4>3 DEF RcType
    <3>8. /\ Len(planned'[p]) = Len(planned[p]) + 1 /\ Len(planned[p]) \in Nat
          /\ planned'[p][Len(planned[p]) + 1] = s
          /\ \A i \in 1..Len(planned[p]) : planned'[p][i] = planned[p][i]
      BY <1>0, <3>5, <3>6
    <3>9. InTurn(p)'
      <4>1. Len(cmd[p].files) \in Nat
        BY <1>0
      <4>2. QED
        BY <1>0, <2>1, <3>3, <3>6, <3>8, <4>1 DEF InTurn
    <3>10. ASSUME NEW f \in RcFiles, ~stale[f] PROVE HoldsKept(p, f)'
      <4> SUFFICES ASSUME NEW i \in (turn'[p] + 1)..Len(planned'[p]), planned'[p][i].file = f
                   PROVE  Own(planned'[p][i].content) = kept'[f] /\ OneBegin(planned'[p][i].content)
        BY DEF HoldsKept, Keeps
      <4>1. i = Len(planned[p]) + 1
        BY <1>0, <2>1, <3>6, <3>8
      <4>2. planned'[p][i] = s /\ f = g
        BY <3>5, <3>8, <4>1
      <4>3. Own(s.content) = kept[f] /\ OneBegin(s.content)
        BY <1>1, <3>4, <3>5, <3>10, <4>2
      <4>4. QED
        BY <2>1, <4>2, <4>3
    <3>11. QED
      BY <1>0, <1>1, <2>1, <3>6, <3>7, <3>9, <3>10, RcOthers
  <2>4. QED
    BY <2>2, <2>3
<1>6. CASE WriteNext(p)
  <2>1. pc[p] = "write" /\ UNCHANGED <<planned, kept>> /\ turn[p] < Len(planned[p])
    BY <1>0, <1>6 DEF WriteNext, InTurn
  <2>2. CASE Goto(p, "done") /\ UNCHANGED <<rc, stale, turn>>
    <3>1. pc'[p] = "done"
      BY <1>0, <2>2 DEF Goto
    <3>2. InTurn(p)'
      BY <1>0, <2>1, <2>2, <3>1 DEF InTurn
    <3>3. QED
      BY <1>2, <2>1, <2>2, <3>2 DEF Ended
  <2>3. CASE ~(Goto(p, "done") /\ UNCHANGED <<rc, stale, turn>>)
    <3>1. PICK w : w = planned[p][turn[p] + 1]
      OBVIOUS
    <3>2. /\ rc' = [rc EXCEPT ![w.file] = w.content]
          /\ stale' = [stale EXCEPT ![w.file] = @ \/ Holding(w.file) /= {p}]
          /\ turn' = [turn EXCEPT ![p] = @ + 1]
          /\ pc'[p] = IF cmd[p].do = "uninstall" THEN "next"
                      ELSE IF turn'[p] = Len(planned[p]) THEN "completions" ELSE "write"
      BY <1>0, <1>6, <2>3, <3>1 DEF WriteNext, Goto
    <3>3. turn[p] + 1 \in 1..Len(planned[p]) /\ w \in [file : RcFiles, content : Seq(Lines)]
      <4>1. Len(planned[p]) \in Nat /\ \A i \in 1..Len(planned[p]) : planned[p][i] \in [file : RcFiles, content : Seq(Lines)]
        <5>1. \A R : \A ws \in Seq(R) : Len(ws) \in Nat /\ \A i \in 1..Len(ws) : ws[i] \in R
          OBVIOUS
        <5>2. planned[p] \in Seq([file : RcFiles, content : Seq(Lines)])
          BY <1>0
        <5>3. QED
          BY <5>1, <5>2, Zenon
      <4>2. turn[p] + 1 \in 1..Len(planned[p])
        BY <1>0, <2>1, <4>1
      <4>3. QED
        BY <3>1, <4>1, <4>2
    <3>4. PICK g \in RcFiles : g = w.file /\ w.content \in Seq(Lines)
      BY <3>3
    <3>5. /\ rc'[g] = w.content /\ \A f \in RcFiles \ {g} : rc'[f] = rc[f] /\ stale'[f] = stale[f]
          /\ ~stale'[g] => ~stale[g] /\ Holding(g) = {p}
          /\ turn'[p] = turn[p] + 1 /\ \A q \in Proc \ {p} : turn'[q] = turn[q]
      BY <1>0, <3>2, <3>4 DEF RcType
    <3>6. RcType'
      <4>1. rc' \in [RcFiles -> Seq(Lines)] /\ turn' \in [Proc -> Nat]
        BY <1>0, <3>2, <3>4 DEF RcType
      <4>2. stale' \in [RcFiles -> BOOLEAN]
        BY <1>0, <3>2, <3>4 DEF RcType
      <4>3. QED
        BY <1>0, <2>1, <4>1, <4>2 DEF RcType
    <3>7. InTurn(p)'
      <4>1. Len(planned[p]) \in Nat /\ Len(cmd[p].files) \in Nat
        BY <1>0
      <4>2. QED
        BY <1>0, <2>1, <3>2, <3>5, <4>1 DEF InTurn
    <3>8. ASSUME NEW f \in RcFiles, ~stale[f] PROVE HoldsKept(p, f)'
      <4>1. HoldsKept(p, f)
        BY <1>1, <2>1, <3>8 DEF Ended
      <4>2. \A i \in (turn'[p] + 1)..Len(planned'[p]) : i \in (turn[p] + 1)..Len(planned[p])
        BY <1>0, <2>1, <3>5
      <4>3. QED
        BY <2>1, <4>1, <4>2 DEF HoldsKept, Keeps
    <3>9. ASSUME NEW f \in RcFiles, ~stale'[f]
          PROVE  ~stale[f] /\ Own(rc'[f]) = kept[f] /\ OneBegin(rc'[f])
      <4>1. CASE f = g
        <5>1. ~stale[g] /\ HoldsKept(p, g)
          BY <1>1, <2>1, <3>5, <3>9, <4>1 DEF Ended
        <5>2. Keeps(g, w.content)
          <6>1. turn[p] + 1 \in (turn[p] + 1)..Len(planned[p]) /\ planned[p][turn[p] + 1].file = g
            BY <1>0, <3>1, <3>3, <3>4
          <6>2. Keeps(g, planned[p][turn[p] + 1].content)
            BY <5>1, <6>1 DEF HoldsKept
          <6>3. QED
            BY <3>1, <6>2
        <5>3. QED
          BY <3>5, <4>1, <5>1, <5>2 DEF Keeps
      <4>2. CASE f /= g
        BY <1>1, <3>5, <3>9, <4>2
      <4>3. QED
        BY <4>1, <4>2
    <3>10. QED
      BY <1>0, <2>1, <3>5, <3>6, <3>7, <3>8, <3>9, RcOthers
  <2>4. QED
    BY <2>2, <2>3
<1>7. CASE Completions(p)
  <2>1. pc[p] = "completions" /\ pc'[p] = "done" /\ UNCHANGED <<rc, planned, turn, kept, stale>>
    BY <1>0, <1>7 DEF Completions, Goto
  <2>2. InTurn(p)'
    BY <1>0, <2>1 DEF InTurn
  <2>3. QED
    BY <1>2, <2>1, <2>2 DEF Ended
<1>8. CASE RcDie(p)
  <2>1. ~Ended(p) /\ pc'[p] = "dead" /\ UNCHANGED <<rc, planned, turn, kept, stale>>
    BY <1>0, <1>8 DEF RcDie, Goto, rcVars
  <2>2. InTurn(p)'
    BY <1>0, <2>1 DEF InTurn
  <2>3. QED
    BY <1>2, <2>1, <2>2
<1>9. QED
  BY <1>3, <1>4, <1>5, <1>6, <1>7, <1>8 DEF RcStep

LEMMA OwnType == ASSUME NEW s \in Seq(Lines) PROVE Own(s) \in Seq(Lines)
<1>1. CASE EndOf(s) = 0
  BY <1>1, WithoutType DEF Own
<1>2. CASE EndOf(s) /= 0
  <2>1. Before(s) \in Seq(Lines) /\ After(s) \in Seq(Lines)
    BY <1>2, AroundIs
  <2>2. Before(s) \o After(s) \in Seq(Lines)
    BY <2>1
  <2>3. Own(s) = Without(Before(s) \o After(s), Blank)
    BY <1>2 DEF Own
  <2>4. QED
    BY <2>2, <2>3, WithoutType
<1>3. QED
  BY <1>1, <1>2

(* The editor may make what others hold stale; what it leaves is the user's.  *)
LEMMA EditKeeps ==
    ASSUME RcInv, NEW g \in RcFiles, Edit(g)
    PROVE  RcInv'
<1>0. RcType /\ UNCHANGED <<cmd, pc, planned, turn>>
  BY DEF RcInv, Edit
<1>1. PICK s \in {<<"mine">> \o rc[g], Append(rc[g], "mine"), Without(rc[g], End)} :
          rc' = [rc EXCEPT ![g] = s] /\ kept' = [kept EXCEPT ![g] = Own(s)]
  BY DEF Edit
<1>2. stale' = [stale EXCEPT ![g] = @ \/ Holding(g) /= {}]
  BY DEF Edit
<1>3. PICK r : r = rc[g] /\ r \in Seq(Lines) /\ DOMAIN r = 1..Len(r) /\ Len(r) \in Nat
  BY <1>0 DEF RcType
<1>4. s \in Seq(Lines) /\ (OneBegin(r) => OneBegin(s))
  <2>1. "mine" \in Lines /\ "mine" /= Begin
    BY DEF Lines, Begin
  <2>2. CASE s = <<"mine">> \o r
    <3>1. \A a \in Lines : <<a>> \in Seq(Lines) /\ Len(<<a>>) = 1 /\ <<a>>[1] = a
      OBVIOUS
    <3>2. PICK m : m = <<"mine">> /\ m \in Seq(Lines) /\ Len(m) = 1 /\ m[1] /= Begin
      BY <2>1, <3>1
    <3>3. s \in Seq(Lines) /\ Len(s) = 1 + Len(r) /\ \A i \in 1..(1 + Len(r)) : s[i] = IF i <= 1 THEN m[i] ELSE r[i - 1]
      BY <1>3, <2>2, <3>2
    <3>4. ASSUME OneBegin(r), NEW i \in DOMAIN s, NEW j \in DOMAIN s, s[i] = Begin, s[j] = Begin PROVE i = j
      <4>1. i \in 1..(1 + Len(r)) /\ j \in 1..(1 + Len(r))
        BY <3>3, <3>4
      <4>2. i > 1 /\ j > 1
        BY <1>3, <3>2, <3>3, <3>4, <4>1
      <4>3. i - 1 \in DOMAIN r /\ j - 1 \in DOMAIN r /\ r[i - 1] = Begin /\ r[j - 1] = Begin
        BY <1>3, <3>3, <3>4, <4>1, <4>2
      <4>4. i - 1 = j - 1
        BY <3>4, <4>3 DEF OneBegin
      <4>5. QED
        BY <1>3, <4>1, <4>4
    <3>5. QED
      BY <3>3, <3>4 DEF OneBegin
  <2>3. CASE s = Append(r, "mine")
    <3>1. PICK m : m = "mine" /\ m \in Lines /\ m /= Begin
      BY <2>1
    <3>2. s \in Seq(Lines) /\ DOMAIN s = 1..(Len(r) + 1) /\ s[Len(r) + 1] = m /\ \A i \in 1..Len(r) : s[i] = r[i]
      BY <1>3, <2>3, <3>1
    <3>3. OneBegin(r) => OneBegin(s)
      BY <1>3, <3>1, <3>2 DEF OneBegin
    <3>4. QED
      BY <3>2, <3>3
  <2>4. CASE s = Without(r, End)
    <3>1. s \in Seq(Lines)
      BY <1>3, <2>4, WithoutType
    <3>2. \A t \in Seq(Lines) : OneBegin(t) => OneBegin(Without(t, End))
      BY WithoutOnce DEF OneBegin, AtMostOne
    <3>3. QED
      BY <1>3, <2>4, <3>1, <3>2
  <2>5. QED
    BY <1>1, <1>3, <2>2, <2>3, <2>4
<1>5. Own(s) \in Seq(Lines)
  BY <1>4, OwnType
<1>6. /\ rc'[g] = s /\ kept'[g] = Own(s) /\ (~stale'[g] => ~stale[g] /\ Holding(g) = {})
      /\ \A f \in RcFiles \ {g} : rc'[f] = rc[f] /\ kept'[f] = kept[f] /\ stale'[f] = stale[f]
  BY <1>0, <1>1, <1>2 DEF RcType
<1>7. RcType'
  <2>1. rc' \in [RcFiles -> Seq(Lines)] /\ kept' \in [RcFiles -> Seq(Lines)]
    BY <1>0, <1>1, <1>4, <1>5 DEF RcType
  <2>2. stale' \in [RcFiles -> BOOLEAN]
    BY <1>0, <1>2 DEF RcType
  <2>3. QED
    BY <1>0, <2>1, <2>2 DEF RcType
<1>8. \A q \in Proc : Initializing(q)' => (cmd[q].files \in Seq(RcFiles) /\ InTurn(q))'
  BY <1>0 DEF RcInv, Initializing, Does, InTurn
<1>9. ASSUME NEW f \in RcFiles, ~stale'[f]
      PROVE  Keeps(f, rc[f])' /\ \A q \in Proc : (Initializing(q) /\ ~Ended(q))' => HoldsKept(q, f)'
  <2>1. CASE f = g
    <3>1. OneBegin(r) /\ Holding(g) = {}
      BY <1>3, <1>6, <1>9, <2>1 DEF RcInv, Keeps
    <3>2. Keeps(f, rc[f])'
      BY <1>4, <1>6, <2>1, <3>1 DEF Keeps
    <3>3. ASSUME NEW q \in Proc, Initializing(q), ~Ended(q) PROVE HoldsKept(q, f)'
      BY <1>0, <2>1, <3>1, <3>3 DEF Holding, HoldsKept
    <3>4. QED
      BY <1>0, <3>2, <3>3 DEF Initializing, Does, Ended
  <2>2. CASE f /= g
    BY <1>0, <1>6, <1>9, <2>2 DEF RcInv, Keeps, HoldsKept, Initializing, Does, Ended
  <2>3. QED
    BY <2>1, <2>2
<1>10. QED
  BY <1>0, <1>7, <1>8, <1>9 DEF RcInv

(* A step of another family of commands.                                      *)
LEMMA RcElsewhere ==
    ASSUME RcInv, UNCHANGED rcVars, Elsewhere(RcCmds)
    PROVE  RcInv'
<1>1. DOMAIN pc' = Proc /\ cmd' = cmd /\ UNCHANGED <<rc, planned, turn, kept, stale>>
  BY DEF RcInv, Elsewhere, Goto, rcVars
<1>2. \A q \in Proc : Initializing(q) => pc'[q] = pc[q]
  BY DEF RcInv, Elsewhere, Goto, Initializing
<1>3. RcType'
  BY <1>1 DEF RcInv, RcType
<1>4. \A q \in Proc : Initializing(q)' => Initializing(q) /\ (InTurn(q) => InTurn(q)') /\ Ended(q)' = Ended(q)
  BY <1>1, <1>2 DEF Initializing, Does, InTurn, Ended
<1>5. \A f \in RcFiles : /\ stale'[f] = stale[f] /\ Keeps(f, rc[f])' = Keeps(f, rc[f])
                         /\ \A q \in Proc : HoldsKept(q, f)' = HoldsKept(q, f)
  BY <1>1 DEF Keeps, HoldsKept
<1>6. \A q \in Proc : Initializing(q)' => (cmd[q].files \in Seq(RcFiles) /\ InTurn(q))'
  BY <1>1, <1>4 DEF RcInv
<1>7. \A f \in RcFiles : ~stale'[f] =>
          Keeps(f, rc[f])' /\ \A q \in Proc : (Initializing(q) /\ ~Ended(q))' => HoldsKept(q, f)'
  BY <1>4, <1>5 DEF RcInv
<1>8. QED
  BY <1>1, <1>3, <1>6, <1>7 DEF RcInv

LEMMA RcKeeps == RcInv /\ [Next]_vars => RcInv'
BY RcApart, RcStepKeeps, EditKeeps, RcElsewhere

LEMMA RcStarts == HomeBegin => RcInv
<1> SUFFICES ASSUME HomeBegin PROVE RcInv
  OBVIOUS
<1>1. /\ rc \in [RcFiles -> Seq(Lines)] /\ \A f \in RcFiles : OneBegin(rc[f])
      /\ pc = [p \in Proc |-> "start"] /\ RcInit
      /\ \A p \in Proc : Initializing(p) => cmd[p].files \in Seq(RcFiles)
  BY DEF HomeBegin, HomeInit
<1>2. /\ planned = [p \in Proc |-> <<>>] /\ turn = [p \in Proc |-> 0]
      /\ stale = [f \in RcFiles |-> FALSE] /\ kept = [f \in RcFiles |-> Own(rc[f])]
  BY <1>1 DEF RcInit
<1>3. RcType
  <2>1. \A f \in RcFiles : Own(rc[f]) \in Seq(Lines)
    BY <1>1, OwnType
  <2>2. kept \in [RcFiles -> Seq(Lines)] /\ stale \in [RcFiles -> BOOLEAN] /\ turn \in [Proc -> Nat]
    BY <1>2, <2>1
  <2>3. planned \in [Proc -> Seq([file : RcFiles, content : Seq(Lines)])]
    BY <1>2
  <2>4. QED
    BY <1>1, <2>2, <2>3 DEF RcType
<1>4. Len(<<>>) = 0
  OBVIOUS
<1>5. \A p \in Proc : planned[p] = <<>> /\ turn[p] = 0 /\ pc[p] = "start"
  BY <1>1, <1>2
<1>6. ASSUME NEW p \in Proc, Initializing(p) PROVE InTurn(p)
  <2>1. cmd[p].files \in Seq(RcFiles)
    BY <1>1, <1>6
  <2>2. PICK n \in Nat : n = Len(cmd[p].files)
    BY <2>1
  <2>3. QED
    BY <1>4, <1>5, <2>2 DEF InTurn
<1>7. ASSUME NEW f \in RcFiles PROVE Keeps(f, rc[f]) /\ \A p \in Proc : HoldsKept(p, f)
  <2>1. Keeps(f, rc[f])
    BY <1>1, <1>2 DEF Keeps
  <2>2. \A p \in Proc : HoldsKept(p, f)
    BY <1>4, <1>5 DEF HoldsKept
  <2>3. QED
    BY <2>1, <2>2
<1>8. DOMAIN pc = Proc
  BY <1>1
<1>9. QED
  BY <1>1, <1>3, <1>6, <1>7, <1>8 DEF RcInv

(* However installs, upgrades, removals and edits alternate, fail or are      *)
(* killed, a startup file that nobody wrote between a comrade's reading and   *)
(* its writing it keeps the user's own lines in their order, and at most one  *)
(* block: any number of processes, files and lines.                           *)
THEOREM LinesAreKept == HomeSpec => []UserLinesKept
<1>1. RcInv => UserLinesKept
  <2> SUFFICES ASSUME RcInv, NEW f \in RcFiles, ~stale[f]
               PROVE  Own(rc[f]) = kept[f] /\ Cardinality({i \in DOMAIN rc[f] : rc[f][i] = Begin}) <= 1
    BY DEF UserLinesKept
  <2>1. Own(rc[f]) = kept[f] /\ OneBegin(rc[f])
    BY DEF RcInv, Keeps
  <2>2. PICK at : at = {i \in DOMAIN rc[f] : rc[f][i] = Begin}
    OBVIOUS
  <2>3. \A i, j \in at : i = j
    BY <2>1, <2>2 DEF OneBegin
  <2>4. CASE at = {}
    BY <2>1, <2>2, <2>4, FS_EmptySet
  <2>5. CASE at /= {}
    <3>1. PICK i \in at : at = {i}
      BY <2>3, <2>5
    <3>2. Cardinality(at) = 1
      BY <3>1, FS_Singleton
    <3>3. QED
      BY <2>1, <2>2, <3>2
  <2>6. QED
    BY <2>4, <2>5
<1>2. HomeSpec => []RcInv
  BY RcStarts, RcKeeps, PTL DEF HomeSpec
<1>3. QED
  BY <1>1, <1>2, PTL
(* ----------------------------- the weekly check ----------------------------- *)

Checkers == {"notice", "doctor"}

CheckType ==
    /\ now \in Nat /\ checked \in Nat /\ asked \in [Proc -> Nat] /\ told \in [Proc -> Nat]
    /\ setBack \in BOOLEAN /\ early \in [Proc -> BOOLEAN]

(* The steps of Stores leave a doctor in front of its checks, never at the    *)
(* question login asks, which has the label of the one that is counted here.  *)
DoctorLabels == {"start", "doctor", "truncate", "write", "read", "load", "check", "record", "done", "dead"}
DoctorGoes(p) == Does(p, {"doctor"}) => pc[p] \in DoctorLabels /\ next[p] \in {"load", "done"}

(* Unless an older one was recorded over it, what is recorded of any check is *)
(* no later than what the file says.                                          *)
OnRecord == \A p \in Proc : ~early[p] /\ told[p] <= checked

CheckInv ==
    /\ DOMAIN pc = Proc /\ DOMAIN next = Proc /\ CheckType
    /\ checked <= now /\ \A p \in Proc : asked[p] <= now
    /\ \A p \in Proc : DoctorGoes(p)
    /\ ~setBack => OnRecord

USE UpdatesAssumption

(* A step that begins no check and records none.                              *)
LEMMA CheckQuiet ==
    ASSUME CheckInv, NEW p \in Proc, cmd' = cmd, UNCHANGED pc \/ \E label : Goto(p, label),
           now' \in {now, now + 1}, UNCHANGED <<checked, asked, told, early, setBack>>,
           DoctorGoes(p)',
           DOMAIN next' = Proc, \A q \in Proc \ {p} : next'[q] = next[q]
    PROVE  CheckInv'
<1>1. \A q \in Proc \ {p} : pc'[q] = pc[q]
  BY DEF CheckInv, Goto
<1>2. DOMAIN pc' = Proc
  BY DEF CheckInv, Goto
<1>3. CheckType' /\ checked' <= now' /\ \A q \in Proc : asked'[q] <= now'
  <2>1. CheckType /\ checked <= now /\ \A q \in Proc : asked[q] <= now
    BY DEF CheckInv
  <2>2. CheckType'
    BY <2>1 DEF CheckType
  <2>3. \A q \in Proc : asked[q] \in Nat
    BY <2>1 DEF CheckType
  <2>4. QED
    BY <2>1, <2>2, <2>3 DEF CheckType
<1>4. \A q \in Proc : DoctorGoes(q)'
  BY <1>1 DEF CheckInv, DoctorGoes, Does
<1>5. ~setBack' => OnRecord'
  BY DEF CheckInv, OnRecord
<1>6. QED
  BY <1>2, <1>3, <1>4, <1>5 DEF CheckInv

(* A check is begun.                                                          *)
LEMMA CheckBegins ==
    ASSUME CheckInv, NEW p \in Proc, cmd' = cmd, UNCHANGED <<now, checked, told, next, setBack>>,
           Goto(p, "ask") \/ Goto(p, "record"), DoctorGoes(p)',
           asked' = [asked EXCEPT ![p] = now],
           early' \in [Proc -> BOOLEAN],
           \A q \in Proc \ {p} : early'[q] = early[q],
           early'[p] => early[p] \/ (ShouldCheck(checked) /\ \E q \in Proc : now - told[q] < Interval)
    PROVE  CheckInv'
<1>1. DOMAIN pc' = Proc /\ DOMAIN next' = Proc /\ \A q \in Proc \ {p} : pc'[q] = pc[q]
  BY DEF CheckInv, Goto
<1>2. CheckType /\ checked <= now /\ \A q \in Proc : asked[q] <= now
  BY DEF CheckInv
<1>3. CheckType'
  BY <1>2 DEF CheckType
<1>4. now \in Nat /\ checked \in Nat /\ \A q \in Proc : told[q] \in Nat /\ asked[q] \in Nat
  BY <1>2 DEF CheckType
<1>5. asked'[p] = now /\ \A q \in Proc \ {p} : asked'[q] = asked[q]
  BY <1>2 DEF CheckType
<1>6. \A q \in Proc : DoctorGoes(q)'
  BY <1>1 DEF CheckInv, DoctorGoes, Does
<1>7. ASSUME ~setBack' PROVE OnRecord'
  <2>1. \A q \in Proc : told[q] <= checked /\ ~early[q]
    BY <1>7 DEF CheckInv, OnRecord
  <2>2. ASSUME ShouldCheck(checked), NEW q \in Proc PROVE ~(now - told[q] < Interval)
    <3>1. now - checked >= Interval /\ told[q] <= checked
      BY <2>1, <2>2 DEF ShouldCheck
    <3>2. QED
      BY <1>4, <3>1, UpdatesAssumption
  <2>3. ~early'[p]
    BY <2>1, <2>2
  <2>4. QED
    BY <2>1, <2>3 DEF OnRecord
<1>8. checked' <= now' /\ \A q \in Proc : asked'[q] <= now'
  BY <1>2, <1>4, <1>5
<1>9. QED
  BY <1>1, <1>3, <1>6, <1>7, <1>8 DEF CheckInv

(* A check is recorded, or could not be.                                      *)
LEMMA CheckRecorded ==
    ASSUME CheckInv, NEW p \in Proc, Record(p), UNCHANGED next
    PROVE  CheckInv'
<1>1. /\ Updating(p) /\ pc[p] = "record" /\ UNCHANGED <<cmd, now, asked, early>>
      /\ Goto(p, "check") \/ Goto(p, "done")
  BY DEF Record, AfterRecord
<1>2. /\ DOMAIN pc' = Proc /\ DOMAIN next' = Proc /\ \A q \in Proc \ {p} : pc'[q] = pc[q]
      /\ pc'[p] \in {"check", "done"}
  BY <1>1 DEF CheckInv, Goto
<1>3. CheckType /\ checked <= now /\ \A q \in Proc : asked[q] <= now
  BY DEF CheckInv
<1>4. \A q \in Proc : DoctorGoes(q)'
  BY <1>1, <1>2 DEF CheckInv, DoctorGoes, Does, DoctorLabels
<1>5. CASE UNCHANGED <<checked, told, setBack>>
  <2>1. CheckType' /\ (~setBack' => OnRecord')
    BY <1>1, <1>5 DEF CheckInv, CheckType, OnRecord
  <2>2. QED
    BY <1>1, <1>2, <1>3, <1>4, <1>5, <2>1 DEF CheckInv
<1>6. CASE ~UNCHANGED <<checked, told, setBack>>
  <2>1. /\ checked' = asked[p] /\ told' = [told EXCEPT ![p] = asked[p]]
        /\ setBack' = (setBack \/ asked[p] < checked)
    BY <1>6 DEF Record
  <2>2. CheckType'
    BY <1>1, <1>3, <2>1 DEF CheckType
  <2>3. /\ told'[p] = asked[p] /\ asked[p] \in Nat /\ checked \in Nat
        /\ \A q \in Proc \ {p} : told'[q] = told[q]
        /\ \A q \in Proc : told[q] \in Nat
    BY <1>3, <2>1 DEF CheckType
  <2>4. ASSUME ~setBack' PROVE OnRecord'
    <3>1. ~setBack /\ ~(asked[p] < checked)
      BY <2>1, <2>4
    <3>2. OnRecord /\ checked <= asked[p]
      BY <2>3, <3>1 DEF CheckInv
    <3>3. \A q \in Proc : told'[q] <= asked[p]
      BY <2>3, <3>2 DEF OnRecord
    <3>4. QED
      BY <1>1, <2>1, <3>2, <3>3 DEF OnRecord
  <2>5. QED
    BY <1>1, <1>2, <1>3, <1>4, <2>1, <2>2, <2>4 DEF CheckInv
<1>7. QED
  BY <1>5, <1>6

(* Of what Stores does a doctor takes part in the loading only.               *)
LEMMA DoctorStores ==
    ASSUME CheckInv, NEW p \in Proc, StoresStep(p), Does(p, {"doctor"})
    PROVE  /\ pc'[p] \in {"truncate", "load", "done", "write", "read", "dead"}
           /\ next'[p] \in {"load", "done"}
           /\ pc[p] \in DoctorLabels /\ pc[p] /= "dead" /\ (pc[p] \in {"start", "done"} => pc'[p] = "dead")
<1>1. DOMAIN pc = Proc /\ DOMAIN next = Proc
  BY DEF CheckInv
<1>2. pc[p] \in DoctorLabels /\ next[p] \in {"load", "done"}
  BY DEF CheckInv, DoctorGoes
<1>3. StatConfig(p) \/ ReadConfig(p) \/ TruncateConfig(p) \/ WriteConfig(p) \/ StoresDie(p)
  <2>1. /\ ~Does(p, {"show"}) /\ ~Does(p, {"set"}) /\ ~Does(p, {"login"}) /\ ~Does(p, {"logout"})
        /\ ~Does(p, {"use"}) /\ ~Does(p, {"add"}) /\ ~Does(p, {"profileKey"}) /\ ~Does(p, {"remove"})
        /\ ~Does(p, {"set", "profileKey"})
    BY DEF Does
  <2>2. ~Refuse(p)
    BY <2>1 DEF Refuse, Acceptable
  <2>3. ~Show(p) /\ ~ConfigSet(p) /\ ~LoginLoad(p) /\ ~LogoutLoad(p)
    BY <2>1 DEF Show, ConfigSet, LoginLoad, LogoutLoad
  <2>4. ~ProfileUse(p) /\ ~ProfileAdd(p) /\ ~ProfileSet(p) /\ ~ProfileRemove(p)
    BY <2>1 DEF ProfileUse, ProfileAdd, ProfileSet, ProfileRemove
  <2>5. ~AskBaseURL(p) /\ ~AskModel(p) /\ ~Ping(p) /\ ~Rejected(p)
    BY <1>2 DEF AskBaseURL, AskModel, Ping, Rejected, DoctorLabels
  <2>6. ~InKeychain(p) /\ ~KeyRead(p) /\ ~KeyTruncate(p) /\ ~KeyWrite(p)
    BY <1>2 DEF InKeychain, KeyRead, KeyTruncate, KeyWrite, DoctorLabels
  <2>7. QED
    BY <2>2, <2>3, <2>4, <2>5, <2>6 DEF StoresStep
<1>4. CASE StatConfig(p)
  BY <1>1, <1>2, <1>4 DEF StatConfig, Goto
<1>5. CASE ReadConfig(p)
  BY <1>1, <1>2, <1>5 DEF ReadConfig, Goto
<1>6. CASE TruncateConfig(p)
  BY <1>1, <1>2, <1>6 DEF TruncateConfig, Goto
<1>7. CASE WriteConfig(p)
  BY <1>1, <1>2, <1>7 DEF WriteConfig, Goto
<1>8. CASE StoresDie(p)
  BY <1>1, <1>2, <1>8 DEF StoresDie, Goto, configVars, Ended
<1>9. QED
  BY <1>3, <1>4, <1>5, <1>6, <1>7, <1>8

(* A step of Stores begins no check.                                          *)
LEMMA CheckStores ==
    ASSUME CheckInv, NEW p \in Proc, StoresStep(p)
    PROVE  /\ DoctorGoes(p)'
           /\ DOMAIN next' = Proc /\ \A q \in Proc \ {p} : next'[q] = next[q]
<1>1. DOMAIN pc = Proc /\ DOMAIN next = Proc /\ InStores(p) /\ Moves(p) /\ DoctorGoes(p) /\ cmd' = cmd
  BY StoresMoves DEF CheckInv, Moves
<1>2. DOMAIN next' = Proc /\ \A q \in Proc \ {p} : next'[q] = next[q]
  <2> USE <1>1
  <2>1. CASE Refuse(p) \/ StatConfig(p)
    BY <2>1 DEF Refuse, StatConfig, storeVars
  <2>2. CASE Show(p) \/ ConfigSet(p) \/ LoginLoad(p) \/ LogoutLoad(p)
    BY <2>2 DEF Show, ConfigSet, LoginLoad, LogoutLoad, Load
  <2>3. CASE ProfileUse(p) \/ ProfileAdd(p) \/ ProfileSet(p) \/ ProfileRemove(p)
    BY <2>3 DEF ProfileUse, ProfileAdd, ProfileSet, ProfileRemove, Load
  <2>4. CASE ReadConfig(p) \/ TruncateConfig(p) \/ WriteConfig(p)
    BY <2>4 DEF ReadConfig, TruncateConfig, WriteConfig
  <2>5. CASE AskBaseURL(p) \/ AskModel(p)
    BY <2>5 DEF AskBaseURL, AskModel, MayEnter
  <2>6. CASE Ping(p) \/ Rejected(p)
    BY <2>6 DEF Ping, Rejected, storeVars
  <2>7. CASE InKeychain(p) \/ KeyRead(p) \/ KeyTruncate(p) \/ KeyWrite(p) \/ StoresDie(p)
    BY <2>7 DEF InKeychain, KeyRead, KeyTruncate, KeyWrite, StoresDie, configVars
  <2>8. QED
    BY <2>1, <2>2, <2>3, <2>4, <2>5, <2>6, <2>7 DEF StoresStep
<1>3. CASE ~Does(p, {"doctor"})
  BY <1>1, <1>2, <1>3 DEF DoctorGoes, InStores, StoreCmds, Does
<1>4. CASE Does(p, {"doctor"})
  <2>1. /\ pc'[p] \in {"truncate", "load", "done", "write", "read", "dead"}
        /\ next'[p] \in {"load", "done"}
    BY <1>4, DoctorStores
  <2>2. QED
    BY <1>2, <2>1 DEF DoctorGoes, DoctorLabels
<1>5. QED
  BY <1>3, <1>4

LEMMA CheckUpdates ==
    ASSUME CheckInv, NEW p \in Proc, UpdatesStep(p), UNCHANGED next
    PROVE  CheckInv'
<1>1. DOMAIN pc = Proc /\ DOMAIN next = Proc /\ Updating(p) /\ Moves(p) /\ DoctorGoes(p) /\ cmd' = cmd
  BY UpdatesMoves DEF CheckInv, Moves
<1>2. ASSUME NEW label, Goto(p, label), UNCHANGED checkVars, Does(p, {"doctor"}) => label \in DoctorLabels
      PROVE  CheckInv'
  <2>1. pc'[p] = label
    BY <1>1, <1>2 DEF Goto
  <2>2. DoctorGoes(p)'
    BY <1>1, <1>2, <2>1 DEF DoctorGoes, Does
  <2>3. QED
    BY <1>1, <1>2, <2>2, CheckQuiet DEF checkVars
<1>3. CASE Launch(p)
  <2>1. Goto(p, cmd[p].do) \/ Goto(p, "done")
    BY <1>3 DEF Launch
  <2>2. Does(p, {"doctor"}) => cmd[p].do = "doctor"
    BY DEF Does
  <2>3. QED
    BY <1>2, <1>3, <2>1, <2>2 DEF Launch, DoctorLabels
<1>4. CASE BeginUpgrade(p) \/ Fetch(p) \/ Download(p) \/ ReplaceUnix(p) \/ RemoveOld(p)
  <2>1. pc[p] \in {"upgrade", "fetch", "download", "replace"} /\ UNCHANGED checkVars
    BY <1>4 DEF BeginUpgrade, Fetch, Download, ReplaceUnix, RemoveOld
  <2>2. \E label \in {"done", "fetch", "download", "replace", "rename"} : Goto(p, label)
    BY <1>4 DEF BeginUpgrade, Fetch, Download, ReplaceUnix, RemoveOld
  <2>3. ~Does(p, {"doctor"})
    BY <1>1, <2>1 DEF DoctorGoes, DoctorLabels
  <2>4. QED
    BY <1>2, <2>1, <2>2, <2>3
<1>5. CASE RenameAway(p) \/ Create(p) \/ Fill(p) \/ RenameBack(p)
  <2>1. pc[p] \in {"rename", "create", "fill", "back"} /\ UNCHANGED checkVars
    BY <1>5 DEF RenameAway, Create, Fill, RenameBack
  <2>2. \E label \in {"done", "create", "fill", "back"} : Goto(p, label)
    BY <1>5 DEF RenameAway, Create, Fill, RenameBack
  <2>3. ~Does(p, {"doctor"})
    BY <1>1, <2>1 DEF DoctorGoes, DoctorLabels
  <2>4. QED
    BY <1>2, <2>1, <2>2, <2>3
<1>6. CASE Notice(p)
  <2>1. pc[p] = "notice" /\ UNCHANGED <<cmd, now, checked, told, setBack>>
    BY <1>6 DEF Notice
  <2>2. ~Does(p, {"doctor"})
    BY <1>1, <2>1 DEF DoctorGoes, DoctorLabels
  <2>3. CASE Goto(p, "done") /\ UNCHANGED <<asked, early>>
    BY <1>2, <2>1, <2>2, <2>3 DEF checkVars
  <2>4. CASE ~(Goto(p, "done") /\ UNCHANGED <<asked, early>>)
    <3>1. PICK read \in ReadState :
             /\ ShouldCheck(read) /\ asked' = [asked EXCEPT ![p] = now] /\ Goto(p, "ask")
             /\ early' = [early EXCEPT ![p] = read = checked /\ \E q \in Proc : now - told[q] < Interval]
      BY <1>6, <2>4 DEF Notice
    <3>2. early \in [Proc -> BOOLEAN]
      BY DEF CheckInv, CheckType
    <3>3. /\ early' \in [Proc -> BOOLEAN] /\ \A q \in Proc \ {p} : early'[q] = early[q]
          /\ early'[p] => read = checked /\ \E q \in Proc : now - told[q] < Interval
      BY <3>1, <3>2
    <3>4. early'[p] => ShouldCheck(checked) /\ \E q \in Proc : now - told[q] < Interval
      BY <3>1, <3>3
    <3>5. DoctorGoes(p)'
      BY <1>1, <2>2 DEF DoctorGoes, Does
    <3>6. QED
      BY <1>1, <2>1, <3>1, <3>3, <3>4, <3>5, CheckBegins
  <2>5. QED
    BY <2>3, <2>4
<1>7. CASE Ask(p)
  <2>1. pc[p] = "ask" /\ Goto(p, "record") /\ UNCHANGED checkVars
    BY <1>7 DEF Ask
  <2>2. QED
    BY <1>2, <2>1 DEF DoctorLabels
<1>8. CASE Record(p)
  BY <1>8, CheckRecorded
<1>9. CASE UpdatesDie(p)
  BY <1>2, <1>9 DEF UpdatesDie, DoctorLabels
<1>10. QED
  BY <1>3, <1>4, <1>5, <1>6, <1>7, <1>8, <1>9 DEF UpdatesStep

LEMMA CheckDoctor ==
    ASSUME CheckInv, NEW p \in Proc, DoctorStep(p)
    PROVE  CheckInv'
<1>1. DOMAIN pc = Proc /\ DOMAIN next = Proc /\ Does(p, DoctorCmds) /\ Moves(p) /\ DoctorGoes(p) /\ cmd' = cmd
  BY DoctorMoves DEF CheckInv, Moves
<1>2. ASSUME NEW label, Goto(p, label), UNCHANGED <<next, updateVars>>, Does(p, {"doctor"}) => label \in DoctorLabels
      PROVE  CheckInv'
  <2>1. pc'[p] = label
    BY <1>1, <1>2 DEF Goto
  <2>2. DoctorGoes(p)'
    BY <1>1, <1>2, <2>1 DEF DoctorGoes, Does
  <2>3. QED
    BY <1>1, <1>2, <2>2, CheckQuiet DEF updateVars
<1>3. ASSUME UNCHANGED <<pc, next, now, checked, asked, told, early, setBack>> PROVE CheckInv'
  <2>1. DoctorGoes(p)'
    BY <1>1, <1>3 DEF DoctorGoes, Does
  <2>2. QED
    BY <1>1, <1>3, <2>1, CheckQuiet
<1>4. CASE DoctorLoad(p)
  BY <1>2, <1>4 DEF DoctorLoad, Step, DoctorLabels
<1>5. CASE Check(p)
  BY <1>3, <1>5 DEF Check, Report, storeVars, updateVars
<1>6. CASE AskDoctor(p)
  <2>1. Does(p, {"doctor"}) /\ UNCHANGED <<cmd, now, checked, told, early, setBack, next>>
    BY <1>6 DEF AskDoctor, Report, storeVars
  <2>2. CASE UNCHANGED <<pc, asked>>
    BY <1>3, <2>1, <2>2
  <2>3. CASE ~UNCHANGED <<pc, asked>>
    <3>1. asked' = [asked EXCEPT ![p] = now] /\ Goto(p, "record")
      BY <1>6, <2>3 DEF AskDoctor
    <3>2. DoctorGoes(p)'
      BY <1>1, <2>1, <3>1 DEF DoctorGoes, DoctorLabels, Does, Goto
    <3>3. early \in [Proc -> BOOLEAN]
      BY DEF CheckInv, CheckType
    <3>4. QED
      BY <1>1, <2>1, <3>1, <3>2, <3>3, CheckBegins
  <2>4. QED
    BY <2>2, <2>3
<1>7. CASE Finish(p)
  BY <1>2, <1>7 DEF Finish, Step, DoctorLabels, storeVars
<1>8. CASE StatusLoad(p) \/ StatusRow(p)
  <2>1. ~Does(p, {"doctor"}) /\ UNCHANGED updateVars
    BY <1>8 DEF StatusLoad, StatusRow, Does
  <2>2. DOMAIN next' = Proc /\ \A q \in Proc \ {p} : next'[q] = next[q]
    BY <1>1, <1>8 DEF StatusLoad, StatusRow, Load, storeVars
  <2>3. DoctorGoes(p)'
    BY <1>1, <2>1 DEF DoctorGoes, Does
  <2>4. QED
    BY <1>1, <2>1, <2>2, <2>3, CheckQuiet DEF updateVars, Moves
<1>9. QED
  BY <1>4, <1>5, <1>6, <1>7, <1>8 DEF DoctorStep

LEMMA CheckKeeps == CheckInv /\ [Next]_vars => CheckInv'
<1> SUFFICES ASSUME CheckInv, [Next]_vars PROVE CheckInv'
  OBVIOUS
<1>0. DOMAIN next = Proc /\ \A q \in Proc : DoctorGoes(q)
  BY DEF CheckInv
(* A step of no process, or of one that is not Updating.                      *)
<1>1. ASSUME UNCHANGED <<cmd, next, checked, asked, told, early, setBack>>, now' \in {now, now + 1},
             Elsewhere(UpdateCmds)
      PROVE  CheckInv'
  <2>1. CASE Proc = {}
    BY <1>1, <2>1 DEF CheckInv, CheckType, OnRecord, Elsewhere, Goto
  <2>2. ASSUME NEW p \in Proc, ~Does(p, UpdateCmds), \E label : Goto(p, label) PROVE CheckInv'
    <3>1. DoctorGoes(p)'
      BY <1>1, <2>2 DEF DoctorGoes, Does, UpdateCmds
    <3>2. QED
      BY <1>0, <1>1, <2>2, <3>1, CheckQuiet
  <2>3. ASSUME NEW p \in Proc, UNCHANGED pc PROVE CheckInv'
    <3>1. DoctorGoes(p)'
      BY <1>0, <1>1, <2>3 DEF DoctorGoes, Does
    <3>2. QED
      BY <1>0, <1>1, <2>3, <3>1, CheckQuiet
  <2>4. QED
    BY <1>1, <2>1, <2>2, <2>3 DEF Elsewhere
<1>2. CASE UNCHANGED vars
  BY <1>1, <1>2 DEF vars, storeVars, updateVars, Elsewhere
<1>3. CASE DoctorNext
  BY <1>3, CheckDoctor DEF DoctorNext
<1>4. CASE StoresNext
  BY <1>0, <1>4, CheckStores, StoresMoves, CheckQuiet DEF StoresNext, updateVars, Moves
<1>5. CASE UpdatesNext
  <2>1. UNCHANGED next
    BY <1>5 DEF UpdatesNext, storeVars
  <2>2. CASE Publish \/ Tick
    BY <1>1, <2>1, <2>2 DEF Publish, Tick, checkVars, Elsewhere
  <2>3. CASE \E p \in Proc : UpdatesStep(p)
    BY <2>1, <2>3, CheckUpdates
  <2>4. QED
    BY <1>5, <2>2, <2>3 DEF UpdatesNext
<1>6. CASE RcNext
  <2>1. Elsewhere(UpdateCmds)
    BY <1>6, RcMoves DEF RcNext, Edit, Moves, Elsewhere, Initializing, RcCmds, Does, UpdateCmds
  <2>2. QED
    BY <1>1, <1>6, <2>1 DEF RcNext, storeVars, updateVars, Elsewhere
<1>7. CASE FixNext
  <2>1. Elsewhere(UpdateCmds)
    BY <1>7, FixMoves DEF FixNext, HookRecord, Minute, Moves, Elsewhere, Fixing, Does, UpdateCmds
  <2>2. QED
    BY <1>1, <1>7, <2>1 DEF FixNext, storeVars, updateVars, Elsewhere
<1>8. CASE ChatNext
  <2>1. Elsewhere(UpdateCmds)
    BY <1>8, ChatMoves DEF ChatNext, Moves, Elsewhere, Chatting, Does, UpdateCmds
  <2>2. QED
    BY <1>1, <1>8, <2>1 DEF ChatNext, storeVars, updateVars, Elsewhere
<1>9. QED
  BY <1>2, <1>3, <1>4, <1>5, <1>6, <1>7, <1>8 DEF Next

LEMMA CheckStarts == HomeBegin => CheckInv
<1> SUFFICES ASSUME HomeBegin PROVE CheckInv
  OBVIOUS
<1>1. /\ pc = [p \in Proc |-> "start"] /\ next = [p \in Proc |-> "done"]
      /\ now = Interval /\ checked = 0 /\ asked = [p \in Proc |-> 0] /\ told = [p \in Proc |-> 0]
      /\ early = [p \in Proc |-> FALSE] /\ setBack = FALSE
  BY DEF HomeBegin, HomeInit, StoresInit, UpdatesInit, Never
<1>2. CheckType
  BY <1>1, UpdatesAssumption DEF CheckType
<1>3. \A p \in Proc : DoctorGoes(p)
  BY <1>1 DEF DoctorGoes, DoctorLabels
<1>4. OnRecord
  BY <1>1 DEF OnRecord
<1>5. checked <= now /\ \A p \in Proc : asked[p] <= now
  BY <1>1, UpdatesAssumption
<1>6. QED
  BY <1>1, <1>2, <1>3, <1>4, <1>5 DEF CheckInv

(* However many commands end together, and whatever upgrade, doctor and the   *)
(* rest do beside them, no background check that could read the state is made *)
(* within CheckInterval of one that was recorded, unless an older check was   *)
(* recorded over a newer one: for any interval, by any number of processes.   *)
THEOREM WeeklyAtMost == HomeSpec => []AtMostWeekly
<1>1. CheckInv => AtMostWeekly
  BY DEF CheckInv, OnRecord, AtMostWeekly
<1>2. QED
  BY <1>1, CheckStarts, CheckKeeps, PTL DEF HomeSpec

(* ------------------------------ the executable ------------------------------ *)

(* The processes that may write or remove the executable.                     *)
Updaters == {p \in Proc : Updating(p)}
Live(p) == pc[p] \notin {"start", "done", "dead"}
Placing == {"create", "fill", "back"}

(* Who may have written a file, and who runs from one.                        *)
UpdatesType ==
    /\ DOMAIN pc = Proc
    /\ image \in [Proc -> Updaters \cup {"setup", "nobody", "none"}]
    /\ payload \in [Proc -> {"none", "own", "other"}]
    /\ windows \in BOOLEAN /\ signing \in BOOLEAN
    /\ exe.whole \in BOOLEAN /\ old.whole \in BOOLEAN
    /\ \A f \in {exe, old} : f = Gone \/ f.by \in Updaters \cup {"setup"}
    /\ \A p \in Updaters : IF pc[p] = "start" THEN image[p] = "none"
                           ELSE Live(p) => image[p] \in Updaters \cup {"setup"}
    /\ \A p \in Proc \ Updaters : image[p] = "none"

(* A file is written once: its writer has ended, unless it is the executable  *)
(* being written at the moment.                                               *)
WrittenOnce ==
    /\ old.by \in Updaters => Ended(old.by)
    /\ exe.by \in Updaters => Ended(exe.by) \/ (pc[exe.by] \in {"fill", "back"} /\ ~exe.whole)
    /\ \A p \in Updaters : Live(p) /\ image[p] \in Updaters => Ended(image[p])

(* On Windows the file of a process that lives is still there, whole; so one  *)
(* process at most is between the two renames, and old is its own file.       *)
OnePlacing ==
    /\ \A p \in Updaters : Live(p) =>
          /\ image[p] \in {exe.by, old.by}
          /\ exe.whole \/ image[p] /= exe.by
    /\ \A p \in Updaters : pc[p] \in Placing =>
          /\ image[p] = old.by /\ old.whole
          /\ pc[p] = "create" => exe = Gone
          /\ pc[p] = "fill" => exe.by = p /\ ~exe.whole
          /\ pc[p] = "back" => exe = Gone \/ (exe.by = p /\ ~exe.whole)
          /\ \A q \in Updaters : pc[q] \in Placing => q = p

NeverLost ==
    /\ exe.whole \/ old.whole
    /\ exe.whole \/ \E p \in Updaters : pc[p] \in Placing \cup {"dead"}

OnlyOwn == signing =>
    /\ \A p \in Updaters : payload[p] /= "other"
    /\ exe.archive /= "other" /\ old.archive /= "other"

UpdatesInv ==
    /\ UpdatesType /\ WrittenOnce /\ NeverLost /\ OnlyOwn
    /\ windows => OnePlacing
    /\ ~windows => exe.whole /\ \A p \in Updaters : pc[p] \notin Replacing

LEMMA UpdatesStarts == HomeBegin => UpdatesInv
<1> SUFFICES ASSUME HomeBegin PROVE UpdatesInv
  OBVIOUS
<1>u. Updaters \subseteq Proc
  BY DEF Updaters
<1> USE <1>u
<1>1. exe.by = "setup" /\ exe.whole = TRUE /\ exe.archive = "own" /\ old = Gone
  BY DEF HomeBegin, HomeInit, Installed, UpdatesInit
<1>2. \A p \in Proc : pc[p] = "start" /\ image[p] = "none" /\ payload[p] = "none"
  BY DEF HomeBegin, HomeInit, UpdatesInit
<1>a. exe.whole \in BOOLEAN /\ old.whole \in BOOLEAN
  BY <1>1 DEF Gone
<1>b. DOMAIN pc = Proc
  BY DEF HomeBegin, HomeInit
<1>c. image \in [Proc -> Updaters \cup {"setup", "nobody", "none"}]
  BY DEF HomeBegin, HomeInit, UpdatesInit
<1>d. payload \in [Proc -> {"none", "own", "other"}]
  BY DEF HomeBegin, HomeInit, UpdatesInit
<1>3. UpdatesType
  BY <1>1, <1>2, <1>a, <1>b, <1>c, <1>d DEF UpdatesType, HomeBegin, Live
<1>4. WrittenOnce /\ OnePlacing /\ NeverLost /\ OnlyOwn
  BY <1>1, <1>2 DEF WrittenOnce, OnePlacing, NeverLost, OnlyOwn, Live, Placing, Gone
<1>5. QED
  BY <1>1, <1>2, <1>3, <1>4 DEF UpdatesInv, Replacing

(* Steps that leave the files alone and go from no label between the renames  *)
(* to another such label.                                                     *)
LEMMA FilesAlone ==
    ASSUME UpdatesInv, UNCHANGED <<cmd, exe, old, image, payload, windows, signing>>,
           NEW p \in Updaters, NEW label, label \notin {"start", "rename", "create", "fill", "back"},
           Live(p) \/ label = "dead", pc[p] \notin Placing \/ label = "dead", Goto(p, label)
    PROVE  UpdatesInv'
<1>u. Updaters' = Updaters /\ Updaters \subseteq Proc
  BY DEF Updaters, Updating, Does
<1> USE <1>u
<1>1. \A q \in Updaters : pc'[q] = IF q = p THEN label ELSE pc[q]
  BY DEF UpdatesInv, UpdatesType, Goto
<1>2. \A q \in Updaters : Live(q)' => Live(q)
  BY <1>1 DEF Live
<1>3. UpdatesType'
  BY <1>1, <1>2 DEF UpdatesInv, UpdatesType, Goto, Live
<1>a. exe' = exe /\ old' = old /\ image' = image
  OBVIOUS
<1>4. WrittenOnce'
  <2>1. \A q \in Updaters : Ended(q) => Ended(q)'
    BY <1>1 DEF Ended, Live
  <2>2. exe.by \in Updaters => Ended(exe.by)' \/ (pc'[exe.by] \in {"fill", "back"} /\ ~exe.whole)
    BY <1>1, <2>1 DEF UpdatesInv, WrittenOnce, Ended, Placing
  <2>3. old.by \in Updaters => Ended(old.by)'
    BY <2>1 DEF UpdatesInv, WrittenOnce
  <2>4. \A q \in Updaters : Live(q)' /\ image[q] \in Updaters => Ended(image[q])'
    BY <1>2, <2>1 DEF UpdatesInv, WrittenOnce
  <2>5. QED
    BY <1>a, <2>2, <2>3, <2>4 DEF WrittenOnce
<1>5. NeverLost'
  <2>1. \A q \in Updaters : pc[q] \in Placing \cup {"dead"} => pc'[q] \in Placing \cup {"dead"}
    BY <1>1 DEF Live
  <2>2. QED
    BY <1>a, <2>1 DEF UpdatesInv, NeverLost
<1>6. OnlyOwn'
  BY DEF UpdatesInv, OnlyOwn
<1>7. (windows => OnePlacing)'
  BY <1>1, <1>2 DEF UpdatesInv, OnePlacing, Placing
<1>8. (~windows => exe.whole /\ \A q \in Updaters : pc[q] \notin Replacing)'
  BY <1>1 DEF UpdatesInv, Replacing
<1>9. QED
  BY <1>3, <1>4, <1>5, <1>6, <1>7, <1>8 DEF UpdatesInv

(* A file that Windows would not let go of, told by who runs from it.         *)
LEMMA RunningFile ==
    ASSUME UpdatesInv, windows, NEW f \in {exe, old}, NEW p \in Updaters, Live(p), image[p] = f.by
    PROVE  Running(f)
<1>u. Updaters \subseteq Proc
  BY DEF Updaters
<1> USE <1>u
<1>0. pc[p] /= "start" /\ image[p] \in Updaters \cup {"setup"}
  BY DEF UpdatesInv, UpdatesType, Live
<1>1. f.by \in Updaters \cup {"setup"}
  BY <1>0
<1>2. f /= Gone
  <2> SUFFICES ASSUME f = Gone PROVE FALSE
    OBVIOUS
  <2>1. f.by = "nobody"
    BY DEF Gone
  <2>2. QED
    BY <1>1, <2>1
<1>3. QED
  BY <1>2 DEF Running, Ended, Live

(* The file beside the executable is removed, by a process that lives.        *)
LEMMA OldRemoved ==
    ASSUME UpdatesInv, NEW p \in Updaters, Live(p), pc[p] \notin Placing,
           old' = Removed(old), UNCHANGED <<cmd, exe, image, payload, windows, signing>>,
           NEW label, label \notin {"start", "create", "fill", "back"},
           label = "rename" => windows, Goto(p, label)
    PROVE  UpdatesInv'
<1>u. Updaters' = Updaters /\ Updaters \subseteq Proc
  BY DEF Updaters, Updating, Does
<1> USE <1>u
<1>1. \A q \in Updaters : pc'[q] = IF q = p THEN label ELSE pc[q]
  BY DEF UpdatesInv, UpdatesType, Goto
<1>2. \A q \in Updaters : (Live(q)' => Live(q)) /\ (pc'[q] \in Placing => pc[q] \in Placing /\ pc'[q] = pc[q])
  BY <1>1 DEF Live, Placing
<1>3. old' = old \/ old' = Gone
  BY DEF Removed
<1>4. UpdatesType'
  <2>1. old'.whole \in BOOLEAN
    <3>1. CASE old' = old
      BY <3>1 DEF UpdatesInv, UpdatesType
    <3>2. CASE old' = Gone
      BY <3>2 DEF Gone
    <3>3. QED
      BY <1>3, <3>1, <3>2
  <2>2. DOMAIN pc' = Proc
    BY DEF UpdatesInv, UpdatesType, Goto
  <2>3. QED
    BY <1>1, <1>2, <1>3, <2>1, <2>2 DEF UpdatesInv, UpdatesType, Live
<1>5. WrittenOnce'
  <2>1. \A q \in Updaters : Ended(q) => Ended(q)'
    BY <1>1 DEF Ended, Live
  <2>2. old'.by \in Updaters => Ended(old.by)'
    <3>1. CASE old' = old
      BY <2>1, <3>1 DEF UpdatesInv, WrittenOnce
    <3>2. CASE old' = Gone
      BY <3>2 DEF Gone
    <3>3. QED
      BY <1>3, <3>1, <3>2
  <2>3. exe.by \in Updaters => Ended(exe.by)' \/ (pc'[exe.by] \in {"fill", "back"} /\ ~exe.whole)
    BY <1>1, <2>1 DEF UpdatesInv, WrittenOnce, Placing
  <2>4. \A q \in Updaters : Live(q)' /\ image[q] \in Updaters => Ended(image[q])'
    BY <1>2, <2>1 DEF UpdatesInv, WrittenOnce
  <2>5. exe' = exe /\ image' = image
    OBVIOUS
  <2>6. QED
    BY <2>2, <2>3, <2>4, <2>5 DEF WrittenOnce
<1>6. OnlyOwn'
  BY <1>3 DEF UpdatesInv, OnlyOwn, Gone
<1>7. ASSUME windows, ~exe.whole \/ \E q \in Updaters : Live(q) /\ image[q] = old.by
      PROVE  old' = old
  <2>1. \E q \in Updaters : Live(q) /\ image[q] = old.by
    BY <1>7 DEF UpdatesInv, OnePlacing
  <2>2. Running(old)
    BY <1>7, <2>1, RunningFile
  <2>3. QED
    BY <2>2 DEF Removed
<1>8. NeverLost'
  <2>1. \A q \in Updaters : pc[q] \in Placing \cup {"dead"} => pc'[q] \in Placing \cup {"dead"}
    BY <1>1 DEF Live, Placing
  <2>2. exe.whole \/ old' = old
    BY <1>7 DEF UpdatesInv
  <2>3. QED
    BY <2>1, <2>2 DEF UpdatesInv, NeverLost
<1>9. windows' => OnePlacing'
  <2> SUFFICES ASSUME windows PROVE OnePlacing'
    OBVIOUS
  <2>1. ASSUME NEW q \in Updaters, Live(q)'
        PROVE  image[q] \in {exe.by, old'.by} /\ (exe.whole \/ image[q] /= exe.by)
    BY <1>2, <1>7, <2>1 DEF UpdatesInv, OnePlacing
  <2>2. ASSUME NEW q \in Updaters, pc'[q] \in Placing
        PROVE  pc[q] \in Placing /\ pc'[q] = pc[q] /\ old' = old
    BY <1>2, <1>7, <2>2 DEF UpdatesInv, OnePlacing, Live, Placing
  <2>3. QED
    BY <2>1, <2>2 DEF UpdatesInv, OnePlacing
<1>10. ~windows' => exe'.whole /\ \A q \in Updaters : pc'[q] \notin Replacing
  BY <1>1 DEF UpdatesInv, Replacing
<1>11. QED
  BY <1>4, <1>5, <1>6, <1>8, <1>9, <1>10 DEF UpdatesInv

(* A process starts from the executable, which is whole if it is there.       *)
LEMMA LaunchKeeps == ASSUME UpdatesInv, NEW p \in Updaters, Launch(p) PROVE UpdatesInv'
<1>u. Updaters' = Updaters /\ Updaters \subseteq Proc
  BY DEF Launch, Updaters, Updating, Does
<1> USE <1>u
<1> DEFINE label == IF exe.whole THEN cmd[p].do ELSE "done"
<1>1. /\ UNCHANGED <<exe, old, payload, windows, signing>>
      /\ label \in {"upgrade", "notice", "doctor", "done"} /\ pc[p] = "start"
  BY DEF Launch, Updating, Does, UpdateCmds, platform
<1>2. /\ \A q \in Proc : pc'[q] = IF q = p THEN label ELSE pc[q]
      /\ \A q \in Proc : image'[q] = IF q = p THEN exe.by ELSE image[q]
      /\ DOMAIN pc' = Proc /\ exe.by \in Updaters \cup {"setup", "nobody"}
  BY <1>1 DEF Launch, UpdatesInv, UpdatesType, Goto, Gone
<1>3. exe.whole => exe.by \in Updaters \cup {"setup"}
  <2> SUFFICES ASSUME exe.whole, exe = Gone PROVE FALSE
    BY DEF UpdatesInv, UpdatesType
  <2>1. QED
    BY DEF Gone
<1> HIDE DEF label
<1>a. ~exe.whole => label = "done"
  BY DEF label
<1>4. \A q \in Updaters : (Live(q)' => IF q = p THEN exe.whole ELSE Live(q)) /\ (Ended(q) => Ended(q)')
  BY <1>1, <1>2, <1>a DEF Live, Ended
<1>5. \A q \in Updaters : /\ pc[q] \in Placing \/ pc[q] = "dead" => pc'[q] = pc[q] /\ image'[q] = image[q]
                          /\ pc'[q] \in Placing => pc'[q] = pc[q] /\ image'[q] = image[q]
  BY <1>1, <1>2 DEF Placing
<1>6. UpdatesType'
  <2>1. image' \in [Proc -> Updaters \cup {"setup", "nobody", "none"}]
    BY <1>2 DEF Launch, UpdatesInv, UpdatesType
  <2>2. \A q \in Updaters : IF pc'[q] = "start" THEN image'[q] = "none"
                         ELSE Live(q)' => image'[q] \in Updaters \cup {"setup"}
    BY <1>1, <1>2, <1>3, <1>4 DEF UpdatesInv, UpdatesType
  <2>3. QED
    BY <1>1, <1>2, <2>1, <2>2 DEF UpdatesInv, UpdatesType
<1>7. WrittenOnce'
  <2>1. \A q \in Updaters : (Live(q) /\ image[q] \in Updaters => Ended(image[q]))'
    <3>1. ASSUME NEW q \in Updaters, Live(q)', image'[q] \in Updaters PROVE pc'[image'[q]] \in {"done", "dead"}
      BY <1>2, <1>3, <1>4, <3>1 DEF UpdatesInv, WrittenOnce, Ended
    <3>2. QED
      BY <3>1 DEF Ended
  <2>2. exe.by \in Updaters => pc'[exe.by] \in {"done", "dead"} \/ (pc'[exe.by] \in {"fill", "back"} /\ ~exe.whole)
    <3>1. exe.by \in Updaters => Ended(exe.by) \/ (pc[exe.by] \in {"fill", "back"} /\ ~exe.whole)
      BY DEF UpdatesInv, WrittenOnce
    <3>2. \A q \in Updaters : pc[q] \in {"done", "dead", "fill", "back"} => pc'[q] = pc[q]
      BY <1>1, <1>2
    <3>3. QED
      BY <3>1, <3>2 DEF Ended
  <2>3. old.by \in Updaters => Ended(old.by)'
    BY <1>1, <1>4 DEF UpdatesInv, WrittenOnce
  <2>4. exe' = exe /\ old' = old
    BY <1>1
  <2>5. QED
    BY <2>1, <2>2, <2>3, <2>4 DEF WrittenOnce, Ended
<1>8. NeverLost' /\ OnlyOwn'
  <2>1. exe' = exe /\ old' = old /\ payload' = payload /\ signing' = signing
    BY <1>1
  <2>2. ASSUME ~exe.whole PROVE \E q \in Updaters : pc'[q] \in Placing \cup {"dead"}
    <3>1. PICK q \in Updaters : pc[q] \in Placing \cup {"dead"}
      BY <2>2 DEF UpdatesInv, NeverLost
    <3>2. pc'[q] = pc[q]
      BY <1>5, <3>1
    <3>3. QED
      BY <3>1, <3>2
  <2>3. QED
    BY <2>1, <2>2 DEF UpdatesInv, NeverLost, OnlyOwn
<1>9. windows' => OnePlacing'
  <2> SUFFICES ASSUME windows PROVE OnePlacing'
    BY <1>1
  <2>1. exe' = exe /\ old' = old
    BY <1>1
  <2>2. ASSUME NEW q \in Updaters, Live(q)'
        PROVE  image'[q] \in {exe.by, old.by} /\ (exe.whole \/ image'[q] /= exe.by)
    BY <1>2, <1>4, <2>2 DEF UpdatesInv, OnePlacing
  <2>3. \A q \in Updaters : pc'[q] \in Placing => pc[q] \in Placing /\ pc'[q] = pc[q] /\ image'[q] = image[q]
    BY <1>5
  <2>4. ASSUME NEW q \in Updaters, pc'[q] \in Placing
        PROVE  /\ image'[q] = old.by /\ old.whole
               /\ pc'[q] = "create" => exe = Gone
               /\ pc'[q] = "fill" => exe.by = q /\ ~exe.whole
               /\ pc'[q] = "back" => exe = Gone \/ (exe.by = q /\ ~exe.whole)
               /\ \A r \in Updaters : pc'[r] \in Placing => r = q
    <3>1. pc[q] \in Placing /\ pc'[q] = pc[q] /\ image'[q] = image[q]
      BY <2>3, <2>4
    <3>2. \A r \in Updaters : pc'[r] \in Placing => pc[r] \in Placing
      BY <2>3
    <3>3. OnePlacing
      BY DEF UpdatesInv
    <3>4. QED
      BY <3>1, <3>2, <3>3 DEF OnePlacing
  <2>5. QED
    BY <2>1, <2>2, <2>4 DEF OnePlacing
<1>10. ~windows' => exe'.whole /\ \A q \in Updaters : pc'[q] \notin Replacing
  BY <1>1, <1>2 DEF UpdatesInv, Replacing
<1>11. QED
  BY <1>6, <1>7, <1>8, <1>9, <1>10 DEF UpdatesInv

(* What is extracted has passed the checks.                                   *)
LEMMA DownloadKeeps == ASSUME UpdatesInv, NEW p \in Updaters, Download(p) PROVE UpdatesInv'
<1>u. Updaters' = Updaters /\ Updaters \subseteq Proc
  BY DEF Download, Updaters, Updating, Does
<1> USE <1>u
<1>1. /\ UNCHANGED <<cmd, exe, old, image, windows, signing>> /\ pc[p] = "download"
      /\ \/ UNCHANGED payload /\ Goto(p, "done")
         \/ \E d \in Downloads : /\ Accepted(d) /\ ExtractBinary(d) /= "none" /\ Goto(p, "replace")
                                /\ payload' = [payload EXCEPT ![p] = ExtractBinary(d)]
  BY DEF Download, platform
<1>2. CASE UNCHANGED payload /\ Goto(p, "done")
  BY <1>1, <1>2, FilesAlone DEF Live, Placing
<1>3. ASSUME NEW d \in Downloads, Accepted(d), ExtractBinary(d) /= "none", Goto(p, "replace"),
             payload' = [payload EXCEPT ![p] = ExtractBinary(d)]
      PROVE  UpdatesInv'
  <2>1. ExtractBinary(d) \in {"own", "other"} /\ (signing => ExtractBinary(d) = "own")
    BY <1>3 DEF Downloads, ExtractBinary, Accepted, Signed, ChecksumFits
  <2>2. \A q \in Updaters : pc'[q] = IF q = p THEN "replace" ELSE pc[q]
    BY <1>3 DEF UpdatesInv, UpdatesType, Goto
  <2>3. \A q \in Updaters : (Live(q)' = Live(q)) /\ (Ended(q)' = Ended(q)) /\ (pc'[q] = pc[q] \/ q = p)
    BY <1>1, <2>2 DEF Live, Ended
  <2>4. UpdatesType'
    <3>1. DOMAIN pc' = Proc /\ payload' \in [Proc -> {"none", "own", "other"}]
      BY <1>3, <2>1 DEF UpdatesInv, UpdatesType, Goto
    <3>2. QED
      BY <1>1, <2>2, <2>3, <3>1 DEF UpdatesInv, UpdatesType
  <2>5. WrittenOnce'
    <3>1. exe' = exe /\ old' = old /\ image' = image
      BY <1>1
    <3>2. exe.by \in Updaters /\ pc[exe.by] \in {"fill", "back"} => pc'[exe.by] = pc[exe.by]
      BY <1>1, <2>2
    <3>3. QED
      BY <2>3, <3>1, <3>2 DEF UpdatesInv, WrittenOnce
  <2>6. NeverLost'
    <3>1. exe' = exe /\ old' = old
      BY <1>1
    <3>2. \A q \in Updaters : pc[q] \in Placing \cup {"dead"} => pc'[q] \in Placing \cup {"dead"}
      BY <1>1, <2>2 DEF Placing
    <3>3. QED
      BY <3>1, <3>2 DEF UpdatesInv, NeverLost
  <2>7. OnlyOwn'
    <3>1. signing => \A q \in Updaters : payload'[q] /= "other"
      BY <1>3, <2>1 DEF UpdatesInv, UpdatesType, OnlyOwn
    <3>2. QED
      BY <1>1, <3>1 DEF UpdatesInv, OnlyOwn
  <2>8. windows' => OnePlacing'
    BY <1>1, <2>2, <2>3 DEF UpdatesInv, OnePlacing, Placing
  <2>9. ~windows' => exe'.whole /\ \A q \in Updaters : pc'[q] \notin Replacing
    BY <1>1, <2>2 DEF UpdatesInv, Replacing
  <2>10. QED
    BY <2>4, <2>5, <2>6, <2>7, <2>8, <2>9 DEF UpdatesInv
<1>4. QED
  BY <1>1, <1>2, <1>3

(* On Unix the executable is replaced by a whole one at once.                 *)
LEMMA ReplaceKeeps == ASSUME UpdatesInv, NEW p \in Updaters, ReplaceUnix(p) PROVE UpdatesInv'
<1>u. Updaters' = Updaters /\ Updaters \subseteq Proc
  BY DEF ReplaceUnix, Updaters, Updating, Does
<1> USE <1>u
<1>1. /\ UNCHANGED <<cmd, old, image, payload, windows, signing>> /\ pc[p] = "replace" /\ ~windows
      /\ exe' = New(p, TRUE) \/ exe' = exe
      /\ Goto(p, "done")
  BY DEF ReplaceUnix, platform
<1>2. CASE exe' = exe
  BY <1>1, <1>2, FilesAlone DEF Live, Placing
<1>3. CASE exe' = New(p, TRUE)
  <2>1. exe'.by = p /\ exe'.whole = TRUE /\ exe'.archive = payload[p]
    BY <1>3 DEF New
  <2>2. \A q \in Updaters : pc'[q] = IF q = p THEN "done" ELSE pc[q]
    BY <1>1 DEF UpdatesInv, UpdatesType, Goto
  <2>3. \A q \in Updaters : (Live(q)' => Live(q)) /\ (Ended(q) => Ended(q)')
    BY <2>2 DEF Live, Ended
  <2>4. UpdatesType'
    <3>1. DOMAIN pc' = Proc
      BY <1>1 DEF UpdatesInv, UpdatesType, Goto
    <3>2. QED
      BY <1>1, <2>1, <2>2, <2>3, <3>1 DEF UpdatesInv, UpdatesType
  <2>5. WrittenOnce'
    <3>1. pc'[exe'.by] \in {"done", "dead"}
      BY <2>1, <2>2
    <3>2. QED
      BY <1>1, <2>3, <3>1 DEF UpdatesInv, WrittenOnce, Ended
  <2>6. NeverLost' /\ OnlyOwn'
    BY <1>1, <2>1 DEF UpdatesInv, NeverLost, OnlyOwn
  <2>7. QED
    BY <1>1, <2>1, <2>2, <2>4, <2>5, <2>6 DEF UpdatesInv, Replacing
<1>4. QED
  BY <1>1, <1>2, <1>3

(* The executable is renamed by a process that runs from it, so that no other *)
(* one can be between its two renames: it would run from what is .old.        *)
LEMMA RenameAwayKeeps == ASSUME UpdatesInv, NEW p \in Updaters, RenameAway(p) PROVE UpdatesInv'
<1>u. Updaters' = Updaters /\ Updaters \subseteq Proc
  BY DEF RenameAway, Updaters, Updating, Does
<1> USE <1>u
<1>1. /\ UNCHANGED <<cmd, image, payload, windows, signing>> /\ pc[p] = "rename"
      /\ \/ UNCHANGED <<exe, old>> /\ Goto(p, "done")
         \/ exe' = Gone /\ old' = exe /\ Goto(p, "create") /\ exe /= Gone /\ ~BeingWritten(exe) /\ ~Running(old)
  BY DEF RenameAway, platform
<1>2. CASE UNCHANGED <<exe, old>> /\ Goto(p, "done")
  BY <1>1, <1>2, FilesAlone DEF Live, Placing
<1>3. ASSUME exe' = Gone, old' = exe, Goto(p, "create"), exe /= Gone, ~BeingWritten(exe), ~Running(old)
      PROVE  UpdatesInv'
  <2>1. exe'.by = "nobody" /\ ~exe'.whole /\ exe'.archive = "none" /\ exe'.whole \in BOOLEAN
    BY <1>3 DEF Gone
  <2>2. \A q \in Updaters : pc'[q] = IF q = p THEN "create" ELSE pc[q]
    BY <1>3 DEF UpdatesInv, UpdatesType, Goto
  <2>3. \A q \in Updaters : Live(q)' = Live(q) /\ Ended(q)' = Ended(q)
    BY <1>1, <2>2 DEF Live, Ended
  <2>4. windows /\ Live(p)
    BY <1>1 DEF UpdatesInv, UpdatesType, Replacing, Live
  <2>5. \A q \in Updaters : Live(q) => image[q] /= old.by
    BY <1>3, <2>4, RunningFile
  <2>6. \A q \in Updaters : (Live(q) => image[q] = exe.by) /\ pc[q] \notin Placing
    BY <2>4, <2>5 DEF UpdatesInv, OnePlacing, Live, Placing
  <2>7. exe.whole
    BY <2>4, <2>6 DEF UpdatesInv, OnePlacing
  <2>8. UpdatesType'
    <3>1. DOMAIN pc' = Proc
      BY <1>3 DEF UpdatesInv, UpdatesType, Goto
    <3>2. QED
      BY <1>1, <1>3, <2>1, <2>2, <2>3, <3>1 DEF UpdatesInv, UpdatesType
  <2>9. WrittenOnce'
    <3>1. exe'.by \notin Updaters
      BY <2>1
    <3>2. exe.by \in Updaters => Ended(exe.by)
      BY <2>6 DEF UpdatesInv, WrittenOnce, Placing
    <3>3. exe.by \in Updaters => pc'[exe.by] \in {"done", "dead"}
      BY <2>3, <3>2, <2>2, <1>1 DEF Ended
    <3>4. \A q \in Updaters : Live(q)' /\ image'[q] \in Updaters => pc'[image'[q]] \in {"done", "dead"}
      BY <1>1, <2>3, <2>6, <3>3
    <3>5. QED
      BY <1>3, <3>1, <3>3, <3>4 DEF WrittenOnce, Ended
  <2>10. NeverLost'
    BY <1>3, <2>2, <2>7 DEF NeverLost, Placing
  <2>11. OnlyOwn'
    BY <1>1, <1>3, <2>1 DEF UpdatesInv, OnlyOwn
  <2>12. OnePlacing'
    <3>1. ASSUME NEW q \in Updaters, Live(q)'
          PROVE  image'[q] = old'.by /\ image'[q] /= exe'.by
      BY <1>1, <1>3, <2>1, <2>3, <2>6, <3>1 DEF UpdatesInv, UpdatesType, Live
    <3>2. ASSUME NEW q \in Updaters, pc'[q] \in Placing
          PROVE  q = p /\ pc'[q] = "create" /\ old'.whole /\ exe' = Gone /\ Live(q)'
      BY <1>3, <2>2, <2>3, <2>4, <2>6, <2>7, <3>2
    <3>3. QED
      BY <3>1, <3>2 DEF OnePlacing
  <2>13. QED
    BY <1>1, <2>4, <2>8, <2>9, <2>10, <2>11, <2>12 DEF UpdatesInv
<1>4. QED
  BY <1>1, <1>2, <1>3

(* The process between the renames writes its own file in the free place.     *)
LEMMA PlacingKeeps ==
    ASSUME UpdatesInv, NEW p \in Updaters, pc[p] \in Placing,
           UNCHANGED <<cmd, old, image, payload, windows, signing>>,
           NEW label \in {"fill", "back", "done"}, Goto(p, label),
           \/ label = "fill" /\ exe' = New(p, FALSE)
           \/ label = "done" /\ exe' = New(p, TRUE)
           \/ label = "back" /\ exe' = exe /\ pc[p] \in {"create", "fill"}
    PROVE  UpdatesInv'
<1>u. Updaters' = Updaters /\ Updaters \subseteq Proc
  BY DEF Updaters, Updating, Does
<1> USE <1>u
<1>1. \A q \in Updaters : pc'[q] = IF q = p THEN label ELSE pc[q]
  BY DEF UpdatesInv, UpdatesType, Goto
<1>2. /\ windows /\ Live(p) /\ old.whole /\ image[p] = old.by
      /\ \A q \in Updaters : pc[q] \in Placing => q = p
  BY DEF UpdatesInv, OnePlacing, Live, Placing, Replacing, UpdatesType
<1>3. \/ exe'.by = p /\ exe'.whole = FALSE /\ exe'.archive = payload[p] /\ label = "fill"
      \/ exe'.by = p /\ exe'.whole = TRUE /\ exe'.archive = payload[p] /\ label = "done"
      \/ exe' = exe /\ label = "back" /\ exe.by = p /\ ~exe.whole
      \/ exe' = exe /\ label = "back" /\ exe = Gone
  <2>1. label = "back" => exe = Gone \/ (exe.by = p /\ ~exe.whole)
    BY <1>2 DEF UpdatesInv, OnePlacing
  <2>2. QED
    BY <2>1 DEF New
<1>4. \A q \in Updaters : (Live(q)' => Live(q)) /\ (Ended(q) => Ended(q)')
  BY <1>1, <1>2 DEF Live, Ended
<1>5. exe'.whole \in BOOLEAN
  BY <1>3 DEF UpdatesInv, UpdatesType
<1>6. \A q \in Updaters : Live(q) => image[q] = old.by /\ image[q] /= p
  <2>1. ~exe.whole /\ (exe.by = p \/ exe.by = "nobody")
    <3>1. CASE exe = Gone
      BY <3>1 DEF Gone
    <3>2. CASE exe /= Gone
      BY <1>2, <3>2 DEF UpdatesInv, OnePlacing, Placing
    <3>3. QED
      BY <3>1, <3>2
  <2>2. \A q \in Updaters : Live(q) => image[q] = old.by
    BY <1>2, <2>1 DEF UpdatesInv, OnePlacing
  <2>3. ASSUME NEW q \in Updaters, Live(q), image[q] = p PROVE FALSE
    BY <1>2, <2>3 DEF UpdatesInv, WrittenOnce, Live, Ended
  <2>4. QED
    BY <2>2, <2>3
<1>7. UpdatesType'
  <2>1. DOMAIN pc' = Proc
    BY DEF UpdatesInv, UpdatesType, Goto
  <2>2. exe' = Gone \/ exe'.by \in Updaters \cup {"setup"}
    BY <1>3
  <2>3. \A q \in Updaters : IF pc'[q] = "start" THEN image'[q] = "none"
                         ELSE Live(q)' => image'[q] \in Updaters \cup {"setup"}
    <3>1. \A q \in Updaters : pc'[q] = "start" => pc[q] = "start"
      BY <1>1
    <3>2. QED
      BY <1>4, <3>1 DEF UpdatesInv, UpdatesType, Live
  <2>4. QED
    BY <1>5, <2>1, <2>2, <2>3 DEF UpdatesInv, UpdatesType
<1>8. WrittenOnce'
  <2>1. old.by \in Updaters => pc'[old.by] \in {"done", "dead"}
    BY <1>1, <1>2 DEF UpdatesInv, WrittenOnce, Ended, Live
  <2>2. exe'.by \in Updaters => pc'[exe'.by] \in {"done", "dead"} \/ (pc'[exe'.by] \in {"fill", "back"} /\ ~exe'.whole)
    <3>1. CASE exe' = exe /\ exe = Gone
      BY <3>1 DEF Gone
    <3>2. CASE exe'.by = p
      <4>1. pc'[exe'.by] = label
        BY <1>1, <3>2
      <4>2. label = "done" \/ ~exe'.whole
        BY <1>3 DEF Gone
      <4>3. QED
        BY <4>1, <4>2
    <3>3. QED
      BY <1>3, <3>1, <3>2
  <2>3. \A q \in Updaters : Live(q)' /\ image'[q] \in Updaters => pc'[image'[q]] \in {"done", "dead"}
    BY <1>4, <1>6, <2>1
  <2>4. QED
    BY <2>1, <2>2, <2>3 DEF WrittenOnce, Ended
<1>9. NeverLost'
  <2>1. label /= "done" => pc'[p] \in Placing
    BY <1>1 DEF Placing
  <2>2. label = "done" => exe'.whole
    BY <1>3
  <2>3. QED
    BY <1>2, <2>1, <2>2 DEF NeverLost
<1>10. OnlyOwn'
  BY <1>3 DEF UpdatesInv, OnlyOwn
<1>11. OnePlacing'
  <2>1. ASSUME NEW q \in Updaters, Live(q)'
        PROVE  image'[q] = old'.by /\ (exe'.whole \/ image'[q] /= exe'.by)
    <3>1. image[q] = old.by /\ image[q] /= p /\ Live(q)
      BY <1>4, <1>6, <2>1
    <3>2. CASE exe'.by = p
      BY <3>1, <3>2
    <3>3. CASE exe' = exe /\ exe = Gone
      <4>1. exe'.by = "nobody"
        BY <3>3 DEF Gone
      <4>2. image[q] /= "nobody"
        BY <3>1 DEF UpdatesInv, UpdatesType, Live
      <4>3. QED
        BY <3>1, <4>1, <4>2
    <3>4. QED
      BY <1>3, <3>2, <3>3
  <2>2. ASSUME NEW q \in Updaters, pc'[q] \in Placing
        PROVE  q = p /\ pc'[q] = label /\ label /= "done" /\ Live(q)'
    BY <1>1, <1>2, <2>2 DEF Placing, Live
  <2>3. ASSUME NEW q \in Updaters, pc'[q] \in Placing
        PROVE  /\ pc'[q] = "fill" => exe'.by = q /\ ~exe'.whole
               /\ pc'[q] = "back" => exe' = Gone \/ (exe'.by = q /\ ~exe'.whole)
               /\ pc'[q] /= "create"
    BY <1>3, <2>2, <2>3
  <2>4. QED
    BY <1>2, <2>1, <2>2, <2>3 DEF OnePlacing
<1>12. QED
  BY <1>2, <1>7, <1>8, <1>9, <1>10, <1>11 DEF UpdatesInv

(* The old executable is given back; nothing can be in its way.               *)
LEMMA RenameBackKeeps == ASSUME UpdatesInv, NEW p \in Updaters, RenameBack(p) PROVE UpdatesInv'
<1>u. Updaters' = Updaters /\ Updaters \subseteq Proc
  BY DEF RenameBack, Updaters, Updating, Does
<1> USE <1>u
<1>1. UNCHANGED <<image, payload, windows, signing>> /\ pc[p] = "back" /\ Goto(p, "done")
  BY DEF RenameBack, platform
<1>2. \A q \in Updaters : pc'[q] = IF q = p THEN "done" ELSE pc[q]
  BY <1>1 DEF UpdatesInv, UpdatesType, Goto
<1>3. /\ windows /\ Live(p) /\ old.whole /\ image[p] = old.by
      /\ \A q \in Updaters : pc[q] \in Placing => q = p
      /\ exe = Gone \/ (exe.by = p /\ ~exe.whole)
  BY <1>1 DEF UpdatesInv, OnePlacing, Live, Placing, Replacing, UpdatesType
<1>4. ~exe.whole /\ (exe.by = p \/ exe.by = "nobody")
  <2>1. CASE exe = Gone
    BY <2>1 DEF Gone
  <2>2. QED
    BY <1>3, <2>1
<1>5. \A q \in Updaters : Live(q) => image[q] = old.by
  BY <1>3, <1>4 DEF UpdatesInv, OnePlacing
<1>6. old /= Gone
  <2> SUFFICES ASSUME old = Gone PROVE FALSE
    OBVIOUS
  <2>1. QED
    BY <1>3 DEF Gone
<1>7. ~Running(exe)
  <2> SUFFICES ASSUME exe /= Gone, NEW q \in Proc, image[q] = exe.by, ~Ended(q) PROVE FALSE
    BY DEF Running
  <2>1. image[q] = p /\ q \in Updaters
    BY <1>3 DEF UpdatesInv, UpdatesType
  <2>2. Live(q)
    BY <2>1 DEF UpdatesInv, UpdatesType, Ended, Live
  <2>3. QED
    BY <1>1, <2>1, <2>2 DEF UpdatesInv, WrittenOnce, Ended
<1>8. ~BeingWritten(exe)
  <2> SUFFICES ASSUME NEW q \in Proc, exe.by = q, pc[q] = "fill" PROVE FALSE
    BY DEF BeingWritten
  <2>1. QED
    BY <1>1, <1>4
<1>9. exe' = old /\ old' = Gone
  BY <1>6, <1>7, <1>8 DEF RenameBack
<1>10. old'.by = "nobody" /\ old'.archive = "none" /\ old'.whole \in BOOLEAN
  BY <1>9 DEF Gone
<1>11. \A q \in Updaters : (Live(q)' => Live(q)) /\ (Ended(q) => Ended(q)')
  BY <1>2 DEF Live, Ended
<1>12. UpdatesType'
  <2>1. DOMAIN pc' = Proc
    BY <1>1 DEF UpdatesInv, UpdatesType, Goto
  <2>2. QED
    BY <1>1, <1>2, <1>9, <1>10, <1>11, <2>1 DEF UpdatesInv, UpdatesType
<1>13. WrittenOnce'
  <2>1. exe'.by \in Updaters => pc'[exe'.by] \in {"done", "dead"}
    BY <1>2, <1>9 DEF UpdatesInv, WrittenOnce, Ended
  <2>2. \A q \in Updaters : Live(q)' /\ image'[q] \in Updaters => pc'[image'[q]] \in {"done", "dead"}
    BY <1>1, <1>5, <1>9, <1>11, <2>1
  <2>3. QED
    BY <1>10, <2>1, <2>2 DEF WrittenOnce, Ended
<1>14. NeverLost' /\ OnlyOwn'
  BY <1>1, <1>3, <1>9, <1>10 DEF UpdatesInv, NeverLost, OnlyOwn
<1>15. OnePlacing'
  <2>1. ASSUME NEW q \in Updaters, Live(q)' PROVE image'[q] = exe'.by /\ exe'.whole
    BY <1>1, <1>3, <1>5, <1>9, <1>11, <2>1
  <2>2. \A q \in Updaters : pc'[q] \notin Placing
    BY <1>2, <1>3 DEF Placing
  <2>3. QED
    BY <2>1, <2>2 DEF OnePlacing
<1>16. QED
  BY <1>1, <1>3, <1>12, <1>13, <1>14, <1>15 DEF UpdatesInv

(* A step of Updates.                                                         *)
LEMMA UpdatesStepKeeps == ASSUME UpdatesInv, NEW p \in Proc, UpdatesStep(p) PROVE UpdatesInv'
<1>0. p \in Updaters
  BY UpdatesMoves DEF Updaters
<1> USE <1>0
<1> DEFINE Still == UNCHANGED <<cmd, exe, image, payload, windows, signing>>
<1>1. CASE Launch(p)
  BY <1>1, LaunchKeeps
<1>2. CASE BeginUpgrade(p)
  <2>1. Still /\ Live(p) /\ pc[p] \notin Placing
    BY <1>2 DEF BeginUpgrade, Live, Placing, platform
  <2>2. CASE UNCHANGED old /\ Goto(p, "done")
    BY <2>1, <2>2, FilesAlone
  <2>3. CASE old' = Removed(old) /\ \E label \in {"done", "fetch"} : Goto(p, label)
    BY <2>1, <2>3, OldRemoved
  <2>4. QED
    BY <1>2, <2>2, <2>3 DEF BeginUpgrade
<1>3. CASE Fetch(p)
  <2>1. Still /\ UNCHANGED old /\ Live(p) /\ pc[p] \notin Placing
    BY <1>3 DEF Fetch, Live, Placing, platform, fileVars
  <2>2. PICK label \in {"done", "download"} : Goto(p, label)
    BY <1>3 DEF Fetch
  <2>3. QED
    BY <2>1, <2>2, FilesAlone
<1>4. CASE Download(p)
  BY <1>4, DownloadKeeps
<1>5. CASE ReplaceUnix(p)
  BY <1>5, ReplaceKeeps
<1>6. CASE RemoveOld(p)
  <2>1. /\ Still /\ Live(p) /\ pc[p] \notin Placing /\ windows
        /\ old' = Removed(old) /\ Goto(p, "rename")
    BY <1>6 DEF RemoveOld, Live, Placing, platform
  <2>2. QED
    BY <2>1, OldRemoved
<1>7. CASE RenameAway(p)
  BY <1>7, RenameAwayKeeps
<1>8. CASE Create(p)
  <2>1. /\ UNCHANGED <<cmd, old, image, payload, windows, signing>> /\ pc[p] = "create"
        /\ \/ exe' = New(p, FALSE) /\ Goto(p, "fill")
           \/ Goto(p, "back") /\ exe' = exe
    BY <1>8 DEF Create, platform
  <2>2. QED
    BY <2>1, PlacingKeeps DEF Placing
<1>9. CASE Fill(p)
  <2>1. /\ UNCHANGED <<cmd, old, image, payload, windows, signing>> /\ pc[p] = "fill"
        /\ \/ exe' = New(p, TRUE) /\ Goto(p, "done")
           \/ Goto(p, "back") /\ exe' = exe
    BY <1>9 DEF Fill, platform
  <2>2. QED
    BY <2>1, PlacingKeeps DEF Placing
<1>10. CASE RenameBack(p)
  BY <1>10, RenameBackKeeps
<1>11. CASE Notice(p)
  <2>1. Still /\ Live(p) /\ pc[p] \notin Placing
    BY <1>11 DEF Notice, Live, Placing, platform
  <2>2. PICK label \in {"done", "ask"} : Goto(p, label)
    BY <1>11 DEF Notice
  <2>3. old' = old \/ old' = Removed(old)
    BY <1>11 DEF Notice
  <2>4. CASE old' = old
    BY <2>1, <2>2, <2>4, FilesAlone
  <2>5. CASE old' = Removed(old)
    BY <2>1, <2>2, <2>5, OldRemoved
  <2>6. QED
    BY <2>3, <2>4, <2>5
<1>12. CASE Ask(p) \/ Record(p)
  <2>1. Still /\ UNCHANGED old /\ Live(p) /\ pc[p] \notin Placing
    BY <1>12 DEF Ask, Record, AfterRecord, Live, Placing, platform, fileVars
  <2>2. PICK label \in {"record", "check", "done"} : Goto(p, label)
    BY <1>12 DEF Ask, Record, AfterRecord
  <2>3. QED
    BY <2>1, <2>2, FilesAlone
<1>13. CASE UpdatesDie(p)
  <2>1. Still /\ UNCHANGED old /\ Live(p) /\ Goto(p, "dead")
    BY <1>13 DEF UpdatesDie, Live, Ended, platform, fileVars
  <2>2. QED
    BY <2>1, FilesAlone
<1>14. QED
  BY <1>1, <1>2, <1>3, <1>4, <1>5, <1>6, <1>7, <1>8, <1>9, <1>10, <1>11, <1>12, <1>13 DEF UpdatesStep

(* A step that moves no process of Updates and touches none of its files.     *)
LEMMA UpdatesElsewhere ==
    ASSUME UpdatesInv, Elsewhere(UpdateCmds), UNCHANGED <<exe, old, image, payload, windows, signing>>
    PROVE  UpdatesInv'
<1>u. Updaters' = Updaters /\ Updaters \subseteq Proc
  BY DEF Elsewhere, Updaters, Updating, Does
<1>1. DOMAIN pc' = Proc /\ \A q \in Updaters : pc'[q] = pc[q]
  BY DEF UpdatesInv, UpdatesType, Elsewhere, Goto, Updaters, Updating
<1>2. /\ exe' = exe /\ old' = old /\ image' = image
      /\ payload' = payload /\ windows' = windows /\ signing' = signing
  OBVIOUS
<1>3. UpdatesType'
  BY <1>u, <1>1, <1>2 DEF UpdatesInv, UpdatesType, Live
<1>4. WrittenOnce'
  BY <1>u, <1>1, <1>2 DEF UpdatesInv, WrittenOnce, Live, Ended
<1>5. NeverLost' /\ OnlyOwn'
  BY <1>u, <1>1, <1>2 DEF UpdatesInv, NeverLost, OnlyOwn
<1>6. windows' => OnePlacing'
  BY <1>u, <1>1, <1>2 DEF UpdatesInv, OnePlacing, Live
<1>7. QED
  BY <1>u, <1>1, <1>2, <1>3, <1>4, <1>5, <1>6 DEF UpdatesInv

(* A doctor that loads the configuration or makes its checks.                 *)
LEMMA UpdatesDoctor ==
    ASSUME UpdatesInv, NEW p \in Proc, Does(p, {"doctor"}), cmd' = cmd,
           UNCHANGED <<exe, old, image, payload, windows, signing>>,
           NEW label \in DoctorLabels, Goto(p, label), pc[p] \in DoctorLabels,
           label \in {"start", "doctor"} => FALSE, pc[p] \in {"start", "done"} => label = "dead",
           pc[p] /= "dead"
    PROVE  UpdatesInv'
<1>1. p \in Updaters
  BY DEF Updaters, Updating, UpdateCmds, Does
<1>2. label \notin {"start", "rename", "create", "fill", "back"} /\ pc[p] \notin Placing
  BY DEF DoctorLabels, Placing
<1>3. Live(p) \/ label = "dead"
  BY DEF Live
<1>4. QED
  BY <1>1, <1>2, <1>3, FilesAlone

LEMMA UpdatesKeep == UpdatesInv /\ CheckInv /\ [Next]_vars => UpdatesInv'
<1> SUFFICES ASSUME UpdatesInv, CheckInv, [Next]_vars PROVE UpdatesInv'
  OBVIOUS
<1> DEFINE Files == <<exe, old, image, payload, windows, signing>>
<1>1. CASE UNCHANGED vars
  BY <1>1, UpdatesElsewhere DEF vars, updateVars, Elsewhere
<1>2. CASE UpdatesNext
  <2>1. CASE Publish \/ Tick
    BY <2>1, UpdatesElsewhere DEF Publish, Tick, fileVars, platform, Elsewhere
  <2>2. CASE \E p \in Proc : UpdatesStep(p)
    BY <2>2, UpdatesStepKeeps
  <2>3. QED
    BY <1>2, <2>1, <2>2 DEF UpdatesNext
<1>3. ASSUME NEW p \in Proc, DoctorStep(p) PROVE UpdatesInv'
  <2>1. UNCHANGED <<exe, old, image, payload, windows, signing>> /\ cmd' = cmd /\ Does(p, DoctorCmds) /\ Moves(p)
    BY <1>3, DoctorMoves DEF DoctorStep, DoctorLoad, Check, AskDoctor, Finish, StatusLoad, StatusRow, fileVars, platform,
                             updateVars, Moves
  <2>2. CASE ~Does(p, UpdateCmds)
    BY <2>1, <2>2, UpdatesElsewhere DEF Moves, Elsewhere
  <2>3. CASE Does(p, UpdateCmds)
    <3>1. Does(p, {"doctor"}) /\ ~Does(p, {"status"})
      BY <2>1, <2>3 DEF Does, DoctorCmds, UpdateCmds
    <3>2. UNCHANGED pc \/ \E label \in {"check", "record", "done"} : Goto(p, label) /\ pc[p] \in {"load", "check", "record"}
      BY <1>3, <3>1 DEF DoctorStep, DoctorLoad, Check, AskDoctor, Finish, StatusLoad, StatusRow, Step
    <3>3. CASE UNCHANGED pc
      BY <2>1, <3>3, UpdatesElsewhere DEF Elsewhere
    <3>4. CASE \E label \in {"check", "record", "done"} : Goto(p, label) /\ pc[p] \in {"load", "check", "record"}
      BY <2>1, <3>1, <3>4, UpdatesDoctor DEF DoctorLabels
    <3>5. QED
      BY <3>2, <3>3, <3>4
  <2>4. QED
    BY <2>2, <2>3
<1>4. ASSUME NEW p \in Proc, StoresStep(p), UNCHANGED updateVars PROVE UpdatesInv'
  <2>1. UNCHANGED <<exe, old, image, payload, windows, signing>> /\ InStores(p) /\ Moves(p) /\ cmd' = cmd
    BY <1>4, StoresMoves DEF updateVars, Moves
  <2>2. CASE ~Does(p, UpdateCmds)
    BY <2>1, <2>2, UpdatesElsewhere DEF Moves, Elsewhere
  <2>3. CASE Does(p, UpdateCmds)
    <3>1. Does(p, {"doctor"})
      BY <2>1, <2>3 DEF Does, InStores, StoreCmds, UpdateCmds
    <3>2. /\ pc'[p] \in {"truncate", "load", "done", "write", "read", "dead"}
          /\ pc[p] \in DoctorLabels /\ pc[p] /= "dead"
          /\ pc[p] \in {"start", "done"} => pc'[p] = "dead"
      BY <1>4, <3>1, DoctorStores
    <3>3. CASE UNCHANGED pc
      BY <2>1, <3>3, UpdatesElsewhere DEF Elsewhere
    <3>4. CASE \E label : Goto(p, label)
      <4>1. PICK label : Goto(p, label)
        BY <3>4
      <4>2. pc'[p] = label
        BY <4>1 DEF Goto, UpdatesInv, UpdatesType
      <4>3. label \in {"truncate", "load", "done", "write", "read", "dead"}
        BY <3>2, <4>2
      <4>4. QED
        BY <2>1, <3>1, <3>2, <4>1, <4>2, <4>3, UpdatesDoctor DEF DoctorLabels
    <3>5. QED
      BY <2>1, <3>3, <3>4 DEF Moves
  <2>4. QED
    BY <2>2, <2>3
<1>5. CASE RcNext
  BY <1>5, RcMoves, UpdatesElsewhere DEF RcNext, Edit, Moves, Elsewhere, Initializing, RcCmds, Does, UpdateCmds, updateVars
<1>6. CASE FixNext
  BY <1>6, FixMoves, UpdatesElsewhere DEF FixNext, HookRecord, Minute, Moves, Elsewhere, Fixing, Does, UpdateCmds, updateVars
<1>7. CASE ChatNext
  BY <1>7, ChatMoves, UpdatesElsewhere DEF ChatNext, Moves, Elsewhere, Chatting, Does, UpdateCmds, updateVars
<1>8. QED
  BY <1>1, <1>2, <1>3, <1>4, <1>5, <1>6, <1>7 DEF Next, DoctorNext, StoresNext

(* Whatever upgrades any number of processes run, on Windows or on Unix,      *)
(* beside any other commands, and wherever they fail or are killed, a whole   *)
(* comrade is on disk, and with a key embedded it is a file that was released.*)
THEOREM ComradeStays == HomeSpec => []NeverWithoutComrade
<1>1. UpdatesInv => NeverWithoutComrade
  BY DEF UpdatesInv, NeverLost, OnlyOwn, NeverWithoutComrade, Placing, Replacing, Updaters
<1>2. QED
  BY <1>1, UpdatesStarts, CheckStarts, CheckKeeps, UpdatesKeep, PTL DEF HomeSpec

(* ------------------- config.toml and the stored keys ------------------------ *)

(* A content with a value for every key.                                      *)
Full(c) ==
    /\ IsContent(c) /\ c.own = [k \in DOMAIN c.own |-> c.own[k]] /\ Keys \subseteq DOMAIN c.own

(* The saves p has still to make.                                             *)
SaveKinds == {"key", "use", "create", "profileKey", "remove", "none"}
HasSaves(p) ==
    /\ \E S : todo[p] \in Seq(S) /\ \A op \in S : op.save \in SaveKinds
    /\ pc[p] \in {"read", "truncate", "write"} => todo[p] /= <<>>

(* Which commands get where a key is asked for, kept or forgotten.            *)
Asking == {"ask", "askModel", "ping", "keep"}
KeyCommand(p) ==
    /\ pc[p] \in Asking \/ next[p] \in Asking => cmd[p].do = "login"
    /\ pc[p] = "forget" \/ next[p] = "forget" => cmd[p].do = "logout"
    /\ next[p] \notin {"read", "truncate", "write", "keyTruncate", "keyWrite"}
    /\ pc[p] \in {"keyTruncate", "keyWrite"} => cmd[p].do \in {"login", "logout"}
    /\ cmd[p].do \in {"login", "logout"} => cmd[p].provider \in Providers

(* What the save p is about to write, or is writing, comes to.                *)
Writer(p) == InStores(p) /\ pc[p] \in {"truncate", "write"}
Strays(p) == Intended(p) /= Head(todo[p])
Outcome(p) == Taken(Intended(p), meant)

KeyWriter(p) == InStores(p) /\ pc[p] \in {"keyTruncate", "keyWrite"}
KeyOutcome(p) == IF cmd[p].do = "login" THEN Put(meantKeys.file, cmd[p].provider, p)
                 ELSE Minus(meantKeys.file, cmd[p].provider)

(* What a writer has in memory is what its save means, of the file or of the  *)
(* keys as they are when no other has begun to write.                         *)
OneWriter ==
    /\ \A p, q \in Proc : Writer(p) /\ Writer(q) => p = q
    /\ \A p, q \in Proc : KeyWriter(p) /\ KeyWriter(q) => p = q
    /\ \A p \in Proc : ~mixed[p]

Untouched == \A p \in Proc : Writer(p) => pc[p] = "truncate"
ConfigKept ==
    /\ Untouched => Merged(file) = meant /\ (Readable(file) => Full(meant))
    /\ \A p \in Proc : Writer(p) => Full(draft[p]) /\ (Strays(p) \/ draft[p] = Outcome(p))

KeysUntouched == \A p \in Proc : KeyWriter(p) => pc[p] = "keyTruncate"
KeysKept ==
    /\ vault = meantKeys.keychain /\ "no" \notin DOMAIN meantKeys.file
    /\ KeysUntouched => KeysIn(creds) = meantKeys.file
    /\ \A p \in Proc : KeyWriter(p) => draft[p] = KeyOutcome(p)

StoresInv ==
    /\ DOMAIN pc = Proc /\ DOMAIN todo = Proc /\ DOMAIN next = Proc /\ DOMAIN draft = Proc
    /\ DOMAIN mixed = Proc /\ overlap \in BOOLEAN /\ strayed \in BOOLEAN
    /\ meantKeys = [keychain |-> meantKeys.keychain, file |-> meantKeys.file]
    /\ \A p \in Proc : InStores(p) => HasSaves(p) /\ KeyCommand(p)
    /\ ~overlap => OneWriter /\ KeysKept
    /\ ~overlap /\ ~strayed => ConfigKept

(* ------------------------- contents and their changes ----------------------- *)

LEMMA FullThere == ASSUME NEW c, Full(c) PROVE c \notin {Absent, Emptied, Garbled}
<1>1. \A a, b, d : DOMAIN [own |-> a, active |-> b, profiles |-> d] = {"own", "active", "profiles"}
  OBVIOUS
<1>2. DOMAIN c = {"own", "active", "profiles"}
  BY <1>1 DEF Full, IsContent
<1>3. \A x : DOMAIN [no |-> x] = {"no"}
  OBVIOUS
<1>4. QED
  BY <1>2, <1>3 DEF Absent, Emptied, Garbled

LEMMA MergedFull == ASSUME NEW c, Full(c) PROVE Merged(c) = c
<1>1. Overriding(c.own, Default) = c.own
  BY ConfigAssumption DEF Full, IsContent, Overriding
<1>2. Merged(c) = [c EXCEPT !.own = c.own]
  BY <1>1, FullThere DEF Merged
<1>3. [c EXCEPT !.own = c.own] = c
  BY DEF Full, IsContent
<1>4. QED
  BY <1>2, <1>3

LEMMA SavedFull ==
    ASSUME NEW f, Full(f), NEW op, op.save \in SaveKinds
    PROVE  Full(Saved(op, f))
<1>1. PICK a, b, d : f = [own |-> a, active |-> b, profiles |-> d]
  BY DEF Full, IsContent
<1>2. f.own = a /\ f.own = [k \in DOMAIN f.own |-> f.own[k]] /\ Keys \subseteq DOMAIN f.own
  BY <1>1 DEF Full, IsContent
<1>3. CASE op.save = "key"
  <2>1. PICK o : o = Put(f.own, op.key, op.value)
    OBVIOUS
  <2>2. o = [k \in DOMAIN o |-> o[k]] /\ Keys \subseteq DOMAIN o
    BY <1>2, <2>1 DEF Put
  <2>3. Saved(op, f) = [f EXCEPT !.own = o]
    BY <1>3, <2>1 DEF Saved
  <2>4. QED
    BY <1>1, <2>2, <2>3 DEF Full, IsContent
<1>4. CASE op.save /= "key"
  <2>1. \E x, y : Saved(op, f) = [own |-> a, active |-> x, profiles |-> y]
    <3>1. CASE op.save = "use"
      BY <1>1, <3>1 DEF Saved
    <3>2. CASE op.save = "create"
      BY <1>1, <3>2 DEF Saved
    <3>3. CASE op.save = "profileKey"
      BY <1>1, <3>3 DEF Saved
    <3>4. CASE op.save = "remove"
      BY <1>1, <3>4 DEF Saved
    <3>5. CASE op.save = "none"
      BY <1>1, <3>5 DEF Saved
    <3>6. QED
      BY <1>4, <3>1, <3>2, <3>3, <3>4, <3>5 DEF SaveKinds
  <2>2. QED
    BY <1>2, <2>1 DEF Full, IsContent
<1>5. QED
  BY <1>3, <1>4

(* ---------------------------- the steps on them ----------------------------- *)

(* A step of another process changes nothing of q's.                          *)
Same(q) == todo'[q] = todo[q] /\ next'[q] = next[q] /\ draft'[q] = draft[q]

LEMMA IntendedSame ==
    ASSUME NEW q \in Proc, cmd' = cmd, todo'[q] = todo[q], next'[q] = next[q], without' = without
    PROVE  Intended(q)' = Intended(q)
BY DEF Intended, Restores, Copies, Does

LEMMA StoresSame ==
    ASSUME NEW q \in Proc, cmd' = cmd, pc'[q] = pc[q], Same(q)
    PROVE  /\ InStores(q)' = InStores(q)
           /\ HasSaves(q) => HasSaves(q)'
           /\ KeyCommand(q) => KeyCommand(q)'
           /\ Writer(q)' = Writer(q) /\ KeyWriter(q)' = KeyWriter(q)
           /\ without' = without => Strays(q)' = Strays(q)
           /\ without' = without /\ meant' = meant => Outcome(q)' = Outcome(q)
           /\ meantKeys' = meantKeys => KeyOutcome(q)' = KeyOutcome(q)
<1>1. InStores(q)' = InStores(q)
  BY DEF InStores, Does
<1>2. HasSaves(q) => HasSaves(q)'
  BY DEF HasSaves, Same
<1>3. KeyCommand(q) => KeyCommand(q)'
  BY DEF KeyCommand, Same
<1>4. Writer(q)' = Writer(q) /\ KeyWriter(q)' = KeyWriter(q)
  BY <1>1 DEF Writer, KeyWriter
<1>5. without' = without => Intended(q)' = Intended(q)
  BY IntendedSame DEF Same
<1>6. /\ without' = without => Strays(q)' = Strays(q)
      /\ without' = without /\ meant' = meant => Outcome(q)' = Outcome(q)
  BY <1>5 DEF Strays, Outcome, Same
<1>7. meantKeys' = meantKeys => KeyOutcome(q)' = KeyOutcome(q)
  BY DEF KeyOutcome
<1>8. QED
  BY <1>1, <1>2, <1>3, <1>4, <1>6, <1>7

Domains == /\ DOMAIN todo = Proc /\ DOMAIN next = Proc /\ DOMAIN draft = Proc
           /\ DOMAIN mixed = Proc

(* A step that writes neither file: its process may become a writer, with     *)
(* what it is to write, if there is no other.                                 *)
LEMMA StoresStays ==
    ASSUME StoresInv, NEW p \in Proc, NEW label, cmd' = cmd, Goto(p, label),
           UNCHANGED <<file, vault, creds, meant, meantKeys, mixed, without, strayed>>, Domains',
           \A q \in Proc \ {p} : Same(q),
           overlap' \in BOOLEAN, overlap => overlap',
           InStores(p) => HasSaves(p)' /\ KeyCommand(p)',
           InStores(p) /\ ~overlap' =>
               /\ pc[p] \notin {"write", "keyWrite"} /\ label \notin {"write", "keyWrite"}
               /\ label = "truncate" =>
                     /\ \A q \in Proc : ~Writer(q)
                     /\ ~strayed => Full(draft'[p]) /\ (Strays(p)' \/ draft'[p] = Outcome(p)')
               /\ label = "keyTruncate" => /\ \A q \in Proc : ~KeyWriter(q)
                                          /\ draft'[p] = KeyOutcome(p)
    PROVE  StoresInv'
<1>1. DOMAIN pc' = Proc /\ pc'[p] = label /\ \A q \in Proc \ {p} : pc'[q] = pc[q]
  BY DEF StoresInv, Goto
<1>2. InStores(p)' = InStores(p) /\ KeyOutcome(p)' = KeyOutcome(p)
  BY DEF InStores, Does, KeyOutcome
<1>3. \A q \in Proc : InStores(q)' => (HasSaves(q) /\ KeyCommand(q))'
  BY <1>1, <1>2, StoresSame DEF StoresInv
<1>4. ASSUME ~overlap' PROVE OneWriter' /\ KeysKept'
  <2>1. OneWriter /\ KeysKept
    BY <1>4 DEF StoresInv
  <2>2. OneWriter'
    <3>1. \A q \in Proc : ~mixed'[q]
      BY <2>1 DEF OneWriter
    <3>2. \A q \in Proc \ {p} : (Writer(q)' => Writer(q)) /\ (KeyWriter(q)' => KeyWriter(q))
      BY <1>1, StoresSame
    <3>3. /\ Writer(p)' => \A q \in Proc : ~Writer(q)
          /\ KeyWriter(p)' => \A q \in Proc : ~KeyWriter(q)
      BY <1>1, <1>2, <1>4 DEF Writer, KeyWriter
    <3>4. QED
      BY <2>1, <3>1, <3>2, <3>3 DEF OneWriter
  <2>3. KeysUntouched' => KeysUntouched
    BY <1>1, <1>4, StoresSame DEF KeysUntouched, KeyWriter
  <2>4. ASSUME NEW q \in Proc, KeyWriter(q)' PROVE draft'[q] = KeyOutcome(q)'
    <3>1. CASE q = p
      BY <1>1, <1>2, <1>4, <2>4, <3>1 DEF KeyWriter
    <3>2. CASE q /= p
      BY <1>1, <2>1, <2>4, <3>2, StoresSame DEF KeysKept, Same
    <3>3. QED
      BY <3>1, <3>2
  <2>5. QED
    BY <2>1, <2>2, <2>3, <2>4 DEF KeysKept
<1>5. ASSUME ~overlap', ~strayed' PROVE ConfigKept'
  <2>1. ConfigKept
    BY <1>5 DEF StoresInv
  <2>2. Untouched' => Untouched
    BY <1>1, <1>5, StoresSame DEF Untouched, Writer
  <2>3. ASSUME NEW q \in Proc, Writer(q)' PROVE Full(draft'[q]) /\ (Strays(q)' \/ draft'[q] = Outcome(q)')
    <3>1. CASE q = p
      BY <1>1, <1>2, <1>5, <2>3, <3>1 DEF Writer
    <3>2. CASE q /= p
      <4>1. Writer(q) /\ Strays(q)' = Strays(q) /\ Outcome(q)' = Outcome(q) /\ draft'[q] = draft[q]
        BY <1>1, <2>3, <3>2, StoresSame DEF Same
      <4>2. QED
        BY <2>1, <4>1 DEF ConfigKept
    <3>3. QED
      BY <3>1, <3>2
  <2>4. QED
    BY <2>1, <2>2, <2>3 DEF ConfigKept, Full, IsContent
<1>6. QED
  BY <1>1, <1>3, <1>4, <1>5 DEF StoresInv, Domains

LEMMA StoresLoads ==
    ASSUME StoresInv, NEW p \in Proc, NEW ok, NEW saves, NEW after, Load(p, ok, saves, after),
           \E S : saves \in Seq(S) /\ \A op \in S : op.save \in SaveKinds,
           after \notin {"read", "truncate", "write", "keyTruncate", "keyWrite", "rejected"},
           after \in Asking => cmd[p].do = "login", after = "forget" => cmd[p].do = "logout"
    PROVE  StoresInv'
<1>1. /\ InStores(p) /\ pc[p] = "load" /\ cmd' = cmd /\ draft' = draft
      /\ UNCHANGED <<file, vault, creds, meant, meantKeys, mixed, without, strayed>>
  BY DEF Load, keyVars
<1>2. Domains /\ DOMAIN pc = Proc /\ HasSaves(p) /\ KeyCommand(p) /\ overlap \in BOOLEAN
  BY <1>1 DEF StoresInv, Domains
<1>3. CASE Readable(file) /\ ok
  <2>1. /\ todo' = [todo EXCEPT ![p] = saves]
        /\ next' = [next EXCEPT ![p] = after]
        /\ overlap' = (overlap \/ (Does(p, {"login", "add"}) /\ Overlapped(p, {"write"})))
        /\ Goto(p, IF saves = <<>> THEN after ELSE "read")
    BY <1>3 DEF Load
  <2>2. PICK label : label = (IF saves = <<>> THEN after ELSE "read") /\ Goto(p, label)
    BY <2>1
  <2>3. Domains' /\ (\A q \in Proc \ {p} : Same(q)) /\ todo'[p] = saves /\ next'[p] = after /\ pc'[p] = label
    BY <1>1, <1>2, <2>1, <2>2 DEF Domains, Same, Goto
  <2>5. HasSaves(p)'
    BY <2>2, <2>3 DEF HasSaves
  <2>6. KeyCommand(p)'
    BY <1>1, <1>2, <2>2, <2>3 DEF KeyCommand, Asking
  <2>7. overlap' \in BOOLEAN /\ (overlap => overlap')
    BY <2>1
  <2>8. label \notin {"write", "keyWrite", "truncate", "keyTruncate"}
    BY <2>2
  <2>9. QED
    BY <1>1, <2>2, <2>3, <2>5, <2>6, <2>7, <2>8, StoresStays
<1>4. CASE ~(Readable(file) /\ ok)
  <2>1. Goto(p, "done") /\ UNCHANGED <<todo, next, overlap>>
    BY <1>4 DEF Load
  <2>2. Domains' /\ (\A q \in Proc : Same(q)) /\ pc'[p] = "done"
    BY <1>1, <1>2, <2>1 DEF Domains, Same, Goto
  <2>3. HasSaves(p)' /\ KeyCommand(p)'
    BY <1>1, <1>2, <2>1, <2>2 DEF HasSaves, KeyCommand, Asking
  <2>4. QED
    BY <1>1, <1>2, <2>1, <2>2, <2>3, StoresStays
<1>5. QED
  BY <1>3, <1>4

(* A step that leaves p's saves and contents as they are, to a harmless label.*)
LEMMA StoresPasses ==
    ASSUME StoresInv, NEW p \in Proc, NEW label, cmd' = cmd, Goto(p, label),
           UNCHANGED <<file, vault, creds, meant, meantKeys, mixed, without, strayed, todo, next, draft>>,
           overlap' \in BOOLEAN, overlap => overlap',
           InStores(p) => /\ label \notin {"read", "truncate", "write", "keyTruncate", "keyWrite"}
                          /\ label \in Asking => cmd[p].do = "login"
                          /\ label = "forget" => cmd[p].do = "logout"
                          /\ ~overlap' => pc[p] \notin {"write", "keyWrite"}
    PROVE  StoresInv'
<1>1. Domains' /\ (\A q \in Proc : Same(q)) /\ pc'[p] = label
  BY DEF StoresInv, Domains, Same, Goto
<1>2. ASSUME InStores(p) PROVE HasSaves(p)' /\ KeyCommand(p)'
  <2>1. HasSaves(p) /\ KeyCommand(p)
    BY <1>2 DEF StoresInv
  <2>2. HasSaves(p)'
    BY <1>1, <1>2, <2>1 DEF HasSaves
  <2>3. KeyCommand(p)'
    BY <1>1, <1>2, <2>1 DEF KeyCommand
  <2>4. QED
    BY <2>2, <2>3
<1>3. QED
  BY <1>1, <1>2, StoresStays

(* A save is made ready, of values that p has got.                            *)
LEMMA StoresReady ==
    ASSUME StoresInv, NEW p \in Proc, InStores(p), cmd[p].do = "login", NEW saves, NEW then, cmd' = cmd,
           pc[p] \in Asking, Goto(p, "read"),
           todo' = [todo EXCEPT ![p] = saves], next' = [next EXCEPT ![p] = then],
           UNCHANGED <<file, vault, creds, meant, meantKeys, mixed, without, strayed, draft, overlap>>,
           \E S : saves \in Seq(S) /\ \A op \in S : op.save = "key" /\ op.key \in Keys,
           saves /= <<>>, then \in Asking \cup {"rejected"}
    PROVE  StoresInv'
<1>1. Domains /\ DOMAIN pc = Proc /\ KeyCommand(p) /\ overlap \in BOOLEAN
  BY DEF StoresInv, Domains
<1>2. Domains' /\ (\A q \in Proc \ {p} : Same(q)) /\ todo'[p] = saves /\ next'[p] = then /\ pc'[p] = "read"
  BY <1>1 DEF Domains, Same, Goto
<1>3. HasSaves(p)'
  BY <1>2 DEF HasSaves, SaveKinds
<1>4. KeyCommand(p)'
  BY <1>1, <1>2 DEF KeyCommand, Asking
<1>5. pc[p] \notin {"write", "keyWrite"}
  BY DEF Asking
<1>6. QED
  BY <1>1, <1>2, <1>3, <1>4, <1>5, StoresStays

LEMMA NoWriters ==
    ASSUME NEW p \in Proc, InStores(p), pc[p] \notin {"truncate", "write"}, ~Overlapped(p, {"truncate", "write"})
    PROVE  \A q \in Proc : ~Writer(q)
BY DEF Writer, Overlapped

LEMMA StatKeeps == ASSUME StoresInv, NEW p \in Proc, StatConfig(p) PROVE StoresInv'
<1>1. /\ InStores(p) /\ pc[p] \in {"start", "doctor"} /\ cmd' = cmd
      /\ UNCHANGED <<file, vault, creds, meant, meantKeys, mixed, without, strayed>>
  BY DEF StatConfig, keyVars
<1>2. Domains /\ DOMAIN pc = Proc /\ HasSaves(p) /\ KeyCommand(p) /\ overlap \in BOOLEAN
  BY <1>1 DEF StoresInv, Domains
<1>3. CASE file = Absent
  <2>1. PICK op : op = [save |-> "none"]
    OBVIOUS
  <2>2. /\ draft' = [draft EXCEPT ![p] = DefaultFile] /\ todo' = [todo EXCEPT ![p] = <<op>>]
        /\ next' = [next EXCEPT ![p] = "load"] /\ Goto(p, "truncate")
        /\ overlap' = (overlap \/ Overlapped(p, {"truncate", "write"}))
    BY <1>3, <2>1 DEF StatConfig
  <2>3. /\ Domains' /\ (\A q \in Proc \ {p} : Same(q)) /\ pc'[p] = "truncate"
        /\ todo'[p] = <<op>> /\ next'[p] = "load" /\ draft'[p] = DefaultFile
    BY <1>1, <1>2, <2>2 DEF Domains, Same, Goto
  <2>4. ~Restores(p)'
    BY <2>3 DEF Restores
  <2>5. HasSaves(p)'
    <3>1. op.save \in SaveKinds
      BY <2>1 DEF SaveKinds
    <3>2. <<op>> \in Seq({op}) /\ <<op>> /= <<>>
      OBVIOUS
    <3>3. \A x \in {op} : x.save \in SaveKinds
      BY <3>1
    <3>4. QED
      BY <2>3, <3>2, <3>3, ZenonT(30) DEF HasSaves
  <2>6. KeyCommand(p)'
    BY <1>1, <1>2, <2>3 DEF KeyCommand, Asking
  <2>7. overlap' \in BOOLEAN /\ (overlap => overlap')
    BY <2>2 DEF Overlapped
  <2>8. ASSUME ~overlap' PROVE \A q \in Proc : ~Writer(q)
    BY <1>1, <2>2, <2>8, NoWriters
  <2>9. Full(DefaultFile)
    BY ConfigAssumption DEF Full, IsContent, DefaultFile
  <2>10. ASSUME ~overlap', ~strayed PROVE draft'[p] = Outcome(p)'
    <3>1. meant = DefaultFile
      BY <1>3, <2>7, <2>8, <2>10 DEF StoresInv, ConfigKept, Untouched, Merged
    <3>2. Head(<<op>>) = op
      OBVIOUS
    <3>3. ~Refused(op, meant) /\ Saved(op, meant) = meant
      BY <2>1 DEF Refused, Saved
    <3>4. Intended(p)' = op
      BY <2>1, <2>3, <2>4, <3>2 DEF Intended, Copies
    <3>5. Outcome(p)' = meant
      BY <1>1, <3>3, <3>4 DEF Outcome, Taken
    <3>6. QED
      BY <2>3, <3>1, <3>5
  <2>11. QED
    BY <1>1, <2>2, <2>3, <2>5, <2>6, <2>7, <2>8, <2>9, <2>10, StoresStays
<1>4. CASE file /= Absent
  BY <1>1, <1>2, <1>4, StoresPasses DEF StatConfig, Asking
<1>5. QED
  BY <1>3, <1>4

LEMMA ReadKeeps == ASSUME StoresInv, NEW p \in Proc, ReadConfig(p) PROVE StoresInv'
<1>1. /\ InStores(p) /\ pc[p] = "read" /\ cmd' = cmd
      /\ UNCHANGED <<file, todo, next, vault, creds, meant, meantKeys, mixed, without, strayed>>
      /\ overlap' = (overlap \/ Overlapped(p, {"truncate", "write"}))
  BY DEF ReadConfig, keyVars
<1>2. Domains /\ DOMAIN pc = Proc /\ HasSaves(p) /\ KeyCommand(p) /\ overlap \in BOOLEAN
  BY <1>1 DEF StoresInv, Domains
<1>3. overlap' \in BOOLEAN /\ (overlap => overlap')
  BY <1>1, <1>2 DEF Overlapped
<1>4. CASE ~Readable(file) \/ Refused(Head(todo[p]), Merged(file))
  BY <1>1, <1>2, <1>3, <1>4, StoresPasses DEF ReadConfig, Asking
<1>5. CASE ~(~Readable(file) \/ Refused(Head(todo[p]), Merged(file)))
  <2>1. PICK op : op = Head(todo[p])
    OBVIOUS
  <2>2. draft' = [draft EXCEPT ![p] = Saved(op, Merged(file))] /\ Goto(p, "truncate")
    BY <1>5, <2>1 DEF ReadConfig, Drafted
  <2>3. /\ Domains' /\ (\A q \in Proc \ {p} : Same(q)) /\ pc'[p] = "truncate"
        /\ draft'[p] = Saved(op, Merged(file))
    BY <1>1, <1>2, <2>2 DEF Domains, Same, Goto
  <2>4. HasSaves(p)' /\ KeyCommand(p)'
    BY <1>1, <1>2, <2>3 DEF HasSaves, KeyCommand, Asking
  <2>5. op.save \in SaveKinds
    <3>1. PICK S : todo[p] \in Seq(S) /\ todo[p] /= <<>> /\ \A x \in S : x.save \in SaveKinds
      BY <1>1, <1>2 DEF HasSaves
    <3>2. Head(todo[p]) \in S
      BY <3>1
    <3>3. QED
      BY <2>1, <3>1, <3>2
  <2>6. ASSUME ~overlap' PROVE \A q \in Proc : ~Writer(q)
    BY <1>1, <2>6, NoWriters
  <2>7. ASSUME ~overlap', ~strayed
        PROVE  Full(draft'[p]) /\ (Strays(p)' \/ draft'[p] = Outcome(p)')
    <3>1. Merged(file) = meant /\ Full(meant)
      BY <1>3, <1>5, <2>6, <2>7 DEF StoresInv, ConfigKept, Untouched
    <3>2. Full(Saved(op, meant))
      BY <2>5, <3>1, SavedFull
    <3>3. Outcome(p)' = Outcome(p) /\ Strays(p)' = Strays(p)
      BY <1>1, IntendedSame DEF Outcome, Strays
    <3>4. CASE Strays(p)
      BY <2>3, <3>1, <3>2, <3>3, <3>4
    <3>5. CASE ~Strays(p)
      <4>1. Outcome(p) = Taken(op, meant)
        BY <2>1, <3>5 DEF Outcome, Strays
      <4>2. ~Refused(op, meant)
        BY <1>5, <2>1, <3>1
      <4>3. Outcome(p) = Saved(op, meant)
        BY <4>1, <4>2 DEF Taken
      <4>4. QED
        BY <2>3, <3>1, <3>2, <3>3, <4>3
    <3>6. QED
      BY <3>4, <3>5
  <2>8. QED
    BY <1>1, <1>3, <2>2, <2>3, <2>4, <2>6, <2>7, StoresStays
<1>6. QED
  BY <1>4, <1>5

LEMMA TruncateKeeps == ASSUME StoresInv, NEW p \in Proc, TruncateConfig(p) PROVE StoresInv'
<1>1. /\ InStores(p) /\ pc[p] = "truncate" /\ cmd' = cmd /\ Goto(p, "write") /\ file' = Emptied
      /\ UNCHANGED <<todo, next, draft, vault, creds, meant, meantKeys, strayed, without, overlap>>
      /\ mixed' = [q \in Proc |-> mixed[q] /\ pc[q] /= "write"]
  BY DEF TruncateConfig, keyVars
<1>2. Domains /\ DOMAIN pc = Proc /\ HasSaves(p) /\ KeyCommand(p)
  BY <1>1 DEF StoresInv, Domains
<1>3. /\ Domains' /\ DOMAIN pc' = Proc /\ (\A q \in Proc : Same(q))
      /\ pc'[p] = "write" /\ \A q \in Proc \ {p} : pc'[q] = pc[q]
  BY <1>1, <1>2 DEF Domains, Same, Goto
<1>4. HasSaves(p)' /\ KeyCommand(p)' /\ InStores(p)'
  BY <1>1, <1>2, <1>3 DEF HasSaves, KeyCommand, Asking, InStores, Does
<1>5. \A q \in Proc : InStores(q)' => (HasSaves(q) /\ KeyCommand(q))'
  BY <1>1, <1>3, <1>4, StoresSame DEF StoresInv
<1>6. /\ Writer(p) /\ ~KeyWriter(p) /\ Writer(p)' /\ ~KeyWriter(p)'
      /\ Strays(p)' = Strays(p) /\ Outcome(p)' = Outcome(p)
  BY <1>1, <1>3, <1>4, IntendedSame DEF Writer, KeyWriter, Strays, Outcome
<1>7. /\ \A q \in Proc : Writer(q)' = Writer(q) /\ KeyWriter(q)' = KeyWriter(q) /\ Strays(q)' = Strays(q)
      /\ \A q \in Proc : Outcome(q)' = Outcome(q)
  BY <1>1, <1>3, <1>6, StoresSame DEF Writer, KeyWriter
<1>8. \A q \in Proc : KeyOutcome(q)' = KeyOutcome(q)
  BY <1>1 DEF KeyOutcome
<1>9. ASSUME ~overlap PROVE OneWriter' /\ KeysKept'
  <2>1. OneWriter /\ KeysKept
    BY <1>9 DEF StoresInv
  <2>2. OneWriter'
    BY <1>1, <1>7, <2>1 DEF OneWriter
  <2>3. KeysUntouched' => KeysUntouched
    BY <1>1, <1>3, <1>7 DEF KeysUntouched
  <2>4. QED
    BY <1>1, <1>7, <1>8, <2>1, <2>2, <2>3 DEF KeysKept
<1>10. ASSUME ~overlap, ~strayed PROVE ConfigKept'
  <2>1. ConfigKept
    BY <1>10 DEF StoresInv
  <2>2. ~Untouched'
    BY <1>3, <1>6 DEF Untouched
  <2>3. QED
    BY <1>1, <1>7, <2>1, <2>2 DEF ConfigKept
<1>11. QED
  BY <1>1, <1>3, <1>5, <1>9, <1>10 DEF StoresInv, Domains

LEMMA WriteKeeps == ASSUME StoresInv, NEW p \in Proc, WriteConfig(p) PROVE StoresInv'
<1>1. /\ InStores(p) /\ pc[p] = "write" /\ cmd' = cmd
      /\ UNCHANGED <<next, draft, vault, creds, meantKeys, overlap>>
      /\ file' = draft[p] \/ mixed[p]
      /\ mixed' = [q \in Proc |-> mixed[q] \/ (q /= p /\ InStores(q) /\ pc[q] = "write")]
      /\ meant' = Outcome(p) /\ strayed' = (strayed \/ Strays(p))
      /\ todo' = [todo EXCEPT ![p] = Tail(@)]
      /\ Goto(p, IF Len(todo[p]) > 1 THEN "read" ELSE next[p])
  BY DEF WriteConfig, keyVars, Outcome, Strays
<1>2. Domains /\ DOMAIN pc = Proc /\ HasSaves(p) /\ KeyCommand(p) /\ strayed \in BOOLEAN
  BY <1>1 DEF StoresInv, Domains
<1>3. /\ Domains' /\ DOMAIN pc' = Proc /\ (\A q \in Proc \ {p} : Same(q) /\ pc'[q] = pc[q])
      /\ todo'[p] = Tail(todo[p]) /\ next'[p] = next[p]
      /\ pc'[p] = IF Len(todo[p]) > 1 THEN "read" ELSE next[p]
  BY <1>1, <1>2 DEF Domains, Same, Goto
<1>4. pc'[p] \notin {"truncate", "write", "keyTruncate", "keyWrite"}
  BY <1>2, <1>3 DEF KeyCommand
<1>5. InStores(p)'
  BY <1>1, <1>3 DEF InStores, Does
<1>6. HasSaves(p)'
  <2>1. PICK S : todo[p] \in Seq(S) /\ todo[p] /= <<>> /\ \A x \in S : x.save \in SaveKinds
    BY <1>1, <1>2 DEF HasSaves
  <2>2. Tail(todo[p]) \in Seq(S) /\ Len(Tail(todo[p])) = Len(todo[p]) - 1 /\ Len(todo[p]) \in Nat
    BY <2>1
  <2>4. Len(<<>>) = 0
    OBVIOUS
  <2>5. pc'[p] \in {"read", "truncate", "write"} => Len(todo[p]) > 1
    BY <1>2, <1>3 DEF KeyCommand
  <2>6. pc'[p] \in {"read", "truncate", "write"} => todo'[p] /= <<>>
    <3>1. PICK u, n : u = Tail(todo[p]) /\ n = Len(todo[p])
      OBVIOUS
    <3>2. n \in Nat /\ Len(u) = n - 1 /\ (n > 1 => Len(u) /= 0)
      BY <2>2, <3>1
    <3>3. n > 1 => u /= <<>>
      BY <2>4, <3>2
    <3>4. QED
      BY <1>3, <2>5, <3>1, <3>3
  <2>7. todo'[p] \in Seq(S)
    BY <1>3, <2>2
  <2>8. QED
    BY <2>1, <2>6, <2>7 DEF HasSaves
<1>7. KeyCommand(p)'
  BY <1>1, <1>2, <1>3, <1>4 DEF KeyCommand, Asking
<1>8. \A q \in Proc : InStores(q)' => (HasSaves(q) /\ KeyCommand(q))'
  BY <1>1, <1>3, <1>6, <1>7, StoresSame DEF StoresInv
<1>9. Writer(p) /\ ~KeyWriter(p) /\ ~Writer(p)' /\ ~KeyWriter(p)'
  BY <1>1, <1>4 DEF Writer, KeyWriter
<1>10. /\ \A q \in Proc \ {p} : Writer(q)' = Writer(q) /\ KeyWriter(q)' = KeyWriter(q)
       /\ \A q \in Proc : KeyOutcome(q)' = KeyOutcome(q)
  BY <1>1, <1>3, StoresSame DEF KeyOutcome
<1>11. ASSUME ~overlap PROVE OneWriter' /\ KeysKept' /\ (\A q \in Proc : ~Writer(q)') /\ ~mixed[p]
  <2>1. OneWriter /\ KeysKept
    BY <1>11 DEF StoresInv
  <2>2. \A q \in Proc \ {p} : ~Writer(q) /\ ~(InStores(q) /\ pc[q] = "write")
    BY <1>9, <2>1 DEF OneWriter, Writer
  <2>3. OneWriter' /\ \A q \in Proc : ~Writer(q)'
    BY <1>1, <1>9, <1>10, <2>1, <2>2 DEF OneWriter
  <2>4. KeysUntouched' => KeysUntouched
    BY <1>3, <1>9, <1>10 DEF KeysUntouched
  <2>5. KeysKept'
    BY <1>1, <1>9, <1>10, <2>1, <2>4 DEF KeysKept
  <2>6. QED
    BY <2>1, <2>3, <2>5 DEF OneWriter
<1>12. ASSUME ~overlap, ~strayed' PROVE ConfigKept'
  <2>1. ConfigKept /\ ~Strays(p)
    BY <1>1, <1>2, <1>12 DEF StoresInv
  <2>2. Full(draft[p]) /\ draft[p] = Outcome(p)
    BY <1>9, <2>1 DEF ConfigKept
  <2>3. file' = draft[p] /\ \A q \in Proc : ~Writer(q)'
    BY <1>1, <1>11, <1>12
  <2>4. Merged(file') = meant' /\ Full(meant')
    BY <1>1, <2>2, <2>3, MergedFull
  <2>5. QED
    BY <2>3, <2>4 DEF ConfigKept, Full, IsContent
<1>13. strayed' \in BOOLEAN
  BY <1>1, <1>2 DEF Strays
<1>14. QED
  BY <1>1, <1>3, <1>8, <1>11, <1>12, <1>13 DEF StoresInv, Domains

(* A value the user may enter, and what a login asks.                         *)
LEMMA EnterKeeps ==
    ASSUME StoresInv, NEW p \in Proc, InStores(p), pc[p] \in Asking, NEW key \in Keys, NEW then \in Asking,
           MayEnter(p, key, then),
           UNCHANGED <<cmd, file, draft, from, mixed, keyVars, backend, meant, without, overlap, strayed>>
    PROVE  StoresInv'
<1>1. KeyCommand(p) /\ cmd[p].do = "login" /\ overlap \in BOOLEAN
  BY DEF StoresInv, KeyCommand
<1>2. then \notin {"read", "truncate", "write", "keyTruncate", "keyWrite", "forget"} /\ pc[p] \notin {"write", "keyWrite"}
  BY DEF Asking
<1>3. CASE Goto(p, then) /\ UNCHANGED <<todo, next>>
  BY <1>1, <1>2, <1>3, StoresPasses DEF keyVars
<1>4. CASE ~(Goto(p, then) /\ UNCHANGED <<todo, next>>)
  <2>1. PICK op : op = [save |-> "key", key |-> key, value |-> "own"]
    OBVIOUS
  <2>2. todo' = [todo EXCEPT ![p] = <<op>>] /\ next' = [next EXCEPT ![p] = then] /\ Goto(p, "read")
    BY <1>4, <2>1 DEF MayEnter
  <2>3. op.save = "key" /\ op.key \in Keys
    BY <2>1
  <2>4. <<op>> \in Seq({op}) /\ <<op>> /= <<>>
    OBVIOUS
  <2>5. \E S : <<op>> \in Seq(S) /\ \A x \in S : x.save = "key" /\ x.key \in Keys
    BY <2>3, <2>4
  <2>6. QED
    BY <1>1, <2>2, <2>4, <2>5, StoresReady DEF keyVars
<1>5. QED
  BY <1>3, <1>4

LEMMA AskKeeps == ASSUME StoresInv, NEW p \in Proc, AskBaseURL(p) \/ AskModel(p) PROVE StoresInv'
<1>1. /\ InStores(p) /\ pc[p] \in {"ask", "askModel"}
      /\ UNCHANGED <<cmd, file, draft, from, mixed, keyVars, backend, meant, without, overlap, strayed>>
  BY DEF AskBaseURL, AskModel
<1>2. cmd[p].do = "login" /\ overlap \in BOOLEAN
  BY <1>1 DEF StoresInv, KeyCommand, Asking
<1>3. \/ Goto(p, "done") /\ UNCHANGED <<todo, next>>
      \/ Goto(p, "ping") /\ UNCHANGED <<todo, next>>
      \/ MayEnter(p, "url", "askModel")
      \/ MayEnter(p, "model", "ping")
  BY DEF AskBaseURL, AskModel
<1>4. CASE \E label \in {"done", "ping"} : Goto(p, label) /\ UNCHANGED <<todo, next>>
  BY <1>1, <1>2, <1>4, StoresPasses DEF keyVars
<1>5. CASE MayEnter(p, "url", "askModel") \/ MayEnter(p, "model", "ping")
  <2>1. {"url", "model"} \subseteq Keys /\ {"askModel", "ping"} \subseteq Asking /\ pc[p] \in Asking
    BY <1>1, ConfigAssumption DEF Asking
  <2>2. QED
    BY <1>1, <1>5, <2>1, EnterKeeps
<1>6. QED
  BY <1>3, <1>4, <1>5

LEMMA PingKeeps == ASSUME StoresInv, NEW p \in Proc, Ping(p) PROVE StoresInv'
<1>1. /\ InStores(p) /\ pc[p] = "ping"
      /\ UNCHANGED <<cmd, file, draft, from, mixed, keyVars, backend, meant, without, overlap, strayed>>
  BY DEF Ping
<1>2. cmd[p].do = "login" /\ overlap \in BOOLEAN
  BY <1>1 DEF StoresInv, KeyCommand, Asking
<1>3. CASE Goto(p, "keep") /\ UNCHANGED <<todo, next>>
  BY <1>1, <1>2, <1>3, StoresPasses DEF keyVars
<1>4. CASE ~(Goto(p, "keep") /\ UNCHANGED <<todo, next>>)
  <2> DEFINE Back(k) == [save |-> "key", key |-> k, value |-> seen[p].value[k]]
             three == <<"provider", "model", "url">>
             saves == [n \in 1..3 |-> Back(three[n])]
  <2>1. todo' = [todo EXCEPT ![p] = saves] /\ next' = [next EXCEPT ![p] = "rejected"] /\ Goto(p, "read")
    BY <1>4 DEF Ping
  <2>2. PICK S : S = {Back(k) : k \in Keys}
    OBVIOUS
  <2>3. \A n \in 1..3 : three[n] \in Keys
    BY ConfigAssumption
  <2>4. \A n \in 1..3 : Back(three[n]) \in S
    BY <2>2, <2>3
  <2>5. saves \in Seq(S) /\ saves /= <<>>
    <3>1. PICK r : r = saves
      OBVIOUS
    <3>2. r = [n \in 1..3 |-> r[n]] /\ \A n \in 1..3 : r[n] \in S
      BY <2>4, <3>1
    <3>3. r \in Seq(S) /\ Len(r) = 3
      BY <3>2
    <3>a. Len(<<>>) = 0
      OBVIOUS
    <3>b. Len(r) /= Len(<<>>)
      BY <3>3, <3>a
    <3>c. \A w : w = <<>> => Len(w) = Len(<<>>)
      OBVIOUS
    <3>4. r /= <<>>
      BY <3>b, <3>c, Zenon
    <3>5. QED
      BY <3>1, <3>3, <3>4
  <2>6. \A x \in S : x.save = "key" /\ x.key \in Keys
    BY <2>2
  <2> HIDE DEF saves
  <2>7. \E R : saves \in Seq(R) /\ \A x \in R : x.save = "key" /\ x.key \in Keys
    BY <2>5, <2>6
  <2>8. QED
    BY <1>1, <1>2, <2>1, <2>5, <2>7, StoresReady DEF keyVars, Asking
<1>5. QED
  BY <1>3, <1>4

(* ------------------------------- the keys ----------------------------------- *)

LEMMA KeysThere == ASSUME NEW m, "no" \notin DOMAIN m PROVE KeysIn(m) = m
<1>1. \A x : DOMAIN [no |-> x] = {"no"}
  OBVIOUS
<1>2. m \notin {Absent, Emptied}
  BY <1>1 DEF Absent, Emptied
<1>3. QED
  BY <1>2 DEF KeysIn

(* A step on the keys alone, of a process that writes no configuration.       *)
LEMMA KeysMove ==
    ASSUME StoresInv, NEW p \in Proc, NEW label, InStores(p), cmd' = cmd, Goto(p, label),
           pc[p] \in {"keep", "forget", "keyTruncate", "keyWrite"},
           label \in {"keyWrite", "done"}, label = "keyWrite" => KeyWriter(p),
           UNCHANGED <<file, todo, next, draft, meant, strayed, without, overlap>>, DOMAIN mixed' = Proc,
           meantKeys' = [keychain |-> meantKeys'.keychain, file |-> meantKeys'.file],
           ~overlap => KeysKept' /\ \A q \in Proc : ~mixed'[q]
    PROVE  StoresInv'
<1>1. /\ DOMAIN pc' = Proc /\ Domains' /\ (\A q \in Proc : Same(q))
      /\ pc'[p] = label /\ \A q \in Proc \ {p} : pc'[q] = pc[q]
  BY DEF StoresInv, Goto, Domains, Same
<1>2. HasSaves(p)' /\ KeyCommand(p)' /\ InStores(p)'
  <2>1. HasSaves(p) /\ KeyCommand(p)
    BY DEF StoresInv
  <2>2. HasSaves(p)'
    BY <1>1, <2>1 DEF HasSaves
  <2>3. KeyCommand(p)'
    BY <1>1, <2>1 DEF KeyCommand, KeyWriter, Asking
  <2>4. QED
    BY <2>2, <2>3 DEF InStores, Does
<1>3. \A q \in Proc : InStores(q)' => (HasSaves(q) /\ KeyCommand(q))'
  BY <1>1, <1>2, StoresSame DEF StoresInv
<1>4. ~Writer(p) /\ ~Writer(p)' /\ (KeyWriter(p)' => KeyWriter(p))
  BY <1>1 DEF Writer, KeyWriter
<1>5. \A q \in Proc : Writer(q)' = Writer(q) /\ (KeyWriter(q)' => KeyWriter(q))
  <2>1. \A q \in Proc \ {p} : Writer(q)' = Writer(q) /\ KeyWriter(q)' = KeyWriter(q)
    BY <1>1, StoresSame
  <2>2. Writer(p)' = Writer(p)
    BY <1>4 DEF Writer
  <2>3. QED
    BY <1>4, <2>1, <2>2
<1>6. \A q \in Proc : Strays(q)' = Strays(q) /\ Outcome(q)' = Outcome(q)
  BY IntendedSame DEF Strays, Outcome
<1>7. ASSUME ~overlap PROVE OneWriter'
  BY <1>5, <1>7 DEF StoresInv, OneWriter
<1>8. ASSUME ~overlap, ~strayed PROVE ConfigKept'
  <2>1. ConfigKept
    BY <1>8 DEF StoresInv
  <2>2. Untouched' => Untouched
    BY <1>1, <1>4, <1>5 DEF Untouched
  <2>3. QED
    BY <1>5, <1>6, <2>1, <2>2 DEF ConfigKept
<1>9. QED
  BY <1>1, <1>3, <1>7, <1>8 DEF StoresInv, Domains

LEMMA KeychainKeeps == ASSUME StoresInv, NEW p \in Proc, InKeychain(p) PROVE StoresInv'
<1>1. /\ InStores(p) /\ pc[p] \in {"keep", "forget"} /\ cmd' = cmd /\ Goto(p, "done")
      /\ UNCHANGED <<file, todo, next, draft, mixed, meant, strayed, without, overlap, creds>>
      /\ vault' = KeyChange(p, vault)
      /\ meantKeys' = [meantKeys EXCEPT !.keychain = KeyChange(p, @)]
  BY DEF InKeychain, configVars
<1>2. DOMAIN mixed = Proc /\ DOMAIN pc = Proc /\ meantKeys = [keychain |-> meantKeys.keychain, file |-> meantKeys.file]
  BY DEF StoresInv
<1>3. PICK m : m = KeyChange(p, meantKeys.keychain)
  OBVIOUS
<1>4. meantKeys' = [keychain |-> m, file |-> meantKeys.file]
  BY <1>1, <1>2, <1>3
<1>5. meantKeys'.keychain = m /\ meantKeys'.file = meantKeys.file
  BY <1>4
<1>6. ASSUME ~overlap PROVE KeysKept' /\ \A q \in Proc : ~mixed'[q]
  <2>1. KeysKept /\ OneWriter
    BY <1>6 DEF StoresInv
  <2>2. vault' = meantKeys'.keychain
    BY <1>1, <1>3, <1>5, <2>1 DEF KeysKept
  <2>3. \A q \in Proc : KeyWriter(q)' => KeyWriter(q) /\ pc'[q] = pc[q]
    BY <1>1, <1>2 DEF KeyWriter, InStores, Does, Goto
  <2>4. \A q \in Proc : KeyOutcome(q)' = KeyOutcome(q)
    BY <1>1, <1>5 DEF KeyOutcome
  <2>5. \A q \in Proc : KeyWriter(q) => KeyWriter(q)' /\ pc'[q] = pc[q]
    BY <1>1, <1>2 DEF KeyWriter, InStores, Does, Goto
  <2>6. KeysUntouched' => KeysUntouched
    BY <2>5 DEF KeysUntouched
  <2>7. QED
    BY <1>1, <1>5, <2>1, <2>2, <2>3, <2>4, <2>6 DEF KeysKept, OneWriter
<1>7. meantKeys' = [keychain |-> meantKeys'.keychain, file |-> meantKeys'.file]
  BY <1>4, <1>5
<1>8. QED
  BY <1>1, <1>2, <1>6, <1>7, KeysMove

LEMMA KeyReadKeeps == ASSUME StoresInv, NEW p \in Proc, KeyRead(p) PROVE StoresInv'
<1>1. /\ InStores(p) /\ pc[p] \in {"keep", "forget"} /\ cmd' = cmd
      /\ UNCHANGED <<file, todo, next, mixed, vault, creds, meantKeys, meant, without, strayed>>
      /\ overlap' = (overlap \/ Overlapped(p, {"keyTruncate", "keyWrite"}))
  BY DEF KeyRead, keyVars
<1>2. Domains /\ DOMAIN pc = Proc /\ HasSaves(p) /\ KeyCommand(p) /\ overlap \in BOOLEAN
  BY <1>1 DEF StoresInv, Domains
<1>3. overlap' \in BOOLEAN /\ (overlap => overlap')
  BY <1>1, <1>2 DEF Overlapped
<1>4. CASE Goto(p, "done") /\ UNCHANGED draft
  BY <1>1, <1>2, <1>3, <1>4, StoresPasses DEF Asking
<1>5. CASE ~(Goto(p, "done") /\ UNCHANGED draft)
  <2>1. PICK d : d = KeyChange(p, KeysIn(creds))
    OBVIOUS
  <2>2. draft' = [draft EXCEPT ![p] = d] /\ Goto(p, "keyTruncate")
    BY <1>5, <2>1 DEF KeyRead
  <2>3. /\ Domains' /\ (\A q \in Proc \ {p} : Same(q)) /\ pc'[p] = "keyTruncate"
        /\ draft'[p] = d
    BY <1>1, <1>2, <2>2 DEF Domains, Same, Goto
  <2>4. cmd[p].do = IF pc[p] = "keep" THEN "login" ELSE "logout"
    BY <1>1, <1>2 DEF KeyCommand, Asking
  <2>5. HasSaves(p)' /\ KeyCommand(p)'
    BY <1>1, <1>2, <2>3, <2>4 DEF HasSaves, KeyCommand, Asking
  <2>6. ASSUME ~overlap' PROVE (\A q \in Proc : ~KeyWriter(q)) /\ draft'[p] = KeyOutcome(p)
    <3>1. \A q \in Proc : ~KeyWriter(q)
      BY <1>1, <2>6 DEF KeyWriter, Overlapped
    <3>2. KeysIn(creds) = meantKeys.file
      BY <1>3, <2>6, <3>1 DEF StoresInv, KeysKept, KeysUntouched
    <3>3. QED
      BY <2>1, <2>3, <2>4, <3>1, <3>2 DEF KeyChange, KeyOutcome
  <2>7. pc[p] \notin {"write", "keyWrite"}
    BY <1>1
  <2>8. QED
    BY <1>1, <1>3, <2>2, <2>3, <2>5, <2>6, <2>7, StoresStays
<1>6. QED
  BY <1>4, <1>5

LEMMA KeyTruncateKeeps == ASSUME StoresInv, NEW p \in Proc, KeyTruncate(p) PROVE StoresInv'
<1>1. /\ InStores(p) /\ pc[p] = "keyTruncate" /\ cmd' = cmd /\ Goto(p, "keyWrite")
      /\ UNCHANGED <<file, todo, next, draft, meant, strayed, without, overlap, vault, meantKeys>>
      /\ mixed' = [q \in Proc |-> mixed[q] /\ pc[q] /= "keyWrite"]
  BY DEF KeyTruncate
<1>2. /\ DOMAIN mixed' = Proc /\ DOMAIN pc = Proc /\ KeyWriter(p)
      /\ meantKeys = [keychain |-> meantKeys.keychain, file |-> meantKeys.file]
  BY <1>1 DEF StoresInv, KeyWriter
<1>3. /\ KeyWriter(p)' /\ pc'[p] = "keyWrite"
      /\ \A q \in Proc : KeyWriter(q)' => KeyWriter(q)
  BY <1>1, <1>2 DEF KeyWriter, InStores, Does, Goto
<1>4. \A q \in Proc : KeyOutcome(q)' = KeyOutcome(q)
  BY <1>1 DEF KeyOutcome
<1>5. ASSUME ~overlap PROVE KeysKept' /\ \A q \in Proc : ~mixed'[q]
  <2>1. KeysKept /\ OneWriter
    BY <1>5 DEF StoresInv
  <2>2. ~KeysUntouched'
    BY <1>3 DEF KeysUntouched
  <2>3. QED
    BY <1>1, <1>3, <1>4, <2>1, <2>2 DEF KeysKept, OneWriter
<1>6. QED
  BY <1>1, <1>2, <1>5, KeysMove

LEMMA KeyWriteKeeps == ASSUME StoresInv, NEW p \in Proc, KeyWrite(p) PROVE StoresInv'
<1>1. /\ InStores(p) /\ pc[p] = "keyWrite" /\ cmd' = cmd /\ Goto(p, "done")
      /\ UNCHANGED <<file, todo, next, draft, meant, strayed, without, overlap, vault>>
      /\ creds' = draft[p] \/ mixed[p]
      /\ mixed' = [q \in Proc |-> mixed[q] \/ (q /= p /\ InStores(q) /\ pc[q] = "keyWrite")]
      /\ meantKeys' = [meantKeys EXCEPT !.file =
             IF cmd[p].do = "login" THEN Put(@, cmd[p].provider, p) ELSE Minus(@, cmd[p].provider)]
  BY DEF KeyWrite
<1>2. /\ DOMAIN mixed' = Proc /\ DOMAIN pc = Proc /\ KeyWriter(p) /\ KeyCommand(p)
      /\ meantKeys = [keychain |-> meantKeys.keychain, file |-> meantKeys.file]
  BY <1>1 DEF StoresInv, KeyWriter
<1>3. PICK m : m = KeyOutcome(p)
  OBVIOUS
<1>4. meantKeys' = [keychain |-> meantKeys.keychain, file |-> m]
  BY <1>1, <1>2, <1>3 DEF KeyOutcome
<1>5. meantKeys'.keychain = meantKeys.keychain /\ meantKeys'.file = m
  BY <1>4
<1>6. /\ ~KeyWriter(p)'
      /\ \A q \in Proc \ {p} : KeyWriter(q)' = KeyWriter(q) /\ pc'[q] = pc[q]
  BY <1>1, <1>2 DEF KeyWriter, InStores, Does, Goto
<1>7. ASSUME ~overlap PROVE KeysKept' /\ \A q \in Proc : ~mixed'[q]
  <2>1. KeysKept /\ OneWriter
    BY <1>7 DEF StoresInv
  <2>2. \A q \in Proc \ {p} : ~KeyWriter(q) /\ ~(InStores(q) /\ pc[q] = "keyWrite")
    BY <1>2, <2>1 DEF OneWriter, KeyWriter
  <2>3. creds' = m
    BY <1>1, <1>2, <1>3, <2>1 DEF KeysKept, OneWriter
  <2>4. cmd[p].provider /= "no"
    BY <1>1, <1>2, StoresAssumption DEF KeyCommand
  <2>5. "no" \notin DOMAIN m
    BY <1>3, <2>1, <2>4 DEF KeysKept, KeyOutcome, Put, Minus
  <2>6. KeysIn(creds') = meantKeys'.file
    BY <1>5, <2>3, <2>5, KeysThere
  <2>7. \A q \in Proc : ~KeyWriter(q)' /\ ~mixed'[q]
    BY <1>1, <1>6, <2>1, <2>2 DEF OneWriter
  <2>8. QED
    BY <1>1, <1>5, <2>1, <2>5, <2>6, <2>7 DEF KeysKept, KeysIn
<1>8. meantKeys' = [keychain |-> meantKeys'.keychain, file |-> meantKeys'.file]
  BY <1>4, <1>5
<1>9. QED
  BY <1>1, <1>2, <1>7, <1>8, KeysMove

(* ----------------------------- all steps of Home ---------------------------- *)

LEMMA LoadsKeep ==
    ASSUME StoresInv, NEW p \in Proc,
           \/ Show(p) \/ ConfigSet(p) \/ LoginLoad(p) \/ LogoutLoad(p)
           \/ ProfileUse(p) \/ ProfileAdd(p) \/ ProfileSet(p) \/ ProfileRemove(p) \/ StatusLoad(p)
    PROVE  StoresInv'
<1>1. \A op : op.save \in SaveKinds => \E S : <<op>> \in Seq(S) /\ \A x \in S : x.save \in SaveKinds
  <2> SUFFICES ASSUME NEW op, op.save \in SaveKinds
               PROVE  \E S : <<op>> \in Seq(S) /\ \A x \in S : x.save \in SaveKinds
    OBVIOUS
  <2>1. <<op>> \in Seq({op})
    OBVIOUS
  <2>2. QED
    BY <2>1
<1>2. \E S : <<>> \in Seq(S) /\ \A x \in S : x.save \in SaveKinds
  <2>1. <<>> \in Seq({})
    OBVIOUS
  <2>2. QED
    BY <2>1
<1>3. ASSUME NEW ok, Load(p, ok, <<>>, "done") \/ Load(p, ok, <<>>, "status") PROVE StoresInv'
  BY <1>2, <1>3, StoresLoads DEF Asking
<1>4. ASSUME NEW ok, NEW op, op.save \in SaveKinds, Load(p, ok, <<op>>, "done") PROVE StoresInv'
  <2>1. \E S : <<op>> \in Seq(S) /\ \A x \in S : x.save \in SaveKinds
    BY <1>1, <1>4
  <2>2. QED
    BY <1>4, <2>1, StoresLoads DEF Asking
<1>5. CASE Show(p) \/ StatusLoad(p)
  BY <1>3, <1>5 DEF Show, StatusLoad
<1>6. CASE ConfigSet(p)
  <2>1. PICK op : op = [save |-> "key", key |-> cmd[p].key, value |-> cmd[p].value]
    OBVIOUS
  <2>2. op.save \in SaveKinds /\ Load(p, TRUE, <<op>>, "done")
    BY <1>6, <2>1 DEF ConfigSet, SaveKinds
  <2>3. QED
    BY <1>4, <2>2
<1>7. CASE ProfileUse(p)
  <2>1. PICK op : op = [save |-> "use", name |-> cmd[p].name]
    OBVIOUS
  <2>2. op.save \in SaveKinds /\ \E ok : Load(p, ok, <<op>>, "done")
    BY <1>7, <2>1 DEF ProfileUse, SaveKinds
  <2>3. QED
    BY <1>4, <2>2
<1>8. CASE ProfileAdd(p)
  <2>1. PICK op : op = [save |-> "create", name |-> cmd[p].name,
                        seed |-> IF cmd[p].current THEN Loaded(p).value ELSE <<>>]
    OBVIOUS
  <2>2. op.save \in SaveKinds /\ Load(p, TRUE, <<op>>, "done")
    BY <1>8, <2>1 DEF ProfileAdd, SaveKinds
  <2>3. QED
    BY <1>4, <2>2
<1>9. CASE ProfileSet(p)
  <2>1. PICK op : op = [save |-> "profileKey", name |-> cmd[p].name, key |-> cmd[p].key, value |-> cmd[p].value]
    OBVIOUS
  <2>2. op.save \in SaveKinds /\ Load(p, TRUE, <<op>>, "done")
    BY <1>9, <2>1 DEF ProfileSet, SaveKinds
  <2>3. QED
    BY <1>4, <2>2
<1>10. CASE ProfileRemove(p)
  <2>1. PICK op : op = [save |-> "remove", name |-> cmd[p].name]
    OBVIOUS
  <2>2. op.save \in SaveKinds /\ Load(p, TRUE, <<op>>, "done")
    BY <1>10, <2>1 DEF ProfileRemove, SaveKinds
  <2>3. QED
    BY <1>4, <2>2
<1>11. CASE LoginLoad(p)
  <2>1. PICK op : op = [save |-> "key", key |-> "provider", value |-> cmd[p].provider]
    OBVIOUS
  <2>2. PICK saves, ok : (saves = <<>> \/ saves = <<op>>) /\ Load(p, ok, saves, "ask")
    BY <1>11, <2>1 DEF LoginLoad
  <2>3. op.save \in SaveKinds /\ cmd[p].do = "login"
    BY <1>11, <2>1 DEF SaveKinds, LoginLoad, Does
  <2>4. \E S : saves \in Seq(S) /\ \A x \in S : x.save \in SaveKinds
    BY <1>1, <1>2, <2>2, <2>3
  <2>5. QED
    BY <2>2, <2>3, <2>4, StoresLoads
<1>12. CASE LogoutLoad(p)
  BY <1>2, <1>12, StoresLoads DEF LogoutLoad, Does, Asking
<1>13. QED
  BY <1>5, <1>6, <1>7, <1>8, <1>9, <1>10, <1>11, <1>12

LEMMA StoresStepKeeps == ASSUME StoresInv, NEW p \in Proc, StoresStep(p) PROVE StoresInv'
<1>1. overlap \in BOOLEAN /\ InStores(p)
  BY StoresMoves DEF StoresInv
<1>2. CASE Refuse(p) \/ Rejected(p)
  <2>1. UNCHANGED storeVars /\ cmd' = cmd /\ Goto(p, "done") /\ pc[p] \in {"start", "rejected"}
    BY <1>2 DEF Refuse, Rejected
  <2>2. QED
    BY <1>1, <2>1, StoresPasses DEF storeVars, Asking
<1>3. CASE StoresDie(p)
  <2>1. /\ UNCHANGED configVars /\ UNCHANGED keyVars /\ cmd' = cmd /\ Goto(p, "dead")
        /\ overlap' = (overlap \/ pc[p] \in {"write", "keyWrite"})
    BY <1>3 DEF StoresDie
  <2>2. QED
    BY <1>1, <2>1, StoresPasses DEF configVars, keyVars, Asking
<1>4. CASE \/ Show(p) \/ ConfigSet(p) \/ LoginLoad(p) \/ LogoutLoad(p)
           \/ ProfileUse(p) \/ ProfileAdd(p) \/ ProfileSet(p) \/ ProfileRemove(p)
  BY <1>4, LoadsKeep
<1>5. CASE StatConfig(p) \/ ReadConfig(p) \/ TruncateConfig(p) \/ WriteConfig(p)
  BY <1>5, StatKeeps, ReadKeeps, TruncateKeeps, WriteKeeps
<1>6. CASE AskBaseURL(p) \/ AskModel(p) \/ Ping(p)
  BY <1>6, AskKeeps, PingKeeps
<1>7. CASE InKeychain(p) \/ KeyRead(p) \/ KeyTruncate(p) \/ KeyWrite(p)
  BY <1>7, KeychainKeeps, KeyReadKeeps, KeyTruncateKeeps, KeyWriteKeeps
<1>8. QED
  BY <1>2, <1>3, <1>4, <1>5, <1>6, <1>7 DEF StoresStep

(* A step that moves nobody here and changes nothing that is stored.          *)
StoredSame == UNCHANGED <<cmd, file, todo, next, draft, mixed, vault, creds, meant, without, meantKeys, overlap, strayed>>

LEMMA StoresElsewhere == ASSUME StoresInv, StoredSame, Elsewhere(StoreCmds) PROVE StoresInv'
<1>1. CASE pc' = pc
  <2>1. \A q \in Proc : Same(q)
    BY DEF StoredSame, Same
  <2>2. /\ \A q \in Proc : InStores(q)' => (HasSaves(q) /\ KeyCommand(q))'
        /\ \A q \in Proc : Writer(q)' = Writer(q) /\ KeyWriter(q)' = KeyWriter(q) /\ Strays(q)' = Strays(q)
        /\ \A q \in Proc : Outcome(q)' = Outcome(q) /\ KeyOutcome(q)' = KeyOutcome(q)
    BY <1>1, <2>1, StoresSame DEF StoresInv, StoredSame
  <2>3. Untouched' = Untouched /\ KeysUntouched' = KeysUntouched
    BY <1>1, <2>2 DEF Untouched, KeysUntouched
  <2>4. ~overlap => OneWriter' /\ KeysKept'
    BY <2>2, <2>3 DEF StoresInv, StoredSame, OneWriter, KeysKept
  <2>5. ~overlap /\ ~strayed => ConfigKept'
    BY <2>2, <2>3 DEF StoresInv, StoredSame, ConfigKept
  <2>6. QED
    BY <1>1, <2>2, <2>4, <2>5 DEF StoresInv, StoredSame
<1>2. ASSUME NEW p \in Proc, NEW label, ~Does(p, StoreCmds), Goto(p, label) PROVE StoresInv'
  <2>1. ~InStores(p) /\ overlap' \in BOOLEAN
    BY <1>2 DEF InStores, StoresInv, StoredSame
  <2>2. QED
    BY <1>2, <2>1, StoresPasses DEF StoredSame
<1>3. QED
  BY <1>1, <1>2 DEF Elsewhere

(* doctor goes to the labels of Updates, but to none at which it would write. *)
LEMMA DoctorPasses ==
    ASSUME StoresInv, NEW p \in Proc, NEW label \in {"doctor", "check", "record", "done", "dead"}, Goto(p, label),
           pc[p] \in {"start", "record", "check", "load", "status"}, StoredSame
    PROVE  StoresInv'
<1>1. overlap' \in BOOLEAN
  BY DEF StoresInv, StoredSame
<1>2. QED
  BY <1>1, StoresPasses DEF StoredSame, Asking

LEMMA StoresKeeps == StoresInv /\ CheckInv /\ [Next]_vars => StoresInv'
<1> SUFFICES ASSUME StoresInv, CheckInv, [Next]_vars PROVE StoresInv'
  OBVIOUS
<1>1. CASE UNCHANGED vars
  BY <1>1, StoresElsewhere DEF vars, storeVars, StoredSame, Elsewhere
<1>2. CASE StoresNext
  BY <1>2, StoresStepKeeps DEF StoresNext
<1>3. ASSUME NEW p \in Proc, DoctorStep(p) PROVE StoresInv'
  <2>1. CASE DoctorLoad(p)
    BY <1>3, <2>1, DoctorPasses DEF DoctorLoad, Step, StoredSame, keyVars
  <2>2. CASE Check(p)
    BY <2>2, StoresElsewhere DEF Check, Report, storeVars, StoredSame, Elsewhere
  <2>3. CASE AskDoctor(p)
    <3>1. StoredSame /\ pc[p] = "check" /\ (UNCHANGED pc \/ Goto(p, "record"))
      BY <2>3 DEF AskDoctor, Report, storeVars, StoredSame
    <3>2. CASE UNCHANGED pc
      BY <3>1, <3>2, StoresElsewhere DEF Elsewhere, StoredSame
    <3>3. CASE Goto(p, "record")
      BY <3>1, <3>3, DoctorPasses
    <3>4. QED
      BY <3>1, <3>2, <3>3
  <2>4. CASE Finish(p)
    BY <2>4, DoctorPasses DEF Finish, Step, storeVars, StoredSame
  <2>5. CASE StatusLoad(p)
    BY <2>5, LoadsKeep
  <2>6. CASE StatusRow(p)
    <3>1. StoredSame /\ pc[p] = "status" /\ (UNCHANGED pc \/ Goto(p, "done"))
      BY <2>6 DEF StatusRow, storeVars, StoredSame
    <3>2. CASE UNCHANGED pc
      BY <3>1, <3>2, StoresElsewhere DEF Elsewhere, StoredSame
    <3>3. CASE Goto(p, "done")
      BY <3>1, <3>3, DoctorPasses
    <3>4. QED
      BY <3>1, <3>2, <3>3
  <2>7. QED
    BY <1>3, <2>1, <2>2, <2>3, <2>4, <2>5, <2>6 DEF DoctorStep
<1>4. CASE UpdatesNext
  <2>1. StoredSame
    BY <1>4, UpdatesMoves DEF UpdatesNext, Publish, Tick, storeVars, StoredSame, Moves
  <2>2. CASE Publish \/ Tick
    BY <2>1, <2>2, StoresElsewhere DEF Publish, Tick, Elsewhere
  <2>3. ASSUME NEW p \in Proc, UpdatesStep(p) PROVE StoresInv'
    <3>1. Updating(p) /\ Moves(p) /\ DoctorGoes(p)
      BY <2>3, UpdatesMoves DEF CheckInv
    <3>2. CASE ~InStores(p)
      BY <2>1, <3>1, <3>2, StoresElsewhere DEF Moves, Elsewhere, InStores
    <3>3. CASE InStores(p)
      <4>1. Does(p, {"doctor"}) /\ cmd[p].do = "doctor" /\ pc[p] \in DoctorLabels
        BY <3>1, <3>3 DEF Updating, UpdateCmds, InStores, StoreCmds, Does, DoctorGoes
      <4>2. ~BeginUpgrade(p) /\ ~Fetch(p) /\ ~Download(p) /\ ~ReplaceUnix(p) /\ ~RemoveOld(p)
        BY <4>1 DEF BeginUpgrade, Fetch, Download, ReplaceUnix, RemoveOld, DoctorLabels
      <4>3. ~RenameAway(p) /\ ~Create(p) /\ ~Fill(p) /\ ~RenameBack(p) /\ ~Notice(p) /\ ~Ask(p)
        BY <4>1 DEF RenameAway, Create, Fill, RenameBack, Notice, Ask, DoctorLabels
      <4>4. CASE Launch(p)
        <5>1. pc[p] = "start" /\ (Goto(p, "doctor") \/ Goto(p, "done"))
          BY <4>1, <4>4 DEF Launch
        <5>2. QED
          BY <2>1, <5>1, DoctorPasses
      <4>5. CASE Record(p)
        BY <2>1, <4>1, <4>5, DoctorPasses DEF Record, AfterRecord
      <4>6. CASE UpdatesDie(p)
        BY <2>1, <4>1, <4>6, DoctorPasses DEF UpdatesDie
      <4>7. QED
        BY <2>3, <4>2, <4>3, <4>4, <4>5, <4>6 DEF UpdatesStep
    <3>4. QED
      BY <3>2, <3>3
  <2>4. QED
    BY <1>4, <2>2, <2>3 DEF UpdatesNext
<1>5. CASE RcNext
  <2>1. Elsewhere(StoreCmds)
    BY <1>5, RcMoves DEF RcNext, Edit, Moves, Elsewhere, Initializing, RcCmds, Does, StoreCmds
  <2>2. QED
    BY <1>5, <2>1, StoresElsewhere DEF RcNext, storeVars, StoredSame, Elsewhere
<1>6. CASE FixNext
  <2>1. Elsewhere(StoreCmds)
    BY <1>6, FixMoves DEF FixNext, HookRecord, Minute, Moves, Elsewhere, Fixing, Does, StoreCmds
  <2>2. QED
    BY <1>6, <2>1, StoresElsewhere DEF FixNext, storeVars, StoredSame, Elsewhere
<1>7. CASE ChatNext
  <2>1. Elsewhere(StoreCmds)
    BY <1>7, ChatMoves DEF ChatNext, Moves, Elsewhere, Chatting, Does, StoreCmds
  <2>2. QED
    BY <1>7, <2>1, StoresElsewhere DEF ChatNext, storeVars, StoredSame, Elsewhere
<1>8. CASE DoctorNext
  BY <1>3, <1>8 DEF DoctorNext
<1>9. QED
  BY <1>1, <1>2, <1>4, <1>5, <1>6, <1>7, <1>8 DEF Next

LEMMA StoresStarts == HomeBegin => StoresInv
<1> SUFFICES ASSUME HomeBegin PROVE StoresInv
  OBVIOUS
<1>1. /\ pc = [p \in Proc |-> "start"] /\ todo = [p \in Proc |-> <<>>] /\ next = [p \in Proc |-> "done"]
      /\ draft = [p \in Proc |-> NoMap] /\ mixed = [p \in Proc |-> FALSE]
      /\ meant = Merged(file) /\ overlap = FALSE /\ strayed = FALSE
      /\ meantKeys = [keychain |-> vault, file |-> IF creds = Absent THEN NoMap ELSE creds]
  BY DEF HomeBegin, HomeInit, StoresInit
<1>2. FilesBegin
  BY DEF HomeBegin
<1>3. \A p \in Proc : ~Writer(p) /\ ~KeyWriter(p)
  BY <1>1 DEF Writer, KeyWriter
<1>4. ASSUME NEW p \in Proc, InStores(p) PROVE HasSaves(p) /\ KeyCommand(p)
  <2>1. <<>> \in Seq({})
    OBVIOUS
  <2>2. HasSaves(p)
    BY <1>1, <2>1 DEF HasSaves
  <2>3. KeyCommand(p)
    BY <1>1, <1>2, <1>4 DEF KeyCommand, Asking, FilesBegin, IsContent
  <2>4. QED
    BY <2>2, <2>3
<1>5. OneWriter
  BY <1>1, <1>3 DEF OneWriter
<1>6. Readable(file) => Full(meant)
  <2>1. CASE file \in {Absent, Emptied}
    BY <1>1, <2>1, ConfigAssumption DEF Full, IsContent, DefaultFile, Merged
  <2>2. CASE file \notin {Absent, Emptied, Garbled}
    <3>1. PICK a, b, d : file = [own |-> a, active |-> b, profiles |-> d]
      BY <1>2, <2>2 DEF FilesBegin, IsContent
    <3>2. PICK o : o = Overriding(file.own, Default)
      OBVIOUS
    <3>3. o = [k \in DOMAIN o |-> o[k]] /\ Keys \subseteq DOMAIN o
      BY <3>2, ConfigAssumption DEF Overriding
    <3>4. meant = [own |-> o, active |-> b, profiles |-> d]
      BY <1>1, <2>2, <3>1, <3>2 DEF Merged
    <3>5. QED
      BY <3>3, <3>4 DEF Full, IsContent
  <2>3. QED
    BY <2>1, <2>2 DEF Readable
<1>7. ConfigKept
  BY <1>1, <1>3, <1>6 DEF ConfigKept
<1>8. KeysKept
  <2>1. meantKeys.keychain = vault /\ meantKeys.file = IF creds = Absent THEN NoMap ELSE creds
    BY <1>1
  <2>2. DOMAIN NoMap = {}
    BY DEF NoMap
  <2>3. CASE creds = Absent
    BY <1>3, <2>1, <2>2, <2>3 DEF KeysKept, KeysIn
  <2>4. CASE creds /= Absent
    BY <1>2, <1>3, <2>1, <2>4, KeysThere DEF KeysKept, FilesBegin, IsContent
  <2>5. QED
    BY <2>3, <2>4
<1>9. QED
  BY <1>1, <1>4, <1>5, <1>7, <1>8 DEF StoresInv

LEMMA StoredAlways == HomeSpec => []StoresInv
<1>1. HomeSpec => []CheckInv
  BY CheckStarts, CheckKeeps, PTL DEF HomeSpec
<1>2. QED
  BY <1>1, StoresStarts, StoresKeeps, PTL DEF HomeSpec

(* Between writes, config.toml holds exactly what the completed saves were to *)
(* write, in the order they completed, unless saves overlapped, were cut by a *)
(* crash, or wrote down values in effect that had come to differ from the     *)
(* file's own (--from-current, a rejected login): whatever commands run, on   *)
(* any settings and profiles.                                                 *)
THEOREM FileIsAsMeant == HomeSpec => []FileAsMeant
<1>1. StoresInv => FileAsMeant
  BY DEF StoresInv, ConfigKept, Untouched, FileAsMeant, Quiet, Writer
<1>2. QED
  BY <1>1, StoredAlways, PTL

(* The same for the keys, in the keychain and in the credentials file.        *)
THEOREM KeysAreAsMeant == HomeSpec => []KeysAsMeant
<1>1. StoresInv => KeysAsMeant
  BY DEF StoresInv, KeysKept, KeysUntouched, KeysAsMeant, Quiet, KeyWriter
<1>2. QED
  BY <1>1, StoredAlways, PTL

(* ----------------------- what fix runs, in any terminals -------------------- *)

FixSteps == HookRecord \/ Minute \/ \E p \in Proc : FixStep(p)

FixLabels == BeforeNotify \cup {"execute", "verify", "offer", "verifying", "done", "dead"}
Records == [command : Named, at : Nat, failed : BOOLEAN]
Runs == [command : Command, why : {"capture", "verify"}, said : Named]
Runnings == [command : Named, why : {"none", "capture", "verify"}, said : Named]

FixType ==
    /\ pc = [p \in Proc |-> pc[p]]
    /\ \A p \in Proc : Fixing(p) => cmd[p] \in FixCommands /\ pc[p] \in FixLabels
    /\ record \in Records /\ taken \in [Proc -> Records] /\ minute \in Nat
    /\ subject \in [Proc -> Named] /\ offer \in [Proc -> Named]
    /\ running \in [Proc -> Runnings] /\ ran \in [Proc -> SUBSET Runs]
    /\ aborted \in [Proc -> BOOLEAN]

(* What was run was allowed, by the verdict or by the user.                   *)
Justified(p) == \A r \in ran[p] :
    LET d == Evaluate(r.command, Read)
    IN  /\ d.action /= "block"
        /\ \/ r.said = r.command
           \/ r.why = "capture" /\ d.risk < Destructive
           \/ r.why = "verify" /\ cmd[p].mode = "auto" /\ d.risk < Elevated

(* No verification has been run before Execute returned, and none is after an *)
(* abort, in a dry run or in info mode.                                       *)
Verifying(p) == pc[p] \in {"verify", "offer", "verifying"}
InOrder(p) ==
    /\ pc[p] \in BeforeNotify \cup {"execute"} \/ Verifying(p) => ~aborted[p]
    /\ pc[p] = "execute" \/ Verifying(p) => ~cmd[p].dry
    /\ pc[p] \in {"offer", "verifying"} => cmd[p].mode /= "info"
    /\ pc[p] = "offer" => offer[p] \in Command
    /\ \A r \in ran[p] : r.why = "verify" =>
          /\ pc[p] \notin BeforeNotify \cup {"execute"}
          /\ ~aborted[p] /\ ~cmd[p].dry /\ cmd[p].mode /= "info"

(* A command runs while fix waits for it, or is the re-run a Ctrl-C has left.  *)
Watched(p) == running[p] /= Idle /\ pc[p] /= "verifying" => running[p].why = "capture"

FixInv ==
    /\ FixType
    /\ \A p \in Proc : IF Fixing(p) THEN Justified(p) /\ InOrder(p) /\ Watched(p)
                        ELSE ran[p] = {} /\ running[p] = Idle

(* A command that is not too risky is neither denied nor destructive.         *)
LEMMA NotTooRisky ==
    ASSUME NEW c \in Command
    PROVE  /\ Evaluate(c, Read).risk \in Risk
           /\ ~TooRisky(c) => Evaluate(c, Read).action /= "block" /\ Evaluate(c, Read).risk < Destructive
BY SafetyAssumption DEF Evaluate, EffectiveRisk, Highest, TooRisky, Risk, Read, Elevated, Destructive

LEMMA FixStarts == HomeBegin => FixInv
<1> SUFFICES ASSUME HomeBegin PROVE FixInv
  OBVIOUS
<1>1. FixInit /\ pc = [p \in Proc |-> "start"] /\ \A p \in Proc : Fixing(p) => cmd[p] \in FixCommands
  BY DEF HomeBegin, HomeInit
<1>2. FixType
  BY <1>1 DEF FixInit, FixType, FixLabels, BeforeNotify, Records, Runs, Runnings, Named, NoRecord, Idle
<1>3. ASSUME NEW p \in Proc PROVE ran[p] = {} /\ running[p] = Idle /\ ~aborted[p] /\ pc[p] = "start"
  BY <1>1 DEF FixInit
<1>4. QED
  BY <1>2, <1>3 DEF FixInv, Justified, InOrder, Watched, Verifying, BeforeNotify

(* The others' part of the invariant, when only p takes a step.               *)
LEMMA FixOthers ==
    ASSUME FixInv, NEW p \in Proc, Fixing(p), cmd' = cmd, FixType',
           \A q \in Proc \ {p} : /\ pc'[q] = pc[q] /\ offer'[q] = offer[q] /\ running'[q] = running[q]
                                 /\ ran'[q] = ran[q] /\ aborted'[q] = aborted[q],
           Justified(p)', InOrder(p)', Watched(p)'
    PROVE  FixInv'
<1>1. ASSUME NEW q \in Proc \ {p}
      PROVE  IF Fixing(q)' THEN Justified(q)' /\ InOrder(q)' /\ Watched(q)' ELSE ran'[q] = {} /\ running'[q] = Idle
  <2>1. Fixing(q)' <=> Fixing(q)
    BY DEF Fixing, Does
  <2>2. QED
    BY <2>1 DEF FixInv, Justified, InOrder, Watched, Verifying, BeforeNotify, Idle
<1>2. Fixing(p)'
  BY DEF Fixing, Does
<1>3. QED
  BY <1>1, <1>2 DEF FixInv

(* A fix that goes to a place of fix leaves every process where it can be.    *)
LEMMA FixPlaces ==
    ASSUME FixInv, NEW p \in Proc, Fixing(p), cmd' = cmd, NEW label \in FixLabels, Goto(p, label)
    PROVE  /\ pc' = [q \in Proc |-> pc'[q]]
           /\ \A q \in Proc : Fixing(q)' => cmd'[q] \in FixCommands /\ pc'[q] \in FixLabels
<1>1. /\ pc' = [q \in Proc |-> IF q = p THEN label ELSE pc[q]]
      /\ \A q \in Proc : Fixing(q) => cmd[q] \in FixCommands /\ pc[q] \in FixLabels
  BY DEF FixInv, FixType, Goto
<1>2. \A q \in Proc : Fixing(q)' <=> Fixing(q)
  BY DEF Fixing, Does
<1>3. QED
  BY <1>1, <1>2

(* Steps that run nothing and offer nothing, from one place to a later one.   *)
LEMMA FixGoesOn ==
    ASSUME FixInv, NEW p \in Proc, Fixing(p), UNCHANGED <<cmd, offer, ran, record, minute>>,
           NEW label \in FixLabels \ {"offer", "verifying"}, Goto(p, label),
           taken' \in [Proc -> Records], subject' \in [Proc -> Named],
           running' = running \/ running' = [running EXCEPT ![p] = Idle],
           aborted' = aborted \/ (aborted' = [aborted EXCEPT ![p] = TRUE] /\ cmd[p].mode /= "info"
                                  /\ pc[p] = "execute" /\ label = "done"),
           running[p] /= Idle /\ pc[p] = "verifying" => running'[p] = Idle,
           label \in BeforeNotify => pc[p] \in BeforeNotify,
           label = "execute" => pc[p] \in BeforeNotify /\ ~cmd[p].dry,
           label = "verify" => pc[p] = "execute"
    PROVE  FixInv'
<1>1. \A q \in Proc : pc'[q] = IF q = p THEN label ELSE pc[q]
  BY DEF FixInv, FixType, Goto
<1>2. running' \in [Proc -> Runnings] /\ running'[p] \in {running[p], Idle}
      /\ \A q \in Proc \ {p} : running'[q] = running[q]
  <2>1. Idle \in Runnings
    BY DEF Idle, Runnings, Named
  <2>2. QED
    BY <2>1 DEF FixInv, FixType
<1>3. FixType'
  BY <1>2, FixPlaces DEF FixInv, FixType
<1>4. Justified(p)'
  BY DEF FixInv, Justified
<1>5. ran'[p] = ran[p] /\ (pc[p] \in BeforeNotify \cup {"execute"} => \A r \in ran[p] : r.why /= "verify")
  BY DEF FixInv, InOrder
<1>6. InOrder(p)'
  BY <1>1, <1>5 DEF FixInv, FixType, InOrder, Verifying, BeforeNotify
<1>7. Watched(p)'
  BY <1>1, <1>2 DEF FixInv, Watched, Idle
<1>8. QED
  BY <1>1, <1>2, <1>3, <1>4, <1>6, <1>7, FixOthers DEF FixInv, FixType

(* A command is started, with the consent it needs, from a place where it may. *)
LEMMA FixRuns ==
    ASSUME FixInv, NEW p \in Proc, Fixing(p), NEW c \in Command, NEW why \in {"capture", "verify"},
           NEW said \in Named, NEW label \in {"capture", "verifying"}, Run(p, c, why, said, label),
           UNCHANGED <<cmd, record, minute, taken, subject, offer, aborted>>,
           Evaluate(c, Read).action /= "block",
           \/ said = c
           \/ why = "capture" /\ Evaluate(c, Read).risk < Destructive
           \/ why = "verify" /\ cmd[p].mode = "auto" /\ Evaluate(c, Read).risk < Elevated,
           IF why = "capture" THEN label = "capture" /\ pc[p] \in BeforeNotify
           ELSE label = "verifying" /\ Verifying(p) /\ cmd[p].mode /= "info"
    PROVE  FixInv'
<1> DEFINE r == [command |-> c, why |-> why, said |-> said]
<1>1. r \in Runs /\ r \in Runnings
  BY DEF Runs, Runnings, Named
<1>2. /\ \A q \in Proc : pc'[q] = IF q = p THEN label ELSE pc[q]
      /\ \A q \in Proc : ran'[q] = IF q = p THEN ran[p] \cup {r} ELSE ran[q]
      /\ \A q \in Proc : running'[q] = IF q = p THEN r ELSE running[q]
  BY DEF FixInv, FixType, Run, Goto
<1>3. FixType'
  <2>1. ran' \in [Proc -> SUBSET Runs] /\ running' \in [Proc -> Runnings]
    BY <1>1 DEF FixInv, FixType, Run
  <2>2. Goto(p, label) /\ label \in FixLabels
    BY DEF FixLabels, BeforeNotify, Run
  <2>3. QED
    BY <2>1, <2>2, FixPlaces DEF FixInv, FixType
<1>4. r.command = c /\ r.why = why /\ r.said = said
  OBVIOUS
<1> HIDE DEF r
<1>5. Justified(p)'
  BY <1>2, <1>4 DEF FixInv, Justified
<1>6. InOrder(p)'
  BY <1>2, <1>4 DEF FixInv, InOrder, Verifying, BeforeNotify
<1>7. Watched(p)'
  BY <1>2, <1>4 DEF Watched
<1>8. QED
  BY <1>2, <1>3, <1>5, <1>6, <1>7, FixOthers

(* A command is offered, or an edited one is offered in its place.            *)
LEMMA FixOffers ==
    ASSUME FixInv, NEW p \in Proc, Fixing(p), NEW c \in Command, offer' = [offer EXCEPT ![p] = c],
           UNCHANGED <<cmd, record, minute, taken, subject, running, ran, aborted>>,
           Verifying(p), pc[p] /= "verifying", cmd[p].mode /= "info", Goto(p, "offer")
    PROVE  FixInv'
<1>1. /\ \A q \in Proc : pc'[q] = IF q = p THEN "offer" ELSE pc[q]
      /\ \A q \in Proc : offer'[q] = IF q = p THEN c ELSE offer[q]
  BY DEF FixInv, FixType, Goto
<1>2. FixType'
  <2>1. "offer" \in FixLabels /\ offer' \in [Proc -> Named]
    BY DEF FixInv, FixType, FixLabels, Named
  <2>2. QED
    BY <2>1, FixPlaces DEF FixInv, FixType
<1>3. Justified(p)' /\ InOrder(p)' /\ Watched(p)'
  BY <1>1 DEF FixInv, Justified, InOrder, Watched, Verifying, BeforeNotify
<1>4. QED
  BY <1>1, <1>2, <1>3, FixOthers

(* Every step preserves the invariant, one case for each action.              *)
LEMMA FixKeeps == FixInv /\ FixSteps => FixInv'
<1> SUFFICES ASSUME FixInv, FixSteps PROVE FixInv'
  OBVIOUS
<1> USE DEF FixInv, FixType
<1>1. CASE UNCHANGED <<cmd, pc, taken, subject, offer, running, aborted, ran>>
           /\ record' \in Records /\ minute' \in Nat
  BY <1>1 DEF Justified, InOrder, Watched, Verifying, Fixing, Does
<1>2. CASE HookRecord
  <2>1. record' \in Records
    BY <1>2 DEF HookRecord, WriteLastCommand, Records, Named
  <2>2. QED
    BY <1>1, <1>2, <2>1 DEF HookRecord
<1>3. CASE Minute
  BY <1>1, <1>3 DEF Minute
<1>4. ASSUME NEW p \in Proc, FixStep(p) PROVE FixInv'
  <2>a. Fixing(p)
    BY <1>4, FixMoves
  <2> USE <2>a DEF FixLabels, BeforeNotify
  <2>1. CASE Collect(p)
    <3>1. NoRecord \in Records
      BY DEF NoRecord, Records, Named
    <3>2. taken' \in [Proc -> Records]
      BY <2>1, <3>1 DEF Collect
    <3>3. QED
      BY <2>1, <3>2, FixGoesOn DEF Collect
  <2>2. CASE Acquire(p)
    <3>1. pc[p] = "acquire" /\ UNCHANGED <<cmd, record, minute, taken, offer, aborted>>
      BY <2>2 DEF Acquire
    <3>2. CASE ToRun(p) /= None /\ ~TooRisky(ToRun(p))
      <4>1. ToRun(p) \in Command
        BY <3>2 DEF ToRun, FixCommands, Named, Records
      <4>2. Run(p, ToRun(p), "capture", None, "capture") /\ UNCHANGED subject
        BY <2>2, <3>2 DEF Acquire
      <4>3. None \in Named
        BY DEF Named
      <4> HIDE DEF FixInv, FixType
      <4>4. QED
        BY <3>1, <3>2, <4>1, <4>2, <4>3, NotTooRisky, FixRuns
    <3>3. CASE ~(ToRun(p) /= None /\ ~TooRisky(ToRun(p)))
      <4>1. UNCHANGED <<running, ran>> /\ \E label \in {"paste", "done", "diagnose"} : Goto(p, label)
        BY <2>2, <3>3 DEF Acquire
      <4>2. subject' \in [Proc -> Named]
        BY <2>2, <3>3 DEF Acquire, Records
      <4>3. QED
        BY <3>1, <4>1, <4>2, FixGoesOn
    <3>4. QED
      BY <3>2, <3>3
  <2>3. CASE Captured(p)
    <3>1. subject' \in [Proc -> Named]
      BY <2>3 DEF Captured, Runnings
    <3>2. QED
      BY <2>3, <3>1, FixGoesOn DEF Captured
  <2>4. CASE Paste(p)
    BY <2>4, FixGoesOn DEF Paste, Named
  <2>5. CASE Diagnose(p)
    BY <2>5, FixGoesOn DEF Diagnose, fixVars
  <2>6. CASE Execute(p)
    BY <2>6, FixGoesOn DEF Execute
  <2>7. CASE Verify(p)
    <3> DEFINE c == subject[p]
    <3>1. pc[p] = "verify" /\ UNCHANGED <<cmd, record, minute, taken, subject, aborted>>
      BY <2>7 DEF Verify
    <3>2. CASE c = None \/ cmd[p].mode = "info" \/ TooRisky(c)
      BY <2>7, <3>1, <3>2, FixGoesOn DEF Verify
    <3>3. CASE ~(c = None \/ cmd[p].mode = "info" \/ TooRisky(c)) /\ Asks(p, Evaluate(c, Read))
      <4>1. offer' = [offer EXCEPT ![p] = c] /\ Goto(p, "offer") /\ UNCHANGED <<running, ran>>
        BY <2>7, <3>3 DEF Verify
      <4>2. QED
        BY <3>1, <3>3, <4>1, FixOffers DEF Verifying, Named
    <3>4. CASE ~(c = None \/ cmd[p].mode = "info" \/ TooRisky(c)) /\ ~Asks(p, Evaluate(c, Read))
      <4>1. Run(p, c, "verify", None, "verifying") /\ UNCHANGED offer
        BY <2>7, <3>4 DEF Verify
      <4>2. c \in Command /\ None \in Named /\ cmd[p].mode = "auto"
        BY <3>4 DEF Named, FixCommands, Asks
      <4>3. Evaluate(c, Read).action /= "block" /\ Evaluate(c, Read).risk < Elevated
        BY <3>4, <4>2, NotTooRisky DEF Asks, Risk, Elevated, Destructive, Read
      <4> HIDE DEF FixInv, FixType
      <4>4. QED
        BY <3>1, <4>1, <4>2, <4>3, FixRuns DEF Verifying
    <3>5. QED
      BY <3>2, <3>3, <3>4
  <2>8. CASE Answer(p)
    <3>1. pc[p] = "offer" /\ UNCHANGED <<cmd, record, minute, taken, subject, aborted>>
      BY <2>8 DEF Answer
    <3>2. offer[p] \in Command /\ cmd[p].mode /= "info" /\ Verifying(p)
      BY <3>1 DEF InOrder, Verifying
    <3>3. CASE Goto(p, "done") /\ UNCHANGED <<offer, running, ran>>
      BY <3>1, <3>3, FixGoesOn
    <3>4. ASSUME NEW c \in Command, offer' = [offer EXCEPT ![p] = c], UNCHANGED <<pc, running, ran>>
          PROVE  FixInv'
      <4>1. Goto(p, "offer")
        BY <3>1, <3>4 DEF Goto
      <4>2. QED
        BY <3>1, <3>2, <3>4, <4>1, FixOffers
    <3>5. CASE /\ Evaluate(offer[p], Read).action /= "block" /\ UNCHANGED offer
               /\ Run(p, offer[p], "verify", offer[p], "verifying")
      <4>1. offer[p] \in Named
        OBVIOUS
      <4> HIDE DEF FixInv, FixType
      <4>2. QED
        BY <3>1, <3>2, <3>5, <4>1, FixRuns
    <3>6. QED
      BY <2>8, <3>3, <3>4, <3>5 DEF Answer
  <2>9. CASE Verified(p)
    BY <2>9, FixGoesOn DEF Verified, Idle
  <2>10. CASE Interrupt(p)
    <3>1. UNCHANGED <<cmd, record, minute, taken, subject, offer, running, aborted, ran>>
      BY <2>10 DEF Interrupt
    <3>2. CASE pc[p] \in BeforeNotify /\ Goto(p, "done")
      BY <3>1, <3>2, FixGoesOn
    <3>3. CASE UNCHANGED pc
      BY <1>1, <3>1, <3>3
    <3>4. QED
      BY <2>10, <3>2, <3>3 DEF Interrupt
  <2>11. CASE OrphanEnds(p)
    <3>1. Goto(p, pc[p]) /\ pc[p] \in {"done", "dead"}
      BY <2>11 DEF OrphanEnds, Ended, Goto
    <3>2. QED
      BY <2>11, <3>1, FixGoesOn DEF OrphanEnds
  <2>12. QED
    BY <1>4, <2>1, <2>2, <2>3, <2>4, <2>5, <2>6, <2>7, <2>8, <2>9, <2>10, <2>11 DEF FixStep
<1>5. QED
  BY <1>2, <1>3, <1>4 DEF FixSteps

(* The steps of the other families move no fix.                               *)
LEMMA FixApart ==
    ASSUME [Next]_vars
    PROVE  FixSteps \/ (UNCHANGED fixVars /\ Elsewhere({"fix"}))
<1>1. CASE UNCHANGED vars
  BY <1>1 DEF vars, Elsewhere
<1>2. CASE DoctorNext
  BY <1>2, DoctorMoves DEF DoctorNext, Moves, Elsewhere, Does, DoctorCmds
<1>3. CASE StoresNext
  BY <1>3, StoresMoves DEF StoresNext, Moves, Elsewhere, InStores, StoreCmds, Does
<1>4. CASE UpdatesNext
  BY <1>4, UpdatesMoves DEF UpdatesNext, Publish, Tick, Moves, Elsewhere, Updating, UpdateCmds, Does
<1>5. CASE RcNext
  BY <1>5, RcMoves DEF RcNext, Edit, Moves, Elsewhere, Initializing, RcCmds, Does
<1>6. CASE FixNext
  BY <1>6 DEF FixNext, FixSteps
<1>7. CASE ChatNext
  BY <1>7, ChatMoves DEF ChatNext, Moves, Elsewhere, Chatting, Does
<1>8. QED
  BY <1>1, <1>2, <1>3, <1>4, <1>5, <1>6, <1>7 DEF Next

LEMMA FixUntouched == ASSUME FixInv, UNCHANGED fixVars, Elsewhere({"fix"}) PROVE FixInv'
<1>1. cmd' = cmd /\ pc' = [p \in Proc |-> pc'[p]] /\ \A p \in Proc : Fixing(p) => pc'[p] = pc[p]
  <2>1. CASE UNCHANGED pc
    BY <2>1 DEF FixInv, FixType, Elsewhere
  <2>2. CASE \E p \in Proc : \E label : ~Does(p, {"fix"}) /\ Goto(p, label)
    BY <2>2 DEF FixInv, FixType, Elsewhere, Fixing, Goto
  <2>3. QED
    BY <2>1, <2>2 DEF Elsewhere
<1>5. \A p \in Proc : Fixing(p)' <=> Fixing(p)
  BY <1>1 DEF Fixing, Does
<1>2. FixType'
  <2>1. \A p \in Proc : Fixing(p)' => cmd'[p] \in FixCommands /\ pc'[p] \in FixLabels
    BY <1>1, <1>5 DEF FixInv, FixType
  <2>2. QED
    BY <1>1, <2>1 DEF FixInv, FixType, fixVars
<1>3. ASSUME NEW p \in Proc, Fixing(p) PROVE Justified(p)' /\ InOrder(p)' /\ Watched(p)'
  BY <1>1, <1>3 DEF FixInv, fixVars, Justified, InOrder, Watched, Verifying
<1>4. ASSUME NEW p \in Proc, ~Fixing(p) PROVE ran'[p] = {} /\ running'[p] = Idle
  BY <1>4 DEF FixInv, fixVars
<1>6. QED
  BY <1>2, <1>3, <1>4, <1>5 DEF FixInv

(* Whatever fix comes to run outside a plan, by whatever way, in however many *)
(* terminals and beside whatever other commands: nothing denied, nothing      *)
(* destructive and, to verify, no elevated command nor in ask mode any,       *)
(* without the user's yes to that text; and Ctrl-C leaves at most a re-run    *)
(* behind.                                                                    *)
THEOREM FixAsks == HomeSpec => []FixAsksFirst
<1>1. FixInv => FixAsksFirst
  <2> SUFFICES ASSUME FixInv, NEW p \in Proc
               PROVE  /\ \A r \in ran[p] :
                            LET d == Evaluate(r.command, Read)
                            IN  /\ d.action /= "block"
                                /\ \/ r.said = r.command
                                   \/ r.why = "capture" /\ d.risk < Destructive
                                   \/ r.why = "verify" /\ cmd[p].mode = "auto" /\ d.risk < Elevated
                                /\ r.why = "verify" => ~aborted[p] /\ ~cmd[p].dry /\ cmd[p].mode /= "info"
                      /\ Ended(p) /\ running[p] /= Idle => running[p].why = "capture"
    BY DEF FixAsksFirst
  <2>1. QED
    BY DEF FixInv, Justified, InOrder, Watched, Ended
<1>2. FixInv /\ [Next]_vars => FixInv'
  BY FixApart, FixKeeps, FixUntouched
<1>3. QED
  BY <1>1, <1>2, FixStarts, PTL DEF HomeSpec

(* ------------------- what comrade reports, and its remedies ------------------ *)

(* Every content that is in the file, or is being written to it, is one; also *)
(* where saves overlap or are cut.                                            *)
ContentInv ==
    /\ \A p \in Proc : backend[p] \in {"keychain", "file"}
    /\ file \in {Absent, Emptied, Garbled} \/ IsContent(file)
    /\ \A p \in Proc : Writer(p) => IsContent(draft[p])

LEMMA ContentThere == ASSUME NEW c, IsContent(c) PROVE c \notin {Absent, Emptied, Garbled}
<1>1. \A a, b, d : DOMAIN [own |-> a, active |-> b, profiles |-> d] = {"own", "active", "profiles"}
  OBVIOUS
<1>2. DOMAIN c = {"own", "active", "profiles"}
  BY <1>1 DEF IsContent
<1>3. \A x : DOMAIN [no |-> x] = {"no"}
  OBVIOUS
<1>4. QED
  BY <1>2, <1>3 DEF Absent, Emptied, Garbled

(* What the layers below the environment and the profile come to.             *)
LEMMA MergedIs ==
    ASSUME NEW f, f \in {Absent, Emptied} \/ IsContent(f)
    PROVE  LET c == Content(f) IN
           /\ IsContent(c) /\ IsContent(Merged(f))
           /\ Merged(f) = [own |-> Overriding(c.own, Default), active |-> c.active, profiles |-> c.profiles]
<1>1. CASE f \in {Absent, Emptied}
  <2>1. Content(f) = [own |-> <<>>, active |-> "", profiles |-> <<>>]
    BY <1>1 DEF Content, DefaultFile
  <2>2. Merged(f) = [own |-> Default, active |-> "", profiles |-> <<>>]
    BY <1>1 DEF Merged, DefaultFile
  <2>3. Overriding(<<>>, Default) = Default
    <3>1. DOMAIN <<>> = {}
      OBVIOUS
    <3>2. PICK e : e = <<>> /\ DOMAIN e = {}
      BY <3>1
    <3>3. PICK d : d = Default /\ DOMAIN d = Keys /\ d = [k \in Keys |-> d[k]]
      BY ConfigAssumption
    <3>4. Overriding(e, d) = d
      BY <3>2, <3>3 DEF Overriding
    <3>5. QED
      BY <3>2, <3>3, <3>4
  <2>4. PICK e, d : e = <<>> /\ d = Default
    OBVIOUS
  <2>5. /\ Content(f) = [own |-> e, active |-> "", profiles |-> e] /\ Overriding(e, Default) = d
        /\ Merged(f) = [own |-> d, active |-> "", profiles |-> e]
    BY <2>1, <2>2, <2>3, <2>4
  <2>6. PICK c, m : c = Content(f) /\ m = Merged(f)
    OBVIOUS
  <2>7. c.own = e /\ c.active = "" /\ c.profiles = e
    <3>1. c = [own |-> e, active |-> "", profiles |-> e]
      BY <2>5, <2>6
    <3>2. QED
      BY <3>1
  <2>8. IsContent(c) /\ IsContent(m)
    BY <2>5, <2>6 DEF IsContent
  <2>9. m = [own |-> Overriding(c.own, Default), active |-> c.active, profiles |-> c.profiles]
    BY <2>5, <2>6, <2>7
  <2>10. QED
    BY <2>6, <2>8, <2>9
<1>2. CASE IsContent(f)
  <2>1. f \notin {Absent, Emptied}
    BY <1>2, ContentThere
  <2>2. PICK a, b, d : f = [own |-> a, active |-> b, profiles |-> d]
    BY <1>2 DEF IsContent
  <2>3. PICK o : o = Overriding(f.own, Default)
    OBVIOUS
  <2>4. Content(f) = f /\ Merged(f) = [f EXCEPT !.own = o]
    BY <2>1, <2>3 DEF Content, Merged
  <2>5. [f EXCEPT !.own = o] = [own |-> o, active |-> b, profiles |-> d] /\ f.active = b /\ f.profiles = d
    BY <2>2
  <2>6. QED
    BY <1>2, <2>3, <2>4, <2>5 DEF IsContent
<1>3. QED
  BY <1>1, <1>2

LEMMA SavedContent ==
    ASSUME NEW f, IsContent(f), NEW op, op.save \in SaveKinds
    PROVE  IsContent(Saved(op, f))
<1>1. PICK a, b, d : f = [own |-> a, active |-> b, profiles |-> d]
  BY DEF IsContent
<1>2. \E x, y, z : Saved(op, f) = [own |-> x, active |-> y, profiles |-> z]
  <2>1. CASE op.save = "key"
    <3>1. PICK o : o = Put(f.own, op.key, op.value)
      OBVIOUS
    <3>2. Saved(op, f) = [f EXCEPT !.own = o]
      BY <2>1, <3>1 DEF Saved
    <3>3. QED
      BY <1>1, <3>2
  <2>2. CASE op.save = "use"
    BY <1>1, <2>2 DEF Saved
  <2>3. CASE op.save = "create"
    BY <1>1, <2>3 DEF Saved
  <2>4. CASE op.save = "profileKey"
    BY <1>1, <2>4 DEF Saved
  <2>5. CASE op.save = "remove"
    BY <1>1, <2>5 DEF Saved
  <2>6. CASE op.save = "none"
    BY <1>1, <2>6 DEF Saved
  <2>7. QED
    BY <2>1, <2>2, <2>3, <2>4, <2>5, <2>6 DEF SaveKinds
<1>3. QED
  BY <1>2 DEF IsContent

(* A step after which no process is about to write that was not before, but   *)
(* p with a content.                                                          *)
LEMMA ContentStays ==
    ASSUME ContentInv, DOMAIN pc = Proc, UNCHANGED <<cmd, file, backend>>, NEW p \in Proc, NEW label, Goto(p, label),
           \A q \in Proc \ {p} : draft'[q] = draft[q],
           InStores(p) /\ label \in {"truncate", "write"} => IsContent(draft'[p])
    PROVE  ContentInv'
<1>1. \A q \in Proc : InStores(q)' = InStores(q)
  BY DEF InStores, Does
<1>2. \A q \in Proc \ {p} : Writer(q)' => Writer(q)
  BY <1>1 DEF Goto, Writer
<1>3. ASSUME NEW q \in Proc, Writer(q)' PROVE IsContent(draft'[q])
  <2>1. CASE q = p
    BY <1>1, <1>3, <2>1 DEF Goto, Writer
  <2>2. CASE q /= p
    BY <1>2, <1>3, <2>2 DEF ContentInv
  <2>3. QED
    BY <2>1, <2>2
<1>4. QED
  BY <1>3 DEF ContentInv, IsContent

(* ------------------------------ steps of Stores ----------------------------- *)

Contents == StoresInv /\ ContentInv

LEMMA ContentConfig ==
    ASSUME Contents, NEW p \in Proc, StatConfig(p) \/ ReadConfig(p) \/ TruncateConfig(p) \/ WriteConfig(p)
    PROVE  ContentInv'
<1>1. DOMAIN pc = Proc /\ DOMAIN draft = Proc /\ ContentInv /\ StoresInv
  BY DEF Contents, StoresInv
<1>2. CASE StatConfig(p)
  <2>1. UNCHANGED <<cmd, file, backend>>
    BY <1>2 DEF StatConfig
  <2>2. CASE file = Absent
    <3>1. draft' = [draft EXCEPT ![p] = DefaultFile] /\ Goto(p, "truncate")
      BY <1>2, <2>2 DEF StatConfig
    <3>2. PICK e : e = <<>>
      OBVIOUS
    <3>3. DefaultFile = [own |-> Default, active |-> "", profiles |-> e]
      BY <3>2 DEF DefaultFile
    <3>4. IsContent(DefaultFile)
      BY <3>3 DEF IsContent
    <3>5. draft'[p] = DefaultFile /\ \A q \in Proc \ {p} : draft'[q] = draft[q]
      BY <1>1, <3>1
    <3>6. QED
      BY <1>1, <2>1, <3>1, <3>4, <3>5, ContentStays
  <2>3. CASE file /= Absent
    <3>1. draft' = draft /\ Goto(p, "load")
      BY <1>2, <2>3 DEF StatConfig
    <3>2. QED
      BY <1>1, <2>1, <3>1, ContentStays
  <2>4. QED
    BY <2>2, <2>3
<1>3. CASE ReadConfig(p)
  <2>1. UNCHANGED <<cmd, file, backend>> /\ InStores(p) /\ pc[p] = "read"
    BY <1>3 DEF ReadConfig
  <2>2. CASE ~Readable(file) \/ Refused(Head(todo[p]), Merged(file))
    <3>1. draft' = draft /\ Goto(p, "done")
      BY <1>3, <2>2 DEF ReadConfig
    <3>2. QED
      BY <1>1, <2>1, <3>1, ContentStays
  <2>3. CASE ~(~Readable(file) \/ Refused(Head(todo[p]), Merged(file)))
    <3>1. PICK op : op = Head(todo[p])
      OBVIOUS
    <3>2. draft' = [draft EXCEPT ![p] = Saved(op, Merged(file))] /\ Goto(p, "truncate")
      BY <1>3, <2>3, <3>1 DEF ReadConfig, Drafted
    <3>3. op.save \in SaveKinds
      <4>1. PICK S : todo[p] \in Seq(S) /\ todo[p] /= <<>> /\ \A x \in S : x.save \in SaveKinds
        BY <1>1, <2>1 DEF StoresInv, HasSaves
      <4>2. Head(todo[p]) \in S
        BY <4>1
      <4>3. QED
        BY <3>1, <4>1, <4>2
    <3>4. IsContent(Merged(file))
      BY <1>1, <2>3, MergedIs DEF ContentInv, Readable
    <3>5. IsContent(Saved(op, Merged(file)))
      BY <3>3, <3>4, SavedContent
    <3>6. draft'[p] = Saved(op, Merged(file)) /\ \A q \in Proc \ {p} : draft'[q] = draft[q]
      BY <1>1, <3>2
    <3>7. QED
      BY <1>1, <2>1, <3>2, <3>5, <3>6, ContentStays
  <2>4. QED
    BY <2>2, <2>3
<1>4. CASE TruncateConfig(p)
  <2>1. file' = Emptied /\ UNCHANGED <<cmd, backend, draft>> /\ Goto(p, "write") /\ InStores(p) /\ pc[p] = "truncate"
    BY <1>4 DEF TruncateConfig
  <2>2. \A q \in Proc : Writer(q)' => Writer(q)
    BY <1>1, <2>1 DEF Goto, Writer, InStores, Does
  <2>3. QED
    BY <1>1, <2>1, <2>2 DEF ContentInv, IsContent
<1>5. CASE WriteConfig(p)
  <2>1. PICK label : label = IF Len(todo[p]) > 1 THEN "read" ELSE next[p]
    OBVIOUS
  <2>2. /\ file' = draft[p] \/ file' = Garbled
        /\ UNCHANGED <<cmd, backend, draft>> /\ Goto(p, label) /\ InStores(p) /\ pc[p] = "write"
    BY <1>5, <2>1 DEF WriteConfig
  <2>3. label \notin {"truncate", "write"}
    BY <1>1, <2>1, <2>2 DEF StoresInv, KeyCommand
  <2>4. \A q \in Proc : Writer(q)' => Writer(q)
    BY <1>1, <2>2, <2>3 DEF Goto, Writer, InStores, Does
  <2>5. Writer(p)
    BY <2>2 DEF Writer
  <2>6. file' \in {Absent, Emptied, Garbled} \/ IsContent(file')
    BY <1>1, <2>2, <2>5 DEF ContentInv
  <2>7. QED
    BY <1>1, <2>2, <2>4, <2>6 DEF ContentInv, IsContent
<1>6. QED
  BY <1>2, <1>3, <1>4, <1>5

LEMMA ContentStores == ASSUME Contents, NEW p \in Proc, StoresStep(p) \/ StatusLoad(p) PROVE ContentInv'
<1>1. DOMAIN pc = Proc /\ DOMAIN draft = Proc /\ ContentInv
  BY DEF Contents, StoresInv
<1>2. ASSUME UNCHANGED <<cmd, file, backend>>, NEW label, Goto(p, label), label \notin {"truncate", "write"},
             \A q \in Proc \ {p} : draft'[q] = draft[q]
      PROVE  ContentInv'
  BY <1>1, <1>2, ContentStays
<1>3. ASSUME NEW ok, NEW saves, NEW after, Load(p, ok, saves, after), after \notin {"truncate", "write"}
      PROVE  ContentInv'
  <2>1. UNCHANGED <<cmd, file, backend, draft>>
    BY <1>3 DEF Load
  <2>2. Goto(p, after) \/ Goto(p, "read") \/ Goto(p, "done")
    BY <1>3 DEF Load
  <2>3. QED
    BY <1>2, <1>3, <2>1, <2>2
<1>4. CASE Show(p) \/ ConfigSet(p) \/ LoginLoad(p) \/ LogoutLoad(p) \/ StatusLoad(p)
  <2>1. \E after \in {"done", "ask", "forget", "status"} : \E ok, saves : Load(p, ok, saves, after)
    BY <1>4 DEF Show, ConfigSet, LoginLoad, LogoutLoad, StatusLoad
  <2>2. QED
    BY <1>3, <2>1
<1>5. CASE ProfileUse(p) \/ ProfileAdd(p) \/ ProfileSet(p) \/ ProfileRemove(p)
  <2>1. \E ok, saves : Load(p, ok, saves, "done")
    BY <1>5 DEF ProfileUse, ProfileAdd, ProfileSet, ProfileRemove
  <2>2. QED
    BY <1>3, <2>1
<1>6. CASE AskBaseURL(p) \/ AskModel(p) \/ Ping(p)
  <2>1. /\ UNCHANGED <<cmd, file, backend, draft>>
        /\ \E label \in {"done", "ping", "askModel", "read", "keep"} : Goto(p, label)
    BY <1>6 DEF AskBaseURL, AskModel, MayEnter, Ping
  <2>2. QED
    BY <1>2, <2>1
<1>7. CASE Refuse(p) \/ Rejected(p) \/ StoresDie(p)
  BY <1>2, <1>7 DEF Refuse, Rejected, StoresDie, storeVars, configVars
<1>8. CASE InKeychain(p) \/ KeyTruncate(p) \/ KeyWrite(p)
  BY <1>2, <1>8 DEF InKeychain, KeyTruncate, KeyWrite, configVars
<1>9. CASE KeyRead(p)
  <2>1. /\ UNCHANGED <<cmd, file, backend>> /\ (Goto(p, "done") \/ Goto(p, "keyTruncate"))
        /\ draft' = draft \/ draft' = [draft EXCEPT ![p] = KeyChange(p, KeysIn(creds))]
    BY <1>9 DEF KeyRead
  <2>2. \A q \in Proc \ {p} : draft'[q] = draft[q]
    BY <1>1, <2>1
  <2>3. QED
    BY <1>2, <2>1, <2>2
<1>10. QED
  BY <1>4, <1>5, <1>6, <1>7, <1>8, <1>9, ContentConfig DEF StoresStep

LEMMA ContentElsewhere ==
    ASSUME Contents, UNCHANGED <<file, backend, draft>>, Elsewhere(StoreCmds)
    PROVE  ContentInv'
<1>1. \A q \in Proc : Writer(q)' => Writer(q)
  BY DEF Contents, StoresInv, Elsewhere, Goto, Writer, InStores, Does
<1>2. QED
  BY <1>1 DEF Contents, ContentInv, IsContent

LEMMA ContentKeeps == Contents /\ CheckInv /\ [Next]_vars => ContentInv'
<1> SUFFICES ASSUME Contents, CheckInv, [Next]_vars PROVE ContentInv'
  OBVIOUS
<1>0. DOMAIN pc = Proc /\ ContentInv
  BY DEF Contents, StoresInv
<1>a. ASSUME NEW p \in Proc, UNCHANGED <<cmd, file, backend, draft>>,
             NEW label \in {"doctor", "check", "record", "done", "dead"}, Goto(p, label)
      PROVE  ContentInv'
  BY <1>0, <1>a, ContentStays
<1>1. CASE UNCHANGED vars
  BY <1>1, ContentElsewhere DEF vars, storeVars, Elsewhere
<1>2. CASE StoresNext
  BY <1>2, ContentStores DEF StoresNext
<1>3. ASSUME NEW p \in Proc, DoctorStep(p) PROVE ContentInv'
  <2>1. CASE DoctorLoad(p)
    BY <1>a, <2>1 DEF DoctorLoad, Step
  <2>2. CASE Check(p)
    BY <2>2, ContentElsewhere DEF Check, Report, storeVars, Elsewhere
  <2>3. CASE AskDoctor(p)
    <3>1. UNCHANGED <<cmd, file, backend, draft>> /\ (UNCHANGED pc \/ Goto(p, "record"))
      BY <2>3 DEF AskDoctor, Report, storeVars
    <3>2. QED
      BY <1>a, <3>1, ContentElsewhere DEF Elsewhere
  <2>4. CASE Finish(p)
    BY <1>a, <2>4 DEF Finish, Step, storeVars
  <2>5. CASE StatusLoad(p)
    BY <2>5, ContentStores
  <2>6. CASE StatusRow(p)
    <3>1. UNCHANGED <<cmd, file, backend, draft>> /\ (UNCHANGED pc \/ Goto(p, "done"))
      BY <2>6 DEF StatusRow, storeVars
    <3>2. QED
      BY <1>a, <3>1, ContentElsewhere DEF Elsewhere
  <2>7. QED
    BY <1>3, <2>1, <2>2, <2>3, <2>4, <2>5, <2>6 DEF DoctorStep
<1>4. CASE UpdatesNext
  <2>1. UNCHANGED <<cmd, file, backend, draft>>
    BY <1>4, UpdatesMoves DEF UpdatesNext, Publish, Tick, storeVars, Moves
  <2>2. CASE Publish \/ Tick
    BY <2>1, <2>2, ContentElsewhere DEF Publish, Tick, Elsewhere
  <2>3. ASSUME NEW p \in Proc, UpdatesStep(p) PROVE ContentInv'
    <3>1. Updating(p) /\ Moves(p) /\ DoctorGoes(p)
      BY <2>3, UpdatesMoves DEF CheckInv
    <3>2. CASE ~InStores(p)
      BY <2>1, <3>1, <3>2, ContentElsewhere DEF Moves, Elsewhere, InStores
    <3>3. CASE InStores(p)
      <4>1. Does(p, {"doctor"}) /\ cmd[p].do = "doctor" /\ pc[p] \in DoctorLabels
        BY <3>1, <3>3 DEF Updating, UpdateCmds, InStores, StoreCmds, Does, DoctorGoes
      <4>2. ~BeginUpgrade(p) /\ ~Fetch(p) /\ ~Download(p) /\ ~ReplaceUnix(p) /\ ~RemoveOld(p)
        BY <4>1 DEF BeginUpgrade, Fetch, Download, ReplaceUnix, RemoveOld, DoctorLabels
      <4>3. ~RenameAway(p) /\ ~Create(p) /\ ~Fill(p) /\ ~RenameBack(p) /\ ~Notice(p) /\ ~Ask(p)
        BY <4>1 DEF RenameAway, Create, Fill, RenameBack, Notice, Ask, DoctorLabels
      <4>4. CASE Launch(p)
        <5>1. Goto(p, "doctor") \/ Goto(p, "done")
          BY <4>1, <4>4 DEF Launch
        <5>2. QED
          BY <1>a, <2>1, <5>1
      <4>5. CASE Record(p)
        BY <1>a, <2>1, <4>1, <4>5 DEF Record, AfterRecord
      <4>6. CASE UpdatesDie(p)
        BY <1>a, <2>1, <4>6 DEF UpdatesDie
      <4>7. QED
        BY <2>3, <4>2, <4>3, <4>4, <4>5, <4>6 DEF UpdatesStep
    <3>4. QED
      BY <3>2, <3>3
  <2>4. QED
    BY <1>4, <2>2, <2>3 DEF UpdatesNext
<1>5. CASE RcNext
  <2>1. Elsewhere(StoreCmds)
    BY <1>5, RcMoves DEF RcNext, Edit, Moves, Elsewhere, Initializing, RcCmds, Does, StoreCmds
  <2>2. QED
    BY <1>5, <2>1, ContentElsewhere DEF RcNext, storeVars
<1>6. CASE FixNext
  <2>1. Elsewhere(StoreCmds)
    BY <1>6, FixMoves DEF FixNext, HookRecord, Minute, Moves, Elsewhere, Fixing, Does, StoreCmds
  <2>2. QED
    BY <1>6, <2>1, ContentElsewhere DEF FixNext, storeVars
<1>7. CASE ChatNext
  <2>1. Elsewhere(StoreCmds)
    BY <1>7, ChatMoves DEF ChatNext, Moves, Elsewhere, Chatting, Does, StoreCmds
  <2>2. QED
    BY <1>7, <2>1, ContentElsewhere DEF ChatNext, storeVars
<1>8. CASE DoctorNext
  BY <1>3, <1>8 DEF DoctorNext
<1>9. QED
  BY <1>1, <1>2, <1>4, <1>5, <1>6, <1>7, <1>8 DEF Next

LEMMA ContentStarts == HomeBegin => ContentInv
<1> SUFFICES ASSUME HomeBegin PROVE ContentInv
  OBVIOUS
<1>1. pc = [p \in Proc |-> "start"] /\ FilesBegin
  BY DEF HomeBegin, HomeInit
<1>2. \A p \in Proc : ~Writer(p)
  BY <1>1 DEF Writer
<1>3. QED
  BY <1>1, <1>2 DEF ContentInv, FilesBegin, IsContent

LEMMA ContentAlways == HomeSpec => []ContentInv
<1>1. HomeSpec => []CheckInv
  BY CheckStarts, CheckKeeps, PTL DEF HomeSpec
<1>2. StoresInv /\ ContentInv /\ CheckInv /\ [Next]_vars => ContentInv'
  BY ContentKeeps DEF Contents
<1>3. QED
  BY <1>1, <1>2, ContentStarts, StoredAlways, PTL DEF HomeSpec

(* ------------------------- settings and their sources ------------------------ *)

LEMMA SettingTold ==
    ASSUME NEW f, f \in {Absent, Emptied} \/ IsContent(f), NEW o, NEW k \in Keys
    PROVE  LET v == Effective(f, o).value[k]
               s == Source(f, o, k)
           IN  v = CASE s = "env"     -> o.vars[k]
                     [] s = "profile" -> Content(f).profiles[Active(Content(f), o)][k]
                     [] s = "file"    -> Content(f).own[k]
                     [] s = "default" -> Default[k]
<1>1. PICK c, m : c = Content(f) /\ m = Merged(f)
  OBVIOUS
<1>2. /\ m = [own |-> Overriding(c.own, Default), active |-> c.active, profiles |-> c.profiles]
  BY <1>1, MergedIs
<1>3. m.own = Overriding(c.own, Default) /\ m.active = c.active /\ m.profiles = c.profiles
  BY <1>2
<1>4. PICK a : a = Active(c, o)
  OBVIOUS
<1>5. Active(m, o) = a /\ Overlay(m, o) = Overlay(c, o)
  BY <1>3, <1>4 DEF Active, Overlay
<1>6. PICK w : w = Overlay(c, o)
  OBVIOUS
<1>7. k \in DOMAIN w => w[k] = c.profiles[a][k]
  <2>1. DOMAIN <<>> = {}
    OBVIOUS
  <2>2. CASE a \in DOMAIN c.profiles
    BY <1>4, <1>6, <2>2 DEF Overlay
  <2>3. CASE a \notin DOMAIN c.profiles
    <3>1. w = <<>>
      BY <1>4, <1>6, <2>3 DEF Overlay
    <3>2. QED
      BY <2>1, <3>1
  <2>4. QED
    BY <2>2, <2>3
<1>8. PICK v : v = Overriding(o.vars, Overriding(w, m.own))
  OBVIOUS
<1>9. v[k] = IF k \in DOMAIN o.vars THEN o.vars[k] ELSE IF k \in DOMAIN w THEN w[k]
             ELSE IF k \in DOMAIN c.own THEN c.own[k] ELSE Default[k]
  <2>1. k \in DOMAIN Default
    BY ConfigAssumption
  <2>2. PICK g : g = Overriding(c.own, Default)
    OBVIOUS
  <2>3. k \in DOMAIN g /\ g[k] = IF k \in DOMAIN c.own THEN c.own[k] ELSE Default[k]
    BY <2>1, <2>2 DEF Overriding
  <2>4. PICK h : h = Overriding(w, g)
    OBVIOUS
  <2>5. k \in DOMAIN h /\ h[k] = IF k \in DOMAIN w THEN w[k] ELSE g[k]
    BY <2>3, <2>4 DEF Overriding
  <2>6. v = Overriding(o.vars, h)
    BY <1>3, <1>8, <2>2, <2>4
  <2>7. v[k] = IF k \in DOMAIN o.vars THEN o.vars[k] ELSE h[k]
    BY <2>5, <2>6 DEF Overriding
  <2>8. QED
    BY <2>3, <2>5, <2>7
<1>10. Effective(f, o).value = v
  BY <1>1, <1>5, <1>6, <1>8 DEF Effective
<1>11. Source(f, o, k) = IF k \in DOMAIN o.vars THEN "env" ELSE IF k \in DOMAIN w THEN "profile"
                         ELSE IF k \in DOMAIN c.own THEN "file" ELSE "default"
  BY <1>1, <1>6 DEF Source
<1>12. PICK s : s = Source(f, o, k)
  OBVIOUS
<1>13. v[k] = CASE s = "env"     -> o.vars[k]
                [] s = "profile" -> c.profiles[a][k]
                [] s = "file"    -> c.own[k]
                [] s = "default" -> Default[k]
  BY <1>7, <1>9, <1>11, <1>12
<1>14. QED
  BY <1>1, <1>4, <1>10, <1>12, <1>13

(* ---------------------------- keys and their places -------------------------- *)

(* The first variable that is set is the one whose key is taken.              *)
LEMMA EnvKey ==
    ASSUME NEW x \in Providers
    PROVE  \/ FirstSetEnvVar(x) = "" /\ ResolveEnvKey(x) = NoKey
           \/ /\ FirstSetEnvVar(x) \notin {"", "keychain", "file"}
              /\ ResolveEnvKey(x) = machine.environ[FirstSetEnvVar(x)]
<1>1. PICK s : s = EnvVars[x]
  OBVIOUS
<1>2. s \in Seq(STRING) /\ DOMAIN s = 1..Len(s) /\ Len(s) \in Nat /\ \A i \in DOMAIN s : s[i] \notin {"", "keychain", "file"}
  <2>1. s \in Seq(STRING) /\ \A i \in DOMAIN s : s[i] \notin {"", "keychain", "file"}
    BY <1>1, DoctorAssumption
  <2>2. \A R : \A t \in Seq(R) : DOMAIN t = 1..Len(t) /\ Len(t) \in Nat
    OBVIOUS
  <2>3. DOMAIN s = 1..Len(s) /\ Len(s) \in Nat
    BY <2>1, <2>2
  <2>4. QED
    BY <2>1, <2>3
<1>3. PICK set : set = {i \in DOMAIN s : s[i] \in DOMAIN machine.environ}
  OBVIOUS
<1>4. PICK r : r = Picked(s, set)
  OBVIOUS
<1>5. set \cap DOMAIN s = set /\ set \in SUBSET Nat /\ set \subseteq DOMAIN s
  <2>1. \A i \in set : i \in DOMAIN s
    BY <1>3
  <2>2. \A i \in DOMAIN s : i \in Nat
    <3>1. \A n \in Nat : \A i \in 1..n : i \in Nat
      OBVIOUS
    <3>2. QED
      BY <1>2, <3>1, Zenon
  <2>3. QED
    BY <2>1, <2>2
<1>6. r \in Seq(STRING) /\ Follows(r, s, set)
  <2>1. r \in Seq(STRING) /\ Follows(r, s, set \cap DOMAIN s)
    BY <1>2, <1>4, PickedFollows
  <2>2. QED
    BY <1>5, <2>1
<1>7. ResolveEnvKey(x) = IF r = <<>> THEN NoKey ELSE machine.environ[Head(r)]
  BY <1>1, <1>3, <1>4 DEF ResolveEnvKey
<1>8. CASE set = {}
  <2>1. FirstSetEnvVar(x) = ""
    BY <1>1, <1>3, <1>8 DEF FirstSetEnvVar
  <2>2. r = <<>>
    BY <1>6, <1>8 DEF Follows
  <2>3. QED
    BY <1>7, <2>1, <2>2
<1>9. CASE set /= {}
  <2>1. PICK i : i = CHOOSE n \in set : \A j \in set : n <= j
    OBVIOUS
  <2>2. i \in set /\ \A j \in set : i <= j
    BY <1>5, <1>9, <2>1, Least
  <2>3. FirstSetEnvVar(x) = s[i]
    BY <1>1, <1>3, <1>9, <2>1 DEF FirstSetEnvVar
  <2>4. r /= <<>> /\ r[1] = s[i]
    <3>1. PICK at \in [1..Len(r) -> set] :
              /\ \A k \in 1..Len(r) : r[k] = s[at[k]]
              /\ \A j, k \in 1..Len(r) : j < k => at[j] < at[k]
              /\ \A n \in set : \E k \in 1..Len(r) : at[k] = n
      BY <1>6 DEF Follows
    <3>2. PICK k \in 1..Len(r) : at[k] = i
      BY <2>2, <3>1
    <3>3. Len(r) \in Nat /\ 1 \in 1..Len(r) /\ k >= 1 /\ k \in Nat
      BY <1>6, <3>2
    <3>4. at[1] \in set /\ at[1] \in Nat /\ i \in Nat /\ i <= at[1]
      BY <1>5, <2>2, <3>1, <3>3
    <3>5. k = 1
      <4>1. k > 1 => at[1] < i
        BY <3>1, <3>2, <3>3
      <4>2. QED
        BY <3>3, <3>4, <4>1
    <3>6. Len(<<>>) = 0
      OBVIOUS
    <3>7. r /= <<>>
      BY <3>3, <3>6
    <3>8. QED
      BY <3>1, <3>2, <3>5, <3>7
  <2>5. Head(r) = r[1]
    BY <1>6, <2>4
  <2>6. QED
    BY <1>2, <1>5, <1>7, <2>2, <2>3, <2>4, <2>5
<1>10. QED
  BY <1>8, <1>9

LEMMA KeyTold ==
    ASSUME NEW p \in Proc, backend[p] \in {"keychain", "file"}, NEW x \in Providers
    PROVE  /\ LET r == KeyCheck(p, x)
              IN  IF r.severity = "fail" THEN Resolve(p, x) = NoKey ELSE Resolve(p, x) = KeyAt(r.says, x)
           /\ StoreGet(p, x) /= Corrupt => Resolve(p, x) = KeyAt(StatusLabel(p, x), x)
<1>1. x \notin Keyless \cup {""}
  BY DoctorAssumption
<1>2. PICK g, v, b : g = StoreGet(p, x) /\ v = FirstSetEnvVar(x) /\ b = backend[p]
  OBVIOUS
<1>3. g /= NoKey => g = KeyAt(b, x)
  <2> SUFFICES ASSUME g /= NoKey PROVE g = KeyAt(b, x)
    OBVIOUS
  <2>1. CASE b = "keychain"
    BY <1>2, <2>1 DEF StoreGet, KeyAt
  <2>2. CASE b = "file"
    <3>1. x \in DOMAIN KeysIn(creds) /\ g = KeysIn(creds)[x]
      BY <1>2, <2>2 DEF StoreGet
    <3>2. DOMAIN NoMap = {}
      BY DEF NoMap
    <3>3. KeysIn(creds) = creds
      BY <3>1, <3>2 DEF KeysIn
    <3>4. KeyAt(b, x) = creds[x]
      BY <2>2 DEF KeyAt
    <3>5. QED
      BY <3>1, <3>3, <3>4
  <2>3. QED
    BY <1>2, <2>1, <2>2
<1>4. \/ v = "" /\ ResolveEnvKey(x) = NoKey /\ KeyAt(v, x) = NoKey
      \/ v /= "" /\ ResolveEnvKey(x) = KeyAt(v, x)
  <2>1. CASE v = ""
    BY <1>2, <2>1, EnvKey DEF KeyAt
  <2>2. CASE v /= ""
    <3>1. v \notin {"", "keychain", "file"} /\ ResolveEnvKey(x) = machine.environ[v]
      BY <1>2, <2>2, EnvKey
    <3>2. KeyAt(v, x) = machine.environ[v]
      BY <3>1 DEF KeyAt
    <3>3. QED
      BY <2>2, <3>1, <3>2
  <2>3. QED
    BY <2>1, <2>2
<1>5. PICK r : r = KeyCheck(p, x)
  OBVIOUS
<1>6. CASE g \notin {NoKey, Corrupt}
  <2>1. Resolve(p, x) = g /\ r = OK(b) /\ StatusLabel(p, x) = b
    BY <1>1, <1>2, <1>5, <1>6 DEF Resolve, KeyCheck, Stored, StatusLabel
  <2>2. r.severity = "ok" /\ r.says = b
    BY <2>1 DEF OK, Result
  <2>3. QED
    BY <1>2, <1>3, <1>5, <1>6, <2>1, <2>2
<1>7. CASE g \in {NoKey, Corrupt}
  <2>1. Resolve(p, x) = ResolveEnvKey(x) /\ r = IF v /= "" THEN OK(v) ELSE Fail("login")
    BY <1>1, <1>2, <1>5, <1>7 DEF Resolve, KeyCheck, Stored
  <2>2. g = NoKey => StatusLabel(p, x) = v
    BY <1>2 DEF StatusLabel
  <2>3. IF v /= "" THEN r.severity = "ok" /\ r.says = v ELSE r.severity = "fail"
    BY <2>1 DEF OK, Fail, Result
  <2>4. QED
    BY <1>2, <1>4, <1>5, <1>7, <2>1, <2>2, <2>3
<1>8. QED
  BY <1>6, <1>7

(* What comrade says of a setting or of a key is what it will use: the layer  *)
(* Source names holds the value newEffectiveViper merges, and the place       *)
(* doctor and auth status name holds the key a request is sent with, for any  *)
(* settings, profiles, overlays, keys and variables, whatever other processes *)
(* write.                                                                     *)
THEOREM ReportsAreTrue == HomeSpec => []ReportsTrue
<1>1. ContentInv => ReportsTrue
  <2> SUFFICES ASSUME ContentInv PROVE SettingsTold /\ KeysTold
    BY DEF ReportsTrue
  <2>1. SettingsTold
    <3>1. ASSUME Readable(file), NEW p \in {q \in Proc : InStores(q)}, NEW k \in Keys
          PROVE  LET v == Effective(file, from[p]).value[k]
                     s == Source(file, from[p], k)
                 IN  v = CASE s = "env"     -> from[p].vars[k]
                           [] s = "profile" -> Content(file).profiles[Active(Content(file), from[p])][k]
                           [] s = "file"    -> Content(file).own[k]
                           [] s = "default" -> Default[k]
      <4>1. file \in {Absent, Emptied} \/ IsContent(file)
        BY <3>1 DEF ContentInv, Readable
      <4>2. QED
        BY <4>1, SettingTold
    <3>2. QED
      BY <3>1 DEF SettingsTold
  <2>2. KeysTold
    BY KeyTold DEF KeysTold, ContentInv
  <2>3. QED
    BY <2>1, <2>2
<1>2. QED
  BY <1>1, ContentAlways, PTL

(* ------------------------------- the remedies -------------------------------- *)

(* A block that is in place is found again, and put in its own place.         *)
LEMMA ApplyOnce ==
    ASSUME NEW s \in Seq(Lines), ~Unmatched(s)
    PROVE  ~Unmatched(ApplyBlock(s)) /\ ApplyBlock(ApplyBlock(s)) = ApplyBlock(s)
<1>1. PICK u, v : /\ u \in Seq(Lines) /\ v \in Seq(Lines) /\ NoBegin(u)
                  /\ ApplyBlock(s) = u \o Block \o v
  <2>1. CASE BeginOf(s) = 0
    <3>1. PICK u : u = IF s = <<>> THEN s ELSE Append(s, Blank)
      OBVIOUS
    <3>2. u \in Seq(Lines)
      BY <3>1, BlankLast
    <3>3. NoBegin(s)
      BY <2>1, BeginIs
    <3>4. NoBegin(u)
      <4>1. Blank /= Begin
        BY DEF Blank, Begin
      <4>2. \A i \in DOMAIN Append(s, Blank) : Append(s, Blank)[i] = IF i \in DOMAIN s THEN s[i] ELSE Blank
        OBVIOUS
      <4>3. QED
        BY <3>1, <3>3, <4>1, <4>2 DEF NoBegin
    <3>5. u \o Block \in Seq(Lines) /\ <<>> \in Seq(Lines)
      BY <3>2, BlockType
    <3>6. u \o Block \o <<>> = u \o Block
      BY <3>5, ConcatEmptySeq
    <3>7. ApplyBlock(s) = u \o Block
      BY <2>1, <3>1 DEF ApplyBlock
    <3>8. QED
      BY <3>2, <3>4, <3>5, <3>6, <3>7
  <2>2. CASE BeginOf(s) /= 0
    <3>1. EndOf(s) /= 0
      BY <2>2, BeginIs DEF Unmatched
    <3>2. Before(s) \in Seq(Lines) /\ After(s) \in Seq(Lines) /\ NoBegin(Before(s))
      BY <3>1, AroundIs
    <3>3. QED
      BY <2>2, <3>2 DEF ApplyBlock
  <2>3. QED
    BY <2>1, <2>2
<1>2. PICK t : t = u \o Block \o v
  OBVIOUS
<1>3. BeginOf(t) /= 0 /\ EndOf(t) /= 0 /\ Before(t) = u /\ After(t) = v
  BY <1>1, <1>2, OwnAround
<1>4. ~Unmatched(t) /\ ApplyBlock(t) = t
  BY <1>2, <1>3 DEF Unmatched, ApplyBlock
<1>5. QED
  BY <1>1, <1>2, <1>4

(* A base URL of one's own takes effect, unless a layer above the file has    *)
(* one.                                                                       *)
LEMMA OwnTakesEffect ==
    ASSUME NEW f, f \in {Absent, Emptied} \/ IsContent(f), NEW o
    PROVE  LET set == Saved([save |-> "key", key |-> "url", value |-> "own"], Merged(f))
           IN  \/ Effective(set, o).value["url"] = "own"
               \/ Source(f, o, "url") \in {"env", "profile"}
<1>1. PICK c, m, op : c = Content(f) /\ m = Merged(f) /\ op = [save |-> "key", key |-> "url", value |-> "own"]
  OBVIOUS
<1>2. IsContent(m) /\ m.active = c.active /\ m.profiles = c.profiles
  <2>1. IsContent(m) /\ m = [own |-> Overriding(c.own, Default), active |-> c.active, profiles |-> c.profiles]
    BY <1>1, MergedIs
  <2>2. QED
    BY <2>1
<1>3. PICK set, w : set = Saved(op, m) /\ w = Put(m.own, "url", "own")
  OBVIOUS
<1>4. set = [own |-> w, active |-> c.active, profiles |-> c.profiles]
  <2>1. op.save = "key" /\ op.key = "url" /\ op.value = "own"
    BY <1>1
  <2>2. set = [m EXCEPT !.own = w]
    BY <1>3, <2>1 DEF Saved
  <2>3. QED
    BY <1>2, <2>2 DEF IsContent
<1>5. IsContent(set) /\ set.own = w /\ set.active = c.active /\ set.profiles = c.profiles
  BY <1>4 DEF IsContent
<1>6. "url" \in DOMAIN w /\ w["url"] = "own" /\ "url" \in Keys
  BY <1>3, ConfigAssumption DEF Put
<1>7. Content(set) = set /\ Overlay(set, o) = Overlay(c, o)
  BY <1>5, ContentThere DEF Content, Overlay, Active
<1>8. CASE "url" \in DOMAIN o.vars \/ "url" \in DOMAIN Overlay(c, o)
  BY <1>1, <1>8 DEF Source
<1>9. CASE ~("url" \in DOMAIN o.vars \/ "url" \in DOMAIN Overlay(c, o))
  <2>1. Source(set, o, "url") = "file"
    BY <1>5, <1>6, <1>7, <1>9 DEF Source
  <2>2. Effective(set, o).value["url"] = Content(set).own["url"]
    BY <1>5, <1>6, <2>1, SettingTold
  <2>3. QED
    BY <1>1, <1>3, <1>5, <1>6, <1>7, <2>2
<1>10. QED
  BY <1>8, <1>9

(* The command doctor names as a remedy is one: after an init the check of    *)
(* the hook passes, unless a block has lost its end, and a base URL set in    *)
(* the file takes effect, unless a profile or a variable sets it; for any     *)
(* startup file and any configuration.                                        *)
THEOREM RemediesDoCure == HomeSpec => []RemediesCure
<1>1. ASSUME RcInv PROVE LET s == ContentOf(RCPath(DetectShell))
                         IN  Unmatched(s) \/ HookStatus(ApplyBlock(s)).severity = "ok"
  <2>1. PICK s : s = ContentOf(RCPath(DetectShell))
    OBVIOUS
  <2>2. s \in Seq(Lines)
    <3>1. <<>> \in Seq(Lines)
      OBVIOUS
    <3>2. \A f \in RcFiles : rc[f] \in Seq(Lines)
      BY <1>1 DEF RcInv, RcType
    <3>3. QED
      BY <2>1, <3>1, <3>2 DEF ContentOf
  <2>3. CASE ~Unmatched(s)
    <3>1. HookStatus(ApplyBlock(s)) = OK("")
      BY <2>2, <2>3, ApplyOnce DEF HookStatus
    <3>2. OK("").severity = "ok"
      BY DEF OK, Result
    <3>3. HookStatus(ApplyBlock(s)).severity = "ok"
      BY <3>1, <3>2, Zenon
    <3>4. QED
      BY <2>1, <3>3
  <2>4. QED
    BY <2>1, <2>3
<1>2. ASSUME ContentInv, Readable(file), NEW p \in Proc
      PROVE  LET set == Saved([save |-> "key", key |-> "url", value |-> "own"], Merged(file))
             IN  \/ Effective(set, from[p]).value["url"] = "own"
                 \/ Source(file, from[p], "url") \in {"env", "profile"}
  <2>1. file \in {Absent, Emptied} \/ IsContent(file)
    BY <1>2 DEF ContentInv, Readable
  <2>2. QED
    BY <2>1, OwnTakesEffect
<1>3. RcInv /\ ContentInv => RemediesCure
  BY <1>1, <1>2 DEF RemediesCure
<1>4. HomeSpec => []RcInv
  BY RcStarts, RcKeeps, PTL DEF HomeSpec
<1>5. QED
  BY <1>3, <1>4, ContentAlways, PTL
=============================================================================
