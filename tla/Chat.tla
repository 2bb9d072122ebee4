--------------------------------- MODULE Chat ---------------------------------
(* comrade chat: the screen's event loop, the goroutine that carries out a    *)
(* line while the screen waits, and Ctrl-C (cli/chat.go, chatmodel.go,        *)
(* chatdispatch.go, chatsession.go, chatparse.go). cmd[p].do is "chat". What  *)
(* /do runs is Planning and Runner; here it is the commands it starts.        *)
EXTENDS Processes, Lists

CONSTANTS Words,   \* the first word of a line if it starts with a slash, else ""
          MaxLines \* bound on the lines of a session

VARIABLES waiting, \* waiting[p]: the screen takes no line
          turns,   \* turns[p]: the lines being carried out
          history, \* history[p]: the messages of the session
          mode,    \* mode[p]
          saved,   \* saved[p]: the transcript file: its messages and the line that wrote it
          doing,   \* doing[p]: a command of /do is running
          stopped, \* stopped[p]: p's context is canceled
          entered, \* history: entered[p], the kinds of the lines entered, in order
          fate     \* history: fate[p], what became of each: "pending", "good", "bad"

chatVars == <<waiting, turns, history, mode, saved, doing, stopped, entered, fate>>

Chatting(p) == Does(p, {"chat"})

(* What a line with that first word is, with or without an argument; "other"  *)
(* changes nothing: help, how to use a command, what is unknown.              *)
ParseChatInput(word, arg) ==
    CASE word = ""                           -> "text"
      [] word \in {"/exit", "/quit"}         -> "exit"
      [] word = "/clear"                     -> "clear"
      [] word = "/mode" /\ arg              -> "mode"
      [] word = "/save" /\ arg              -> "save"
      [] word = "/do" /\ arg                -> "do"
      [] OTHER                               -> "other"
Unsaved == [line |-> 0, messages |-> <<>>]

ChatInit ==
    /\ waiting = [p \in Proc |-> FALSE] /\ turns = [p \in Proc |-> {}]
    /\ history = [p \in Proc |-> <<>>] /\ mode = [p \in Proc |-> "ask"]
    /\ saved = [p \in Proc |-> Unsaved] /\ doing = [p \in Proc |-> FALSE]
    /\ stopped = [p \in Proc |-> FALSE]
    /\ entered = [p \in Proc |-> <<>>] /\ fate = [p \in Proc |-> <<>>]

Open(p) ==
    /\ Chatting(p) /\ pc[p] = "start"
    /\ Goto(p, "screen") \/ Goto(p, "done")
    /\ UNCHANGED <<cmd, chatVars>>

(* ------------------------------- the screen --------------------------------- *)

ReadyAlways(p) == TRUE \* mutant: a line is taken while another is carried out

(* Enter on a line that is not empty; it does nothing while a line is being   *)
(* carried out.                                                               *)
Ready(p) == ~waiting[p]


Enter(p) ==
    /\ Chatting(p) /\ pc[p] = "screen" /\ Ready(p)
    /\ Len(entered[p]) < MaxLines
    /\ \E word \in Words, arg \in BOOLEAN : LET kind == ParseChatInput(word, arg) IN
          /\ entered' = [entered EXCEPT ![p] = Append(@, kind)]
          /\ fate' = [fate EXCEPT ![p] = Append(@, "pending")]
          /\ turns' = [turns EXCEPT ![p] = @ \cup
                 {[line |-> Len(entered[p]) + 1, kind |-> kind, at |-> "begun", context |-> <<>>]}]
    /\ waiting' = [waiting EXCEPT ![p] = TRUE]
    /\ UNCHANGED <<cmd, pc, history, mode, saved, doing, stopped>>

(* chatTurnDoneMsg.                                                           *)
TurnDone(p) ==
    /\ Chatting(p) /\ pc[p] = "screen"
    /\ \E t \in turns[p] :
          /\ t.at = "done"
          /\ turns' = [turns EXCEPT ![p] = @ \ {t}]
          /\ IF t.kind = "exit" THEN Goto(p, "done") ELSE UNCHANGED pc
    /\ waiting' = [waiting EXCEPT ![p] = FALSE]
    /\ UNCHANGED <<cmd, history, mode, saved, doing, stopped, entered, fate>>

(* ----------------------------- carrying out a line --------------------------- *)

Moved(p, t, at) == turns' = [turns EXCEPT ![p] = (@ \ {t}) \cup {[t EXCEPT !.at = at]}]
Settled(p, t, how) == fate' = [fate EXCEPT ![p][t.line] = how]
Pair(n) == <<[role |-> "user", line |-> n], [role |-> "assistant", line |-> n]>>

(* dispatch: the lines that need no waiting are done with at once.            *)
Dispatch(p) == Chatting(p) /\ pc[p] = "screen" /\ \E t \in turns[p] :
    /\ t.at = "begun"
    /\ \/ /\ t.kind = "text"
          /\ turns' = [turns EXCEPT ![p] = (@ \ {t}) \cup
                           {[t EXCEPT !.at = "asking", !.context = history[p]]}]
          /\ UNCHANGED <<history, mode, saved, fate>>
       \/ t.kind = "do" /\ Moved(p, t, "running") /\ UNCHANGED <<history, mode, saved, fate>>
       \/ /\ t.kind = "mode" /\ Moved(p, t, "done") /\ Settled(p, t, "bad")
          /\ \E m \in {"ask", "auto"} : mode' = [mode EXCEPT ![p] = m]
          /\ UNCHANGED <<history, saved>>
       \/ /\ t.kind = "clear" /\ Moved(p, t, "done") /\ Settled(p, t, "bad")
          /\ history' = [history EXCEPT ![p] = <<>>]
          /\ UNCHANGED <<mode, saved>>
       \/ /\ t.kind = "save" /\ Moved(p, t, "done") /\ Settled(p, t, "bad")
          /\ \E s \in {[line |-> t.line, messages |-> history[p]], saved[p], Unsaved} :
                 saved' = [saved EXCEPT ![p] = s]
          /\ UNCHANGED <<history, mode>>
       \/ /\ t.kind \in {"exit", "other"} /\ Moved(p, t, "done") /\ Settled(p, t, "bad")
          /\ UNCHANGED <<history, mode, saved>>
    /\ UNCHANGED <<cmd, pc, waiting, doing, stopped, entered>>

(* handleText after the answer: a failed one leaves no trace.                 *)
Reply(p) == Chatting(p) /\ pc[p] = "screen" /\ \E t \in turns[p] :
    /\ t.at = "asking" /\ Moved(p, t, "done")
    /\ \/ /\ Settled(p, t, "good")
          /\ history' = [history EXCEPT ![p] = @ \o Pair(t.line)]
       \/ Settled(p, t, "bad") /\ UNCHANGED history
    /\ UNCHANGED <<cmd, pc, waiting, mode, saved, doing, stopped, entered>>

(* /do: commands start and end, the executor killing them once the context is *)
(* canceled. The line is kept with its summary, or with its error.            *)
StartCommand(p) ==
    /\ Chatting(p) /\ pc[p] = "screen" /\ ~doing[p] /\ ~stopped[p]
    /\ \E t \in turns[p] : t.at = "running"
    /\ doing' = [doing EXCEPT ![p] = TRUE]
    /\ UNCHANGED <<cmd, pc, waiting, turns, history, mode, saved, stopped, entered, fate>>

CommandEnds(p) ==
    /\ Chatting(p) /\ doing[p]
    /\ doing' = [doing EXCEPT ![p] = FALSE]
    /\ UNCHANGED <<cmd, pc, waiting, turns, history, mode, saved, stopped, entered, fate>>

DoDone(p) == Chatting(p) /\ pc[p] = "screen" /\ \E t \in turns[p] :
    /\ t.at = "running" /\ ~doing[p]
    /\ Moved(p, t, "done") /\ Settled(p, t, "good")
    /\ history' = [history EXCEPT ![p] = @ \o Pair(t.line)]
    /\ UNCHANGED <<cmd, pc, waiting, mode, saved, doing, stopped, entered>>

(* ---------------------------------- Ctrl-C ---------------------------------- *)

(* A key of the screen, which quits, unless /do has the terminal: then it is  *)
(* a signal, which cancels the context of the screen and of the commands.     *)
CtrlC(p) ==
    /\ Chatting(p) /\ pc[p] = "screen"
    /\ IF \E t \in turns[p] : t.at = "running"
       THEN stopped' = [stopped EXCEPT ![p] = TRUE] /\ UNCHANGED pc
       ELSE Goto(p, "done") /\ UNCHANGED stopped
    /\ UNCHANGED <<cmd, waiting, turns, history, mode, saved, doing, entered, fate>>

ScreenKilled(p) ==
    /\ Chatting(p) /\ pc[p] = "screen" /\ stopped[p]
    /\ Goto(p, "done")
    /\ UNCHANGED <<cmd, chatVars>>

ChatStep(p) ==
    \/ Open(p) \/ Enter(p) \/ TurnDone(p) \/ Dispatch(p) \/ Reply(p)
    \/ StartCommand(p) \/ CommandEnds(p) \/ DoDone(p) \/ CtrlC(p) \/ ScreenKilled(p)

(* -------------------------------- properties -------------------------------- *)

(* The messages of the lines before line n that count: those that were good,  *)
(* since the last /clear.                                                     *)
Cleared(p, n) == {i \in 1..(n - 1) : entered[p][i] = "clear"}
Counted(p, n) == Joined([i \in 1..(n - 1) |->
    IF fate[p][i] = "good" /\ (\A j \in Cleared(p, n) : j < i) THEN Pair(i) ELSE <<>>])

(* A chat is one conversation: whatever answers, fails or is cut short, every *)
(* question is asked with exactly the exchanges before it as its context, a   *)
(* transcript holds exactly those before its /save, and once nothing is being *)
(* carried out the history is all of them, in the order they were entered.    *)
(* A command of /do is still running when chat is gone only if Ctrl-C came    *)
(* while /do had the terminal.                                                *)
OneConversation == \A p \in Proc :
    /\ \A t \in turns[p] : t.at = "asking" => t.context = Counted(p, t.line)
    /\ saved[p].line > 0 => saved[p].messages = Counted(p, saved[p].line)
    /\ turns[p] = {} => history[p] = Counted(p, Len(entered[p]) + 1)
    /\ Ended(p) /\ doing[p] => stopped[p]
=============================================================================
