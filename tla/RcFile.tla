-------------------------------- MODULE RcFile --------------------------------
(* comrade init and comrade init --remove: the block between two markers in   *)
(* a shell's startup file (cli/init.go, shellinit/block.go), and the user's   *)
(* editor. cmd[p].do is "install" (with yes) or "uninstall"; cmd[p].files is  *)
(* its sequence of files, two profiles for PowerShell on Windows, else one;   *)
(* cmd[p].fish says that fish's completions file goes with it. A content is a *)
(* sequence of lines.                                                         *)
EXTENDS Processes, Lists

CONSTANTS RcFiles

VARIABLES rc,          \* rc[f]: the content of f, empty when there is no f
          completions, \* fish's completions file is there
          planned,     \* planned[p]: the files p is to write, with their contents
          turn,        \* turn[p]: how many of its files p is through with
          edits,       \* how often the editor has saved; bounded by MaxEdits
          kept,        \* ghost: kept[f], the user's own lines, in order
          stale        \* ghost: f was written from a content older than another write

CONSTANT MaxEdits

rcVars == <<rc, completions, planned, turn, edits, kept, stale>>

RcCmds == {"install", "uninstall"}
Initializing(p) == Does(p, RcCmds)

Begin == "# >>> cli-comrade >>>"
End == "# <<< cli-comrade <<<"
Blank == ""
Block == <<Begin, "hook v2", End>>   \* shellinit.Block of this build
OldBlock == <<Begin, "hook v1", End>>

(* The first marker, and the first end marker after it; 0 when there is none. *)
First(s, line, after) ==
    LET at == {i \in (after + 1)..Len(s) : s[i] = line}
    IN  IF at = {} THEN 0 ELSE CHOOSE i \in at : \A j \in at : i <= j
BeginOf(s) == First(s, Begin, 0)
EndOf(s) == IF BeginOf(s) = 0 THEN 0 ELSE First(s, End, BeginOf(s))
Before(s) == SubSeq(s, 1, BeginOf(s) - 1)
AfterFromEnd(s) == SubSeq(s, EndOf(s), Len(s)) \* mutant: the rest begins with the end marker
After(s) == SubSeq(s, EndOf(s) + 1, Len(s))

UnmatchedIgnored(s) == FALSE \* mutant: a block without its end is replaced all the same

(* ApplyBlock and appendBlock.                                                *)
Unmatched(s) == BeginOf(s) > 0 /\ EndOf(s) = 0
ApplyBlock(s) ==
    IF BeginOf(s) = 0 THEN (IF s = <<>> THEN s ELSE Append(s, Blank)) \o Block
    ELSE Before(s) \o Block \o After(s)

(* RemoveBlock takes one blank line before the block away with it.            *)
RemoveBlock(s) ==
    IF EndOf(s) = 0 THEN s
    ELSE LET b == Before(s)
             n == Len(b)
         IN  (IF n > 1 /\ b[n] = Blank THEN SubSeq(b, 1, n - 1) ELSE b) \o After(s)

(* What is the user's: the lines outside a block, blank ones apart.           *)
Own(s) == Without(IF EndOf(s) = 0 THEN s ELSE Before(s) \o After(s), Blank)

RcInit ==
    /\ planned = [p \in Proc |-> <<>>] /\ turn = [p \in Proc |-> 0]
    /\ edits = 0 /\ stale = [f \in RcFiles |-> FALSE]
    /\ kept = [f \in RcFiles |-> Own(rc[f])]

(* Processes that hold a content of f they have still to write.               *)
Holding(f) == {p \in Proc : /\ Initializing(p) /\ ~Ended(p)
                            /\ \E i \in (turn[p] + 1)..Len(planned[p]) : planned[p][i].file = f}

(* The editor saves a line of the user's above or below what is there, or     *)
(* loses the end of the block.                                                *)
Edit(f) ==
    /\ \E p \in Proc : Initializing(p) /\ ~Ended(p) /\ \E i \in DOMAIN cmd[p].files : cmd[p].files[i] = f
    /\ edits < MaxEdits /\ edits' = edits + 1
    /\ \E s \in {<<"mine">> \o rc[f], Append(rc[f], "mine"), Without(rc[f], End)} :
           rc' = [rc EXCEPT ![f] = s] /\ kept' = [kept EXCEPT ![f] = Own(s)]
    /\ stale' = [stale EXCEPT ![f] = @ \/ Holding(f) /= {}]
    /\ UNCHANGED <<cmd, pc, completions, planned, turn>>

(* What install writes: the files whose block is missing or of another build. *)
Plan(files) ==
    LET todo == Picked(files, {i \in DOMAIN files : ApplyBlock(rc[files[i]]) /= rc[files[i]]})
    IN  [i \in DOMAIN todo |-> [file |-> todo[i], content |-> ApplyBlock(rc[todo[i]])]]

(* Install reads every file before it asks, and gives up on a block without   *)
(* its end.                                                                   *)
ReadAll(p) ==
    /\ Initializing(p) /\ pc[p] = "start" /\ cmd[p].do = "install"
    /\ IF \E i \in DOMAIN cmd[p].files : Unmatched(rc[cmd[p].files[i]])
       THEN Goto(p, "done") /\ UNCHANGED planned
       ELSE /\ planned' = [planned EXCEPT ![p] = Plan(cmd[p].files)]
            /\ Goto(p, IF Plan(cmd[p].files) = <<>> THEN "completions"
                       ELSE IF cmd[p].yes THEN "write" ELSE "confirm")
    /\ UNCHANGED <<cmd, rc, completions, turn, edits, kept, stale>>

Confirm(p) ==
    /\ Initializing(p) /\ pc[p] = "confirm"
    /\ Goto(p, "write") \/ Goto(p, "done")
    /\ UNCHANGED <<cmd, rcVars>>

(* Remove reads its files one by one, each before it is written.              *)
ReadNext(p) ==
    /\ Initializing(p) /\ pc[p] \in {"start", "next"} /\ cmd[p].do = "uninstall"
    /\ IF turn[p] = Len(cmd[p].files)
       THEN Goto(p, "completions") /\ UNCHANGED <<planned, turn>>
       ELSE LET f == cmd[p].files[turn[p] + 1]
                s == [file |-> f, content |-> RemoveBlock(rc[f])]
            IN  /\ planned' = [planned EXCEPT ![p] = Append(@, s)]
                /\ IF s.content = rc[f]
                   THEN turn' = [turn EXCEPT ![p] = @ + 1] /\ Goto(p, "next")
                   ELSE Goto(p, "write") /\ UNCHANGED turn
    /\ UNCHANGED <<cmd, rc, completions, edits, kept, stale>>

(* writeFileContent: a temporary file renamed over the old one. A failure     *)
(* ends the command, with the files before it written.                        *)
WriteNext(p) ==
    /\ Initializing(p) /\ pc[p] = "write"
    /\ \/ LET w == planned[p][turn[p] + 1]
          IN  /\ rc' = [rc EXCEPT ![w.file] = w.content]
              /\ stale' = [stale EXCEPT ![w.file] = @ \/ Holding(w.file) /= {p}]
              /\ turn' = [turn EXCEPT ![p] = @ + 1]
              /\ Goto(p, IF cmd[p].do = "uninstall" THEN "next"
                         ELSE IF turn'[p] = Len(planned[p]) THEN "completions" ELSE "write")
       \/ Goto(p, "done") /\ UNCHANGED <<rc, stale, turn>>
    /\ UNCHANGED <<cmd, completions, planned, edits, kept>>

(* Fish's completions are written or removed after the block.                 *)
Completions(p) ==
    /\ Initializing(p) /\ pc[p] = "completions"
    /\ completions' = IF cmd[p].fish THEN cmd[p].do = "install" ELSE completions
    /\ Goto(p, "done")
    /\ UNCHANGED <<cmd, rc, planned, turn, edits, kept, stale>>

RcDie(p) ==
    /\ Initializing(p) /\ ~Ended(p) /\ Goto(p, "dead")
    /\ UNCHANGED <<cmd, rcVars>>

RcStep(p) == ReadAll(p) \/ Confirm(p) \/ ReadNext(p) \/ WriteNext(p) \/ Completions(p) \/ RcDie(p)

(* -------------------------------- properties -------------------------------- *)

(* However installs, upgrades, removals and edits alternate, fail or are      *)
(* killed, a startup file keeps the user's own lines in their order, and      *)
(* holds at most one block; excepted is a file that was written, by the user  *)
(* or another comrade, between a comrade's reading and its writing it.        *)
UserLinesKept == \A f \in RcFiles : ~stale[f] =>
    /\ Own(rc[f]) = kept[f]
    /\ Cardinality({i \in DOMAIN rc[f] : rc[f][i] = Begin}) <= 1
=============================================================================
