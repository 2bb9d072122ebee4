--------------------------------- MODULE Fix ---------------------------------
(* comrade fix and the hook that records commands for it: cli/fix.go,         *)
(* cli/hook.go, context/lastcommand.go and engine/verify.go. cmd[p].do is     *)
(* "fix", with the fields explicit (a command given after --, or None),       *)
(* rerun, dry, and mode. The plan's review and Execute are one step here;     *)
(* they are Planning and Runner.                                              *)
EXTENDS Processes, Safety

CONSTANTS Freshness, \* lastCommandFreshness, in ticks of the clock
          MaxMinute, MaxHooks, MaxEdited, \* bounds: clock, hook records, edits of an offer
          None

VARIABLES record,  \* last_command.json, one for all terminals
          minute,  \* the clock
          hooks,   \* how many commands the hook has recorded
          taken,    \* taken[p]: the record p has read
          subject, \* subject[p]: the command p is to fix
          offer,   \* offer[p]: the step p offers to verify the fix
          running, \* running[p]: the command p has running, and why
          cut,     \* cut[p]: p's context is canceled
          aborted, \* aborted[p]: Execute was aborted
          logged,  \* logged[p]: the verifications p has put in the audit log
          ran,     \* history: ran[p], what p has run outside Execute
          edited   \* edited[p]: how often the user has edited the offer

fixVars == <<record, minute, hooks, taken, subject, offer, running, cut, aborted, logged, ran, edited>>

Fixing(p) == Does(p, {"fix"})

NoRecord == [command |-> None, at |-> 0, failed |-> FALSE]
Idle == [command |-> None, why |-> "none", said |-> None]

FixInit ==
    /\ record = NoRecord /\ minute = 0 /\ hooks = 0
    /\ taken = [p \in Proc |-> NoRecord] /\ subject = [p \in Proc |-> None]
    /\ offer = [p \in Proc |-> None] /\ running = [p \in Proc |-> Idle]
    /\ cut = [p \in Proc |-> FALSE] /\ aborted = [p \in Proc |-> FALSE]
    /\ logged = [p \in Proc |-> {}] /\ ran = [p \in Proc |-> {}] /\ edited = [p \in Proc |-> 0]

(* A temporary file is written and renamed over the record: a reader finds    *)
(* the new one or, when any of it fails, the old one, never a part.           *)
WriteLastCommand(r) == record' \in {r, record}

(* A command ends in some terminal, and its hook records it; the prompt is    *)
(* never told that it could not.                                              *)
HookRecord ==
    /\ \E p \in Proc : Fixing(p) /\ ~Ended(p)
    /\ hooks < MaxHooks /\ hooks' = hooks + 1
    /\ \E c \in Command, failed \in BOOLEAN :
           WriteLastCommand([command |-> c, at |-> minute, failed |-> failed])
    /\ UNCHANGED <<cmd, pc, minute, taken, subject, offer, running, cut, aborted, logged, ran, edited>>

Minute ==
    /\ \E p \in Proc : Fixing(p) /\ ~Ended(p)
    /\ minute < MaxMinute /\ minute' = minute + 1
    /\ UNCHANGED <<cmd, pc, record, hooks, taken, subject, offer, running, cut, aborted, logged, ran, edited>>

(* -------------------------- what is to be fixed ----------------------------- *)

(* Collect with ReadLastCommand, which takes a record it cannot read for none. *)
Collect(p) ==
    /\ Fixing(p) /\ pc[p] = "start"
    /\ \E r \in {record, NoRecord} : taken' = [taken EXCEPT ![p] = r]
    /\ Goto(p, "acquire")
    /\ UNCHANGED <<cmd, record, minute, hooks, subject, offer, running, cut, aborted, logged, ran, edited>>

(* A verdict under which a command is not run again, and not offered either.  *)
TooRisky(c) == Evaluate(c, Read).action = "block" \/ Evaluate(c, Read).risk = Destructive

Run(p, c, why, said, label) ==
    /\ running' = [running EXCEPT ![p] = [command |-> c, why |-> why, said |-> said]]
    /\ ran' = [ran EXCEPT ![p] = @ \cup {[command |-> c, why |-> why, said |-> said]}]
    /\ Goto(p, label)

(* acquireErrorContext and captureByRunning: the given command, or with       *)
(* --rerun the recorded one, is run again, unless it is too risky; else a     *)
(* recorded failure is taken, if it is fresh; else the user pastes one.       *)
ToRun(p) == IF cmd[p].explicit /= None THEN cmd[p].explicit
            ELSE IF cmd[p].rerun THEN taken[p].command ELSE None
Stale(r) == minute - r.at >= Freshness

Acquire(p) ==
    /\ Fixing(p) /\ pc[p] = "acquire"
    /\ IF ToRun(p) /= None
       THEN /\ IF TooRisky(ToRun(p)) THEN Goto(p, "paste") /\ UNCHANGED <<running, ran>>
               ELSE Run(p, ToRun(p), "capture", None, "capture")
            /\ UNCHANGED subject
       ELSE /\ IF cmd[p].rerun THEN Goto(p, "done") /\ UNCHANGED subject
               ELSE IF taken[p] = NoRecord \/ Stale(taken[p]) \/ ~taken[p].failed
               THEN Goto(p, "paste") /\ UNCHANGED subject
               ELSE Goto(p, "diagnose") /\ subject' = [subject EXCEPT ![p] = taken[p].command]
            /\ UNCHANGED <<running, ran>>
    /\ UNCHANGED <<cmd, record, minute, hooks, taken, offer, cut, aborted, logged, edited>>

Captured(p) ==
    /\ Fixing(p) /\ pc[p] = "capture"
    /\ subject' = [subject EXCEPT ![p] = running[p].command]
    /\ running' = [running EXCEPT ![p] = Idle]
    /\ Goto(p, "diagnose") \/ Goto(p, "done")
    /\ UNCHANGED <<cmd, record, minute, hooks, taken, offer, cut, aborted, logged, ran, edited>>

Paste(p) ==
    /\ Fixing(p) /\ pc[p] = "paste"
    /\ \E c \in Command \cup {None} : subject' = [subject EXCEPT ![p] = c]
    /\ Goto(p, "diagnose")
    /\ UNCHANGED <<cmd, record, minute, hooks, taken, offer, running, cut, aborted, logged, ran, edited>>

(* ------------------------------- the fix itself ----------------------------- *)

Diagnose(p) ==
    /\ Fixing(p) /\ pc[p] = "diagnose"
    /\ Goto(p, "done") \/ (~cmd[p].dry /\ Goto(p, "execute"))
    /\ UNCHANGED <<cmd, fixVars>>

(* The review and Execute: canceled, failed, aborted, or run to the end; a    *)
(* Ctrl-C that comes after the last look at the context aborts nothing.       *)
Execute(p) ==
    /\ Fixing(p) /\ pc[p] = "execute"
    /\ \/ Goto(p, "done") /\ UNCHANGED aborted
       \/ cmd[p].mode /= "info" /\ aborted' = [aborted EXCEPT ![p] = TRUE] /\ Goto(p, "done")
       \/ Goto(p, "verify") /\ UNCHANGED aborted
    /\ UNCHANGED <<cmd, record, minute, hooks, taken, subject, offer, running, cut, logged, ran, edited>>

AsksInAskMode(p, d) == cmd[p].mode = "ask" \* mutant: auto mode asks for nothing

(* OfferVerification.                                                         *)
Asks(p, d) == cmd[p].mode = "ask" \/ d.risk = Elevated


Verify(p) ==
    /\ Fixing(p) /\ pc[p] = "verify"
    /\ LET c == subject[p]
       IN  IF c = None \/ cmd[p].mode = "info" \/ TooRisky(c)
           THEN Goto(p, "done") /\ UNCHANGED <<offer, running, ran>>
           ELSE IF Asks(p, Evaluate(c, Read))
           THEN /\ offer' = [offer EXCEPT ![p] = c] /\ Goto(p, "offer")
                /\ UNCHANGED <<running, ran>>
           ELSE Run(p, c, "verify", None, "verifying") /\ UNCHANGED offer
    /\ UNCHANGED <<cmd, record, minute, hooks, taken, subject, cut, aborted, logged, edited>>

(* resolveAskChoice on the offered step: an edit is judged and offered again; *)
(* yes to a denied one runs nothing. An explanation changes nothing.          *)
Answer(p) ==
    /\ Fixing(p) /\ pc[p] = "offer"
    /\ \/ Goto(p, "done") /\ UNCHANGED <<offer, running, ran, edited>>
       \/ /\ ~cut[p] /\ edited[p] < MaxEdited /\ edited' = [edited EXCEPT ![p] = @ + 1]
          /\ \E c \in Command : offer' = [offer EXCEPT ![p] = c]
          /\ UNCHANGED <<pc, running, ran>>
       \/ /\ ~cut[p] /\ Evaluate(offer[p], Read).action /= "block"
          /\ Run(p, offer[p], "verify", offer[p], "verifying")
          /\ UNCHANGED <<offer, edited>>
    /\ UNCHANGED <<cmd, record, minute, hooks, taken, subject, cut, aborted, logged>>

(* runVerification: when the command ends, or Ctrl-C has had it killed, it is *)
(* put in the audit log; one that cannot be started is not.                   *)
Verified(p) ==
    /\ Fixing(p) /\ pc[p] = "verifying"
    /\ running' = [running EXCEPT ![p] = Idle]
    /\ \/ logged' = [logged EXCEPT ![p] = @ \cup {running[p].command}]
       \/ UNCHANGED logged
    /\ Goto(p, "done")
    /\ UNCHANGED <<cmd, record, minute, hooks, taken, subject, offer, cut, aborted, ran, edited>>

(* Ctrl-C ends comrade until NotifyContext is called, after the diagnosis,    *)
(* and cancels its context from then on.                                      *)
BeforeNotify == {"start", "acquire", "capture", "paste", "diagnose"}

Interrupt(p) ==
    /\ Fixing(p) /\ ~Ended(p)
    /\ IF pc[p] \in BeforeNotify THEN Goto(p, "done") /\ UNCHANGED cut
       ELSE ~cut[p] /\ cut' = [cut EXCEPT ![p] = TRUE] /\ UNCHANGED pc
    /\ UNCHANGED <<cmd, record, minute, hooks, taken, subject, offer, running, aborted, logged, ran, edited>>

(* The command a comrade that is gone has left behind ends by itself.         *)
OrphanEnds(p) ==
    /\ Fixing(p) /\ Ended(p) /\ running[p] /= Idle
    /\ running' = [running EXCEPT ![p] = Idle]
    /\ UNCHANGED <<cmd, pc, record, minute, hooks, taken, subject, offer, cut, aborted, logged, ran, edited>>

FixStep(p) ==
    \/ Collect(p) \/ Acquire(p) \/ Captured(p) \/ Paste(p) \/ Diagnose(p) \/ Execute(p)
    \/ Verify(p) \/ Answer(p) \/ Verified(p) \/ Interrupt(p) \/ OrphanEnds(p)

(* -------------------------------- properties -------------------------------- *)

(* What fix runs by itself, outside the plan: whichever command it comes to   *)
(* fix, by whatever way, it runs no denied one; none that is destructive or,  *)
(* in auto mode, elevated, and none at all in ask mode, unless the user was   *)
(* shown that very command and said yes, after all edits; only the re-run     *)
(* that captures an error needs no yes below destructive, and only it may be  *)
(* left running by Ctrl-C.                                                    *)
FixAsksFirst == \A p \in Proc :
    /\ \A r \in ran[p] :
        LET d == Evaluate(r.command, Read)
        IN  /\ d.action /= "block"
            /\ \/ r.said = r.command
               \/ r.why = "capture" /\ d.risk < Destructive
               \/ r.why = "verify" /\ cmd[p].mode = "auto" /\ d.risk < Elevated
            /\ r.why = "verify" => ~aborted[p] /\ ~cmd[p].dry /\ cmd[p].mode /= "info"
    /\ Ended(p) /\ running[p] /= Idle => running[p].why = "capture"
=============================================================================
