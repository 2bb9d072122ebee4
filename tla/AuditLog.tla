------------------------------ MODULE AuditLog ------------------------------
(***************************************************************************)
(* internal/audit: the JSONL file that concurrent comrade processes share. *)
(* Append opens the file and writes one line; ApplyRetention reads it,     *)
(* filters it and renames a rewritten copy into place.  Nothing locks the  *)
(* file, so a writer may hold a file that is no longer the log, and a      *)
(* write may be torn by a crash or a full disk.  The actions are           *)
(* parameterised by the process; a client gives them their schedule.       *)
(***************************************************************************)
EXTENDS Integers, Sequences, SequencesExt, Lists

CONSTANTS
  Proc,       \* the comrade processes; a process is its own RunID
  Former,     \* the RunIDs of earlier processes
  PastLogs,   \* the logs they may have left
  Start,      \* the time they had left them by
  Outcome,    \* how an executed command ended and what it looks like
  Retention,  \* audit.retention_days; 0 disables the cleanup
  MaxTime,    \* bound: the clock
  MaxSteps,   \* bound: the commands one process executes
  MaxTorn     \* bound: the torn lines in the log at a time

Legacy == "legacy"     \* the empty RunID of an entry older than undo
Nobody == "nobody"     \* the empty UndoOf

RunID == Proc \cup Former

Entry == [run : RunID \cup {Legacy}, step : 0..MaxSteps,
          undoOf : RunID \cup {Nobody}, time : 0..MaxTime,
          outcome : Outcome \cup {"failed"}]

(* A run numbers its commands from 1 as it appends their entries.          *)
Rising(entries) ==
  \A k \in DOMAIN entries : entries[k].run # Legacy =>
    /\ entries[k].step > 0
    /\ \A j \in 1..(k - 1) :
         entries[j].run = entries[k].run => entries[j].step < entries[k].step

ASSUME AuditAssumption ==
  /\ Legacy \notin RunID /\ Nobody \notin RunID
  /\ Proc \cap Former = {}
  /\ Retention \in Nat /\ MaxTime \in Nat /\ MaxSteps \in Nat
  /\ MaxTorn \in Nat
  /\ Start \in 0..MaxTime
  /\ PastLogs \subseteq Seq(Entry)
  /\ \A past \in PastLogs :
       (\A k \in DOMAIN past : past[k].run \notin Proc) /\ Rising(past)

(* A line that does not parse keeps the entry it was meant to hold.        *)
Line == [entry : Entry, parses : BOOLEAN]

LinesOf(entries) ==
  [k \in DOMAIN entries |-> [entry |-> entries[k], parses |-> TRUE]]

NoEntry == [run |-> Legacy, step |-> 0, undoOf |-> Nobody, time |-> 0,
            outcome |-> "failed"]

VARIABLES
  now,      \* the clock
  file,     \* the lines of the file the log's path names
  torn,     \* its last line has no newline
  inode,    \* which file the path names; a rename changes it
  fd,       \* the file each process has open for append
  pending,  \* the entry it is about to write there
  rewriting,\* the processes in rewrite, with a temporary file
  kept,     \* what each of them keeps, from its ReadAll
  written,  \* history: the entries that reached a log file, in order
  acked,    \* history: those Append returned nil for
  exposed   \* history: those of them written while another process
            \* rewrote the log, or behind a torn line

log == <<file, torn, inode>>
disk == <<log, now>>
local == <<fd, pending, rewriting, kept>>
histories == <<written, acked, exposed>>
auditVars == <<disk, local, histories>>

AuditInit ==
  /\ now = Start
  /\ \E past \in PastLogs : file = LinesOf(past) /\ written = past
  /\ torn = FALSE
  /\ inode = 0
  /\ fd = [p \in Proc |-> 0]
  /\ pending = [p \in Proc |-> NoEntry]
  /\ rewriting = {}
  /\ kept = [p \in Proc |-> <<>>]
  /\ acked = ToSet(written) /\ exposed = {}

(* A line that does not parse is skipped.                                  *)
ReadAll == Picked([k \in DOMAIN file |-> file[k].entry],
                  {k \in DOMAIN file : file[k].parses})

Expired(e) == Retention > 0 /\ e.time < now - Retention

Tick ==
  /\ now < MaxTime
  /\ now' = now + 1
  /\ UNCHANGED <<log, local, histories>>

-----------------------------------------------------------------------------
(* Append.                                                                 *)

Open(p, e) ==
  /\ pending' = [pending EXCEPT ![p] = e]
  /\ fd' = [fd EXCEPT ![p] = inode]
  /\ UNCHANGED <<disk, rewriting, kept, histories>>

(* What a write of a whole line leaves: behind a torn line the two become  *)
(* one that does not parse; in a file that was replaced it is lost.        *)
AfterWrite(p, whole) ==
  IF torn THEN [file EXCEPT ![Len(file)].parses = FALSE]
  ELSE Append(file, [entry |-> pending[p], parses |-> whole])

Close(p) ==
  /\ fd' = [fd EXCEPT ![p] = 0]
  /\ pending' = [pending EXCEPT ![p] = NoEntry]

Exposed(p) == torn \/ fd[p] # inode \/ rewriting # {}

Write(p) ==
  /\ IF fd[p] = inode
     THEN file' = AfterWrite(p, TRUE) /\ torn' = FALSE
     ELSE UNCHANGED <<file, torn>>
  /\ written' = Append(written, pending[p])
  /\ acked' = acked \cup {pending[p]}
  /\ exposed' = IF Exposed(p) THEN exposed \cup {pending[p]} ELSE exposed
  /\ Close(p)
  /\ UNCHANGED <<inode, now, rewriting, kept>>

(* Only a part of the line reaches the file, or all but its newline.       *)
WriteTorn(p) ==
  /\ ~torn
  /\ Len(SelectSeq(file, LAMBDA l : ~l.parses)) < MaxTorn
  /\ IF fd[p] = inode
     THEN \E whole \in BOOLEAN : file' = AfterWrite(p, whole) /\ torn' = TRUE
     ELSE UNCHANGED <<file, torn>>
  /\ written' = Append(written, pending[p])
  /\ Close(p)
  /\ UNCHANGED <<inode, now, rewriting, kept, acked, exposed>>

-----------------------------------------------------------------------------
(* ApplyRetention.                                                         *)

(* The entries a cleanup keeps, in their order.                            *)
Fresh(entries) == Picked(entries, {k \in DOMAIN entries : ~Expired(entries[k])})

SurvivorsReversed == Reverse(Fresh(ReadAll))  \* mutant

Survivors == Fresh(ReadAll)

(* Nothing to clean up: the cleanup is off or every entry stays.           *)
NothingExpired == Retention = 0 \/ Len(Survivors) = Len(ReadAll)

RewriteInPlace(p) ==  \* mutant: no temporary file
  /\ ~NothingExpired
  /\ rewriting' = rewriting \cup {p}
  /\ kept' = [kept EXCEPT ![p] = Survivors]
  /\ file' = <<>> /\ torn' = FALSE
  /\ UNCHANGED <<inode, now, fd, pending, histories>>

ReadForRetention(p) ==
  /\ ~NothingExpired
  /\ rewriting' = rewriting \cup {p}
  /\ kept' = [kept EXCEPT ![p] = Survivors]
  /\ UNCHANGED <<disk, fd, pending, histories>>

(* rewrite's os.Rename: the path names the rewritten copy at once.         *)
Rename(p) ==
  /\ file' = LinesOf(kept[p])
  /\ torn' = FALSE
  /\ inode' = inode + 1
  /\ rewriting' = rewriting \ {p}
  /\ kept' = [kept EXCEPT ![p] = <<>>]
  /\ UNCHANGED <<now, fd, pending, histories>>

(* rewrite failed, or the process died in it: the log is untouched.        *)
Abandon(p) ==
  /\ rewriting' = rewriting \ {p}
  /\ kept' = [kept EXCEPT ![p] = <<>>]
  /\ UNCHANGED <<disk, fd, pending, histories>>

-----------------------------------------------------------------------------
(* Properties.                                                             *)

(* Whatever processes append, clean up, crash and tear lines at once, what *)
(* ReadAll returns was written by somebody, once, and stands in the order  *)
(* it was written in: `comrade history` and the undo selection read it as  *)
(* oldest first.                                                           *)
LogOrdered ==
  ReadAll = Picked(written, {k \in DOMAIN written : written[k] \in ToSet(ReadAll)})

(* An acknowledged entry is in the log until it is older than the          *)
(* retention, unless it was written while another process was between the  *)
(* ReadAll and the rename of its own cleanup, or behind a torn line.       *)
LossExplained ==
  acked \ exposed \subseteq
    ToSet(ReadAll) \cup {e \in acked : Expired(e)}

=============================================================================
