------------------------------- MODULE Updates -------------------------------
(* comrade replacing its own executable, and the weekly look for a newer      *)
(* release: internal/update, cli/upgrade.go, cli/updatenotice.go and the      *)
(* version check of doctor. cmd[p].do is "upgrade" (with check, for --check,  *)
(* and managed, for an install that belongs to npm), "notice" (the end of any *)
(* other command) or "doctor". Versions are numbers; Dev is a dev build.      *)
EXTENDS Processes

CONSTANTS Dev, MaxRelease, \* the releases that may be published are 1..MaxRelease
          Interval,        \* CheckInterval, in ticks of the clock
          MaxNow           \* bound on the clock

(* The names files have as writers beside the processes are nobody's name.    *)
ASSUME UpdatesAssumption == Proc \cap {"setup", "nobody", "none"} = {} /\ Interval \in Nat

VARIABLES exe,       \* the executable, a record or Gone
          old,       \* the file with the suffix .old beside it
          image,     \* image[p]: the file p runs from, by the process that wrote it
          built,     \* built[p]: the version p was built as
          got,       \* got[p]: the release p has fetched; 0 if the fetch failed
          payload,   \* payload[p]: the archive p has extracted
          published, \* the latest release
          windows, signing, \* the platform; a public key is embedded
          now,       \* the clock
          checked,   \* update_check.json: when a check was last made, or Never
          asked,     \* asked[p]: the time p takes its check to be made at
          told,      \* ghost: told[p], the time of the check p has recorded
          early,     \* ghost: early[p], p read the state, and began a check all the
                     \* same within Interval of one that was recorded
          setBack    \* ghost: an older check was recorded after a newer one

updateVars == <<exe, old, image, built, got, payload, published, windows, signing,
                now, checked, asked, told, early, setBack>>
platform == <<windows, signing>>
checkVars == <<now, checked, asked, told, early, setBack>>
fileVars == <<exe, old, image, built, payload>>

UpdateCmds == {"upgrade", "notice", "doctor"}
Updating(p) == Does(p, UpdateCmds)

Gone == [by |-> "nobody", version |-> Dev, whole |-> FALSE, archive |-> "none"]
Never == 0 \* the zero time: the clock starts Interval later

(* Windows keeps the file of a running process from being deleted or          *)
(* overwritten, not from being renamed; and a file open for writing from all. *)
Running(f) == windows /\ f /= Gone /\ \E p \in Proc : image[p] = f.by /\ ~Ended(p)
BeingWritten(f) == windows /\ \E p \in Proc : f.by = p /\ pc[p] = "fill"
Removed(f) == IF Running(f) THEN f ELSE Gone

UpdatesInit ==
    /\ old = Gone
    /\ image = [p \in Proc |-> "none"] /\ built = [p \in Proc |-> Dev]
    /\ got = [p \in Proc |-> 0] /\ payload = [p \in Proc |-> "none"]
    /\ now = Interval /\ checked = Never /\ asked = [p \in Proc |-> Never]
    /\ told = [p \in Proc |-> Never] /\ early = [p \in Proc |-> FALSE] /\ setBack = FALSE

(* ------------------------------- the world --------------------------------- *)

(* A new release, while an upgrade cares; time, while a check does.          *)
Publish ==
    /\ \E p \in Proc : Does(p, {"upgrade"}) /\ ~Ended(p)
    /\ published < MaxRelease /\ published' = published + 1
    /\ UNCHANGED <<cmd, pc, fileVars, got, platform, checkVars>>

Tick ==
    /\ \E p \in Proc : Does(p, {"notice", "doctor"}) /\ ~Ended(p)
    /\ now < MaxNow /\ now' = now + 1
    /\ UNCHANGED <<cmd, pc, fileVars, got, published, platform, checked, asked, told, early, setBack>>

(* A process starts from the executable, if there is one to start.            *)
Launch(p) ==
    /\ Updating(p) /\ pc[p] = "start"
    /\ image' = [image EXCEPT ![p] = exe.by]
    /\ built' = [built EXCEPT ![p] = exe.version]
    /\ Goto(p, IF exe.whole THEN cmd[p].do ELSE "done")
    /\ UNCHANGED <<cmd, exe, old, got, payload, published, platform, checkVars>>

(* --------------------------------- upgrade --------------------------------- *)

(* A managed install is refused before anything is touched; then what a       *)
(* former upgrade left is cleaned up.                                         *)
BeginUpgrade(p) ==
    /\ Updating(p) /\ pc[p] = "upgrade"
    /\ IF cmd[p].managed /\ ~cmd[p].check
       THEN Goto(p, "done") /\ UNCHANGED old
       ELSE /\ old' = Removed(old)
            /\ Goto(p, IF built[p] = Dev THEN "done" ELSE "fetch")
    /\ UNCHANGED <<cmd, exe, image, built, got, payload, published, platform, checkVars>>

IsNewer(current, latest) == latest > current

(* What a fetch can come to: the latest release, or 0, which is every error   *)
(* alike (no release yet, another status, a body that does not decode).       *)
LatestRelease == {published, 0}

(* Check, and the first half of Apply.                                        *)
Fetch(p) ==
    /\ Updating(p) /\ pc[p] = "fetch"
    /\ \E latest \in LatestRelease :
          /\ got' = [got EXCEPT ![p] = latest]
          /\ Goto(p, IF cmd[p].check \/ ~IsNewer(built[p], latest) THEN "done" ELSE "download")
    /\ UNCHANGED <<cmd, fileVars, published, platform, checkVars>>

(* What is downloaded is the release's own file or some other one (one that   *)
(* was altered or cut off); sums names the archive that checksums.txt fits.   *)
Signed(d) == d.signature = "own" /\ d.sums = "own"
ChecksumFits(d) == d.archive = d.sums
Accepted(d) == (signing => Signed(d)) /\ ChecksumFits(d)
Downloads == [archive : {"own", "other"}, sums : {"own", "other"}, signature : {"own", "none"},
              holds : {"file", "directory", "nothing"}]

(* The first entry of the archive that has comrade's name and is a file.      *)
ExtractBinary(d) == IF d.holds = "file" THEN d.archive ELSE "none"

(* The rest of Apply. A download that fails, or an archive without comrade in *)
(* it, ends the command like one that is not accepted.                        *)
Download(p) ==
    /\ Updating(p) /\ pc[p] = "download"
    /\ \/ \E d \in Downloads :
            /\ Accepted(d) /\ ExtractBinary(d) /= "none"
            /\ payload' = [payload EXCEPT ![p] = ExtractBinary(d)]
            /\ Goto(p, "replace")
       \/ Goto(p, "done") /\ UNCHANGED payload
    /\ UNCHANGED <<cmd, exe, old, image, built, got, published, platform, checkVars>>

New(p, whole) == [by |-> p, version |-> got[p], whole |-> whole, archive |-> payload[p]]

(* replaceUnixBinary: a temporary file renamed over the executable.           *)
ReplaceUnix(p) ==
    /\ Updating(p) /\ pc[p] = "replace" /\ ~windows
    /\ exe' = New(p, TRUE) \/ UNCHANGED exe
    /\ Goto(p, "done")
    /\ UNCHANGED <<cmd, old, image, built, got, payload, published, platform, checkVars>>

(* replaceWindowsBinary: what an earlier upgrade left is removed, if it can   *)
(* be; the executable is renamed; a new one is created and filled. When that  *)
(* fails the old one is renamed back.                                         *)
RemoveOld(p) ==
    /\ Updating(p) /\ pc[p] = "replace" /\ windows
    /\ old' = Removed(old)
    /\ Goto(p, "rename")
    /\ UNCHANGED <<cmd, exe, image, built, got, payload, published, platform, checkVars>>

RenameAway(p) ==
    /\ Updating(p) /\ pc[p] = "rename"
    /\ IF exe = Gone \/ BeingWritten(exe) \/ Running(old)
       THEN Goto(p, "done") /\ UNCHANGED <<exe, old>>
       ELSE exe' = Gone /\ old' = exe /\ Goto(p, "create")
    /\ UNCHANGED <<cmd, image, built, got, payload, published, platform, checkVars>>

Create(p) ==
    /\ Updating(p) /\ pc[p] = "create"
    /\ \/ ~Running(exe) /\ exe' = New(p, FALSE) /\ Goto(p, "fill")
       \/ Goto(p, "back") /\ UNCHANGED exe
    /\ UNCHANGED <<cmd, old, image, built, got, payload, published, platform, checkVars>>

Fill(p) ==
    /\ Updating(p) /\ pc[p] = "fill"
    /\ \/ exe' = New(p, TRUE) /\ Goto(p, "done")
       \/ Goto(p, "back") /\ UNCHANGED exe
    /\ UNCHANGED <<cmd, old, image, built, got, payload, published, platform, checkVars>>

(* Mutant: the old executable is not given back.                              *)
RenameBackNever(p) ==
    /\ Updating(p) /\ pc[p] = "back"
    /\ Goto(p, "done")
    /\ UNCHANGED <<cmd, exe, old, image, built, got, payload, published, platform, checkVars>>

RenameBack(p) ==
    /\ Updating(p) /\ pc[p] = "back"
    /\ IF old = Gone \/ Running(exe) \/ BeingWritten(exe)
       THEN UNCHANGED <<exe, old>>
       ELSE exe' = old /\ old' = Gone
    /\ Goto(p, "done")
    /\ UNCHANGED <<cmd, image, built, got, payload, published, platform, checkVars>>

(* ----------------------------- the weekly check ---------------------------- *)

ShouldCheck(read) == now - read >= Interval

(* What ReadState can return: the time in the file, or the zero time for a    *)
(* file that is missing, cannot be read or is garbled.                        *)
ReadState == {checked, Never}

(* maybeNotifyUpdate up to the fetch; enabled is general.update_check. With   *)
(* no path for the state file nothing is read and nothing asked.              *)
Notice(p) ==
    /\ Updating(p) /\ pc[p] = "notice"
    /\ IF built[p] = Dev \/ ~cmd[p].enabled
       THEN Goto(p, "done") /\ UNCHANGED <<old, asked, early>>
       ELSE /\ old' = IF windows THEN Removed(old) ELSE old
            /\ \/ \E read \in ReadState :
                    /\ ShouldCheck(read)
                    /\ asked' = [asked EXCEPT ![p] = now]
                    /\ early' = [early EXCEPT ![p] = read = checked /\ \E q \in Proc : now - told[q] < Interval]
                    /\ Goto(p, "ask")
               \/ /\ Goto(p, "done") /\ UNCHANGED <<asked, early>>
    /\ UNCHANGED <<cmd, exe, image, built, got, payload, published, platform, now, checked, told, setBack>>

(* The fetch; doctor, which asks whenever it is called, records the time of   *)
(* its answer, the notice that of its question, answered or not.              *)
Ask(p) ==
    /\ Updating(p) /\ pc[p] = "ask"
    /\ \E latest \in LatestRelease : got' = [got EXCEPT ![p] = latest]
    /\ Goto(p, "record")
    /\ UNCHANGED <<cmd, fileVars, published, platform, checkVars>>

AfterRecord(p) ==
    /\ Goto(p, IF Does(p, {"doctor"}) THEN "check" ELSE "done")
    /\ UNCHANGED <<cmd, fileVars, got, published, platform, now, asked, early>>

(* Mutant: only a check that was answered is recorded.                        *)
RecordAnswered(p) ==
    /\ Updating(p) /\ pc[p] = "record"
    /\ \/ /\ checked' = (IF got[p] = 0 THEN checked ELSE asked[p]) /\ told' = [told EXCEPT ![p] = asked[p]]
          /\ setBack' = (setBack \/ asked[p] < checked)
       \/ UNCHANGED <<checked, told, setBack>>
    /\ AfterRecord(p)

(* WriteState: a temporary file renamed over the old one; or nothing, when a  *)
(* step of it fails or doctor has no path, and nobody is told.                *)
Record(p) ==
    /\ Updating(p) /\ pc[p] = "record"
    /\ \/ /\ checked' = asked[p] /\ told' = [told EXCEPT ![p] = asked[p]]
          /\ setBack' = (setBack \/ asked[p] < checked)
       \/ UNCHANGED <<checked, told, setBack>>
    /\ AfterRecord(p)

(* A process is killed.                                                       *)
UpdatesDie(p) ==
    /\ Updating(p) /\ ~Ended(p) /\ pc[p] /= "start" /\ (Does(p, {"doctor"}) => pc[p] = "record")
    /\ Goto(p, "dead")
    /\ UNCHANGED <<cmd, fileVars, got, published, platform, checkVars>>

UpdatesStep(p) ==
    \/ Launch(p) \/ BeginUpgrade(p) \/ Fetch(p) \/ Download(p)
    \/ ReplaceUnix(p) \/ RemoveOld(p) \/ RenameAway(p) \/ Create(p) \/ Fill(p) \/ RenameBack(p)
    \/ Notice(p) \/ Ask(p) \/ Record(p)
    \/ UpdatesDie(p)

(* -------------------------------- properties -------------------------------- *)

(* Whatever upgrades run together, fail, or are killed, a whole comrade is on *)
(* disk, as the executable or beside it as .old; once they have ended without *)
(* being killed it is the executable. With a key embedded it is the file that *)
(* was released (replaceWindowsBinary, CleanupOldBinary and Apply, together). *)
Replacing == {"rename", "create", "fill", "back"}
NeverWithoutComrade ==
    /\ exe.whole \/ old.whole
    /\ (\A p \in Proc : pc[p] \notin Replacing \cup {"dead"}) => exe.whole
    /\ signing => \A f \in {exe, old} : f.archive /= "other"

(* A background check that could read the state is not made within            *)
(* CheckInterval of one that was recorded, by another command or by doctor,   *)
(* answered or not; excepted is what follows an older check that was recorded *)
(* over a newer one (maybeNotifyUpdate reads, fetches and writes with no      *)
(* lock). One whose record could not be written (updatenotice.go:93) counts   *)
(* for nobody: with an unwritable state directory every command checks.       *)
AtMostWeekly == setBack \/ \A p \in Proc : ~early[p]
=============================================================================
