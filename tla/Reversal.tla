------------------------------- MODULE Reversal -------------------------------
(* The inverses comrade undo knows by itself (internal/undo/heuristics.go and *)
(* deriveStepsForRun of cli/undo_plan.go), against a machine that runs the    *)
(* commands of a run and then their inverses. A command is a sequence of      *)
(* tokens. A token is a sequence of strings: a word, a flag or a relative     *)
(* path of one name has one element, an absolute path begins with its root.   *)
EXTENDS Naturals, Sequences, FiniteSets, TLC, SequencesExt, Lists

CONSTANTS Names,       \* what tokens and paths are made of
          Flags,       \* those that begin with a dash
          CommandsOf,  \* CommandsOf[g]: what the runs of platform g are made of
          UserNames,   \* the names the user gives files
          StartOf,     \* StartOf[g]: the machine before the run
          Here, Elsewhere, \* two directories by platform: the run's, another one
          MaxScript    \* bound on the commands of a run

VARIABLES platform,  \* "unix" or "windows"
          host,      \* a record: tree (a function from paths to "dir" or the
                     \* content of a file), packages, enabled, active (services)
          history,   \* the commands run, with [command, ok]
          stage,     \* "idle", "run", "undo", "undone", "failed", "model", "refused"
          inverses,  \* what the undo has still to run
          place,     \* the directory the undo runs in
          plain,     \* ghost: every command was simple and found nothing in its way
          meddled,   \* ghost: the user changed the tree between run and undo
          spared     \* ghost: the contents of files when the undo began

reversalVars == <<platform, host, history, stage, inverses, place, plain, meddled, spared>>

W(word) == <<word>>
IsFlag(t) == t[1] \in Flags
HasWildcard(t) == "*" \in ToSet(t)
Absolute(t) == t[1] \in {"/", "C:"}

(* ------------------------------- heuristics.go ------------------------------ *)

NoInverse == {}
Reversing(command, relative) == {[command |-> command, relative |-> relative]}

(* Mutant: whatever its flags and its other paths.                            *)
DeriveMkdirAny(t) == IF Len(t) >= 2 THEN Reversing(<<W("rmdir"), Last(t)>>, ~Absolute(Last(t))) ELSE NoInverse
DeriveMkdir(t) ==
    IF Len(t) = 2 /\ ~IsFlag(t[2]) THEN Reversing(<<W("rmdir"), t[2]>>, ~Absolute(t[2])) ELSE NoInverse

DeriveMv(t) ==
    IF Len(t) = 3 /\ \A i \in 2..3 : ~IsFlag(t[i]) /\ ~HasWildcard(t[i])
    THEN Reversing(<<W("mv"), t[3], t[2]>>, ~Absolute(t[2]) \/ ~Absolute(t[3]))
    ELSE NoInverse

(* The verbs of the package managers' tables.                                 *)
UnixVerbs == [m \in {W("apt"), W("apt-get"), W("dnf"), W("brew")} |-> IF m = W("brew") THEN W("uninstall") ELSE W("remove")]
WindowsVerbs == [m \in {W("winget"), W("scoop")} |-> W("uninstall")]

DerivePackageInstall(t, verb) ==
    IF Len(t) >= 3 /\ t[2] = W("install") THEN Reversing(<<t[1], verb>> \o SubSeq(t, 3, Len(t)), FALSE) ELSE NoInverse

Opposite == [v \in {W("enable"), W("start")} |-> IF v = W("enable") THEN W("disable") ELSE W("stop")]
DeriveSystemctl(t) ==
    LET rest == SubSeq(t, 3, Len(t))
        dashed == {k \in DOMAIN rest : IsFlag(rest[k])}
        flags == Picked(rest, dashed)
        units == Picked(rest, DOMAIN rest \ dashed)
    IN  IF Len(t) >= 3 /\ t[2] \in DOMAIN Opposite /\ Len(units) = 1
        THEN Reversing(<<t[1], Opposite[t[2]]>> \o flags \o units, FALSE)
        ELSE NoInverse

(* New-Item: each of its two flags takes the token behind it; there must be   *)
(* one path, with its flag or without.                                        *)
FlagValues(a) ==
    LET value[i \in 0..Len(a)] == i > 1 /\ IsFlag(a[i - 1]) /\ ~value[i - 1]
    IN  value
DeriveNewItem(t) ==
    LET a == Tail(t)
        value == FlagValues(a)
        flags == {i \in DOMAIN a : ~value[i] /\ IsFlag(a[i])}
        Given(f) == {i \in flags : a[i] = W(f)}
        paths == {i \in DOMAIN a : ~value[i] /\ i \notin flags} \cup {i + 1 : i \in Given("-Path")}
    IN  IF /\ flags = Given("-ItemType") \cup Given("-Path") /\ Len(a) \notin flags
           /\ Given("-ItemType") /= {} /\ \A i \in Given("-ItemType") : a[i + 1] = W("Directory")
           /\ \E i \in paths : paths = {i}
        THEN LET path == a[CHOOSE i \in paths : TRUE]
             IN  Reversing(<<W("Remove-Item"), path>>, ~Absolute(path))
        ELSE NoInverse

Manager(t, verbs) == IF t[1] \in DOMAIN verbs THEN DerivePackageInstall(t, verbs[t[1]]) ELSE NoInverse

(* Mutant: the inverse runs without the rights of the command.                *)
PrefixSudoNever(command, sudo) == command
PrefixSudo(command, sudo) == IF sudo THEN <<W("sudo")>> \o command ELSE command

AsRoot(t) == t[1] = W("sudo")
Bare(t) == IF AsRoot(t) THEN Tail(t) ELSE t
DeriveUnix(t) ==
    LET c == Bare(t)
        found == IF c = <<>> THEN NoInverse
                 ELSE {i \in DeriveMkdir(c) : c[1] = W("mkdir")} \cup {i \in DeriveMv(c) : c[1] = W("mv")}
                      \cup {i \in DeriveSystemctl(c) : c[1] = W("systemctl")} \cup Manager(c, UnixVerbs)
    IN  {[i EXCEPT !.command = PrefixSudo(i.command, AsRoot(t))] : i \in found}

DeriveWindows(t) == IF t[1] = W("New-Item") THEN DeriveNewItem(t) ELSE Manager(t, WindowsVerbs)

Derive(t) == IF platform = "windows" THEN DeriveWindows(t) ELSE DeriveUnix(t)

(* Mutant: wherever the undo is started.                                      *)
DeriveStepAnywhere(t, dir) == Derive(t)

(* deriveStepsForRun: an inverse with a relative path is good only in the     *)
(* directory the step ran in (as the log has it: entries of a comrade that    *)
(* did not write it, which are good anywhere, are not in the model).          *)
DeriveStep(t, dir) == {i \in Derive(t) : ~i.relative \/ dir = Here[platform]}

(* --------------------------------- the machine ------------------------------ *)

PathOf(t, dir) == IF Absolute(t) THEN t ELSE dir \o t
Below(path, tree) == {q \in DOMAIN tree : IsPrefix(path, q)}
Parents(path) == {SubSeq(path, 1, i) : i \in 1..(Len(path) - 1)}
Guarded(path) == Len(path) > 1 /\ path[2] = "etc"

Attempt(ok, m, new) == [ok |-> ok, host |-> IF ok THEN new ELSE m]
Refused(m) == Attempt(FALSE, m, m)

MakeDir(m, path, parents, root) ==
    Attempt(/\ path \notin DOMAIN m.tree /\ (parents \/ Front(path) \in DOMAIN m.tree)
            /\ \A q \in Parents(path) \cap DOMAIN m.tree : m.tree[q] = "dir"
            /\ Guarded(path) => root,
            m, [m EXCEPT !.tree = [q \in DOMAIN m.tree \cup Parents(path) \cup {path} |->
                                     IF q \in DOMAIN m.tree THEN m.tree[q] ELSE "dir"]])

RemoveEmpty(m, path, kinds, root) ==
    Attempt(/\ path \in DOMAIN m.tree /\ Below(path, m.tree) = {path} /\ m.tree[path] \in kinds
            /\ Guarded(path) => root,
            m, [m EXCEPT !.tree = [q \in DOMAIN m.tree \ {path} |-> m.tree[q]]])

(* A file goes over a file, anything into a directory.                        *)
Target(m, a, b) == IF b \in DOMAIN m.tree /\ m.tree[b] = "dir" THEN Append(b, Last(a)) ELSE b
Moved(q, a, to) == to \o SubSeq(q, Len(a) + 1, Len(q))
Move(m, a, b, root) ==
    LET to == Target(m, a, b)
        stay == DOMAIN m.tree \ (Below(a, m.tree) \cup {to})
        new == [q \in stay \cup {Moved(r, a, to) : r \in Below(a, m.tree)} |->
                  IF q \in stay THEN m.tree[q] ELSE m.tree[Moved(q, to, a)]]
    IN  Attempt(/\ a \in DOMAIN m.tree /\ Len(a) > 1 /\ ~IsPrefix(a, to)
                /\ Front(to) \in DOMAIN m.tree /\ m.tree[Front(to)] = "dir"
                /\ to \in DOMAIN m.tree => m.tree[a] /= "dir" /\ m.tree[to] /= "dir"
                /\ Guarded(a) \/ Guarded(to) => root,
                m, [m EXCEPT !.tree = new])

(* Every package is a service, which is gone when the package is.             *)
Install(m, names) == [m EXCEPT !.packages = @ \cup names]
Uninstall(m, names) ==
    [tree |-> m.tree, packages |-> m.packages \ names, enabled |-> m.enabled \ names, active |-> m.active \ names]
Service(m, verb, units, alsoNow) ==
    LET on == verb = "start" \/ (verb = "enable" /\ alsoNow)
        off == verb = "stop" \/ (verb = "disable" /\ alsoNow)
    IN  [tree |-> m.tree, packages |-> m.packages,
         enabled |-> (m.enabled \cup {u \in units : verb = "enable"}) \ {u \in units : verb = "disable"},
         active |-> (m.active \cup {u \in units : on}) \ {u \in units : off}]

(* The places of a command's operands: its tokens but the first that are no   *)
(* flags. Of a New-Item, those that are not the type.                         *)
Operands(c) == {i \in 2..Len(c) : ~IsFlag(c[i])}
Items(c) == {i \in Operands(c) : c[i - 1] /= W("-ItemType")}
FirstAt(S) == CHOOSE i \in S : \A j \in S : i <= j
LastAt(S) == CHOOSE i \in S : \A j \in S : j <= i
Named(c) == {c[i][1] : i \in Operands(c) \ {2}}

(* A command the machine does not know, or with other operands, fails.        *)
Simple(m, dir, c, root) ==
    LET all == Operands(c)
        path == PathOf(c[LastAt(all)], dir)
    IN  IF c = <<>> \/ all = {} THEN Refused(m)
        ELSE IF c[1] = W("mkdir") /\ all = {LastAt(all)} THEN MakeDir(m, path, W("-p") \in ToSet(c), root)
        ELSE IF c[1] = W("rmdir") /\ all = {LastAt(all)} THEN RemoveEmpty(m, path, {"dir"}, root)
        ELSE IF c[1] = W("mv") /\ FirstAt(all) /= LastAt(all) /\ all = {FirstAt(all), LastAt(all)}
        THEN Move(m, PathOf(c[FirstAt(all)], dir), path, root)
        ELSE IF c[1] = W("New-Item") /\ \E i \in all : Items(c) = {i}
        THEN MakeDir(m, PathOf(c[LastAt(Items(c))], dir), TRUE, TRUE)
        ELSE IF c[1] = W("Remove-Item") /\ all = {LastAt(all)}
        THEN RemoveEmpty(m, path, {"dir", "text", "mine"}, TRUE)
        ELSE IF c[1] = W("systemctl") /\ c[2] \in {W("enable"), W("disable"), W("start"), W("stop")}
        THEN Attempt(root /\ Named(c) \subseteq m.packages, m, Service(m, c[2][1], Named(c), W("--now") \in ToSet(c)))
        ELSE IF c[1] \in DOMAIN UnixVerbs \cup DOMAIN WindowsVerbs
                /\ c[2] \in {W("install"), W("remove"), W("uninstall")}
        THEN Attempt(root \/ c[1] \in {W("brew")} \cup DOMAIN WindowsVerbs, m,
                     IF c[2] = W("install") THEN Install(m, Named(c)) ELSE Uninstall(m, Named(c)))
        ELSE Refused(m)

(* Commands joined by && are run until one fails.                             *)
Compound(t) == W("&&") \in ToSet(t)
Single(m, dir, t) == Simple(m, dir, Bare(t), AsRoot(t))
Perform(m, dir, t) ==
    IF ~Compound(t) THEN Single(m, dir, t)
    ELSE LET i == CHOOSE k \in DOMAIN t : t[k] = W("&&")
             one == Single(m, dir, SubSeq(t, 1, i - 1))
         IN  IF one.ok THEN Single(one.host, dir, SubSeq(t, i + 1, Len(t))) ELSE one

(* What a command makes is not there yet, and only what it names is made.     *)
NothingInTheWay(m, dir, c) ==
    /\ c[1] = W("mv") => PathOf(c[LastAt(Operands(c))], dir) \notin DOMAIN m.tree
    /\ c[1] = W("New-Item") => Front(PathOf(c[LastAt(Items(c))], dir)) \in DOMAIN m.tree
    /\ c[1] = W("systemctl") => Named(c) \cap (m.enabled \cup m.active) = {}
    /\ c[1] \in DOMAIN UnixVerbs \cup DOMAIN WindowsVerbs => Named(c) \cap m.packages = {}

(* --------------------------------- run and undo ----------------------------- *)

Token == Seq(Names) \ {<<>>}
FileContents(m) == {m.tree[q] : q \in DOMAIN m.tree} \ {"dir"}
IsMachine(m) ==
    /\ m = [tree |-> [q \in DOMAIN m.tree |-> m.tree[q]], packages |-> m.packages, enabled |-> m.enabled, active |-> m.active]
    /\ \A q \in DOMAIN m.tree : q \in Token /\ \A p \in Parents(q) : p \in DOMAIN m.tree /\ m.tree[p] = "dir"
    /\ m.enabled \cup m.active \subseteq m.packages

ASSUME ReversalAssumption ==
    /\ "-p" \in Flags /\ Flags \cap {"remove", "uninstall"} = {} /\ UserNames \subseteq Names
    /\ \A g \in {"unix", "windows"} :
         /\ CommandsOf[g] \subseteq Seq(Token) \ {<<>>} /\ Here[g] \in Token
         /\ IsMachine(StartOf[g]) /\ "mine" \notin FileContents(StartOf[g])

ReversalIdle ==
    /\ platform = "unix" /\ host = StartOf["unix"] /\ history = <<>> /\ stage = "idle" /\ inverses = <<>>
    /\ place = Here["unix"] /\ plain = TRUE /\ meddled = {} /\ spared = {}
ReversalInit ==
    /\ platform \in {"unix", "windows"} /\ host = StartOf[platform] /\ history = <<>> /\ stage = "run"
    /\ inverses = <<>> /\ place = Here[platform] /\ plain = TRUE /\ meddled = {} /\ spared = {}

RunStep(t) ==
    /\ stage = "run" /\ Len(history) < MaxScript
    /\ LET after == Perform(host, Here[platform], t)
       IN  /\ history' = Append(history, [command |-> t, ok |-> after.ok])
           /\ host' = after.host
           /\ plain' = (plain /\ ~Compound(t) /\ (after.ok => NothingInTheWay(host, Here[platform], Bare(t))))
    /\ UNCHANGED <<platform, stage, inverses, place, meddled, spared>>

(* The user puts a file of their own where none is.                           *)
Meddle(path) ==
    /\ stage = "run" /\ history /= <<>> /\ meddled = {}
    /\ path \notin DOMAIN host.tree /\ Front(path) \in DOMAIN host.tree /\ host.tree[Front(path)] = "dir"
    /\ host' = [host EXCEPT !.tree = [q \in DOMAIN host.tree \cup {path} |-> IF q = path THEN "mine" ELSE host.tree[q]]]
    /\ meddled' = {path}
    /\ UNCHANGED <<platform, history, stage, inverses, place, plain, spared>>

(* buildUndoPlan: failed steps are left out; the inverses in reverse, if every*)
(* step has one, else the model is asked.                                     *)
PlanUndo(dir) ==
    /\ stage = "run"
    /\ LET steps == Reverse(Picked(history, {k \in DOMAIN history : history[k].ok}))
           derived == [i \in DOMAIN steps |-> DeriveStep(steps[i].command, dir)]
       IN  IF steps = <<>> THEN stage' = "refused" /\ UNCHANGED inverses
           ELSE IF \E i \in DOMAIN steps : derived[i] = NoInverse
           THEN stage' = "model" /\ UNCHANGED inverses
           ELSE /\ inverses' = [i \in DOMAIN steps |-> (CHOOSE d \in derived[i] : TRUE).command]
                /\ stage' = "undo"
    /\ place' = dir /\ spared' = FileContents(host)
    /\ UNCHANGED <<platform, host, history, plain, meddled>>

UndoStep ==
    /\ stage = "undo"
    /\ IF inverses = <<>> THEN stage' = "undone" /\ UNCHANGED <<host, inverses>>
       ELSE LET after == Perform(host, place, Head(inverses))
            IN  /\ host' = after.host
                /\ inverses' = Tail(inverses)
                /\ stage' = IF after.ok THEN "undo" ELSE "failed"
    /\ UNCHANGED <<platform, history, place, plain, meddled, spared>>

ReversalNext ==
    \/ \E t \in CommandsOf[platform] : RunStep(t)
    \/ \E q \in DOMAIN host.tree, name \in UserNames : Meddle(Append(q, name))
    \/ \E dir \in {Here[platform], Elsewhere[platform]} : PlanUndo(dir)
    \/ UndoStep

(* -------------------------------- properties -------------------------------- *)

(* Where the run took files from, and where it took them.                     *)
Moves == {c \in {Bare(h.command) : h \in ToSet(history)} : c[1] = W("mv") /\ Len(c) = 3}
Sources == {PathOf(c[2], Here[platform]) : c \in Moves}
Destinations == {PathOf(c[3], Here[platform]) : c \in Moves}
(* The user's file is not where a move back would overwrite it or carry it.   *)
Apart == \A q \in meddled : q \notin Sources /\ \A d \in Destinations : ~IsPrefix(d, q)
Unmeddled(m) == [m EXCEPT !.tree = [q \in {p \in DOMAIN m.tree : m.tree[p] /= "mine"} |-> m.tree[q]]]

(* If each command of the run was a simple one and found nothing in its way,  *)
(* an undo that asks no model gives the machine back as it was before the     *)
(* run, wherever it is started: what the tables leave out (flags of mkdir and *)
(* mv, wildcards, several units, other flags of New-Item, relative paths      *)
(* elsewhere) they leave out for this. A file the user has put there since    *)
(* may stop it, but makes no difference to what it gives back; no other file  *)
(* is lost on the way, and the user's is not if it was put apart from what    *)
(* the run moved.                                                             *)
UndoRestores ==
    plain =>
      /\ meddled = {} => stage /= "failed"
      /\ stage = "undone" => Unmeddled(host) = StartOf[platform]
      /\ spared \ {"mine"} \subseteq FileContents(host)
      /\ Apart => spared \subseteq FileContents(host)
=============================================================================
