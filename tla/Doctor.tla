-------------------------------- MODULE Doctor --------------------------------
(* comrade doctor and comrade auth status, which read what the other commands *)
(* have left and report on it (internal/doctor, cli/doctor.go, cli/auth.go,   *)
(* internal/secrets). The checks of a doctor run in goroutines: they come in  *)
(* any order, and each reads the files as they are at that moment. cmd[p].do  *)
(* is "doctor" (with live, for --live) or "status".                           *)
EXTENDS Stores, Updates, RcFile

CONSTANTS Known,    \* KnownProviders, a sequence of the providers with a key
          Keyless,  \* providers without one
          EnvVars,  \* EnvVars[x]: the variables that may hold x's key, first first
          Foreign,  \* keys whose prefix is another vendor's
          Corrupt,  \* a value of the credentials file that does not decode
          NoKey

(* A provider has a name, and its variables have other names than the places  *)
(* of a store.                                                                *)
ASSUME DoctorAssumption ==
    /\ Providers \cap (Keyless \cup {""}) = {}
    /\ \A x \in Providers : /\ EnvVars[x] \in Seq(STRING)
                            /\ \A i \in DOMAIN EnvVars[x] : EnvVars[x][i] \notin {"", "keychain", "file"}

VARIABLES machine, \* what the processes find outside their files: a record of
                   \* shell, set (variables that name directories), first (the
                   \* comrade PATH finds first: "own", "other" or "none") and
                   \* environ (the variables that hold a key)
          report   \* report[p]: the results p has so far, by check or provider

doctorVars == <<machine, report>>
DoctorCmds == {"doctor", "status"}
DoctorInit == report = [p \in Proc |-> NoMap]

(* ------------------------------ where a key is ------------------------------ *)

(* Store.Get, of the backend the process has found.                           *)
StoreGet(p, x) ==
    LET held == IF backend[p] = "keychain" THEN vault ELSE KeysIn(creds)
    IN  IF x \in DOMAIN held THEN held[x] ELSE NoKey
Stored(p, x) == StoreGet(p, x) \notin {NoKey, Corrupt}

(* FirstSetEnvVar: the first variable of x that is set, or "".                *)
FirstSetEnvVar(x) ==
    LET set == {i \in DOMAIN EnvVars[x] : EnvVars[x][i] \in DOMAIN machine.environ}
    IN  IF set = {} THEN "" ELSE EnvVars[x][CHOOSE i \in set : \A j \in set : i <= j]

ResolveEnvKey(x) ==
    LET set == Picked(EnvVars[x], {i \in DOMAIN EnvVars[x] : EnvVars[x][i] \in DOMAIN machine.environ})
    IN  IF set = <<>> THEN NoKey ELSE machine.environ[Head(set)]

(* secretsKeyResolver: the key a request of p to x is sent with. A value that *)
(* does not decode is passed over.                                            *)
Resolve(p, x) == IF Stored(p, x) THEN StoreGet(p, x) ELSE ResolveEnvKey(x)

(* providerStatusLabel.                                                       *)
StatusLabel(p, x) == IF StoreGet(p, x) /= NoKey THEN backend[p] ELSE FirstSetEnvVar(x)

(* -------------------------------- the checks -------------------------------- *)

Result(severity, says) == [severity |-> severity, says |-> says]
Skip == Result("skip", "")
OK(says) == Result("ok", says)
Warn(says) == Result("warn", says)
Fail(says) == Result("fail", says)

(* A configuration that could not be loaded has no provider.                  *)
Provider(p) == IF seen[p] = NoMap THEN "" ELSE seen[p].value["provider"]

VersionCheck(p) == IF IsNewer(built[p], published) THEN Warn("behind") ELSE OK("")

(* Of another comrade that is first on PATH nothing is said when the running  *)
(* one is gone.                                                               *)
PathCheck ==
    IF machine.first = "none" \/ (machine.first = "own" /\ exe = Gone) THEN Fail("path")
    ELSE IF machine.first = "other" /\ exe /= Gone THEN Warn("path")
    ELSE OK("")

(* Mutant: a variable is taken although the store holds a key.                *)
KeyCheckEnvFirst(p, x) ==
    IF x \in Keyless \cup {""} THEN Skip
    ELSE IF FirstSetEnvVar(x) /= "" THEN OK(FirstSetEnvVar(x))
    ELSE IF Stored(p, x) THEN OK(backend[p])
    ELSE Fail("login")

KeyCheck(p, x) ==
    IF x \in Keyless \cup {""} THEN Skip
    ELSE IF Stored(p, x) THEN OK(backend[p])
    ELSE IF FirstSetEnvVar(x) /= "" THEN OK(FirstSetEnvVar(x))
    ELSE Fail("login")

(* HealthEndpoint is known for every provider there is; any answer of it will *)
(* do, but an Ollama must have a model. With --live one request is sent.      *)
ReachChecks(p) ==
    LET x == Provider(p)
    IN  IF x = "" THEN {Skip}
        ELSE {Fail("unreachable"), OK("")} \cup
             IF x \in Keyless THEN {Warn("pull")}
             ELSE IF ~cmd[p].live THEN {}
             ELSE IF Resolve(p, x) = NoKey THEN {Fail("login")}
             ELSE {Fail("rejected"), Warn("ping")}

(* The key that is looked at is the stored one, else the environment's.       *)
BaseURLCheck(p) ==
    IF Provider(p) /= Compat THEN Skip
    ELSE IF seen[p].value["url"] /= Default["url"] \/ Resolve(p, Compat) \notin Foreign THEN OK("")
    ELSE Warn("base_url")

ConfigCheck(p) ==
    IF seen[p] = NoMap THEN Fail("load")
    ELSE IF backend[p] = "file" THEN Warn("keychain") ELSE OK("")

(* RCPath; the directory of a file is named by the variable it comes from, or *)
(* by the PowerShell that is asked for its profile: one, even on Windows.     *)
Under(dir, name) == IF dir \in machine.set THEN <<dir, name>> ELSE <<>>
PowerShellProfile == Under(IF windows THEN "powershell" ELSE "pwsh", "$PROFILE")
RCPath(shell) ==
    LET or(a, b) == IF a = <<>> THEN b ELSE a
    IN  CASE shell = "bash" -> Under("HOME", ".bashrc")
          [] shell = "zsh" -> or(Under("ZDOTDIR", ".zshrc"), Under("HOME", ".zshrc"))
          [] shell = "fish" -> or(Under("XDG_CONFIG_HOME", "config.fish"), Under("HOME", "config.fish"))
          [] shell = "powershell" -> PowerShellProfile

(* DetectShell and ParseShell, then the file's block. Any difference from the *)
(* block of this build, one without its end included, is worth an init.       *)
Supported == {"bash", "zsh", "fish", "powershell"}
DetectShell == IF windows THEN (IF "PSModulePath" \in machine.set THEN "powershell" ELSE "cmd") ELSE machine.shell

HookStatus(content) == IF Unmatched(content) \/ ApplyBlock(content) /= content THEN Warn("init") ELSE OK("")
ContentOf(path) == IF path \in RcFiles THEN rc[path] ELSE <<>>
ShellHookCheck ==
    IF DetectShell \notin Supported \/ RCPath(DetectShell) = <<>> THEN Skip
    ELSE HookStatus(ContentOf(RCPath(DetectShell)))

(* --------------------------------- doctor ---------------------------------- *)

(* A configuration that cannot be read is a result, not the end.              *)
DoctorLoad(p) ==
    /\ Step(p, {"doctor"}, "load", "check")
    /\ seen' = [seen EXCEPT ![p] = IF Readable(file) THEN Loaded(p) ELSE NoMap]
    /\ UNCHANGED <<cmd, file, todo, next, draft, from, mixed, keyVars, backend, meant, without, overlap,
                   strayed, updateVars, doctorVars>>

Report(p, check, result) ==
    /\ check \notin DOMAIN report[p]
    /\ report' = [report EXCEPT ![p] = (check :> result) @@ @]
    /\ UNCHANGED <<cmd, machine, storeVars>>

Check(p) ==
    /\ Does(p, {"doctor"}) /\ pc[p] \in {"check", "record"}
    /\ \/ Report(p, "path", PathCheck)
       \/ Report(p, "shellhook", ShellHookCheck)
       \/ Report(p, "key", KeyCheck(p, Provider(p)))
       \/ \E r \in ReachChecks(p) : Report(p, "reach", r)
       \/ Report(p, "baseurl", BaseURLCheck(p))
       \/ Report(p, "config", ConfigCheck(p))
    /\ UNCHANGED <<pc, updateVars>>

(* The check of the version: an answer is recorded for the weekly check.      *)
AskDoctor(p) ==
    /\ Does(p, {"doctor"}) /\ pc[p] = "check"
    /\ \/ /\ built[p] /= Dev
          /\ Report(p, "version", VersionCheck(p))
          /\ got' = [got EXCEPT ![p] = published]
          /\ asked' = [asked EXCEPT ![p] = now]
          /\ Goto(p, "record")
       \/ /\ Report(p, "version", IF built[p] = Dev THEN Skip ELSE Warn("fetch"))
          /\ UNCHANGED <<pc, got, asked>>
    /\ UNCHANGED <<fileVars, published, platform, now, checked, told, early, setBack>>

(* Runner.Run waits for all checks; a failed one makes the exit code 1.       *)
Checks == {"version", "path", "shellhook", "key", "reach", "baseurl", "config"}
Failed(p) == \E c \in Checks : report[p][c].severity = "fail"

Finish(p) ==
    /\ Step(p, {"doctor"}, "check", "done") /\ DOMAIN report[p] = Checks
    /\ report' = [report EXCEPT ![p] = ("exit" :> IF Failed(p) THEN 1 ELSE 0) @@ @]
    /\ UNCHANGED <<cmd, machine, storeVars, updateVars>>

(* -------------------------------- auth status ------------------------------- *)

StatusLoad(p) == Does(p, {"status"}) /\ Load(p, TRUE, <<>>, "status") /\ UNCHANGED <<updateVars, doctorVars>>

(* Store.Status reads the file again for each provider; one value that does   *)
(* not decode ends it.                                                        *)
StatusRow(p) ==
    /\ Does(p, {"status"}) /\ pc[p] = "status"
    /\ LET n == Cardinality(DOMAIN report[p])
           x == Known[n + 1]
       IN  IF n = Len(Known) \/ StoreGet(p, x) = Corrupt
           THEN Goto(p, "done") /\ UNCHANGED report
           ELSE /\ report' = [report EXCEPT ![p] = (x :> StatusLabel(p, x)) @@ @]
                /\ UNCHANGED pc
    /\ UNCHANGED <<cmd, machine, storeVars, updateVars>>

DoctorStep(p) == DoctorLoad(p) \/ Check(p) \/ AskDoctor(p) \/ Finish(p) \/ StatusLoad(p) \/ StatusRow(p)

(* -------------------------------- properties -------------------------------- *)

(* Whatever the processes do to the files, what comrade says of a setting or  *)
(* of a key is what it will use. The layer config list names as the source of *)
(* a setting is the one its value comes from; the place doctor and auth       *)
(* status name as the source of a key holds the key a request would be sent   *)
(* with, and they name none only when there is none (auth status fails when a *)
(* stored value does not decode). Loader.Source, KeyCheck, providerStatusLabel*)
(* and secretsKeyResolver each look for the layers on their own.              *)
SettingsTold ==
    Readable(file) => \A p \in {q \in Proc : InStores(q)}, k \in Keys :
        LET v == Effective(file, from[p]).value[k]
            s == Source(file, from[p], k)
        IN  v = CASE s = "env"     -> from[p].vars[k]
                  [] s = "profile" -> Content(file).profiles[Active(Content(file), from[p])][k]
                  [] s = "file"    -> Content(file).own[k]
                  [] s = "default" -> Default[k]

KeyAt(place, x) ==
    CASE place = "keychain" -> vault[x]
      [] place = "file" -> creds[x]
      [] place = "" -> NoKey
      [] OTHER -> machine.environ[place]

KeysTold == \A p \in {q \in Proc : Does(q, DoctorCmds)}, x \in Providers :
    /\ LET r == KeyCheck(p, x)
       IN  IF r.severity = "fail" THEN Resolve(p, x) = NoKey ELSE Resolve(p, x) = KeyAt(r.says, x)
    /\ StoreGet(p, x) /= Corrupt => Resolve(p, x) = KeyAt(StatusLabel(p, x), x)

ReportsTrue == SettingsTold /\ KeysTold

(* The command doctor names as a remedy is one: once it has run to its end,   *)
(* the check passes. An init leaves the block the check compares with, unless *)
(* a block has lost its end, which init refuses to touch; setting the base    *)
(* URL ends the suspicion, unless a profile or a variable sets it.            *)
RemediesCure ==
    \A p \in {q \in Proc : Does(q, {"doctor"}) /\ pc[q] \in {"check", "record"}} :
        /\ ShellHookCheck.severity = "warn" =>
               LET s == ContentOf(RCPath(DetectShell)) IN Unmatched(s) \/ HookStatus(ApplyBlock(s)).severity = "ok"
        /\ BaseURLCheck(p).severity = "warn" /\ Readable(file) =>
               LET set == Saved([save |-> "key", key |-> "url", value |-> "own"], Merged(file))
               IN  \/ Effective(set, from[p]).value["url"] = "own"
                   \/ Source(file, from[p], "url") \in {"env", "profile"}
=============================================================================
