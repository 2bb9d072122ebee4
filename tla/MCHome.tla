-------------------------------- MODULE MCHome --------------------------------
(* The instance of Home that TLC checks: commands put together because they   *)
(* share a file, and the files they can meet.                                 *)
EXTENDS Home

CONSTANTS P1, P2, P3

MCKeys == {"provider", "model", "url"}
MCDefault == [k \in MCKeys |-> CASE k = "provider" -> "anthropic" [] k = "model" -> "" [] k = "url" -> "std"]

MCProviderNames == {"anthropic", "google", "compat", "ollama"}
MCUrls == [v \in {"std", "own", "metadata", "local file"} |->
    CASE v = "std" -> [scheme |-> "https", host |-> "api.openai.com"]
      [] v = "own" -> [scheme |-> "http", host |-> "lan"]
      [] v = "metadata" -> [scheme |-> "http", host |-> "link-local"]
      [] v = "local file" -> [scheme |-> "file", host |-> ""]]

MCCommand == {"ls", "sudo", "rm", "mkfs"}
MCRuleRisk == [c \in MCCommand |-> IF c = "sudo" THEN Elevated ELSE IF c = "rm" THEN Destructive ELSE Read]
MCEffectRisk == [c \in MCCommand |-> Read]

(* -------------------------------- the commands ------------------------------ *)

Look == [do |-> "show"]
SetKey(k, v) == [do |-> "set", key |-> k, value |-> v]
Use(n) == [do |-> "use", name |-> n]
Add(n, current) == [do |-> "add", name |-> n, current |-> current]
SetIn(n, k, v) == [do |-> "profileKey", name |-> n, key |-> k, value |-> v]
Remove(n) == [do |-> "remove", name |-> n]
Login(x) == [do |-> "login", provider |-> x]
Logout(x) == [do |-> "logout", provider |-> x]
Upgrade(check, managed) == [do |-> "upgrade", check |-> check, managed |-> managed]
Notify(enabled) == [do |-> "notice", enabled |-> enabled]
Doctoring(live) == [do |-> "doctor", live |-> live]
Status == [do |-> "status"]
Install(files, yes, fish) == [do |-> "install", files |-> files, yes |-> yes, fish |-> fish]
Uninstall(files, fish) == [do |-> "uninstall", files |-> files, fish |-> fish]
FixIt(explicit, rerun, dry, m) == [do |-> "fix", explicit |-> explicit, rerun |-> rerun, dry |-> dry, mode |-> m]
TalkTo == [do |-> "chat"]
Nothing == [do |-> "nothing"]

PS5 == <<"powershell", "$PROFILE">>
PS7 == <<"pwsh", "$PROFILE">>
Zshrc == <<"ZDOTDIR", ".zshrc">>
MCRcFiles == {PS5, PS7, Zshrc}
Profiles2 == <<PS5, PS7>>
Model == SetKey("model", "m")

(* Commands on config.toml and the keys, two by two.                          *)
StorePairs ==
    {<<Model, SetKey("provider", "google")>>, <<Model, Use("work")>>, <<Use("work"), Remove("work")>>,
     <<Remove("work"), SetIn("work", "model", "w2")>>, <<Add("home", TRUE), Model>>,
     <<Add("home", FALSE), SetIn("home", "model", "h")>>, <<Look, Add("work", FALSE)>>,
     <<Look, Login("google")>>, <<Login("compat"), Model>>,
     <<SetKey("provider", "who"), SetIn("work", "url", "metadata")>>, <<SetKey("url", "local file"), Look>>,
     <<Login("google"), Logout("google")>>,
     <<Logout("google"), Logout("anthropic")>>}
KeyCommands == {"login", "logout"}

UpdateTriples ==
    {<<Upgrade(FALSE, FALSE), Upgrade(FALSE, FALSE), Notify(TRUE)>>,
     <<Upgrade(FALSE, FALSE), Upgrade(FALSE, FALSE), Upgrade(FALSE, FALSE)>>,
     <<Notify(TRUE), Notify(TRUE), Notify(FALSE)>>,
     <<Notify(FALSE), Upgrade(TRUE, TRUE), Upgrade(FALSE, TRUE)>>}

RcPairs ==
    {<<Install(Profiles2, FALSE, FALSE), Uninstall(Profiles2, FALSE)>>,
     <<Install(Profiles2, TRUE, FALSE), Install(Profiles2, FALSE, FALSE)>>,
     <<Uninstall(Profiles2, FALSE), Uninstall(Profiles2, FALSE)>>,
     <<Install(<<PS5>>, TRUE, TRUE), Uninstall(<<PS5>>, TRUE)>>}

Fixes == {FixIt(None, FALSE, FALSE, "auto"), FixIt(None, TRUE, FALSE, "ask"), FixIt("sudo", FALSE, FALSE, "ask"),
          FixIt("ls", FALSE, TRUE, "info"), FixIt("mkfs", FALSE, FALSE, "auto")}

Commands(a, b, c) == cmd = (P1 :> a) @@ (P2 :> b) @@ (P3 :> c)

(* ----------------------------------- files ---------------------------------- *)

Partial == [own |-> [k \in {"model"} |-> "m0"], active |-> "", profiles |-> <<>>]
WithWork == [own |-> MCDefault, active |-> "work", profiles |-> [n \in {"work"} |-> [k \in {"model"} |-> "w"]]]
WorkFlag == [NoOverlay EXCEPT !.flag = "work"]
EnvProvider == [NoOverlay EXCEPT !.vars = [k \in {"provider"} |-> "ollama"]]

Starts(f, o) == file = f /\ from = [p \in Proc |-> IF p = P1 THEN o ELSE NoOverlay]
AnyFiles == \E s \in {<<Absent, NoOverlay>>, <<Partial, WorkFlag>>, <<WithWork, EnvProvider>>} : Starts(s[1], s[2])
SomeKeys ==
    \/ vault = NoMap /\ creds = Absent /\ backend = [p \in Proc |-> "file"]
    \/ /\ vault = ("google" :> "old") /\ creds = ("anthropic" :> "old") @@ ("google" :> "old")
       /\ \E b \in {"keychain", "file"} : backend = [p \in Proc |-> IF p = P1 THEN "file" ELSE b]
FixedFiles == file = WithWork /\ from = [p \in Proc |-> NoOverlay]
FixedKeys == vault = NoMap /\ creds = Absent /\ backend = [p \in Proc |-> "keychain"]

MCKnown == <<"anthropic", "google", "compat">>
MCEnvVars == [x \in {"anthropic", "google", "compat"} |-> <<"COMRADE_KEY", "VENDOR_KEY">>]
Machine(shell, set, first, environ) == [shell |-> shell, set |-> set, first |-> first, environ |-> environ]
FixedMachine == machine = Machine("", {}, "own", NoMap)

SetUp(version) == [by |-> "setup", version |-> version, whole |-> TRUE, archive |-> "own"]
FixedExe == exe = SetUp(1) /\ published = 1 /\ windows = FALSE /\ signing = FALSE

RcContents ==
    {<<>>, <<"a", Blank>>, <<"a", Blank>> \o OldBlock \o <<"b">>, Block \o <<Blank, "b">>, <<"a", Begin, "b">>}
FixedRc == rc = [f \in RcFiles |-> <<>>] /\ completions = FALSE

(* doctor and auth status beside a command on what they read.                 *)
ForCompat(own, active) ==
    [own |-> [MCDefault EXCEPT !["provider"] = "compat"], active |-> active,
     profiles |-> [n \in {"work"} |-> [k \in own |-> "std"]]]
InFile(keys) == vault = NoMap /\ creds = keys /\ backend = [p \in Proc |-> "file"]
InChain(keys) == vault = keys /\ creds = Absent /\ backend = [p \in Proc |-> "keychain"]
Gsk == "compat" :> "gsk"
Zsh(first, environ) == machine = Machine("zsh", {"HOME", "ZDOTDIR"}, first, environ)

DoctorCases ==
    \/ /\ Commands(Doctoring(FALSE), Logout("compat"), Nothing)
       /\ file = ForCompat({"url"}, "work") /\ InFile(Gsk) /\ Zsh("own", "VENDOR_KEY" :> "sk")
    \/ /\ Commands(Doctoring(TRUE), SetKey("url", "own"), Nothing)
       /\ file = ForCompat({"model"}, "") /\ InChain(Gsk)
       /\ machine = Machine("bash", {"HOME"}, "other", ("COMRADE_KEY" :> "sk") @@ ("VENDOR_KEY" :> "gsk"))
    \/ /\ Commands(Doctoring(FALSE), Install(<<Zshrc>>, TRUE, FALSE), Nothing)
       /\ file = Garbled /\ InFile(NoMap) /\ Zsh("own", NoMap)
    \/ /\ Commands(Doctoring(FALSE), Upgrade(FALSE, FALSE), Nothing)
       /\ file = WithWork /\ InFile("anthropic" :> "corrupt") /\ Zsh("own", NoMap)
    \/ /\ Commands(Notify(TRUE), Doctoring(FALSE), Nothing)
       /\ file = Garbled /\ InChain(NoMap) /\ Zsh("own", NoMap)
    \/ /\ Commands(Status, Logout("anthropic"), Nothing)
       /\ file = WithWork /\ InFile(("anthropic" :> "corrupt") @@ Gsk) /\ Zsh("none", NoMap)
    \/ /\ Commands(Status, Login("google"), Nothing)
       /\ file = Absent /\ InFile(Gsk) /\ Zsh("own", "VENDOR_KEY" :> "sk")

Init ==
    /\ \/ /\ \E s \in StorePairs : /\ Commands(s[1], s[2], Nothing)
                                   /\ IF s[1].do \in KeyCommands \/ s[2].do \in KeyCommands
                                      THEN SomeKeys ELSE FixedKeys
          /\ AnyFiles /\ FixedExe /\ FixedRc /\ FixedMachine
       \/ /\ \E s \in UpdateTriples : Commands(s[1], s[2], s[3])
          /\ exe = SetUp(1) /\ published = 2 /\ windows \in BOOLEAN /\ signing = windows
          /\ FixedFiles /\ FixedKeys /\ FixedRc /\ FixedMachine
       \/ /\ \E s \in RcPairs : Commands(s[1], s[2], Nothing)
          /\ \E s \in RcContents, t \in {<<>>, OldBlock} : rc = [f \in RcFiles |-> IF f = PS5 THEN s ELSE t]
          /\ completions = FALSE
          /\ FixedFiles /\ FixedKeys /\ FixedExe /\ FixedMachine
       \/ /\ \E c \in Fixes : Commands(c, Nothing, Nothing)
          /\ FixedFiles /\ FixedKeys /\ FixedExe /\ FixedRc /\ FixedMachine
       \/ /\ Commands(TalkTo, Nothing, Nothing)
          /\ FixedFiles /\ FixedKeys /\ FixedExe /\ FixedRc /\ FixedMachine
       \/ /\ DoctorCases /\ from = [p \in Proc |-> NoOverlay]
          /\ exe = SetUp(1) /\ published = 3 /\ windows = FALSE /\ signing = FALSE
          /\ rc = [f \in RcFiles |-> OldBlock] /\ completions = FALSE
    /\ HomeInit

Spec == Init /\ [][Next]_vars
=============================================================================
