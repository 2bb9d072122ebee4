-------------------------------- MODULE Stores --------------------------------
(* The commands that change config.toml and the stored keys, run by several   *)
(* processes: config set, config profile use, add, set and remove, auth login *)
(* and auth logout (internal/cli, config, secrets). Both files are read, the  *)
(* content changed in memory, and the file truncated and written again, with  *)
(* no lock. cmd[p].do is one of the names in StoreCmds, "show" being all that *)
(* every other command does here: it loads the configuration; how doctor and  *)
(* auth status go on is in Doctor. The other fields are key, value, name,     *)
(* provider, and current (--from-current).                                    *)
EXTENDS Processes, Config

CONSTANTS Providers,  \* providers with a key; they are values of the key "provider"
          Compat      \* the one whose base URL and model login asks for

(* A file without a content is nobody's keys.                                 *)
ASSUME StoresAssumption == "no" \notin Providers

VARIABLES file,      \* config.toml
          todo,      \* todo[p]: the saves p has still to make
          next,      \* next[p]: where p goes after them
          draft,     \* draft[p]: the content p has in memory to write
          seen,      \* seen[p]: the effective configuration p has loaded
          from,      \* from[p]: the overlay p runs under
          mixed,     \* mixed[p]: the file was written since p truncated it
          vault,     \* the keychain, a function on some providers
          creds,     \* the credentials file, or Absent, Emptied
          backend,   \* backend[p]: the one p's probe has found
          meant,     \* ghost: the content if every save took effect by itself
          without,   \* ghost: without[p], the same of the saves of all but p
          meantKeys, \* ghost: the same for the keys, by backend
          overlap,   \* ghost: two saves overlapped, or one was cut by a crash
          strayed    \* ghost: a save has written values it was not to write

storeVars == <<file, todo, next, draft, seen, from, mixed, vault, creds, backend,
               meant, without, meantKeys, overlap, strayed>>
configVars == <<file, todo, next, draft, seen, mixed, meant, without, strayed>>
keyVars == <<vault, creds, meantKeys>>

StoreCmds == {"show", "set", "use", "add", "profileKey", "remove", "login", "logout", "status", "doctor"}
Writing == {"truncate", "write", "keyTruncate", "keyWrite"}
InStores(p) == Does(p, StoreCmds)

(* Another process holds a content it has read and will write over the file.  *)
Overlapped(p, labels) == \E q \in Proc \ {p} : InStores(q) /\ pc[q] \in labels

StoresInit ==
    /\ todo = [p \in Proc |-> <<>>] /\ next = [p \in Proc |-> "done"]
    /\ draft = [p \in Proc |-> NoMap] /\ mixed = [p \in Proc |-> FALSE]
    /\ seen = [p \in Proc |-> NoMap]
    /\ meant = Merged(file) /\ without = [p \in Proc |-> Merged(file)]
    /\ meantKeys = [keychain |-> vault, file |-> IF creds = Absent THEN NoMap ELSE creds]
    /\ overlap = FALSE /\ strayed = FALSE

(* ------------------------------- config.toml -------------------------------- *)

(* A value that is not valid is refused before any file is touched.           *)
Acceptable(p) == Does(p, {"set", "profileKey"}) => Validate(cmd[p].key, cmd[p].value)

Refuse(p) ==
    /\ InStores(p) /\ pc[p] = "start" /\ ~Acceptable(p)
    /\ Goto(p, "done")
    /\ UNCHANGED <<cmd, storeVars>>

(* ensureFileExists: a file that is not there is written with the defaults.   *)
StatConfig(p) ==
    /\ InStores(p) /\ Acceptable(p) /\ pc[p] = IF Does(p, {"doctor"}) THEN "doctor" ELSE "start"
    /\ IF file = Absent
       THEN /\ draft' = [draft EXCEPT ![p] = DefaultFile]
            /\ todo' = [todo EXCEPT ![p] = <<[save |-> "none"]>>]
            /\ next' = [next EXCEPT ![p] = "load"]
            /\ overlap' = (overlap \/ Overlapped(p, {"truncate", "write"}))
            /\ Goto(p, "truncate")
       ELSE /\ Goto(p, "load")
            /\ UNCHANGED <<draft, todo, next, overlap>>
    /\ UNCHANGED <<cmd, file, seen, from, mixed, keyVars, backend, meant, without, strayed>>

(* Loader.Load: a command goes on with its saves, then to the label after     *)
(* them, if the file can be read and it does not refuse what it finds.        *)
Loaded(p) == Effective(file, from[p])

Load(p, ok, saves, after) ==
    /\ InStores(p) /\ pc[p] = "load"
    /\ IF Readable(file) /\ ok
       THEN /\ seen' = [seen EXCEPT ![p] = Loaded(p)]
            /\ todo' = [todo EXCEPT ![p] = saves]
            /\ next' = [next EXCEPT ![p] = after]
            /\ overlap' = (overlap \/ (Does(p, {"login", "add"}) /\ Overlapped(p, {"write"})))
            /\ Goto(p, IF saves = <<>> THEN after ELSE "read")
       ELSE Goto(p, "done") /\ UNCHANGED <<todo, next, seen, overlap>>
    /\ UNCHANGED <<cmd, file, draft, from, mixed, keyVars, backend, meant, without, strayed>>

Show(p) == Does(p, {"show"}) /\ Load(p, TRUE, <<>>, "done")

ConfigSet(p) == Does(p, {"set"}) /\
    Load(p, TRUE, <<[save |-> "key", key |-> cmd[p].key, value |-> cmd[p].value]>>, "done")

(* A profile that is not in the configuration loaded is not activated;        *)
(* remove and set find out when they save.                                    *)
ProfileUse(p) == Does(p, {"use"}) /\
    Load(p, cmd[p].name \in DOMAIN Merged(file).profiles, <<[save |-> "use", name |-> cmd[p].name]>>, "done")

ProfileAdd(p) == Does(p, {"add"}) /\
    LET seed == IF cmd[p].current THEN Loaded(p).value ELSE <<>>
    IN  Load(p, TRUE, <<[save |-> "create", name |-> cmd[p].name, seed |-> seed]>>, "done")

ProfileSet(p) == Does(p, {"profileKey"}) /\
    LET save == [save |-> "profileKey", name |-> cmd[p].name, key |-> cmd[p].key, value |-> cmd[p].value]
    IN  Load(p, TRUE, <<save>>, "done")

ProfileRemove(p) == Does(p, {"remove"}) /\
    Load(p, TRUE, <<[save |-> "remove", name |-> cmd[p].name]>>, "done")

(* Once a key is entered, the provider of a login is saved. Without a terminal*)
(* or a key nothing is.                                                       *)
LoginLoad(p) == Does(p, {"login"}) /\ \E entered \in BOOLEAN :
    LET save == [save |-> "key", key |-> "provider", value |-> cmd[p].provider]
    IN  Load(p, entered, IF Loaded(p).value["provider"] = cmd[p].provider THEN <<>> ELSE <<save>>, "ask")

LogoutLoad(p) == Does(p, {"logout"}) /\ Load(p, TRUE, <<>>, "forget")

(* Mutant: what is saved is the effective configuration.                      *)
DraftedEffective(p) == Saved(Head(todo[p]), [Merged(file) EXCEPT !.own = Loaded(p).value])

(* A save: mergedFileViper, the change, and WriteConfigAs, which truncates    *)
(* the file and writes it.                                                    *)
Drafted(p) == Saved(Head(todo[p]), Merged(file))

ReadConfig(p) ==
    /\ InStores(p) /\ pc[p] = "read"
    /\ overlap' = (overlap \/ Overlapped(p, {"truncate", "write"}))
    /\ IF ~Readable(file) \/ Refused(Head(todo[p]), Merged(file))
       THEN Goto(p, "done") /\ UNCHANGED draft
       ELSE /\ draft' = [draft EXCEPT ![p] = Drafted(p)]
            /\ Goto(p, "truncate")
    /\ UNCHANGED <<cmd, file, todo, next, seen, from, mixed, keyVars, backend, meant, without, strayed>>

TruncateConfig(p) ==
    /\ InStores(p) /\ pc[p] = "truncate"
    /\ file' = Emptied
    /\ mixed' = [q \in Proc |-> mixed[q] /\ pc[q] /= "write"]
    /\ Goto(p, "write")
    /\ UNCHANGED <<cmd, todo, next, draft, seen, from, keyVars, backend, meant, without, overlap, strayed>>

(* What a save is to write. A rejected login is to take back its own settings *)
(* and to leave what others have set since it began; --from-current is to     *)
(* copy the settings of the file. The code writes the values in effect when   *)
(* it loaded the configuration: they stray, where a variable or a profile     *)
(* overrode the file then or another command has set the key meanwhile.       *)
Restores(p) == next[p] = "rejected"
Copies(p) == Does(p, {"add"}) /\ cmd[p].current /\ Head(todo[p]).save = "create"
Intended(p) ==
    LET op == Head(todo[p])
    IN  IF Restores(p) THEN [op EXCEPT !.value = without[p].own[op.key]]
        ELSE IF Copies(p) THEN [op EXCEPT !.seed = without[p].own]
        ELSE op

(* Two writers that truncated before either wrote leave a mixture, if the     *)
(* first one's content was the longer.                                        *)
WriteConfig(p) ==
    /\ InStores(p) /\ pc[p] = "write"
    /\ \/ file' = draft[p]
       \/ mixed[p] /\ file' = Garbled
    /\ mixed' = [q \in Proc |-> mixed[q] \/ (q /= p /\ InStores(q) /\ pc[q] = "write")]
    /\ meant' = Taken(Intended(p), meant)
    /\ without' = [q \in Proc |-> IF q = p THEN without[q] ELSE Taken(Intended(p), without[q])]
    /\ strayed' = (strayed \/ Intended(p) /= Head(todo[p]))
    /\ todo' = [todo EXCEPT ![p] = Tail(@)]
    /\ Goto(p, IF Len(todo[p]) > 1 THEN "read" ELSE next[p])
    /\ UNCHANGED <<cmd, next, draft, seen, from, keyVars, backend, overlap>>

(* ---------------------------------- login ---------------------------------- *)

(* With a new provider the configuration is loaded again. For Compat, the     *)
(* user may enter a base URL and, with a base URL of their own and no model,  *)
(* a model (promptOpenAICompatBaseURL, promptOpenAICompatModelIfEmpty).       *)
MayEnter(p, key, then) ==
    \/ Goto(p, then) /\ UNCHANGED <<todo, next>>
    \/ /\ todo' = [todo EXCEPT ![p] = <<[save |-> "key", key |-> key, value |-> "own"]>>]
       /\ next' = [next EXCEPT ![p] = then]
       /\ Goto(p, "read")

AskBaseURL(p) ==
    /\ InStores(p) /\ pc[p] = "ask"
    /\ IF ~Readable(file) /\ seen[p].value["provider"] /= cmd[p].provider
       THEN Goto(p, "done") /\ UNCHANGED <<todo, next>>
       ELSE IF cmd[p].provider = Compat
       THEN MayEnter(p, "url", "askModel")
       ELSE Goto(p, "ping") /\ UNCHANGED <<todo, next>>
    /\ UNCHANGED <<cmd, file, draft, seen, from, mixed, keyVars, backend, meant, without, overlap, strayed>>

AskModel(p) ==
    /\ InStores(p) /\ pc[p] = "askModel"
    /\ LET e == Effective(file, from[p]).value
       IN  IF ~Readable(file) THEN Goto(p, "done") /\ UNCHANGED <<todo, next>>
           ELSE IF e["url"] = Default["url"] \/ e["model"] /= ""
                THEN Goto(p, "ping") /\ UNCHANGED <<todo, next>>
                ELSE MayEnter(p, "model", "ping")
    /\ UNCHANGED <<cmd, file, draft, seen, from, mixed, keyVars, backend, meant, without, overlap, strayed>>

(* What one request with the key alone may come to; "failed" includes a base  *)
(* URL that is refused, a model that is unknown and a network that is down.   *)
PingAnswers == {"answered", "rejected", "failed"}

(* The provider rejects the key: three saves put the loaded values back and   *)
(* the key is dropped. Any other answer, an error included, keeps the key.    *)
Ping(p) ==
    /\ InStores(p) /\ pc[p] = "ping"
    /\ \E answer \in PingAnswers : IF answer /= "rejected"
       THEN Goto(p, "keep") /\ UNCHANGED <<todo, next>>
       ELSE /\ todo' = [todo EXCEPT ![p] =
                [i \in 1..3 |-> LET k == <<"provider", "model", "url">>[i]
                                IN  [save |-> "key", key |-> k, value |-> seen[p].value[k]]]]
          /\ next' = [next EXCEPT ![p] = "rejected"]
          /\ Goto(p, "read")
    /\ UNCHANGED <<cmd, file, draft, seen, from, mixed, keyVars, backend, meant, without, overlap, strayed>>

Rejected(p) ==
    /\ InStores(p) /\ pc[p] = "rejected"
    /\ Goto(p, "done")
    /\ UNCHANGED <<cmd, storeVars>>

(* ----------------------------------- keys ----------------------------------- *)

KeysIn(content) == IF content \in {Absent, Emptied} THEN NoMap ELSE content
Minus(m, x) == [y \in DOMAIN m \ {x} |-> m[y]]

(* Mutant: a key is written without those that are there.                     *)
KeyChangeAlone(p, m) == IF pc[p] = "keep" THEN (cmd[p].provider :> p) ELSE Minus(m, cmd[p].provider)

(* The keychain changes one entry at once. The file is read,                  *)
KeyChange(p, m) == IF pc[p] = "keep" THEN Put(m, cmd[p].provider, p) ELSE Minus(m, cmd[p].provider)

InKeychain(p) ==
    /\ InStores(p) /\ pc[p] \in {"keep", "forget"} /\ backend[p] = "keychain"
    /\ vault' = KeyChange(p, vault)
    /\ meantKeys' = [meantKeys EXCEPT !.keychain = KeyChange(p, @)]
    /\ Goto(p, "done")
    /\ UNCHANGED <<cmd, configVars, from, creds, backend, overlap>>

(* and a key that is not in it is not deleted;                                *)
KeyRead(p) ==
    /\ InStores(p) /\ pc[p] \in {"keep", "forget"} /\ backend[p] = "file"
    /\ overlap' = (overlap \/ Overlapped(p, {"keyTruncate", "keyWrite"}))
    /\ IF pc[p] = "forget" /\ cmd[p].provider \notin DOMAIN KeysIn(creds)
       THEN Goto(p, "done") /\ UNCHANGED draft
       ELSE /\ draft' = [draft EXCEPT ![p] = KeyChange(p, KeysIn(creds))]
            /\ Goto(p, "keyTruncate")
    /\ UNCHANGED <<cmd, file, todo, next, seen, from, mixed, keyVars, backend, meant, without, strayed>>

KeyTruncate(p) ==
    /\ InStores(p) /\ pc[p] = "keyTruncate"
    /\ creds' = Emptied
    /\ mixed' = [q \in Proc |-> mixed[q] /\ pc[q] /= "keyWrite"]
    /\ Goto(p, "keyWrite")
    /\ UNCHANGED <<cmd, file, todo, next, draft, seen, from, vault, backend, meant, without, meantKeys,
                   overlap, strayed>>

(* and then written. Of a mixture, lines the other writer left may be whole.  *)
KeyWrite(p) ==
    /\ InStores(p) /\ pc[p] = "keyWrite"
    /\ \/ creds' = draft[p]
       \/ /\ mixed[p]
          /\ \E S \in SUBSET DOMAIN KeysIn(creds) : creds' = Overriding(draft[p], [x \in S |-> creds[x]])
    /\ mixed' = [q \in Proc |-> mixed[q] \/ (q /= p /\ InStores(q) /\ pc[q] = "keyWrite")]
    /\ meantKeys' = [meantKeys EXCEPT !.file =
           IF cmd[p].do = "login" THEN Put(@, cmd[p].provider, p) ELSE Minus(@, cmd[p].provider)]
    /\ Goto(p, "done")
    /\ UNCHANGED <<cmd, file, todo, next, draft, seen, from, vault, backend, meant, without, overlap, strayed>>

(* A process is killed; in the middle of a write the file stays as it is.     *)
StoresDie(p) ==
    /\ InStores(p) /\ ~Ended(p) /\ pc[p] /= "record"
    /\ overlap' = (overlap \/ pc[p] \in {"write", "keyWrite"})
    /\ Goto(p, "dead")
    /\ UNCHANGED <<cmd, configVars, from, keyVars, backend>>

StoresStep(p) ==
    \/ Refuse(p) \/ StatConfig(p) \/ Show(p) \/ ConfigSet(p) \/ LoginLoad(p) \/ LogoutLoad(p)
    \/ ProfileUse(p) \/ ProfileAdd(p) \/ ProfileSet(p) \/ ProfileRemove(p)
    \/ ReadConfig(p) \/ TruncateConfig(p) \/ WriteConfig(p)
    \/ AskBaseURL(p) \/ AskModel(p) \/ Ping(p) \/ Rejected(p)
    \/ InKeychain(p) \/ KeyRead(p) \/ KeyTruncate(p) \/ KeyWrite(p)
    \/ StoresDie(p)

(* -------------------------------- properties -------------------------------- *)

Quiet(labels) == \A p \in Proc : ~(InStores(p) /\ pc[p] \in labels)

(* Between writes, config.toml holds exactly what the completed saves were to *)
(* write, in the order they completed: no save brings in a value of the       *)
(* environment or of a profile, undoes a setting it does not name or forgets  *)
(* a profile, and a rejected login takes back its own settings and no others. *)
(* Excepted are saves that overlapped or were cut by a crash, and what the    *)
(* code writes against this: values in effect that --from-current copies, or  *)
(* a rejected login gives back, where the file's own have come to differ.     *)
FileAsMeant == Quiet({"truncate", "write"}) /\ ~overlap /\ ~strayed => Merged(file) = meant

(* The same for the keys, in the keychain and in the file, by the process     *)
(* whose login stored them: a rejected key is never stored, a logout takes    *)
(* away one key only.                                                         *)
KeysAsMeant ==
    Quiet({"keyTruncate", "keyWrite"}) /\ ~overlap =>
        vault = meantKeys.keychain /\ KeysIn(creds) = meantKeys.file
=============================================================================
