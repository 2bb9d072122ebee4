-------------------------------- MODULE Config --------------------------------
(* The content of config.toml and what is made of it: internal/config. A      *)
(* content has the file's own settings (a function on some of the keys), the  *)
(* active profile it names, and its profiles, each a function on some keys.   *)
EXTENDS Naturals, TLC

CONSTANTS Keys, Default,  \* Default[k] is the built-in value of key k
          Profiles,       \* names of profiles; "" is no profile
          ProviderNames,  \* the values key "provider" may have
          Urls            \* Urls[v]: the scheme and host of the address v

(* The keys login and its rejection save are keys.                            *)
ASSUME ConfigAssumption ==
    Default = [k \in Keys |-> Default[k]] /\ {"provider", "model", "url"} \subseteq Keys

(* Files that hold no content. A truncated file parses as an empty one; a     *)
(* file two writers have mixed does not parse.                                *)
Absent == [no |-> "file"]
Emptied == [no |-> "content"]
Garbled == [no |-> "syntax"]

(* Both maps, f where both have a value; and f with one value put in.         *)
Overriding(f, g) == [x \in DOMAIN f \cup DOMAIN g |-> IF x \in DOMAIN f THEN f[x] ELSE g[x]]
Put(f, x, v) == [y \in DOMAIN f \cup {x} |-> IF y = x THEN v ELSE f[y]]

DefaultFile == [own |-> Default, active |-> "", profiles |-> <<>>]
Readable(file) == file /= Garbled

(* mergedFileViper: the defaults under the file.                              *)
Merged(file) == IF file \in {Absent, Emptied} THEN DefaultFile
                ELSE [file EXCEPT !.own = Overriding(file.own, Default)]
Content(file) == IF file \in {Absent, Emptied} THEN [DefaultFile EXCEPT !.own = <<>>] ELSE file

(* What a process gets from outside the file: its flag, the two variables     *)
(* that name a profile, and the variables that set a key.                     *)
NoOverlay == [flag |-> "", profile |-> "", general |-> "", vars |-> <<>>]

(* ResolveActiveProfile.                                                      *)
Active(file, from) ==
    IF from.flag /= "" THEN from.flag
    ELSE IF from.profile /= "" THEN from.profile
    ELSE IF from.general /= "" THEN from.general
    ELSE file.active

(* A profile nobody defined is ignored.                                       *)
Overlay(file, from) ==
    LET a == Active(file, from)
    IN  IF a \in DOMAIN file.profiles THEN file.profiles[a] ELSE <<>>

(* newEffectiveViper: variables over the profile over the file over defaults. *)
Effective(file, from) ==
    LET m == Merged(file)
    IN  [active |-> Active(m, from), value |-> Overriding(from.vars, Overriding(Overlay(m, from), m.own))]

(* Mutant: the file is looked at before the profile.                          *)
SourceFileFirst(file, from, k) ==
    LET c == Content(file)
    IN  IF k \in DOMAIN from.vars THEN "env"
        ELSE IF k \in DOMAIN c.own THEN "file"
        ELSE IF k \in DOMAIN Overlay(c, from) THEN "profile"
        ELSE "default"

(* Loader.Source, which looks for the layers again, on its own.               *)
Source(file, from, k) ==
    LET c == Content(file)
    IN  IF k \in DOMAIN from.vars THEN "env"
        ELSE IF k \in DOMAIN Overlay(c, from) THEN "profile"
        ELSE IF k \in DOMAIN c.own THEN "file"
        ELSE "default"

(* Whether config set and config profile set take a value: a provider there   *)
(* is, an address of http or https that is not link-local; any model.         *)
CheckBaseURL(value) == /\ value \in DOMAIN Urls
                       /\ Urls[value].scheme \in {"http", "https"}
                       /\ Urls[value].host \notin {"", "link-local"}
Validate(key, value) ==
    /\ key \in Keys
    /\ key = "provider" => value \in ProviderNames
    /\ key = "url" => CheckBaseURL(value)

(* ------------------------------ changes of a file --------------------------- *)

(* What a save does to the merged content: one key, the active profile, a new *)
(* profile, a key of a profile, the removal of a profile.                     *)
Refused(op, f) ==
    \/ op.save = "create" /\ op.name \in DOMAIN f.profiles
    \/ op.save \in {"profileKey", "remove"} /\ op.name \notin DOMAIN f.profiles

Saved(op, f) ==
    CASE op.save = "key"    -> [f EXCEPT !.own = Put(@, op.key, op.value)]
      [] op.save = "use"    -> [f EXCEPT !.active = op.name]
      [] op.save = "create" -> [f EXCEPT !.profiles = Put(@, op.name, op.seed)]
      [] op.save = "profileKey" ->
            [f EXCEPT !.profiles[op.name] = Put(@, op.key, op.value)]
      [] op.save = "remove" ->
            [f EXCEPT !.profiles = [n \in DOMAIN @ \ {op.name} |-> @[n]],
                      !.active = IF @ = op.name THEN "" ELSE @]
      [] op.save = "none" -> f

Taken(op, f) == IF Refused(op, f) THEN f ELSE Saved(op, f)
=============================================================================
