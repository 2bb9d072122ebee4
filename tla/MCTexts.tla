------------------------------- MODULE MCTexts -------------------------------
(* Four components that read a text or a key, each checked by itself: in a    *)
(* behaviour one of them moves and the others are idle. What they are checked *)
(* on is below, the programs of ShellEffect first: assignments in front, one  *)
(* construct with a body of at most three statements (or two constructs, one  *)
(* in the other), and a use of a variable behind it. Those that the analysis  *)
(* does not follow are among them: fors over a name it knows, assignments in  *)
(* the operands of && and |, conditions of while that assign or read what the *)
(* body assigns, and words assigned in front of their command.                *)
EXTENDS ShellEffect, Reversal, Prompts, Reply

Set(x, w) == [op |-> "assign", x |-> x, w |-> w]
Run(w) == [op |-> "call", pre |-> <<>>, w |-> w]
Atoms == {Set("X", Lit("b")), Set("X", Var("Y")), Set("Y", Lit("a")), Set("Y", Lit("b")),
          Set("X", Subst), Run(Var("X")), Run(Var("Y")), [op |-> "append", x |-> "Y"],
          [op |-> "call", pre |-> <<[x |-> "Y", w |-> Var("X")]>>, w |-> Lit("a")]}

One == {<<a>> : a \in Atoms}
Two == {<<a, b>> : a, b \in Atoms}
Three == {b \o <<a>> : b \in Two, a \in Atoms}

If(links) == [op |-> "if", links |-> links]
Link(cond, body) == [cond |-> cond, body |-> body]
Cond == <<Run(Lit("a"))>>
ForIn(x, body) == [op |-> "for", x |-> x, body |-> body]
For(body) == ForIn("W", body)
Until(cond, body) == [op |-> "while", cond |-> cond, body |-> body]
While(body) == Until(Cond, body)
Case(items) == [op |-> "case", items |-> items]
Scope(op, body) == [op |-> op, body |-> body]
AndThen(l, r) == [op |-> "andor", left |-> l, right |-> r]
Piped(stages) == [op |-> "pipe", stages |-> stages]
With(x, v, w) == [op |-> "call", pre |-> <<[x |-> x, w |-> v]>>, w |-> w]

(* One construct around a body, or two.                                       *)
Around(b) == {If(<<Link(Cond, b)>>), If(<<Link(b, Cond)>>), If(<<Link(Cond, Cond), Link(b, Cond)>>),
              For(b), While(b), Case(<<b>>), Scope("block", b), Scope("subshell", b),
              For(<<For(b)>>), For(<<If(<<Link(Cond, b)>>)>>), If(<<Link(Cond, <<For(b)>>)>>),
              Scope("subshell", <<For(b)>>)}
(* Constructs of two bodies.                                                  *)
Between(b, c) == {If(<<Link(Cond, b), Link(<<>>, c)>>), Case(<<b, c>>),
                  For(b \o <<If(<<Link(Cond, c)>>)>>),
                  Until(b, c), AndThen(b, c), Piped(<<b, c>>)}
(* And fors over the names of the program, operands in a loop, and words      *)
(* assigned in front.                                                         *)
Over(b) == {ForIn("X", b), ForIn("Y", b), For(<<ForIn("Y", b)>>), Until(<<AndThen(Cond, b)>>, Cond),
            For(<<AndThen(Cond, b)>>), For(<<Piped(<<b, Cond>>)>>), Scope("subshell", <<AndThen(b, Cond)>>)}
Words2 == {Lit("a"), Lit("b"), Var("X"), Var("Y")}
Fronted == {With(x, v, w) : x \in {"X", "Y"}, v \in Words2, w \in {Var("X"), Var("Y")}}

Known == {<<Set("X", Lit("a"))>>, <<Set("X", Lit("a")), Set("Y", Lit("a"))>>}
Use == <<Run(Var("X"))>>

(* A value handed from variable to variable by the rounds of a loop, once     *)
(* more often than MaxPasses follows, and once less.                          *)
Relay(n) == <<Set("X", Lit("a")), Set("Y", Lit("a")), Set("Z", Lit(IF n = 3 THEN "a" ELSE "b")),
              For(<<Set("X", Var("Y")), Set("Y", Var("Z")), Set("Z", Lit("b"))>>)>>

MCPrograms ==
    {k \o <<c>> \o Use : k \in Known, c \in UNION {Around(b) : b \in One \cup Two}}
    \cup {k \o <<c>> \o Use : k \in Known, c \in UNION {{For(b), While(b)} : b \in Three}}
    \cup {k \o <<c>> \o Use : k \in Known, c \in UNION {Between(b, c) : b, c \in One}}
    \cup {k \o <<c>> \o Use : k \in Known, c \in UNION {Over(b) : b \in One \cup Two}}
    \cup {k \o <<c>> \o Use : k \in Known, c \in Fronted \cup {For(<<c, Set("X", Var("Y"))>>) : c \in Fronted}}
    \cup {k \o <<Piped(<<l, m, r>>)>> \o Use : k \in Known, l \in {<<Run(w)>> : w \in Words2},
            m \in {Cond, <<Set("X", Lit("b"))>>}, r \in {<<Run(w)>> : w \in Words2} \cup {<<With("Y", Lit("a"), Var("Y"))>>}}
    \cup {k \o <<AndThen(<<Run(l)>>, <<Run(r)>>)>> \o Use : k \in Known, l, r \in Words2}
    \cup {<<Set("X", Lit("a")), Set("Y", Lit("a")), Set("Z", Lit("a")), Set("W", Lit("a"))>>
           \o <<If(<<Link(Cond, <<Set("X", Lit("b"))>>)>>)>> \o Use}
    \cup {Relay(n) \o Use : n \in {2, 3}}

MCInherited == {[x \in Vars |-> c] : c \in {"", "b"}}

(* ---------------------------------- Reversal -------------------------------- *)

Root == <<"/", "a">>
MCHere == [g \in {"unix", "windows"} |-> IF g = "unix" THEN Root ELSE <<"C:", "a">>]
MCElsewhere == [g \in {"unix", "windows"} |-> IF g = "unix" THEN <<"/", "b">> ELSE <<"C:", "b">>]
MCFlags == {"-p", "-f", "-y", "--now", "-Path", "-ItemType", "-Force"}
MCNames == MCFlags \cup {"/", "C:", "a", "b", "d", "e", "f", "g", "x", "y", "etc", "new", "sudo", "mkdir", "mv", "apt", "brew",
            "systemctl", "winget", "New-Item", "Directory", "install", "remove", "enable", "start", "git", "nginx", "node", "&&"}
MCStart == [g \in {"unix", "windows"} |->
    LET root == Head(MCHere[g])
        tree == [q \in {<<root>>, <<root, "a">>, <<root, "b">>, <<root, "etc">>} |-> "dir"]
                @@ (<<root, "a", "f">> :> "text")
    IN  [tree |-> tree, packages |-> {"git"}, enabled |-> {}, active |-> {}]]

Sudo(c) == <<W("sudo")>> \o c
Abs(d) == <<"/", "a", d>>
UnixCommands ==
    {<<W("mkdir"), t>> : t \in {Abs("d"), W("d"), W("f")}}
    \cup {<<W("mkdir"), W("-p"), <<"/", "a", "x", "y">>>>, Sudo(<<W("mkdir"), <<"/", "etc", "d">>>>)}
    \cup {<<W("mv"), Abs("f"), Abs("g")>>, <<W("mv"), W("f"), W("d")>>, <<W("mv"), W("d"), W("g")>>,
          <<W("mv"), W("-f"), W("g"), W("f")>>, <<W("mv"), W("g"), W("f")>>,
          Sudo(<<W("mv"), Abs("f"), <<"/", "etc", "f">>>>)}
    \cup {Sudo(<<W("apt"), W("install"), W("-y"), W("nginx")>>), <<W("brew"), W("install"), W("git")>>,
          Sudo(<<W("apt"), W("remove"), W("git")>>)}
    \cup {Sudo(<<W("systemctl"), W("enable"), W("--now"), W("nginx")>>), Sudo(<<W("systemctl"), W("start"), W("nginx")>>),
          Sudo(<<W("systemctl"), W("start"), W("git"), W("nginx")>>)}
    \cup {Sudo(<<W("apt"), W("install"), W("nginx"), W("&&")>> \o Sudo(<<W("systemctl"), W("start"), W("nginx")>>))}
WindowsCommands ==
    LET d == <<"C:", "a", "d">>
        NewItem(args) == <<W("New-Item")>> \o args
        type == <<W("-ItemType"), W("Directory")>>
    IN  {NewItem(type \o <<t>>) : t \in {d, W("d"), W("f")}} \cup {NewItem(type \o <<W("-Path"), d>>),
         NewItem(<<W("-Path"), d>> \o type), NewItem(<<d>> \o type), NewItem(<<W("-Force"), d>> \o type),
         NewItem(type \o <<d \o <<"e">>>>)}
        \cup {<<W("winget"), W("install"), W(n)>> : n \in {"git", "node"}}
MCCommands == [g \in {"unix", "windows"} |-> IF g = "unix" THEN UnixCommands ELSE WindowsCommands]

(* ------------------------------- Prompts and Reply -------------------------- *)

MCPlans == {<<FALSE>>} \cup {[k \in 1..n |-> k = b] : n \in 2..3, b \in 0..3}

MCSymbols == {"{", "}", ":", Fence, Quote, Escape, Line, "[", "]", "0", "x", "null", "json", "summary", "note"}

Text(t) == [kind |-> "string", text |-> t]
Other(kind, parts) == [kind |-> kind, parts |-> parts]
Strings == {<<>>, <<"x">>, <<"{">>, <<"}">>, <<"}", "{">>, <<Escape, Quote, "{">>, <<Escape, Escape>>, <<Fence>>}
Array(inside) == Other("array", <<<<"[">>>> \o inside \o <<<<"]">>>>)
Number == Other("number", <<<<"0">>>>)
Values == {Text(t) : t \in Strings}
          \cup {Other("null", <<<<"null">>>>), Number, Array(<<>>), Array(Parts(<<>>)), Other("object", Parts(<<>>)),
                Other("object", Parts("note" :> Number))}
MCObjects == {<<>>} \cup [{"summary"} -> Values] \cup [{"note"} -> Values]
             \cup {("summary" :> v) @@ ("note" :> Text(t)) : v \in Values, t \in {<<>>, <<"}", "{">>}}
Open == {<<>>, <<Fence, Line>>, <<Fence, "json", Line>>, <<Fence, "x">>}
Prose == {<<>>, <<"x", Line>>, <<"{">>, <<"}">>, <<"{", "}">>, <<Quote>>}
MCReplies == [open : Open, before : Prose, object : MCObjects, after : Prose \cup {<<Fence, Line>>}, close : {<<>>, <<Line, Fence>>}]

(* ------------------------------- one at a time ------------------------------ *)

ShellIdle == /\ program = <<>> /\ todo = <<>> /\ verdict = Fresh /\ env = [x \in Vars |-> ""]
             /\ started = {} /\ piped = FALSE

MCInit ==
    \/ Init /\ ReversalIdle /\ PromptsIdle /\ ReplyIdle
    \/ ReversalInit /\ ShellIdle /\ PromptsIdle /\ ReplyIdle
    \/ PromptsInit /\ ShellIdle /\ ReversalIdle /\ ReplyIdle
    \/ ReplyInit /\ ShellIdle /\ ReversalIdle /\ PromptsIdle

MCNext ==
    \/ Next /\ UNCHANGED <<reversalVars, promptVars, replyVars>>
    \/ ReversalNext /\ UNCHANGED <<vars, promptVars, replyVars>>
    \/ PromptsNext /\ UNCHANGED <<vars, reversalVars, replyVars>>
    \/ Parse /\ UNCHANGED <<vars, reversalVars, promptVars>>

MCSpec == MCInit /\ [][MCNext]_<<vars, reversalVars, promptVars, replyVars>>
=============================================================================
