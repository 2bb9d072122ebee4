----------------------------- MODULE ShellEffect -----------------------------
(* The shell analysis of internal/safety/effect_bash.go against the shell it  *)
(* speaks about. Analysis(program) is what analyzeBashEffect computes before  *)
(* it looks for signatures: the command words of the resolved text, the       *)
(* variables still known, and whether it gave up (an indeterminate verdict,   *)
(* which Evaluate turns into a question). The state machine is the shell      *)
(* itself, running the program in any way it can.                             *)
(*                                                                            *)
(* A statement is a record with an "op"; a list of statements is a sequence:  *)
(*   assign  x, w              X=w, and declare/local/export X=w              *)
(*   call    pre, w            pre is a sequence of [x, w]: A=1 B=2 word      *)
(*   if      links             a sequence of [cond, body], else has cond <<>> *)
(*   while   cond, body        while and until                                *)
(*   for     x, body           for x in items, whatever the items come to     *)
(*   case    items             a sequence of statement lists                  *)
(*   block, subshell  body     { } and ( )                                    *)
(*   andor   left, right       a && b, a || b, each side a list, as in { }    *)
(*   pipe    stages            a | b | c, a sequence of lists                 *)
(*   append  x                 X+=.., arrays: an assignment not supported     *)
(* Functions, arithmetic commands, [[ ]], time and coproc are not statements  *)
(* here: the analysis does not walk them. Nor are commands sent to the        *)
(* background, which it takes for any others.                                 *)
(* A word is a literal, a variable, or a substitution $(..).                  *)
EXTENDS Integers, Sequences, FiniteSets, SequencesExt

CONSTANTS Vars, Literals,
          Fetchers, Interpreters,  \* the literals checkFetcherPipeline looks for
          Programs,                \* the programs of the instance
          MaxDepth,                \* and how deep constructs nest in them
          Inherited,               \* the environments the shell may start with
          MaxPasses,               \* maxLoopFixpointIterations
          MaxForks, MaxEnv         \* maxScopeForks, maxEnvSize

VARIABLES program,  \* the command under analysis, a sequence of statements
          verdict,  \* the analysis' final state
          todo,     \* what the shell has still to do, a stack of frames
          env,      \* the shell's variables; "" is unset or empty
          started,  \* the command words the shell has run
          piped     \* a fetcher was piped into an interpreter

vars == <<program, verdict, todo, env, started, piped>>

Lit(c) == [kind |-> "lit", of |-> c]
Var(x) == [kind |-> "var", of |-> x]
Subst == [kind |-> "subst", of |-> ""]
Unknown == ""

(* ------------------------------- the programs ------------------------------ *)

Words == [kind : {"lit"}, of : Literals] \cup [kind : {"var"}, of : Vars] \cup {Subst}
Calls == [op : {"call"}, pre : Seq([x : Vars, w : Words]), w : Words]
Plain == [op : {"assign"}, x : Vars, w : Words] \cup [op : {"append"}, x : Vars] \cup Calls

(* The statements made of the lists of a set.                                 *)
Constructs(lists) ==
    [op : {"if"}, links : Seq([cond : lists, body : lists])]
    \cup [op : {"while"}, cond : lists, body : lists]
    \cup [op : {"for"}, x : Vars, body : lists]
    \cup [op : {"block", "subshell"}, body : lists]
    \cup [op : {"case"}, items : Seq(lists)]
    \cup [op : {"andor"}, left : lists, right : lists]
    \cup [op : {"pipe"}, stages : Seq(lists)]

(* The statements with constructs at most n deep.                             *)
Syntax[n \in 0..MaxDepth] == IF n = 0 THEN Plain ELSE Plain \cup Constructs(Seq(Syntax[n - 1]))

ASSUME ShellAssumption ==
    /\ Unknown \notin Literals /\ Fetchers \cup Interpreters \subseteq Literals
    /\ MaxDepth \in Nat /\ MaxPasses \in Nat /\ MaxForks \in Nat
    /\ Programs \subseteq Seq(Syntax[MaxDepth])
    /\ Inherited \subseteq [Vars -> Literals \cup {Unknown}]

(* ------------------------------- the analysis ------------------------------ *)

(* The analysis' state. known is r.env, Unknown for what is not in it; words  *)
(* are the command words of the text so far, forks the clones still allowed;  *)
(* found is a finding of checkFetcherPipeline; ok turns FALSE when the        *)
(* verdict is indeterminate. blind is not the analysis' own: it is TRUE once  *)
(* the program has done what the analysis does not follow (Blind, below).     *)
State == [known : [Vars -> Literals \cup {Unknown}], words : SUBSET Literals, forks : Nat,
          found : BOOLEAN, ok : BOOLEAN, blind : BOOLEAN]
Fresh == [known |-> [x \in Vars |-> Unknown], words |-> {}, forks |-> MaxForks,
          found |-> FALSE, ok |-> TRUE, blind |-> FALSE]

GiveUp(r) == [r EXCEPT !.ok = FALSE]
Blind(r, missed) == [r EXCEPT !.blind = @ \/ missed]
Then(r, next) == IF r.ok THEN next ELSE r

(* The states after each of m steps, of which step[k][a] makes the k-th of    *)
(* the state a before it, until one gives up.                                 *)
Through(r, step, m) ==
    LET at[k \in 0..m] == IF k = 0 THEN r ELSE LET a == at[k - 1] IN Then(a, step[k][a])
    IN  at
After(r, step, m) == Through(r, step, m)[m]

(* A word in command-word or assignment-value position: a literal, or a       *)
(* variable the analysis knows.                                               *)
Resolvable(w, known) == w.kind = "lit" \/ (w.kind = "var" /\ known[w.of] /= Unknown)
Resolve(w, known) == IF w.kind = "lit" THEN w.of ELSE known[w.of]

(* known without the names another environment disagrees about.               *)
Agreed(known, other) == [x \in Vars |-> IF other[x] = known[x] THEN known[x] ELSE Unknown]

MayFork(r) == r.forks > 0 /\ Cardinality({x \in Vars : r.known[x] /= Unknown}) <= MaxEnv
Fork(r) == IF MayFork(r) THEN [r EXCEPT !.forks = @ - 1] ELSE GiveUp(r)

Assign(r, x, w) ==
    IF Resolvable(w, r.known) THEN [r EXCEPT !.known[x] = Resolve(w, r.known)] ELSE GiveUp(r)

(* The assignments in front of a command apply to a clone; the command word   *)
(* is resolved in the clone and the clone dropped. The shell takes the word's *)
(* value from before them: X=v $X is missed.                                  *)
Call(r, s) ==
    LET set == [i \in DOMAIN s.pre |-> [a \in State |-> Assign(a, s.pre[i].x, s.pre[i].w)]]
        own == After(IF s.pre = <<>> THEN r ELSE Fork(r), set, Len(s.pre))
        done == [own EXCEPT !.words = @ \cup {Resolve(s.w, own.known)}, !.known = r.known]
    IN  Then(own, IF Resolvable(s.w, own.known)
                  THEN Blind(done, s.w.kind = "var" /\ own.known[s.w.of] /= r.known[s.w.of])
                  ELSE GiveUp(own))

(* A stage of a pipeline that is one plain command, and its command word.     *)
IsCommand(list) == Len(list) = 1 /\ list[1].op = "call"
StageWord(list, known) ==
    IF IsCommand(list) /\ Resolvable(list[1].w, known) THEN Resolve(list[1].w, known) ELSE Unknown

FetcherPipeline(r, s) ==
    [r EXCEPT !.found = @ \/ \E i \in 2..Len(s.stages) : /\ StageWord(s.stages[1], r.known) \in Fetchers
                                                         /\ StageWord(s.stages[i], r.known) \in Interpreters]

(* In what follows, sub[list][r] is what the statements of a list within a    *)
(* construct make of r.                                                       *)

MayNotExecuteShared(list, r, sub) == LET own == Fork(r) IN Then(own, sub[list][own])

(* A body that may not run: resolved in a clone, and every name the clone     *)
(* disagrees about is forgotten.                                              *)
MayNotExecute(list, r, sub) ==
    LET own == Fork(r)
        child == Then(own, sub[list][own])
    IN  Then(child, [child EXCEPT !.known = Agreed(r.known, child.known)])

LoopBodyOnce(body, r, sub) == MayNotExecute(body, r, sub)

(* A loop's body, resolved again from its own result.                         *)
Rounds(body, r, sub) ==
    Through(r, [i \in 1..MaxPasses |-> [a \in State |-> LET own == Fork(a) IN Then(own, sub[body][own])]], MaxPasses)
Stable(at, i) == at[i].ok /\ at[i].known = at[i - 1].known
Passes(at) == {i \in 0..MaxPasses : \A k \in 1..(i - 1) : ~Stable(at, k)}

(* That is done until nothing changes, and every name that changed in some    *)
(* pass is forgotten.                                                         *)
LoopBody(body, r, sub) ==
    LET at == Rounds(body, r, sub)
        last == CHOOSE i \in Passes(at) \ {0} : Stable(at, i)
        Kept(x) == \A k \in 0..last : at[k].known[x] = r.known[x]
    IN  IF \E i \in 1..MaxPasses : Stable(at, i)
        THEN [at[last] EXCEPT !.known = [x \in Vars |-> IF Kept(x) THEN r.known[x] ELSE Unknown]]
        ELSE GiveUp(r)

(* for x in items. Each round of the shell gives x one of the items, of which *)
(* the analysis hears nothing: missed if it knows an x.                       *)
ForClause(s, r, sub) ==
    LET at == Rounds(s.body, r, sub)
    IN  Blind(LoopBody(s.body, r, sub), \E i \in Passes(at) : at[i].known[s.x] /= Unknown)

(* The links of if / elif / else. Only the first condition always runs.       *)
IfClause(s, r, sub) ==
    LET link == [i \in DOMAIN s.links |-> [a \in State |->
                   LET l == s.links[i]
                       cond == IF i = 1 THEN sub[l.cond][a] ELSE MayNotExecute(l.cond, a, sub)
                   IN  Then(cond, MayNotExecute(l.body, cond, sub))]]
    IN  After(r, link, Len(s.links))

(* The condition is resolved once. Missed is one that comes to something else *)
(* after a round of the body.                                                 *)
Foreseen(c, b, a) == /\ c.ok /\ ~c.blind /\ c.known = b.known
                     /\ c.words \subseteq a.words /\ (c.found => a.found)
WhileClause(s, r, sub) ==
    LET cond == sub[s.cond][r]
        at == Rounds(s.body, cond, sub)
        a == LoopBody(s.body, cond, sub)
        Again(i) == sub[s.cond][[at[i] EXCEPT !.forks = r.forks]]
    IN  Then(cond, Blind(a, \E i \in Passes(at) \ {0} : ~Foreseen(Again(i), at[i], a)))
CaseClause(s, r, sub) ==
    LET item == [i \in DOMAIN s.items |-> [a \in State |-> MayNotExecute(s.items[i], a, sub)]]
    IN  After(r, item, Len(s.items))
Scoped(list, r, sub) ==
    LET own == Fork(r)
        child == Then(own, sub[list][own])
    IN  Then(child, [child EXCEPT !.known = r.known])

(* Both sides of && and || count as run, and every stage of a pipe as run in  *)
(* the shell itself: missed if a name's value is changed there that the shell *)
(* may leave as it was.                                                       *)
AndOr(s, r, sub) ==
    LET left == sub[s.left][r]
        right == sub[s.right][left]
    IN  Then(left, Blind(right, right.known /= left.known))
Pipeline(s, r, sub) ==
    LET stage == [i \in DOMAIN s.stages |-> [a \in State |->
                    LET b == sub[s.stages[i]][a] IN Blind(b, b.known /= a.known)]]
    IN  After(FetcherPipeline(r, s), stage, Len(s.stages))

Statement(s, r, sub) ==
    CASE s.op = "assign"   -> Assign(r, s.x, s.w)
      [] s.op = "append"   -> GiveUp(r)
      [] s.op = "call"     -> Call(r, s)
      [] s.op = "andor"    -> AndOr(s, r, sub)
      [] s.op = "pipe"     -> Pipeline(s, r, sub)
      [] s.op = "if"       -> IfClause(s, r, sub)
      [] s.op = "while"    -> WhileClause(s, r, sub)
      [] s.op = "for"      -> ForClause(s, r, sub)
      [] s.op = "case"     -> CaseClause(s, r, sub)
      [] s.op = "block"    -> sub[s.body][r]
      [] s.op = "subshell" -> Scoped(s.body, r, sub)

Statements(list, r, sub) ==
    LET one == [i \in DOMAIN list |-> [a \in State |-> Statement(list[i], a, sub)]]
    IN  After(r, one, Len(list))

(* What lists of statements with constructs at most n deep make of a state.   *)
Resolver[n \in 0..MaxDepth] ==
    [list \in Seq(Syntax[n]) |-> [r \in State |->
        Statements(list, r, IF n = 0 THEN <<>> ELSE Resolver[n - 1])]]

Analysis(list) == Resolver[MaxDepth][list][Fresh]

(* -------------------------------- the shell -------------------------------- *)

Value(w) == IF w.kind = "lit" THEN {w.of} ELSE IF w.kind = "var" THEN {env[w.of]} ELSE Literals \cup {Unknown}

(* The shell takes the first frame and puts new ones in its place.            *)
Continue(frames) == todo' = frames \o Tail(todo)
At(op) == todo /= <<>> /\ Head(todo).op = op
Top == Head(todo)

Init == /\ program \in Programs
        /\ todo = program
        /\ verdict = Analysis(program)
        /\ env \in Inherited
        /\ started = {}
        /\ piped = FALSE

DoAssign == /\ At("assign")
            /\ \E c \in Value(Top.w) : env' = [env EXCEPT ![Top.x] = c]
            /\ Continue(<<>>)
            /\ UNCHANGED <<program, verdict, started, piped>>

DoAppend == /\ At("append")
            /\ \E c \in Literals : env' = [env EXCEPT ![Top.x] = c]
            /\ Continue(<<>>)
            /\ UNCHANGED <<program, verdict, started, piped>>

(* An empty command word starts nothing. (The assignments in front of it then *)
(* stay, but the analysis has given up on a word that may be empty.)          *)
DoCall == /\ At("call")
          /\ \E c \in Value(Top.w) : started' = started \cup ({c} \ {Unknown})
          /\ Continue(<<>>)
          /\ UNCHANGED <<program, verdict, env, piped>>

(* a && b, a || b: the second list may be left out.                           *)
DoAndOr == /\ At("andor")
           /\ \E more \in BOOLEAN : Continue(Top.left \o (IF more THEN Top.right ELSE <<>>))
           /\ UNCHANGED <<program, verdict, env, started, piped>>

(* a | b | c: each stage in a process of its own.                             *)
Word(list) == IF IsCommand(list) THEN Value(list[1].w) ELSE {}
DoPipe == /\ At("pipe")
          /\ Continue([i \in DOMAIN Top.stages |-> [op |-> "subshell", body |-> Top.stages[i]]])
          /\ piped' = (piped \/ \E i \in 2..Len(Top.stages) : /\ Word(Top.stages[1]) \cap Fetchers /= {}
                                                             /\ Word(Top.stages[i]) \cap Interpreters /= {})
          /\ UNCHANGED <<program, verdict, env, started>>

DoIf == /\ At("if")
        /\ Continue(IF Top.links = <<>> THEN <<>>
                    ELSE Head(Top.links).cond \o <<[op |-> "test", links |-> Top.links]>>)
        /\ UNCHANGED <<program, verdict, env, started, piped>>

(* The condition's outcome; else, whose condition is empty, is always taken.  *)
DoTest == /\ At("test")
          /\ \/ Continue(Head(Top.links).body)
             \/ /\ Head(Top.links).cond /= <<>>
                /\ Continue(<<[op |-> "if", links |-> Tail(Top.links)]>>)
          /\ UNCHANGED <<program, verdict, env, started, piped>>

DoWhile == /\ At("while")
           /\ Continue(Top.cond \o <<[op |-> "again", loop |-> Top]>>)
           /\ UNCHANGED <<program, verdict, env, started, piped>>

DoAgain == /\ At("again")
           /\ \/ Continue(<<>>)
              \/ Continue(Append(Top.loop.body, Top.loop))
           /\ UNCHANGED <<program, verdict, env, started, piped>>

(* Over, or another round, with some value for the iteration variable.        *)
DoFor == /\ At("for")
         /\ \/ Continue(<<>>) /\ UNCHANGED env
            \/ /\ \E c \in Literals \cup {Unknown} : env' = [env EXCEPT ![Top.x] = c]
               /\ Continue(Append(Top.body, Top))
         /\ UNCHANGED <<program, verdict, started, piped>>

DoCase == /\ At("case")
          /\ \E list \in ToSet(Top.items) \cup {<<>>} : Continue(list)
          /\ UNCHANGED <<program, verdict, env, started, piped>>

DoBlock == /\ At("block")
           /\ Continue(Top.body)
           /\ UNCHANGED <<program, verdict, env, started, piped>>

(* A subshell's assignments end with it.                                      *)
DoSubshell == /\ At("subshell")
              /\ Continue(Append(Top.body, [op |-> "leave", env |-> env]))
              /\ UNCHANGED <<program, verdict, env, started, piped>>

DoLeave == /\ At("leave")
           /\ env' = Top.env
           /\ Continue(<<>>)
           /\ UNCHANGED <<program, verdict, started, piped>>

Done == todo = <<>> /\ UNCHANGED vars

Next == \/ DoAssign \/ DoAppend \/ DoCall \/ DoAndOr \/ DoPipe \/ DoIf \/ DoTest \/ DoWhile
        \/ DoAgain \/ DoFor \/ DoCase \/ DoBlock \/ DoSubshell \/ DoLeave \/ Done

Spec == Init /\ [][Next]_vars

(* -------------------------------- properties ------------------------------- *)

(* A run never starts a command whose word is missing from the resolved text, *)
(* on which the signatures are matched, unless the analysis gave up; and it   *)
(* pipes a fetcher into an interpreter only if that was found. This is what   *)
(* the fixpoint over a loop's body, the forgetting after a body that may not  *)
(* run and the limits on passes and clones are for. The exceptions, where the *)
(* code is mistaken, are those of "blind": a for over a name it knows         *)
(* (effect_bash.go:826-828, against :223-232), a known name changed behind && *)
(* or || or in a pipe (:398-410), X=v $X (:915-957), and a condition of while *)
(* that comes to something else in a later round (:802-806).                  *)
CoversRuns ==
    verdict.ok /\ ~verdict.blind => started \subseteq verdict.words /\ (piped => verdict.found)

(* What the analysis still believes of a variable at the end of the program   *)
(* is true of every run of it, however often its loops went round and         *)
(* whichever branches were taken; with the exceptions of CoversRuns.          *)
BeliefsTrue ==
    todo = <<>> /\ verdict.ok /\ ~verdict.blind =>
        \A x \in Vars : verdict.known[x] \in {Unknown, env[x]}
=============================================================================
