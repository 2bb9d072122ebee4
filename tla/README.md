# A TLA+ model of cli-comrade

`comrade` turns a request in natural language into a plan of shell commands,
judges each command, asks for consent, runs the plan, corrects failing steps
with the help of a language model, keeps an audit log of what ran, and can undo
a run later. The modules in this directory model the parts of it in which
order, concurrency, failure and state matter, and the readers of text on which
a wrong answer would cost most. TLC checks them on small instances. TLAPS proves
for every instance the safety of the plan runner and its refinement of an abstract
promise; the safety of the executor, of planning and review and of the LLM
client; what the audit log can lose, its order, what an undo reverses, and that the
tables of inverses give back what a run found; that the analysis of shell programs
misses nothing but in four named cases; of the commands side by side on one user's files,
that settings, keys and the lines of startup files come out as they were meant, that
doctor's reports are true and its remedies help, that an upgrade never loses the
program, that `fix` asks first and that a chat is one conversation; that every key
of the two screens does what the screen says of it; and that what is extracted from
a model's answer is the object it wrote. `PROJECT.json` maps each definition to the
lines it models.

Contents

1. The system: components, state, interactions, what is hard
2. Modules, and how they correspond to the code
3. Runs: what is checked, with which bounds and which fairness
4. Proofs
5. Findings, and disagreements that no run shows
6. What is not modelled
7. Plan

---------------------------------------------------------------------------

## 1. The system

### Components

| Component (source) | State | Operations | What makes it correct |
|---|---|---|---|
| Plan runner (`engine/runner.go`) | the plan with its verdicts, position in it, `autoApproveRemaining`, `correctionsUsed`, results | `Execute` in info, ask and auto mode; the confirm prompt; self-correction | nothing on the denylist starts; what starts has the consent it needs; corrections share one budget; cancellation is obeyed; log and summary tell what ran |
| Safety verdict (`safety/engine.go`, `risk.go`) | none | `Evaluate(command, declared risk)` | a denylisted command is blocked whatever its label; rules only raise a risk |
| Shell analysis (`safety/effect_bash.go`) | abstract environment of variables | an abstract interpretation of assignments, branches, loops | never less severe than what the shell would do (it is not so in four cases, section 5) |
| Executor (`executor/`) | a child process, its group, its output pipe, a timer | `Run` | exit code, flags and captured tail say what happened; a stopped command is dead |
| Audit log (`audit/audit.go`) | one JSONL file per user, shared by all processes | `Append`, `ReadAll`, `ApplyRetention` | entries stay in order; an acknowledged entry is there until it expires |
| Undo (`cli/undo*.go`, `undo/heuristics.go`) | none but the log | choose a run, derive the inverse plan, execute it | newest step first, nothing left out in between that could be undone; no run offered again once its undo is on record; an inverse undoes what the run did and nothing else |
| Planner, diagnoser, undo planner (`engine/planner.go`, `diagnose.go`, `undo.go`) | none | request a plan, re-prompt, consolidate, truncate, convert, evaluate | every step has the engine's verdict; nothing is cut silently |
| Prompt and review screens (`tui/`, `cli/planreview.go`) | rows, cursor, input line; index of each row's original step | a key at a time; re-evaluation over several passes | what runs is what was on the screen when it was approved; a key does what its legend says |
| LLM client (`llm/client.go`) | chain of providers, context with deadline, two goroutines and a timer per stream | `Complete`, `Stream` | first answer in chain order; a stream ends with an honest verdict; nothing keeps running |
| LLM connectors (`llm/anthropic.go`, `openai_compat.go`, `google.go`, `ollama.go`, `parse.go`) | an HTTP response | translate a request, an answer, a stream of events; find the object in an answer | errors classified alike by all four; the object is the model's, whole |
| Fix (`cli/fix.go`, `engine/verify.go`, `context/lastcommand.go`) | the last-command record, shared by all terminals | collect, re-run, paste, diagnose, execute, verify | what it runs by itself has its consent |
| Chat (`cli/chat*.go`) | history, running turn, a goroutine beside the screen | `Update`, `dispatch`, `/do`, `/clear`, `/save` | one conversation in order, whatever fails; Ctrl-C stops what runs |
| Configuration (`config/`, `cli/config*.go`) | `config.toml`: settings and profiles | load in layers, validate, read-modify-write | no setting lost or invented; the source named is the source used |
| Credential store (`secrets/`, `cli/auth.go`) | keychain, a credentials file | get, set, delete, status; login, logout | no key lost, a rejected key not stored |
| Self-update and its notice (`update/`, `cli/upgrade.go`, `updatenotice.go`) | the executable and `.old`, a state file | fetch, verify, replace; a weekly check | nothing unverified is installed; a crash leaves a program that starts |
| Shell integration (`shellinit/`, `cli/init.go`, `hook.go`) | startup files, the last-command record | insert, upgrade and remove a marked block; write the record | the user's lines stay |
| Doctor (`doctor/`) | none | checks in goroutines over what the others keep | what it reports is so; its remedies help |
| Redactor, explain, history, usage, i18n, command tree | none that survives a call | text and rendering | covered by table tests |

### How they interact

```
 request --> Planner / Diagnose / DeriveUndo --(Complete)--> LLM client --> provider
                    |  plan with verdicts (Safety.Evaluate)
                    v
              plan review screen  <-> re-evaluation of edited rows
                    |  approved plan
                    v
 Ctrl-C --> Execute (runner) --> prompt --> Executor.Run --> shell, helpers
                    |    ^                        | exit, tail, flags
                    |    +---- self-correction <--+   (Complete again)
                    v
              audit log  <-- other comrade processes (append, retention)
                    |
                    v
              undo: select run --> inverse plan --> Execute
```

The calls are synchronous within one process, except that: `Executor.Run` waits
in a `select` for a goroutine in `cmd.Wait`, a timer and Ctrl-C; a streamed
reply runs a connector goroutine and a forwarder goroutine; chat runs a turn in
a goroutine beside its screen; doctor runs its checks in goroutines. Separate
`comrade` processes share the audit log, the credentials, the configuration, the
startup files, the last-command record, the update state and the executable
itself. None of these files is locked.

### What is hard

`PROJECT.json` lists the hazards at their lines. In short:

* **consent over a long exchange**: edits, explanations, a "yes to all", a
  reviewed plan, a corrected command; the command started must be the one the
  consent was given for;
* **cancellation** between any two steps of the above, and while a command runs
  or a prompt is open;
* **a process tree** that outlives its shell or holds its pipe;
* **unlocked files**: an append against another process's rewrite; torn lines;
* **selection from a log** that other processes change at the time;
* **index arithmetic** over review passes that move, skip and delete rows;
* **races among channels**: a closed channel, a fired timer and a finished
  context that become ready together;
* **files rewritten in place**, by processes that may be killed, and the
  executable replaced while others run from it;
* **text read by rule**: a shell program judged without running it, a command
  inverted from its words, an object looked for among braces and fences.

---------------------------------------------------------------------------

## 2. Modules

| Module | Models | Uses |
|---|---|---|
| `Lists` | what the modules take out of a sequence, put together, leave out, by recursive functions | |
| `ListsProofs` | lemmas about `Lists` | `Lists`, TLAPS |
| `Safety` | `safety.Engine.Evaluate` | |
| `Runner` | `engine.Execute` | `Safety` |
| `ConsentGate` | *abstract*: what `Execute` promises the user | `Safety` |
| `RunnerGate` | the refinement mapping from `Runner` to `ConsentGate` | `Runner` |
| `RunnerProofs` | theorems about `Runner`, and that it implements `ConsentGate` | `RunnerGate`, TLAPS |
| `MCRunner` | the instance for TLC | `RunnerGate` |
| `Executor` | `executor.Run` with its processes and pipe | |
| `ExecutorProofs` | theorems about `Executor` | `Executor`, TLAPS |
| `AuditLog` | the log file shared by processes | `Lists` |
| `Undo` | processes that run, clean up and undo over the log | `AuditLog` |
| `UndoProofs` | theorems about `Undo` with `AuditLog`, and about `Reversal` | `Undo`, `Reversal`, `ListsProofs` |
| `MCUndo` | the instance for TLC | `Undo` |
| `Planning` | planner, diagnoser, undo planner, review | `Safety`, `Lists` |
| `PlanningProofs` | theorems about `Planning` | `Planning`, `ListsProofs` |
| `MCPlanning` | the instance for TLC | `Planning` |
| `LlmClient` | `Client.Complete`, `Client.Stream`, the four connectors' streams | |
| `LlmProofs` | theorems about `LlmClient` | `LlmClient`, TLAPS |
| `ShellEffect` | the shell analysis, against a shell | |
| `Reversal` | the undo heuristics, against a machine | `Lists` |
| `Prompts` | the confirm prompt and the review screen, key by key | |
| `Reply` | the object in a model's answer | |
| `TextsProofs` | theorems about `ShellEffect`, `Prompts` and `Reply` | `ShellEffect`, `Prompts`, `Reply`, `ListsProofs` |
| `MCTexts` | the instance for TLC of the four before it | `ShellEffect`, `Reversal`, `Prompts`, `Reply` |
| `Processes` | the comrade processes of one user | |
| `Config` | layers, profiles, sources and validation of `config.toml` | |
| `Stores` | the commands that change settings and keys | `Processes`, `Config` |
| `Updates` | upgrade, the weekly check | `Processes` |
| `RcFile` | `init`, `init --remove` | `Processes`, `Lists` |
| `Doctor` | doctor and `auth status` | `Stores`, `Updates`, `RcFile` |
| `Fix` | `fix` and the hook | `Processes`, `Safety` |
| `Chat` | `chat` | `Processes`, `Lists` |
| `Home` | the six families of commands side by side | `Doctor`, `Fix`, `Chat` |
| `HomeProofs` | theorems about `Home` | `Home`, `ListsProofs` |
| `MCHome` | the instance for TLC | `Home` |

Operators marked "mutant" are deliberately wrong variants of the definition
that follows them. No specification uses them. Putting one in the place of its
original must make TLC find the property named with it in `PROJECT.json`
violated, which shows that the property depends on that part of the code.

### Safety

The text of a command is a member of the set `Command`. Which commands the
denylist matches (`Denylisted`), what the escalation rules and the shell
analysis raise them to (`RuleRisk`, `EffectRisk`) are constants: the pattern
matching is covered by the repository's table tests, while what the rest of the
system does with a verdict is not. `Evaluate` combines them the way
`engine.go` does, and `ZeroDecision` is the Go zero value that an unevaluated
step carries. That value says "allow", which is why `Normalize` matters.

### Runner

One behaviour is one call of `Execute`. `pc` is the place in the code:

| `pc` | in `runner.go` |
|---|---|
| `normalize` | `normalizeStepDecisions` and the switch on the mode |
| `top` | the head of the ask or the auto loop: cancellation, then Block, then whether to prompt |
| `prompt`, `asking` | `resolveAskChoice`: before and while the prompt is on screen |
| `start` | `executeStepWithSelfCorrection`, about to call the executor |
| `running` | inside `Executor.Run` |
| `correct` | waiting for the model's correction |
| `done` | returned |

`opts` holds the mode and the fields of `RunDeps` that steer it. The user
(`Answer`, `Edit`, `Explain`, `PromptFails`), the command (`Succeeds`,
`Killed`, `FailsForGood`, `FailsOnce`), the model (`Correction`,
`CorrectionRefused`) and Ctrl-C (`Cancel`) choose freely. `started` and
`consent` are history variables: what was handed to the executor, and what the
user said yes to. `audit` is what the run appended to the log, where the log
may be off, sound, or failing at any write.

`ConsentGate` says the same in four actions: consent is granted for a step that
has not run, a step runs for the first time under sufficient consent, the step
that ran last is retried, the call returns. It knows no loops, prompts, edits
or phases. `RunnerGate` maps `Runner` to it and states `HonoursConsent`.

### Executor

`Run`, the goroutine in `cmd.Wait`, the goroutine of `os/exec` that copies the
pipe, the timer, Ctrl-C, the shell and its helper processes are interleaved. A
helper may leave the process group, may redirect its output, and may fork
again. `groups` distinguishes Unix (`Setpgid`, kill the group) from Windows
(kill the shell only). Stdout and stderr are one pipe and output is counted in
bytes. `captured` is the tail buffer. The live writer that shows output to
the user may fail, which ends the copying.

### AuditLog and Undo

`AuditLog` has the file as a sequence of lines, each of which parses or does
not, plus an `inode`: a rename replaces the file, and a process that had it open
writes to the one that is gone. `Append` is `Open` then `Write` (or
`WriteTorn`); `ApplyRetention` is `ReadForRetention` then `Rename` (or
`Abandon`). `Undo` gives these actions their schedule: each process is a run
(`do` or `fix`) or an undo; both clean the log first, because `buildAuditSink`
does. The target of an undo is chosen *before* that cleanup, as in `runUndo`.
`Execute` is a command that was executed, with its entry;
`Decline` the user's "no"; `PassBlocked` a step whose inverse the safety engine blocks,
because the user's denylist names it: nobody is asked and the run goes on with the
next one. A command that failed leaves its step to be tried again (phase `retry`) or
is where the run ends. `written`, `acked` and `exposed` record which entries were written, which were
acknowledged, and which of those were written in a window in which the code
cannot protect them; the latter makes precise what the log does and does not
guarantee.

### Planning

From the request to the plan `Execute` is given. `do` asks again after an empty
plan, asks for consolidation of an overlong one, and truncates what is still too
long. `fix` and `undo` take the first answer. `Convert` is `toPlan` with the
evaluation and the decision to show the review. The screen's keys act on any
row, which abstracts the cursor. `Approve` is `resolveReviewPass`: it either
hands over the plan or, when an edited row is now blocked, puts the screen up
again with new indices. The specification gives each step the position `from` it
had in the model's answer, and each row the step `of` it really came from; the code
has neither, it has only `origIdx`, and the properties compare the two.

### LlmClient

One call of `Complete` or `Stream` over a chain of cloud, ollama and keyless
attempts. The provider may hang, fail, refuse, or break a stream off. `con` and
`fwd` are the connector's and the forwarder's goroutines, each with the chunk it
holds. Channels are unbuffered, so handing a chunk over is one action of both
ends. The consumer may stop reading at any time. The contexts are the caller's,
the attempt's deadline and `releaseOnClose`'s cancel. The connectors differ in
what they make of an error event and of a body that ends without the model's
stop event; entries of the chain without a key, or with an address that is not
https, never reach their provider.

### ShellEffect

`Analysis` is `analyzeBashEffect` up to the signatures: it walks a program with
an environment of known variables, clones it for branches, runs a loop's body
to a fixpoint and gives up at the limits the code has (passes, clones, size of
the environment). The state machine of the module is the shell: it takes every
branch, goes round every loop any number of times, and remembers which command
words it started (`started`) and whether it fed a fetcher into an interpreter
(`piped`). Words are literals or one variable. The analysis is a function of
lists and states, `Resolver[n]` for constructs at most n deep, made of `Resolver[n - 1]`
by one operator per construct; the programs are those of `Syntax[MaxDepth]`.

Operands of `&&`, `||` and `|` and the conditions of loops are lists like any others;
a `for` has its variable, and words may be assigned in front of any command. The
analysis follows four things wrongly, and it keeps `blind` for them, which is not in the
code: a `for` over a name whose value it knows (`ForClause`), a name whose value is
changed among the operands of `&&`, `||` (`AndOr`) or the stages of a pipe
(`Pipeline`), a command word assigned in front of it (`Call`: `X=v $X`), and a
condition of `while` that comes to something else in a later round (`WhileClause`).
The verdict is computed as in the code in these cases too; what is excepted is only
what is said of it. Section 5 has an example of each.

### Reversal

A command is a sequence of tokens. `Derive` is the tables of `heuristics.go`;
`DeriveStep` is what `undo_plan.go` adds, the directory of the entry and the
outcome of the step. The machine has files, directories, packages and services
and executes both the commands of the run and the inverses, so that "undone" is
an equality of machines. The user may put a file anywhere in between.

`CommandsOf` and `StartOf` are what a platform's runs are made of and the machine
they begin on. A token is a nonempty sequence of `Names`: a word or a flag has one,
a path as many as its parts. A command the machine does not know, or with other
operands than it takes, fails. `plain` is a history variable: each command was a
single one, and if it succeeded it found nothing in its way (`NothingInTheWay`): what
it makes, installs or starts was not there before. `Unmeddled` is the machine without
the user's file, `Apart` says that this is neither where the run took a file from nor
in what it moved.

### Prompts

The two screens as their `Update` functions, one key per step: letters, arrows,
an edit with its input line, Ctrl-C and Esc, the end of the context. `View` is
the legend on the screen, from the catalogue of translations; the key map is in
`tui`. The property compares the two.

### Reply

`ExtractJSON` and `ValidateInto` over texts of symbols (braces, a quote, a
backslash, a fence, a line break, names, any others). `Scan` is `matchBrace`'s
state, in a string or not, escaped or not, after each symbol. `Render` is how a
model writes an object: it joins `Parts`, each one symbol or a string between
quotes. `IsObject` says what JSON promises of that (in a string every quote is
escaped and the end is not; the braces outside of strings close in each value),
`FencesWell` and `Outermost` what an answer is otherwise taken to be.

### Processes, Home

`cmd[p]` is what process `p` was asked to do, `pc[p]` where it stands; a command
is over at "done", or at "dead" if it was killed. `Home` has the commands of
`Stores`, `Updates`, `RcFile`, `Doctor`, `Fix` and `Chat` interleave freely: a
step of one family leaves the other families' files alone, except that a
doctor's steps read all of them.

### Config, Stores

A content of `config.toml` is a function on some of the keys, the active
profile's name, and a function for each profile. `Effective` puts the layers
together as `newEffectiveViper` does, and `Source` looks for the layer of one
key again, as `Loader.Source` does, which is separate code. A save is three
steps, read, truncate, write; a crash may fall between any of them. A login is
three saves, a ping and, when the key is rejected, three saves back. The
credentials file and the keychain go the same way. `meant` and `meantKeys` are
history variables: what the completed saves were to write, in the order they
completed. That is what the command asked for and not what it wrote (`Intended`): a
rejected login is to take back its own settings only, hence to leave each key as the
saves of all others left it (`without[p]`), and `--from-current` is to copy the
settings of the file. Where the code writes something else `strayed` is set; `overlap`
is set by saves that overlapped or were cut by a crash.

### Updates

The executable and the `.old` beside it are records of who wrote them, from what
archive, and whether they are whole. A process runs from the file it was started
from. On Windows such a file cannot be removed or overwritten, only renamed, and
a file being written cannot be touched: this is modelled from how the code relies
on it (`Running`, `BeingWritten` are marked external). `replaceWindowsBinary` is
five steps, `replaceUnixBinary` one (a rename). The weekly check is its read,
its fetch and its write. The read may come to nothing though there is a state
(`ReadState`), and the write may fail, unnoticed (`Record`); `told[p]` is the time
of the check process `p` did record, `setBack` that an older one was recorded over
a newer one.

### RcFile

A startup file is a sequence of lines, two of which are the markers. `init`
reads, asks, and writes back what it computed from what it read; the user's
editor may write meanwhile (`stale`). `kept` are the user's own lines.

### Doctor

Each check is one read of the state at its moment; checks come in any order.
`Resolve` is what a request would use for a key, against `KeyCheck` and
`StatusLabel`, which look for it again on their own. `RCPath` has the
platform's rules for the file of a shell.

### Fix

What the command does from `Collect` to the verification. `ran` is the history of
what `fix` ran outside the plan, and why; the review and `Execute` are one step,
being the subject of `Planning` and `Runner`. The hook of any terminal may
replace the record at any time. Ctrl-C ends the process before `NotifyContext`
is called, and cancels the context from then on.

### Chat

The screen takes lines while it is not waiting; each is carried out by a
goroutine, of which `turns` is the set; its outcome reaches the screen as a
message. `entered` and `fate` are the history of lines and what became of them,
from which `OneConversation` computes the context each question should have.

---------------------------------------------------------------------------

## 3. Runs

### Passing runs

| Run | Instance | States | Properties |
|---|---|---|---|
| `Runner` | 4 commands, one of each kind the verdict distinguishes; all plans of at most 2 steps from 5 kinds; 7 option sets; 1 correction | 942,494 | `TypeOK` `NeverDenied` `StartsAuthorised` `WithinBudget` `OneLateStart` `AuditComplete` `SummaryTruthful` `HonoursConsent` `CancelReturns` |
| `Executor` | shell + 2 helpers, 3 bytes of output, 2 captured | 67,704 | `TypeOK` `NoSurvivor` `ZeroIsSuccess` `TailComplete` `FlagsHonest` `Interruptible` |
| `Undo` | 2 processes, 2 earlier logs, 3 commands in all, at most 2 each, clock 0..2, 1 day of retention, 1 torn line | 3,564,159 | `LogOrdered` `LossExplained` `ReversesInOrder` `NeverOfferedAgain` |
| `Planning` | 4 commands, 5 answers of at most 3 steps, `max_auto_steps` 2, 5 ways of calling | 71,170 | `VerdictsTrue` `RunsWhatWasShown` `NothingCutSilently` |
| `LlmClient` | chains of at most 2 attempts of 6 kinds, 2 deltas | 1,267,668 | `FirstAnswerWins` `NothingLostSilently` `SilentOnlyWhenCut` `RequestEnds` |
| `Texts` | some 7,400 programs; all runs of 3 of 27 commands; 23,000 answers; plans of at most 3 rows | 1,513,171 | `CoversRuns` `BeliefsTrue` `UndoRestores` `ReplyTaken` `KeysDoAsShown` |
| `Home` | 2 or 3 processes, 34 combinations of commands with the files they meet | 1,227,454 | `FileAsMeant` `KeysAsMeant` `ReportsTrue` `RemediesCure` `NeverWithoutComrade` `AtMostWeekly` `UserLinesKept` `FixAsksFirst` `OneConversation` |

**Runner.** `NeverDenied`: no denylisted command reaches the executor, by plan,
edit or correction. `StartsAuthorised`: every planned or edited command was
approved itself, or is low-risk and covered by an earlier "all" or by auto mode,
or its class was waived. `WithinBudget`: the correction budget is shared by all
steps. `OneLateStart`: after a cancellation at most one command starts, the one
that had passed its check. `AuditComplete`: with a working log each attempt is
on record, in order, with no less than the risk its text deserves.
`SummaryTruthful`: what is reported skipped or blocked never ran.
`HonoursConsent`: refinement of `ConsentGate`. `CancelReturns`: a cancellation
ends the call.

*Bounds.* Two steps are needed for every property that relates a step to a later
one ("all" at one step and its use at the next; the budget shared by two). One
correction lets a correction run, fail, and find the budget spent. The four
commands are one per class the code distinguishes (allowed, elevated,
destructive, denylisted); two steps of the five kinds never met the engine.

**Executor.** `ZeroIsSuccess`: exit code 0 is the shell's own and no output was
lost. `FlagsHonest`: never both flags, and each for its cause. `NoSurvivor`: on
Unix, no member of the group survives a timeout or a cancellation. `TailComplete`:
the tail is exactly the last bytes. `Interruptible`: a timeout or a cancellation
ends `Run` unless a process out of reach holds the pipe. *Bounds.* Two helpers
give a helper that stays and one that escapes, and a helper of a helper; three
bytes against a limit of two make a write overrun the limit, in one piece or in
several.

**Undo.** `LogOrdered`: whatever processes do, the log is a subsequence of what
was written, in order, nothing twice. `LossExplained`: an acknowledged entry is
in the log until it expires, unless it was written during another process's
cleanup or behind a torn line. `ReversesInOrder`: an undo reverses successful
steps of its target, newest first, leaving out in between only what the user declined and what the
safety engine blocked. `NeverOfferedAgain`: an undo that picks its run itself does
not pick one an undo of which has recorded a command, however often the log is
cleaned, appended to or torn meanwhile. Excepted is a record written during another
process's cleanup or behind a torn line, which may be lost; and two undos that chose
before either recorded a command may have chosen the same run, since nothing
reserves it.
*Bounds.* Two processes suffice for each race (an append in a cleanup, two undos
of one run); processes are interchangeable, so the run uses symmetry, which is
sound here because all its properties are safety properties. The two earlier logs
have an entry older than run identifiers, and a run continued after a failed
undo of it. Deadlock is not checked: a process finishes by not being scheduled
any more, so the system may stop.

**Planning.** `VerdictsTrue`: each step handed to `Execute` has the engine's
verdict on its own command and declared risk. `RunsWhatWasShown`: the approved
plan is what the screen showed, with the rationale of the step each row came
from, and a step once shown as blocked is not in it. `NothingCutSilently`: the
limit holds for `do`, a cut is marked, and the model is asked a bounded number
of times. *Bounds.* Three rows are the fewest that moving, deleting and skipping
can permute into a wrong index map over two passes; the number of passes and of
keys is not bounded, as the state space is finite.

**LlmClient.** `FirstAnswerWins`: first answer in chain order, charged once; no
provider is contacted after a rejected key, or at all without a key or at an
unsafe address. `NothingLostSilently`: deltas in order, none missing before
another, and a verdict without an error means that everything the provider sent
arrived; excepted are bodies that end early but in good order, and the error
events only Anthropic's connector notices. `SilentOnlyWhenCut`: a stream without
a verdict was canceled or past its deadline. `RequestEnds`: the call returns and
both goroutines stop. *Bounds.* Two attempts give a first and a last one; two
deltas give one in the connector's hands while another is in the forwarder's.

**Texts.** Four families, of which one moves in a behaviour.

* `CoversRuns`: a shell that runs the program starts no command whose word is
  missing from the text the signatures are matched on, unless the analysis gave
  up or the program does one of the four things it follows wrongly (`blind`).
  `BeliefsTrue`: under the same condition, what the analysis believes of a variable
  at the end is true of every run. *Bounds.* Four variables, two literals; one
  construct (or two, one in the other) around a body of at most three statements,
  which is what a value needs to travel through a loop once more often than the 3
  passes the analysis follows; operands and conditions of one or two statements, also
  within loops; a `for` over each name the program uses; words assigned in front, also
  in a loop; limits of 6 clones and 3 variables, so that programs exceed them. Of the
  7,479 programs the analysis follows 2,069, is blind to something in 407, and gives
  up on the others.
* `UndoRestores`: after a plain run, an undo by the tables, started anywhere, gives
  the machine back as it was but for a file the user put there since; it fails only
  if there is one; it loses no other file, and the user's neither if it was put apart
  from what the run moved. *Bounds.* All runs of at most three of 17 commands on Unix
  and 10 on Windows, undone in the run's directory or in another, with a file of the
  user's put anywhere meanwhile, under a new name or one the run uses. Of runs that
  are not plain nothing is claimed: section 5 names one whose undo takes away a package
  that was there before, and one whose undo overwrites a file. Every entry has its
  directory; entries of an older comrade, which have none, are not in the model.
* `ReplyTaken`: the object taken from an answer is the one the model wrote, and
  it is found unless the prose opens another object or a fence is misused. Two
  cases of the latter are excepted: a line that holds more than the fence, and a
  fence that is never closed while a string holds one.
* `KeysDoAsShown`: whatever is pressed, a key does what the legend says of it, and
  nothing else. It has three parts: the answer is the one shown for the key, and
  Ctrl-C and the end of the context approve nothing (`AnswerAsShown`); a row goes
  only when it is the marked one and is removed, no row but a moved one changes
  its place, and the mark stays on a row (`PlacesAsShown`); only the marked row is
  skipped or edited, to what stands in the input line, and a blocked row's text
  never changes (`RowsAsShown`). Every sequence of keys is covered.

**Home.** The combinations are commands that share a file, each from several
initial files.

* `FileAsMeant`, `KeysAsMeant`: between writes the files hold exactly what the
  completed commands were to write, each by itself; so no save undoes what another
  command set. Excepted are saves that overlapped or were cut by a crash (no file is
  locked, and each is rewritten in place) and two things the code does against it
  (section 5): `--from-current`, and a rejected login, where the file's own values
  are not those the command had loaded. *Bounds.* 13 pairs of commands, started with no
  file, a partial one, or one with a profile, under a flag or a variable; keys in
  the keychain or in the file.
* `ReportsTrue`: the source named for a setting or a key is the one it comes from.
  `RemediesCure`: the command doctor advises makes the check pass. *Bounds.*
  Seven cases of doctor or `auth status` beside a command that changes what they
  read, among them an undecodable key, a garbled file and a missing executable.
* `NeverWithoutComrade`: whatever upgrades fail or are killed, a whole program is
  on disk, and with a key embedded it is the file that was released.
  `AtMostWeekly`: no background check that could read the state is made within the
  interval of one that was recorded; excepted is what follows an older check that was
  recorded over a newer one. A check that could not be recorded counts for nobody:
  with a state directory that cannot be written every command checks. *Bounds.* Three processes
  (two between whose steps a third acts), on Unix and on Windows; 3 releases; an
  interval of 2 within a clock of 4.
* `UserLinesKept`: startup files keep the user's lines and hold one block at most;
  excepted is a file written between a comrade's reading and its writing.
  *Bounds.* Two profiles or one, contents without, with one, with an old and with
  a torn block; one edit.
* `FixAsksFirst`: what `fix` runs by itself has the verdict or the yes it needs.
  *Bounds.* Five ways of calling it, one command per class, one record by a hook,
  one edit.
* `OneConversation`: every question is asked with exactly the exchanges before it
  as its context. *Bounds.* Four lines of any of nine first words, which give a
  failed turn between two good ones and a `/clear` or `/save` after them.

Deadlock is not checked in `Home`: processes end.

### Runs that find a disagreement

`RunnerFates`, `RunnerConfirm`, `ExecutorWaits`, `LlmOffline` and `LlmVerdict`
each check one statement of a document or a comment and find it violated: see
section 5.

### Fairness

* `Runner`: weak fairness of what `Execute` does of itself (`Proceed`), which
  includes the answer of the model because its request ends with its context
  (that is `RequestEnds` of `LlmClient`); and of the end of a command once the
  context is canceled, since the executor kills it. The latter is what
  `Interruptible` of `Executor` says, with the exception it names, a process out
  of reach that holds the pipe. Nothing is assumed of the user or of a command
  that was not canceled.
* `Executor`: the goroutines are scheduled (`Copy`, `Wait`, and the steps of
  `Run`). Nothing is assumed of the command, its helpers or the timer.
* `LlmClient`: the goroutines are scheduled, a call whose context is over
  returns, and the deadline elapses. Nothing is assumed of the provider, which
  may never connect or answer; of the consumer, which may never read again; or
  of the user.
* `Undo`, `Planning`, `Texts` and `Home` have safety properties only, and their
  specifications state no fairness.

---------------------------------------------------------------------------

## 4. Proofs

### The runner

Proved for every set of commands, denylist, rules, labels, plans of any length,
options and correction budget:

| Module | Theorem | States |
|---|---|---|
| `RunnerProofs` | `TypeCorrect` | `Spec => []TypeOK` |
| | `DenylistHolds` | `Spec => []NeverDenied` |
| | `ConsentHolds` | `Spec => []StartsAuthorised` |
| | `BudgetHolds` | `Spec => []WithinBudget` |
| | `Implements` | `Spec => HonoursConsent`, the refinement of `ConsentGate` |
| | `CancelStops` | `Spec => []OneLateStart` |
| | `LogHolds` | `Spec => []AuditComplete` |
| | `SummaryHolds` | `Spec => []SummaryTruthful` |

Assumptions: `SafetyAssumption` and `RunnerAssumption`, which say no more than
the types of the constants and that there is a command. TLC evaluates them in
the run `Runner`.

The argument. None of the safety properties is inductive: they speak of what
was started, and a step from `start` appends a command about which they say
nothing yet. Each has an invariant of its own, defined at the end of `Runner`:

* `VerdictInv`. After `Normalize` every step of the plan holds the engine's own
  verdict; the step at the prompt holds the verdict on its *present* text,
  judged against the risk the plan declared, so an edit can not inherit a
  verdict; an attempt is never denylisted. Both ways into `start`, a resolved
  step that is not blocked and a usable correction, establish the last part.
* `ConsentInv`, on top of it. `approveRemaining` can always be traced to a
  reviewed plan or to an "all" given at an earlier step, or at the step being
  run; and the attempt at hand is authorised before it is started. The latter
  is the place where ask mode and auto mode, an approval by name and a waiver
  meet.
* `BudgetInv`. One start for each step passed, plus the corrections spent, less
  one where a correction was spent whose start is still to come.
* `LateInv`. Once a command was started after the cancellation, the loop is in
  it, at its next check, or over: no place remains from which another start is
  reached without a check.
* `AuditInv`, with `VerdictInv`. The command that is running is the one that was
  started last, so that the entry written at its end is the entry for it; the
  risk recorded is the engine's because the attempt is judged.
* `SummaryInv`. While the loop is at step `i` no step from `i` on has a result,
  nothing later than `i` was started, and `i` itself was started exactly in the
  places after its launch. A result is given on leaving `i` only, where it
  agrees with that.

The refinement needs two more, defined in `RunnerGate`: `OrderInv`, that the
step the loop is at is later than each step that ran until it runs itself, so
that a launch is a *first* run of a new step or a retry of the last one; and
`RetryInv`, that each retry in `started` was paid for and one due is paid for
already, which bounds the retries by the budget. With these and the invariants
above each action of `Runner` is shown to be the named action of `ConsentGate`
or a stutter.

The proof that `Next` preserves an invariant has one step per action. Actions
that touch none of the variables an invariant speaks of are dealt with together
(`QuietStep`, `LateQuiet`, `AuditQuiet`, `SummaryMoves`, `Stutters`).

### The executor

`ExecutorProofs` proves, for any set of helpers, any amount of output and any
size of the tail buffer, on Unix and on Windows:

| Theorem | States |
|---|---|
| `TypeCorrect` | `Spec => []TypeOK` |
| `TailHolds` | `Spec => []TailComplete` |
| `ZeroHolds` | `Spec => []ZeroIsSuccess` |
| `GroupKilled` | `Spec => []NoSurvivor` |
| `FlagsHold` | `Spec => []FlagsHonest` |

Assumption: `ExecutorAssumption` (the shell is no helper, the buffer is not
empty, the bound on the output is a number), evaluated by TLC in the run
`Executor`. The invariants (`TailInv` is a conjunct of `TailComplete`, the others
are at the end of `Executor`):

* `TailInv`: what was copied so far has its last bytes in the buffer. It is
  kept because truncating after each piece leaves what truncating once would
  leave; that is the lemma `TailOfPieces`.
* `ReapInv`: once the exit code is in the channel the copying is over for good,
  since nobody who holds the pipe is left to write or to fork a process that
  does, or else the live writer failed, which the exit code then says. Hence a
  zero exit speaks of all the output.
* `KillInv`: from the kill on the group stays dead. What makes it stable is that
  only a live member of the group adds a member. It also ties each flag to the
  branch of the `select` that was taken.

All the invariants named here were first checked by TLC, on the instances of
section 3.

### Home

`HomeProofs` proves, for any number of processes with any commands, side by side:

| Theorem | States | Invariant |
|---|---|---|
| `FileIsAsMeant` | `HomeSpec => []FileAsMeant` | `StoresInv` |
| `KeysAreAsMeant` | `HomeSpec => []KeysAsMeant` | `StoresInv` |
| `ReportsAreTrue` | `HomeSpec => []ReportsTrue` | `ContentInv` |
| `RemediesDoCure` | `HomeSpec => []RemediesCure` | `ContentInv` |
| `ComradeStays` | `HomeSpec => []NeverWithoutComrade` | `UpdatesInv` |
| `WeeklyAtMost` | `HomeSpec => []AtMostWeekly` | `CheckInv` |
| `LinesAreKept` | `HomeSpec => []UserLinesKept` | `RcInv` |
| `FixAsks` | `HomeSpec => []FixAsksFirst` | `FixInv` |
| `ChatIsOne` | `HomeSpec => []OneConversation` | `ChatInv` |

`HomeSpec` is `Home`'s `Next` from `HomeBegin`, which says what is there at first: a
`config.toml` that is absent, empty, unreadable or has some settings and profiles;
a credentials file or none, and a keychain or none for each process; startup files
of any lines with at most one beginning of a block; an executable an installer put
down; commands of the forms the command line has. It does not bound lines,
settings, releases or the clock. `HomeBegin` holds in each of the 124 initial
states of the run `Home`, so the theorems cover that run. Assumptions, evaluated in
it: `SafetyAssumption`, `ConfigAssumption`, `StoresAssumption`, `UpdatesAssumption`,
`DoctorAssumption`. They give constants their types; beyond that they say that
no process is called "setup", "nobody" or "none", and no provider "no"; that a
provider with a key is not one of those without, nor nameless, and no variable
that holds its key is called "keychain" or "file"; and that provider, model and
URL are among the settings.

The commands are proved apart and lifted to the whole. Each family of commands has
a lemma that its steps move at most the process that takes them (`Moves`), and each
invariant has one for the steps of the families it does not speak of
(`Elsewhere`: they leave its variables alone and do not move its processes).
What is left is one lemma for each step of the family itself.

* `StoresInv`. Unless saves overlapped there is one writer (`OneWriter`); unless
  one strayed, what it has in memory is what its save was to write, applied to what
  all completed saves were to write (`ConfigKept`; `KeysKept` for keys). That it holds
  when the file is *read* is why a read-modify-write invents nothing; that it holds
  between truncating and writing, why the write ends right. A writer whose save
  differs from `Intended` is let go (`Strays`) and sets `strayed` when it writes.
* `ContentInv`. Whatever overlaps or is cut, the file is absent, empty, unreadable
  or a content, and so is every draft. Then the layer `Source` or `KeyCheck` names
  is compared with the one `Effective` or `Resolve` uses, which is separate code,
  case by case; and a remedy with the check it answers.
* `UpdatesInv`. The property does not say why the `.old` of a process between its two
  renames is not removed by another one; three facts do. `WrittenOnce`: only
  the executable being filled has a writer that lives. `OnePlacing`: on Windows the
  file of a process that lives can be neither removed nor overwritten, so each
  such process runs from the executable or from `.old`. A process that renames must
  have been started from the executable; while it is between its renames its own
  file is `.old`, and all others that live run from that file too. None of them can
  remove it, and none can rename over it, so that one process at most is there.
  `NeverLost`: if the executable is not whole, some process is there or was killed
  there; and `.old` is whole. `OnlyOwn` adds that with a key embedded nothing but the
  released archive is extracted or put in place.
* `CheckInv`. Unless an older check was recorded over a newer one, no check that was
  recorded is later than the one on record (`OnRecord`), so who reads the state and
  finds it due is within the interval of none. It needs no assumption on who checks
  beside whom. A doctor never gets to a label of `login` that would be counted
  (`DoctorGoes`).
* `RcInv`. What a process has still to write keeps the user's lines and has at most
  one block, as what is there does (`HoldsKept`), because it was computed from what
  is there and no one wrote since, or the file is `stale`. The work is in the lemmas
  on sequences: inserting, upgrading and removing a block leave `Own` as it was.
* `FixInv`. Beside the property: where in the command each kind of run may happen
  (`InOrder`: no verification before `Execute` returned, none after an abort, in a
  dry run or in info mode) and who waits for a command that is running
  (`Watched`). The step that matters is `OneRuns`, that a command is started only
  under a verdict or a yes for its own text.
* `ChatInv`. One line at a time is carried out, the last one entered (`OneTurn`); so
  the history is that of the lines before it, whatever became of them
  (`HistoryOf`), and a command of `/do` runs under its line or was stopped
  (`UnderDo`).

### The screens

`TextsProofs` proves `KeysHold`, `PromptsSpec => KeysDoAsShown`, for plans of any
length, both languages, any typing and any sequence of keys. Assumption:
`PromptsAssumption`, that a plan is a sequence of steps each blocked or not. The
property is one of steps and needs `PromptsInv`: each row is there once and one is
marked while there are rows (`RowsInv`); in the review an edit is of a row that may
be edited (`EditInv`), which is why Enter, which does not look again whether the
row is blocked, changes no blocked one. `ConfirmSays` and `ReviewSays` compare the
key maps with the legends, letter by letter. `Swapped` and `Removed` say what
moving and removing a row do to the others, and that no row but the moved one
changes its place with another.

### The shell analysis

`TextsProofs` also proves, for all programs of `Syntax[MaxDepth]` (any `MaxDepth`,
lists of any length, any variables, words and limits):

| Theorem | States |
|---|---|
| `RunsCovered` | `Spec => []CoversRuns` |
| `BeliefsHold` | `Spec => []BeliefsTrue` |

Assumption: `ShellAssumption`, evaluated by TLC in the run `Texts`, which gives the
constants their types and says that the programs are made of the statements of
`Syntax`, with any lists as operands, conditions and bodies. No program is left out
for what it does: where the analysis is wrong the property says so, by `blind`, and
`blind` is set by the statement that is followed wrongly and stays set.

An invariant of the machine must speak of all that the shell has still to do, and a
stack of frames has no analysis of its own. `ShellInv` therefore says of the *future*
that it is foreseen: `Within(c, T, v)`, where c is the environment and the stack, says
that there is a set of configurations that holds c, that no step leaves but to T,
and each of whose steps shows nothing that is not in the verdict v (`Covered`). A set
closed under steps is enough for loops that go round for ever, where counting
rounds would prove nothing. `Within` passes over a step (`WithinStep`) and goes on
from where it ended (`WithinTrans`), so a list is right as soon as its parts are:
`Correct(list, before, after, v)` says that from every environment `before` is true of,
the list is covered and ends where `after` is true. There is one lemma for each
construct (`CorrectCall`, ..., `CorrectIf`). A loop is correct if its body leads
from some beliefs to beliefs no weaker (`CorrectLoop`). In a `for` the variable may
become anything at the head of each round, so those beliefs must not be about it
(`CorrectFor`); in a `while` the condition runs before each round, and must be correct
from what is believed after every round, not only before the first (`CorrectWhile`).
The stages of a pipe may each change what they like, in a process of their own
(`CorrectPipe`).

The other half is the analysis. `SoundFor` says that what it makes of a list is more
than it had and, if the verdict has all of it, `Correct`. One lemma for each
construct again; `SoundForLoop` is where the fixpoint is needed: a pass that changes
nothing is a loop invariant, and it is weaker than what was known before only in
variables that some pass changed, which the analysis forgets; `NextRound` says of one
pass what it is of the next. What is blind needs no more to be said of it
(`SoundBlind`). That the words found
on the way are kept in the verdict (`Grows`) is what lets one verdict cover all
passes. The induction is over the depth of constructs, by the sets of numbers of
`ListsProofs`.

### The audit log and undo

`UndoProofs` proves, for any number of processes, commands and torn lines, and any
earlier logs:

| Theorem | States |
|---|---|
| `LossHolds` | `Spec => []LossExplained` |
| `OfferedOnce` | `Spec => NeverOfferedAgain` |
| `OrderHolds` | `Spec => []LogOrdered` |
| `ReversalHolds` | `Spec => []ReversesInOrder` |

Assumptions: `AuditAssumption` and `OutcomeAssumption`, evaluated by TLC in the run
`Undo`; besides types the first says that no earlier process had the run identifier of a
present one, which in the code is random, and that an earlier log numbers the
entries of each run upward. Step numbers are the model's own: they are the order in
which a run appends, which the code has only in the order of lines. The parts of
`LogInv`:

* `NumberInv`: each entry the log, a cleanup or an acknowledgement holds is of a
  command its process has executed, and not the one it is about to append. So
  what is appended is new.
* `TornInv`: the entry of a line without a newline was never acknowledged, being
  new when it was written. The writer behind it, which makes of both one line
  that does not parse, spoils nothing that counts.
* `KeepInv`: what each cleanup in progress keeps, together with what has expired,
  includes all entries acknowledged and not exposed, hence its rename loses none.
  It lasts because an entry written during a cleanup is exposed.
* `LossInv` is `LossExplained` said of lines; `PhaseInv` says where cleanups are.

`OfferedOnce` follows from `LossInv` and the lemma `TargetFound`, that
`selectUndoTarget` finds a newest candidate whenever there is one; the maximum is
found by well-foundedness.

`OrderInv`: what `ReadAll` finds in the log, and what each cleanup in progress is about
to put in its place, are parts of `written` in its order. An append keeps that
since what it appends is new (`PendingUnwritten`) and comes last in both; a torn
line because what it was to hold stands in no line before it (`TornOnce`).

`StepsInv`: the entries of each run were written with rising numbers; the steps
an undo works from are part of the log in its order, hence climb; and the plan
made of them, with what is already reversed, falls and covers all that took effect
and was neither declined nor blocked, the former part being older than the latter. The commands of
a plan the LLM made are not tied to single steps (`Modelled`), as in the code, where
an undo's entries name the run it is of and no step of it.

What `ReadAll`, a cleanup and the selection take out of a sequence is a recursive
function (`Picked`). `ListsProofs` says what it returns (`PickedOf`, `PickedFollows`), how it
goes with appending and joining, and what leaving out one element does (`Without`).

### Planning and review

`PlanningProofs` proves, for responses of any length, any denylist and rules, any
cap, and any number of passes of the review with any editing in them:

| Theorem | States |
|---|---|
| `VerdictsHold` | `Spec => []VerdictsTrue` |
| `ReviewHolds` | `Spec => []RunsWhatWasShown` |
| `CutsHold` | `Spec => []NothingCutSilently` |

Assumptions: `SafetyAssumption` and `PlanningAssumption`, evaluated by TLC in the
run `Planning`. `PlanningInv` has five parts. `AnswerInv` and `RequestInv` relate
the answer, what is left of it, and the number of requests. `PlanInv`: a plan is
the answer step by step, with the engine's verdict on each. `ReviewInv`, from
which the main theorem follows: each row leads through `origIdx` and the index of
its pass to the step it came from; a row whose step was ever refused is marked
blocked, and the command of a row so marked blocks. An approval that is handed
over has no command that blocks among the rows not skipped, so it holds no
refused step.
This uses that a blocked row cannot be edited (`CanEdit`), which is what the
comment in `reviewPlan` gets wrong (section 5). `ApprovedInv` carries that to
the plan `Execute` is given.

What the review drops is a recursive function on the rows (`Unskipped`). That it
keeps order, indices and exactly the rows not skipped is proved by induction over
the rows. The library states induction with an operator as parameter, which no
prover here can instantiate, so `ListsProofs` derives what is needed for *sets* of
numbers (`Inductive`) from the well-foundedness of `<`.

### The LLM client

`LlmProofs` proves, for chains of any length and replies of any length:

| Theorem | States |
|---|---|
| `FirstWins` | `Spec => []FirstAnswerWins` |
| `NeverSilent` | `Spec => []SilentOnlyWhenCut` |
| `DeltasWhole` | `Spec => []NothingLostSilently` |

Assumption: `LlmAssumption`, evaluated by TLC in the run `LlmClient`. The
invariants:

* `ChainInv`: until the call returns every attempt failed without rejecting the
  key, none past the one at hand was reached, and nothing was charged.
* `VerdictInv`: the verdict is never lost. Once the connector closed its channel
  either the consumer has a verdict, or the forwarder holds or has given up on
  one, or the context is over.
* `DeltaInv`, on top of it: deltas are counted. What the connector has read is
  what the consumer got, plus at most one the forwarder holds and one the
  connector offers. A verdict without an error is in somebody's hands only if the
  body read to the end is the one the property describes.

### The tables of inverses

`UndoProofs` proves `UndoGivesBack`, `ReversalSpec => []UndoRestores`, where
`ReversalSpec` is one run, of any length and any commands on any machine, and its
undo from any directory. Assumption: `ReversalAssumption`, evaluated by TLC in the
run `Texts`: `-p` is a flag and the managers' verbs of removal are none; a command
has a word and no word is empty (the code takes them from `strings.Fields`); what is
above a path of the machine is a directory, and its services are those of packages
it has; no file on it is the user's later one.

* *Trees.* Paths are ordered by being a beginning of one another (`PrefixLine`,
  `FrontIs0`, `ParentIs`). `Made`, `Cut` and `Shifted` are what the commands do to a
  tree, and `Plus` puts the user's file on it. A move to where nothing is can be
  taken back with everything below it (`ShiftBack`), on a tree with the user's
  file as well: what was put below goes back with it (`Carried`).
* *Commands.* `IsUndoneBy` says of a command, and of the one that is to take it back,
  that the latter gives back the machine the former ran on, whatever files of the
  user's stand there, and cannot fail without one. It is shown for each rule of
  the tables (`MkdirUndone`, `MvUndone`, `NewItemUndone`, `PackageUndone`,
  `SystemctlUndone`), then for what `Derive` makes of a text (`DerivedTakes`): that is
  where the tables' refusals are used.
* *Runs.* `UndoInvariant`: while the run goes on and each of its commands has an
  inverse, there is a chain of machines its successful commands led through
  (`RunsTo`); while the undo goes on, there is one for the commands still to be taken
  back, ending at the present machine but for the user's file (`StillToRun`). An
  inverse shortens the chain by its last command (`TakesBack`, `WaitsNext`), and of
  an empty one only the beginning is left (`WaitsEnd`). The chain is why the invariant is
  stronger than the property: what the undo has still to find cannot be read off the
  machine.

The proof corrected the model in one place: the machine's guards of a move were
nested so that a condition on rights covered others too.

### The object in an answer

`TextsProofs` proves `ReplyIsTaken`, `ReplySpec => []ReplyTaken`, where `ReplySpec` is one
answer of `Replies` and its parse: for answers of any length, objects with any fields
nested to any depth, and strings that hold whatever a string may. Assumption:
`ReplyAssumption`, evaluated by TLC in the run `Texts` for its answers. It says
that the objects are written as JSON is (`IsObject`), that no two are written alike,
where the prose may hold a fence (`FencesWell`: none but the one in front of everything,
whose line is the first and does not divide the braces, and one behind the object
with no brace after it), and that no brace of the prose in front
begins a text that reaches into the object and is itself one of `Objects`
(`Outermost`). Strings may hold fences, braces, quotes and backslashes; the property
says which fences it excepts.

The argument follows the code:

* *The scan.* A string leaves the scan as it found it whatever it holds, by what
  `Escapes` says of each of its places; another part changes the depth by its brace
  (`PartScanned`). An object's values balance, so inside it the depth is above 0
  and at its last symbol it is 0 for the first time, however they nest (`PartsNest`,
  `JoinedSpans`).
* *The window.* `StripFence` leaves what the answer holds from one place to another
  (`StripIs`): everything but white space, or what stands between the fence's line
  and a later fence.
* *The match.* From the object's first brace `MatchBrace` finds its last one if the
  window reaches it and nothing if it does not (`MatchAt`). From an earlier brace
  the candidate is none of `Objects`, or another brace follows (`NoneBehind`);
  both are refused. So what is extracted is the object or nothing (`Extracted`), and the
  required fields are looked up in the object that was written (`Validated`).

### What is only model-checked

* Liveness under fairness (`CancelReturns`, `Interruptible`, `RequestEnds`), which this
  proof system does not reach.
* The findings of section 5, each a counterexample.

So every invariant the runs check is stated by a theorem, and so is every property
of steps.

---------------------------------------------------------------------------

## 5. Findings

| Run | What it shows |
|---|---|
| `RunnerFates` | `fillSkippedTail` fills from the step *after* the one the loop stopped at. When a cancellation is seen at the head of the loop or at the prompt, or the executor can not start the command, that step has no result, though the comment promises that the summary "always enumerates every step's fate". |
| `RunnerConfirm` | A self-correction whose command is destructive runs without a prompt, in ask and in auto mode; the README says that "any step classified `destructive` always requires confirmation". |
| `ExecutorWaits` | `Run` goes on blocking after the command's exit, or after a timeout or Ctrl-C, while a process outside the group holds the output pipe: `cmd.Wait` has no `WaitDelay`. The comment says that it blocks until the first of exit, cancellation, timeout. |
| `LlmOffline` | A deadline or a Ctrl-C while a reached provider prepares its answer is reported as `ErrOffline`, with the advice to check the network; `ErrOffline` is documented as a failure to reach the provider. |
| `LlmVerdict` | The idle timer runs on while the forwarder waits for the consumer, so that a consumer slow to take the final chunk may receive a second one; `Chunk` promises exactly one. |

Disagreements noticed while modelling that no run shows:

* A Ctrl-C *key* at the confirm prompt answers "no" (`tui/confirm.go`): the run
  goes on to the next step, whereas comments in `cli/planreview.go` take it for
  a cancellation.
* The commands that `fix` re-runs to capture an error and those of chat's `/do`
  (whose `RunDeps` have no audit sink) are not in the audit log, while the
  documentation speaks of every executed command.
* `fix`'s capturing re-run is not canceled by Ctrl-C.
* A comment of `reviewPlan` invites the user to edit a blocked row again;
  `canEditRow` refuses that. (`RunsWhatWasShown` depends on the refusal.)
* `Complete`'s comment says that the key is resolved at each call; `New`
  resolves it.
* A stream closed by a deadline or a cancellation may carry no final chunk, and
  a body that ends before the model's stop event counts as a whole reply.
* A command that ended with 0 at the moment of the timeout may be reported as
  timed out with exit code -1.
* `types.go` says that a nil error on the final chunk means that the stream
  completed. An error event in mid-stream is noticed by Anthropic's connector
  only, and a body that ends early in good order counts as whole with all four
  (the exceptions of `NothingLostSilently`).
* `cli/auth.go` says that a rejected login "must leave config exactly as it found
  it". It writes back the *effective* values it read before (lines 309 and
  following): where a variable or a profile overrides provider, model or address, the
  override ends up in the file; and a `config set` of one of the three that another
  terminal completed meanwhile is undone (`strayed` in `Stores`).
* `config profile add --from-current` copies the effective values (the `cfg` of
  `configprofile.go:284-295`), those of variables and of the active profile included.
  The comments above it and in `profile_ops.go:11-13` promise "the current file-level
  [llm]" values (`strayed` again). They are not validated either.
* Four things the shell analysis follows wrongly (`blind` in `ShellEffect`); a command
  word then resolves to a word other than the one the shell starts:
  - `R=echo; for R in rm; do $R f; done`. The comment of `analyzeBashEffect` (lines
    223 to 232) says that a `for` variable is "never silently resolved to a guessed
    item", being never added to the environment. `resolveForClause` (826 to 828) does
    not take it out either: a value the name had before stays, in the loop and
    behind it.
  - `R=rm; false && R=echo; $R f`. Both operands of `&&` and `||`, and all stages of a
    pipe, are resolved one after the other in the same environment (398 to 410), as if
    each always ran, and in the shell itself.
  - `R=rm; R=echo $R f`. The word is resolved after the assignments in front of it
    (915 to 957); the shell expands it before them.
  - `R=echo; while $R f; do R=rm; done`. The comment of `resolveWhileClause` speaks of
    the condition's first test only, and the condition is resolved once, before the
    body (802 to 806); that of the second round starts `rm`.
* "It gets throttled to once per CheckInterval", says `updatenotice.go` of a check
  without an answer. The failure of `WriteState` (line 93) is dropped, and a state
  that cannot be read counts as never checked: where the state directory cannot be
  written every command checks again (`Record`, `ReadState` in `Updates`).
* `heuristics.go` says that a shape it does not know is left to the model. A
  compound command whose first word and number of words fit a table
  (`apt install x && ...`) is recognised, and only its first part is inverted.
* `heuristics.go` leaves `cp` out of its tables because its target, "unlike every
  rule below", may have existed before. So may the packages of an `install`: apt and
  brew succeed when they are there already, and the undo then takes away what the user
  had before the run (each of its steps is confirmed, but the rule has no caveat).
* So may the target of a `mv`. `mv f d` with a directory `d` puts `f` into it, and
  its inverse in the tables, `mv d f`, moves the directory. After `mv d/f g` and
  `mv d e` with a file `e/f`, the undo moves `e` to `d` and then `g` over `d/f`, which
  is the file that was `e/f`.
* The undo plan skips a step that failed because it "never took effect"; of a
  compound command the first part may have.
* Paths like `C:foo` count as absolute on Windows, though they are not.
* `doctor` is described as read-only, yet it creates `config.toml` where there is
  none and writes the state of the update check.
* `comrade init`, the remedy doctor gives for a block without its end marker,
  refuses to touch it (an exception of `RemediesCure`); and setting the base URL
  does not help when a profile or a variable sets it.
* The answer of a confirm prompt has "yes" as its zero value (`chosen` in
  `tui/confirm.go`), and the screen library ends a prompt by itself on SIGTERM,
  without an answer; `Prompts` has no such signal.
* An upgrade may install an older release than another one has just put there,
  if a release was published between their fetches; nothing compares again.

---------------------------------------------------------------------------

## 6. What is not modelled

* **Text.** The wording of prompts, JSON shapes, SSE framing, redaction, and the
  denylist's and the escalation's patterns: functions of a string with table
  tests. Models take their answers as constants or choices. Modelled readers of
  text are those of `Texts`.
* **Rendering, translations, flag parsing, explain, history, usage**: no state
  survives a call and nothing is concurrent. The legends of the two screens are
  in `Prompts`.
* **Failures of best-effort calls** whose outcome the code drops; the editor that
  `config edit` starts; the generated text of the shell snippets.
* **Lines longer than the scanner's buffer** in the audit log, which make every
  later read fail: the model's lines have no length.
* **Other shell statements.** Commands sent to the background, functions, arithmetic
  commands, `[[ ]]`, `time`, `coproc` and what is inside a substitution are not in
  `ShellEffect`; nothing is claimed of programs that have them.
* **A crash of comrade between a command and its audit entry.** `Undo` has the
  crash in the append; `Runner` models one call that returns.
* **The audit log of chat and of fix's re-runs**, since there is none.
* **Installers, packaging and the site.**

---------------------------------------------------------------------------

## 7. Plan

Done: the runner with its abstract specification, the executor, audit log and
undo, planning and review, the LLM client; the readers of text; the commands that
share the user's files, in one composition; and the proofs of section 4.

Left, in this order:

1. `Session`: `do`, `fix` and `chat` around `ConsentGate` and an abstract
   executor, with a crash of comrade between a command and its audit entry.
2. A length of lines in `AuditLog`, so that an entry the reader cannot read is in
   the model.
3. The escalation rules as predicates on a tokenised command, supplying
   `RuleRisk` and, from `ShellEffect`, `EffectRisk`.
