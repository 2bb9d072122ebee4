----------------------------- MODULE LlmClient -----------------------------
(***************************************************************************)
(* internal/llm: New, and one request through Client.Complete or           *)
(* Client.Stream.  The chain of attempts (the primary provider and its     *)
(* fallbacks) is tried in order, each under its own deadline.  A stream    *)
(* that opened runs three goroutines: the connector's reader,              *)
(* releaseOnClose's forwarder with its idle timer, and the consumer; they  *)
(* meet on the unbuffered channels ch and out.  A chunk's text is its      *)
(* number in the provider's reply.                                         *)
(***************************************************************************)
EXTENDS Integers, Sequences, SequencesExt, FiniteSets

CONSTANTS
  MaxAttempts,  \* bound: entries of the chain
  MaxDeltas     \* bound: text deltas in a streamed reply

ASSUME LlmAssumption == MaxAttempts \in Nat \ {0} /\ MaxDeltas \in Nat

(* The entries New is given: one of the four connectors, a cloud provider  *)
(* whose key cannot be resolved, and what buildProvider refuses, a name it *)
(* does not know or a base URL that is not safe to send a key to.          *)
Cloud == {"anthropic", "openai_compat", "google"}
Kind == Cloud \cup {"ollama", "keyless", "unsafe"}
Outcome == {"ok", "auth", "overloaded", "offline", "parse", "keyMissing", "error"}

VARIABLES
  op,        \* the entry point called
  chain,     \* the entries, then c.attempts
  idleOn,    \* llm.idle_timeout_seconds > 0
  pc,        \* New; next attempt, request in flight, returned
  caller,    \* the caller's context is canceled
  deadline,  \* the attempt's own timeout elapsed
  released,  \* releaseOnClose's cancel ran
  outcomes,  \* how each attempt ended so far
  reached,   \* the attempts whose provider received the request
  usage,     \* the attempts reported to the usage observer
  result,    \* what the call returned
  body,      \* the streamed reply: deltas sent, the event after them, its end
  con,       \* the connector's goroutine
  nextDelta, \* deltas the connector has read
  fwd,       \* the forwarder's goroutine and the chunk it holds
  idle,      \* the idle timer
  got        \* the chunks the consumer received

call == <<op, chain, idleOn, pc, outcomes, reached, usage, result>>
contexts == <<caller, deadline, released>>
stream == <<body, con, nextDelta, fwd, idle, got>>
vars == <<call, contexts, stream>>

NoChunk == [delta |-> 0, done |-> FALSE, err |-> "none"]
Delta(n) == [delta |-> n, done |-> FALSE, err |-> "none"]
Final(err) == [delta |-> 0, done |-> TRUE, err |-> err]
NoResult == [by |-> 0, err |-> "none", hint |-> FALSE]

CtxDone == caller \/ deadline \/ released
At == Len(outcomes) + 1
Streaming == pc = "returned" /\ op = "stream" /\ result.by # 0
Connected == chain[result.by]  \* the connector of the open stream

Init ==
  /\ op \in {"complete", "stream"}
  /\ chain \in UNION {[1..n -> Kind] : n \in 1..MaxAttempts}
  /\ idleOn \in BOOLEAN
  /\ pc = "new"
  /\ caller = FALSE /\ deadline = FALSE /\ released = FALSE
  /\ outcomes = <<>> /\ reached = {} /\ usage = <<>>
  /\ result = NoResult
  /\ body = [sent |-> 0, last |-> "none", end |-> "open"]
  /\ con = [at |-> "off", chunk |-> NoChunk] /\ nextDelta = 0
  /\ fwd = [at |-> "off", chunk |-> NoChunk]
  /\ idle = "off"
  /\ got = <<>>

-----------------------------------------------------------------------------
(* New, and the chain.                                                     *)

(* One entry that cannot be built refuses the whole chain; an entry whose  *)
(* key is missing stays in it.                                             *)
Build ==
  /\ pc = "new"
  /\ IF \E i \in DOMAIN chain : chain[i] = "unsafe"
       THEN pc' = "returned" /\ result' = [NoResult EXCEPT !.err = "config"]
       ELSE pc' = "try" /\ UNCHANGED result
  /\ UNCHANGED <<op, chain, idleOn, outcomes, reached, usage, contexts, stream>>

HasOllama == \E i \in DOMAIN chain : chain[i] = "ollama"

FailOn(outcome) ==
  /\ outcomes' = Append(outcomes, outcome)
  /\ IF At = Len(chain)
       THEN /\ pc' = "returned"
            /\ result' = [by |-> 0, err |-> outcome,
                          hint |-> outcome = "offline" /\ ~HasOllama]
       ELSE pc' = "try" /\ UNCHANGED result
  /\ UNCHANGED <<op, chain, idleOn, usage, caller, released, stream>>

(* A rejected key ends the chain; any other failure passes to the next     *)
(* attempt, and the last one's is returned with, when it was offline and   *)
(* no attempt is ollama, the advice to add one.                            *)
Fail(outcome) ==
  /\ outcomes' = Append(outcomes, outcome)
  /\ IF outcome = "auth" \/ At = Len(chain)
       THEN /\ pc' = "returned"
            /\ result' = [by |-> 0, err |-> outcome,
                          hint |-> outcome = "offline" /\ ~HasOllama]
       ELSE pc' = "try" /\ UNCHANGED result
  /\ UNCHANGED <<op, chain, idleOn, usage, caller, released, stream>>

KeyMissing ==
  /\ pc = "try" /\ chain[At] = "keyless"
  /\ Fail("keyMissing")
  /\ UNCHANGED <<deadline, reached>>

(* context.WithTimeout: each attempt has a fresh deadline of its own.      *)
Attempt ==
  /\ pc = "try" /\ chain[At] # "keyless"
  /\ pc' = "waiting"
  /\ deadline' = FALSE
  /\ UNCHANGED <<op, chain, idleOn, outcomes, reached, usage, result,
                 caller, released, stream>>

Reach ==
  /\ pc = "waiting" /\ At \notin reached /\ ~CtxDone
  /\ reached' = reached \cup {At}
  /\ UNCHANGED <<op, chain, idleOn, pc, outcomes, usage, result, contexts, stream>>

(* An error of http.Client.Do is a *url.Error whatever its cause, which a  *)
(* cloud connector reports as ErrOffline and ollama as a plain error.      *)
Unreachability == IF chain[At] \in Cloud THEN "offline" ELSE "error"

ConnectFails ==
  /\ pc = "waiting" /\ At \notin reached
  /\ Fail(Unreachability)
  /\ UNCHANGED <<deadline, reached>>

(* The context ends while Do waits for the headers, or (Complete) while    *)
(* the body is read.                                                       *)
ContextEnds ==
  /\ pc = "waiting" /\ CtxDone
  /\ \/ Fail(Unreachability)
     \/ op = "complete" /\ At \in reached /\ Fail("error")
  /\ UNCHANGED <<deadline, reached>>

(* A status other than 200, by its class; "exhausted" is any with Google's *)
(* RESOURCE_EXHAUSTED in its body.                                         *)
Status == {"denied", "throttled", "serverError", "exhausted", "other"}
CloudStatusError(s) == CASE s = "denied" -> "auth"
                         [] s \in {"throttled", "serverError"} -> "overloaded"
                         [] OTHER -> "error"
GoogleStatusError(s) == IF s = "exhausted" THEN "overloaded" ELSE CloudStatusError(s)
OllamaStatusError(s) == IF s \in {"throttled", "serverError"} THEN "overloaded" ELSE "error"
StatusError(s) == CASE chain[At] = "ollama" -> OllamaStatusError(s)
                    [] chain[At] = "google" -> GoogleStatusError(s)
                    [] OTHER -> CloudStatusError(s)

StatusRefused ==
  /\ pc = "waiting" /\ At \in reached
  /\ \E s \in Status : Fail(StatusError(s))
  /\ UNCHANGED <<deadline, reached>>

(* A reply that cannot be read or decoded, or has no text in it; and text  *)
(* that is not the JSON object the request asked for.                      *)
Undecodable ==
  /\ pc = "waiting" /\ At \in reached /\ op = "complete"
  /\ Fail("error")
  /\ UNCHANGED <<deadline, reached>>

NotTheObject ==
  /\ pc = "waiting" /\ At \in reached /\ op = "complete"
  /\ Fail("parse")
  /\ UNCHANGED <<deadline, reached>>

CompleteAnswered ==
  /\ pc = "waiting" /\ At \in reached /\ op = "complete"
  /\ pc' = "returned"
  /\ outcomes' = Append(outcomes, "ok")
  /\ usage' = Append(usage, At)
  /\ result' = [NoResult EXCEPT !.by = At]
  /\ UNCHANGED <<op, chain, idleOn, reached, contexts, stream>>

(* Stream's handshake: the connector's goroutine and the forwarder start.  *)
StreamOpened ==
  /\ pc = "waiting" /\ At \in reached /\ op = "stream"
  /\ pc' = "returned"
  /\ outcomes' = Append(outcomes, "ok")
  /\ result' = [NoResult EXCEPT !.by = At]
  /\ con' = [con EXCEPT !.at = "read"]
  /\ fwd' = [fwd EXCEPT !.at = "select"]
  /\ idle' = IF idleOn THEN "armed" ELSE "off"
  /\ UNCHANGED <<op, chain, idleOn, reached, usage, contexts, body, nextDelta, got>>

-----------------------------------------------------------------------------
(* The environment: the provider's reply, the timers, the caller.          *)

ProviderSends ==
  /\ Streaming /\ body.end = "open" /\ body.last = "none" /\ body.sent < MaxDeltas
  /\ body' = [body EXCEPT !.sent = @ + 1]
  /\ UNCHANGED <<call, contexts, con, nextDelta, fwd, idle, got>>

(* After the deltas the provider may send one more event: its stop event   *)
(* (message_stop, [DONE], a finish reason, done), an error, or something   *)
(* that does not decode;                                                   *)
ProviderStops ==
  /\ Streaming /\ body.end = "open" /\ body.last = "none"
  /\ \E last \in {"stop", "error", "garbled"} : body' = [body EXCEPT !.last = last]
  /\ UNCHANGED <<call, contexts, con, nextDelta, fwd, idle, got>>

(* and the body ends, in good order or broken off.                         *)
ProviderEnds ==
  /\ Streaming /\ body.end = "open"
  /\ \E end \in {"eof", "broken"} : body' = [body EXCEPT !.end = end]
  /\ UNCHANGED <<call, contexts, con, nextDelta, fwd, idle, got>>

Cancel ==
  /\ ~caller
  /\ caller' = TRUE
  /\ UNCHANGED <<call, deadline, released, stream>>

Deadline ==
  /\ pc = "waiting" \/ (Streaming /\ ~released)
  /\ ~deadline
  /\ deadline' = TRUE
  /\ UNCHANGED <<call, caller, released, stream>>

IdleFires ==
  /\ idle = "armed"
  /\ idle' = "fired"
  /\ UNCHANGED <<call, contexts, body, con, nextDelta, fwd, got>>

-----------------------------------------------------------------------------
(* The connector's goroutine: read an event, sendChunk it; in the end      *)
(* sendChunk the verdict and close ch.                                     *)

Verdict(err) == con' = [at |-> "verdict", chunk |-> Final(err)]

ReadDelta ==
  /\ con.at = "read" /\ nextDelta < body.sent
  /\ nextDelta' = nextDelta + 1
  /\ con' = [at |-> "send", chunk |-> Delta(nextDelta + 1)]
  /\ UNCHANGED <<call, contexts, body, fwd, idle, got>>

(* The event after the deltas: the reader is done with the reply, fails,   *)
(* or takes no notice of it and reads on.                                  *)
ReadLast(kind, ends, fails) ==
  /\ con.at = "read" /\ nextDelta = body.sent /\ body.last # "none"
  /\ Connected = kind
  /\ \/ body.last \in ends /\ Verdict("none")
     \/ body.last \in fails /\ Verdict("failed")
     \/ body.last \notin ends \cup fails /\ con' = [con EXCEPT !.at = "drain"]
  /\ UNCHANGED <<call, contexts, body, nextDelta, fwd, idle, got>>

AnthropicLast == ReadLast("anthropic", {}, {"error", "garbled"})
OpenAILast == ReadLast("openai_compat", {"stop"}, {"garbled"})
GoogleLast == ReadLast("google", {}, {"garbled"})
OllamaLast == ReadLast("ollama", {"stop"}, {"garbled"})

ReadEnd ==
  /\ \/ con.at = "read" /\ nextDelta = body.sent /\ body.last = "none"
     \/ con.at = "drain"
  /\ body.end # "open"
  /\ Verdict(IF body.end = "eof" THEN "none" ELSE "failed")
  /\ UNCHANGED <<call, contexts, body, nextDelta, fwd, idle, got>>

(* The request's context ended: the body's read returns its error.         *)
ReadCut ==
  /\ con.at \in {"read", "drain"} /\ CtxDone
  /\ Verdict("failed")
  /\ UNCHANGED <<call, contexts, body, nextDelta, fwd, idle, got>>

GivesUpQuietly ==
  /\ CtxDone
  /\ \/ con.at = "send" /\ Verdict("none")
     \/ con.at = "verdict" /\ con' = [at |-> "closed", chunk |-> NoChunk]
  /\ UNCHANGED <<call, contexts, body, nextDelta, fwd, idle, got>>

(* sendChunk's other case: the delta is dropped and the error returned, or *)
(* the verdict is dropped and ch closed.                                   *)
ConnectorGivesUp ==
  /\ CtxDone
  /\ \/ con.at = "send" /\ Verdict("failed")
     \/ con.at = "verdict" /\ con' = [at |-> "closed", chunk |-> NoChunk]
  /\ UNCHANGED <<call, contexts, body, nextDelta, fwd, idle, got>>

-----------------------------------------------------------------------------
(* releaseOnClose's goroutine: its select, and sendChunk to the consumer.  *)

(* It returns: cancel() and close(out), the timer stopped.                 *)
ForwarderReturns ==
  /\ fwd' = [at |-> "closed", chunk |-> NoChunk]
  /\ released' = TRUE
  /\ idle' = "off"
  /\ UNCHANGED <<call, caller, deadline, body, nextDelta, got>>

(* ch hands the connector's chunk over; the idle timer starts anew.        *)
ForwardReceives ==
  /\ fwd.at = "select" /\ con.at \in {"send", "verdict"}
  /\ fwd' = [at |-> "send", chunk |-> con.chunk]
  /\ con' = [at |-> IF con.at = "send" THEN "read" ELSE "closed", chunk |-> NoChunk]
  /\ idle' = IF idleOn THEN "armed" ELSE "off"
  /\ UNCHANGED <<call, contexts, body, nextDelta, got>>

ForwardClosed == fwd.at = "select" /\ con.at = "closed" /\ ForwarderReturns /\ UNCHANGED con

IdleReturns == fwd.at = "select" /\ idle = "fired" /\ ForwarderReturns /\ UNCHANGED con

(* On idleCh: the chunk it leaves is a verdict of its own.                 *)
ForwardIdle ==
  /\ fwd.at = "select" /\ idle = "fired"
  /\ fwd' = [at |-> "sendIdle", chunk |-> Final("idle")]
  /\ UNCHANGED <<call, contexts, body, con, nextDelta, idle, got>>

CutInSelect == fwd.at = "select" /\ CtxDone /\ ForwarderReturns /\ UNCHANGED con

(* ctx.Done in the select, or in sendChunk while the consumer is away.     *)
ForwardCut ==
  /\ fwd.at \in {"select", "send", "sendIdle"} /\ CtxDone
  /\ ForwarderReturns
  /\ UNCHANGED con

(* The consumer takes the chunk from out.                                  *)
Receive ==
  /\ fwd.at = "send"
  /\ got' = Append(got, fwd.chunk)
  /\ fwd' = [at |-> "select", chunk |-> NoChunk]
  /\ UNCHANGED <<call, contexts, body, con, nextDelta, idle>>

ReceiveIdle ==
  /\ fwd.at = "sendIdle"
  /\ got' = Append(got, fwd.chunk)
  /\ fwd' = [at |-> "closed", chunk |-> NoChunk]
  /\ released' = TRUE
  /\ idle' = "off"
  /\ UNCHANGED <<call, caller, deadline, body, con, nextDelta>>

-----------------------------------------------------------------------------
Call == Build \/ KeyMissing \/ Attempt \/ ConnectFails \/ ContextEnds \/ StatusRefused
        \/ Undecodable \/ NotTheObject \/ CompleteAnswered \/ StreamOpened
Connector == ReadDelta \/ AnthropicLast \/ OpenAILast \/ GoogleLast \/ OllamaLast
             \/ ReadEnd \/ ReadCut \/ ConnectorGivesUp
Forwarder == ForwardReceives \/ ForwardClosed \/ ForwardIdle \/ ForwardCut
Environment == Reach \/ ProviderSends \/ ProviderStops \/ ProviderEnds \/ Cancel \/ Deadline
               \/ IdleFires \/ Receive \/ ReceiveIdle

(* The request is over: nothing of it runs any more.                       *)
Over ==
  /\ pc = "returned"
  /\ Streaming => con.at = "closed" /\ fwd.at = "closed"
  /\ UNCHANGED vars

Next == Call \/ Connector \/ Forwarder \/ Environment \/ Over

Spec == Init /\ [][Next]_vars

(* The goroutines are scheduled and time passes; nothing is assumed of the *)
(* provider, the consumer or the user.                                     *)
FairSpec ==
  /\ Spec
  /\ WF_vars(Build \/ KeyMissing \/ Attempt \/ ContextEnds)
  /\ WF_vars(Connector)
  /\ WF_vars(Forwarder)
  /\ WF_vars(Deadline)

-----------------------------------------------------------------------------
(* Client.Complete, Client.Stream: the first answer in chain order is the  *)
(* one returned, charged once and to the attempt that gave it; an error is *)
(* returned only after every attempt failed or a key was rejected, no      *)
(* provider is contacted after a rejected key, or if New refused any entry *)
(* of the chain, and a request that returns an error is never charged.     *)
FirstAnswerWins ==
  /\ \A i \in DOMAIN outcomes : i < Len(outcomes) => outcomes[i] \notin {"ok", "auth"}
  /\ reached \subseteq 1..(IF pc = "returned" THEN Len(outcomes) ELSE At)
  /\ pc = "returned" =>
       IF result.by # 0
         THEN /\ outcomes[result.by] = "ok" /\ result.by \in reached
              /\ usage = IF op = "complete" THEN <<result.by>> ELSE <<>>
         ELSE /\ usage = <<>>
              /\ IF result.err = "config" THEN reached = {}
                 ELSE Len(outcomes) = Len(chain) \/ Last(outcomes) = "auth"

Verdicts == {i \in DOMAIN got : got[i].done}
Text == {got[i].delta : i \in DOMAIN got \ Verdicts}

(* The Chunk contract, what holds of it: the consumer sees the provider's  *)
(* deltas in order with none missing in between and none after a verdict;  *)
(* and a verdict without an error means that everything the provider sent  *)
(* arrived, nothing of it undecodable, and that it broke nothing off.      *)
(* Excepted is what the contract promises and the code does not: a body    *)
(* that ends early but in good order counts as whole, and an error event   *)
(* is noticed by Anthropic's connector only.                               *)
NothingLostSilently ==
  /\ \A i \in DOMAIN got \ Verdicts : got[i].delta = i
  /\ \A i \in Verdicts, j \in DOMAIN got : i < j => got[j].done
  /\ \A i \in Verdicts : got[i].err = "none" =>
       /\ Text = 1..body.sent /\ body.last # "garbled"
       /\ body.last = "error" => Connected # "anthropic"
       /\ body.end = "broken" => body.last = "stop"

(* out closes without a verdict only when the stream was cut short by the  *)
(* caller's cancellation or by the deadline: a consumer that was not       *)
(* canceled and is within the deadline always learns how the stream ended. *)
SilentOnlyWhenCut ==
  fwd.at = "closed" /\ Verdicts = {} => caller \/ deadline

(* Every request comes to an end, with a provider that never answers and   *)
(* with a consumer that walks away from out without canceling: the call    *)
(* returns, and neither goroutine of a stream outlives it.                 *)
RequestEnds ==
  <>(pc = "returned" /\ (Streaming => con.at = "closed" /\ fwd.at = "closed"))

(* errors.go: ErrOffline is a failure to reach the provider, as opposed to *)
(* the response of a server that was reached.                              *)
OfflineMeansUnreached ==
  \A i \in DOMAIN outcomes : outcomes[i] = "offline" => i \notin reached

(* types.go: the deltas are followed by exactly one final chunk.           *)
OneVerdict == Cardinality(Verdicts) <= 1
=============================================================================
