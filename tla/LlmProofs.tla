------------------------------ MODULE LlmProofs ------------------------------
(***************************************************************************)
(* What holds of LlmClient for chains of any length and replies of any     *)
(* length: which answer is returned and charged, that a stream ends        *)
(* without a verdict only when it was cut short, and that no delta is lost *)
(* unnoticed.                                                              *)
(***************************************************************************)
EXTENDS LlmClient, TLAPS

USE LlmAssumption

-----------------------------------------------------------------------------
(* The invariants.                                                         *)

Chain == {c \in Seq(Kind) : Len(c) \in 1..MaxAttempts}
Results == [by : Nat, err : Outcome \cup {"none", "config"}, hint : BOOLEAN]

CallType ==
  /\ op \in {"complete", "stream"} /\ chain \in Chain
  /\ pc \in {"new", "try", "waiting", "returned"}
  /\ outcomes \in Seq(Outcome) /\ result \in Results

(* Until the call returns every attempt has failed, without a rejected key;*)
(* the one at hand is not past the end of the chain, and not tried before. *)
ChainInv ==
  /\ CallType
  /\ pc # "returned" =>
       /\ result = NoResult /\ usage = <<>>
       /\ Len(outcomes) < Len(chain)
       /\ \A i \in 1..Len(outcomes) : outcomes[i] \notin {"ok", "auth"}
       /\ reached \subseteq 1..At
  /\ pc = "new" => outcomes = <<>> /\ reached = {}
  /\ pc = "try" => At \notin reached
  /\ FirstAnswerWins

Chunks == [delta : Nat, done : BOOLEAN, err : {"none", "failed", "idle"}]

StreamType ==
  /\ pc \in {"new", "try", "waiting", "returned"}
  /\ con \in [at : {"off", "read", "drain", "send", "verdict", "closed"}, chunk : Chunks]
  /\ fwd \in [at : {"off", "select", "send", "sendIdle", "closed"}, chunk : Chunks]
  /\ nextDelta \in Nat /\ got \in Seq(Chunks)

(* The verdict is never lost: while the consumer has none, the connector   *)
(* has yet to give it, or the forwarder holds it, or the context is over.  *)
Cut == caller \/ deadline
Told == Verdicts # {}

VerdictInv ==
  /\ StreamType
  /\ pc # "returned" => con.at = "off" /\ fwd.at = "off"
  /\ released => fwd.at = "closed"
  /\ con.at = "verdict" => con.chunk.done
  /\ con.at = "closed" => Cut \/ Told \/ fwd.at = "closed" \/ (fwd.at = "send" /\ fwd.chunk.done)
  /\ fwd.at = "sendIdle" => fwd.chunk.done
  /\ fwd.at = "closed" => Cut \/ Told

-----------------------------------------------------------------------------
(* The chain.                                                              *)

(* No attempt has been made at the start.                                  *)
LEMMA ChainStarts == Init => ChainInv
<1> SUFFICES ASSUME Init PROVE ChainInv
  OBVIOUS
<1>1. PICK n \in 1..MaxAttempts : chain \in [1..n -> Kind]
  BY DEF Init
<1>2. chain \in Chain /\ Len(chain) = n
  BY <1>1 DEF Chain
<1>3. result \in Results
  BY DEF Init, NoResult, Results
<1>4. /\ op \in {"complete", "stream"} /\ pc = "new" /\ outcomes = <<>> /\ reached = {}
      /\ usage = <<>> /\ result = NoResult
  BY DEF Init
<1>5. Len(outcomes) = 0 /\ DOMAIN outcomes = {} /\ outcomes \in Seq(Outcome)
  BY <1>4
<1>6. CallType
  BY <1>2, <1>3, <1>4, <1>5 DEF CallType
<1>7. FirstAnswerWins
  BY <1>4, <1>5 DEF FirstAnswerWins
<1>8. QED
  BY <1>2, <1>4, <1>5, <1>6, <1>7 DEF ChainInv, Chain

(* An attempt that failed is put down, and the chain goes on or is over.   *)
LEMMA FailKeeps ==
  ASSUME ChainInv, NEW outcome \in Outcome \ {"ok"}, Fail(outcome), UNCHANGED reached,
         pc \in {"try", "waiting"}
  PROVE  ChainInv'
<1>1. /\ outcomes' = Append(outcomes, outcome) /\ UNCHANGED <<op, chain, usage, reached>>
      /\ IF outcome = "auth" \/ At = Len(chain)
         THEN pc' = "returned" /\ result' = [by |-> 0, err |-> outcome, hint |-> outcome = "offline" /\ ~HasOllama]
         ELSE pc' = "try" /\ UNCHANGED result
  BY DEF Fail
<1>2. /\ Len(outcomes) \in Nat /\ Len(chain) \in Nat /\ At = Len(outcomes) + 1 /\ At <= Len(chain)
      /\ Len(outcomes') = At /\ outcomes' \in Seq(Outcome) /\ outcomes'[At] = outcome
      /\ \A i \in 1..Len(outcomes) : outcomes'[i] = outcomes[i]
  BY <1>1 DEF ChainInv, CallType, Chain, At
<1>3. CallType'
  <2>1. [by |-> 0, err |-> outcome, hint |-> outcome = "offline" /\ ~HasOllama] \in Results
    BY DEF Results, HasOllama
  <2>2. result' \in Results /\ pc' \in {"try", "returned"}
    BY <1>1, <2>1 DEF ChainInv, CallType
  <2>3. QED
    BY <1>1, <1>2, <2>2 DEF ChainInv, CallType
<1>4. FirstAnswerWins'
  <2>1. \A i \in DOMAIN outcomes' : i < Len(outcomes') => outcomes'[i] \notin {"ok", "auth"}
    BY <1>2 DEF ChainInv
  <2>2. reached' \subseteq 1..Len(outcomes')
    BY <1>1, <1>2 DEF ChainInv
  <2>3. pc' = "returned" => /\ result'.by = 0 /\ usage' = <<>> /\ result'.err # "config"
                            /\ Len(outcomes') = Len(chain') \/ Last(outcomes') = "auth"
    BY <1>1, <1>2 DEF ChainInv, Last, Outcome
  <2>4. QED
    BY <1>1, <1>2, <2>1, <2>2, <2>3 DEF FirstAnswerWins, At
<1>5. ASSUME pc' # "returned"
      PROVE  /\ result' = NoResult /\ usage' = <<>> /\ Len(outcomes') < Len(chain')
             /\ \A i \in 1..Len(outcomes') : outcomes'[i] \notin {"ok", "auth"}
             /\ reached' \subseteq 1..At' /\ At' \notin reached' /\ pc' = "try"
  BY <1>1, <1>2, <1>5 DEF ChainInv, At
<1>6. pc' # "new" /\ (pc' = "try" => pc' # "returned")
  BY <1>1
<1>7. QED
  BY <1>3, <1>4, <1>5, <1>6 DEF ChainInv

(* What the result of a call is made from.                                 *)
LEMMA ResultBy ==
  ASSUME NEW r \in Results, NEW n \in Nat
  PROVE  [r EXCEPT !.by = n] \in Results /\ [r EXCEPT !.by = n].by = n
BY DEF Results

(* The first answer is put down, charged and returned.                     *)
LEMMA AnswerKeeps ==
  ASSUME ChainInv, pc = "waiting", At \in reached, pc' = "returned",
         outcomes' = Append(outcomes, "ok"), result' = [NoResult EXCEPT !.by = At],
         UNCHANGED <<op, chain, reached>>,
         usage' = IF op = "complete" THEN Append(usage, At) ELSE usage
  PROVE  ChainInv'
<1>1. /\ Len(outcomes) \in Nat /\ At = Len(outcomes) + 1
      /\ Len(outcomes') = At /\ outcomes' \in Seq(Outcome) /\ outcomes'[At] = "ok"
      /\ \A i \in 1..Len(outcomes) : outcomes'[i] = outcomes[i]
  BY DEF ChainInv, CallType, Chain, At, Outcome
<1>2. result'.by = At /\ result' \in Results
  <2>1. NoResult \in Results
    BY DEF NoResult, Results
  <2>2. QED
    BY <1>1, <2>1, ResultBy, SMTT(30)
<1>3. CallType'
  BY <1>1, <1>2 DEF ChainInv, CallType
<1>4. usage' = IF op = "complete" THEN <<At>> ELSE <<>>
  BY DEF ChainInv
<1>5. FirstAnswerWins'
  <2>1. \A i \in DOMAIN outcomes' : i < Len(outcomes') => outcomes'[i] \notin {"ok", "auth"}
    BY <1>1 DEF ChainInv
  <2>2. reached' \subseteq 1..Len(outcomes')
    BY <1>1 DEF ChainInv
  <2>3. result'.by # 0 /\ outcomes'[result'.by] = "ok" /\ result'.by \in reached'
    BY <1>1, <1>2
  <2>4. usage' = IF op' = "complete" THEN <<result'.by>> ELSE <<>>
    BY <1>2, <1>4
  <2>5. QED
    BY <2>1, <2>2, <2>3, <2>4 DEF FirstAnswerWins
<1>6. QED
  BY <1>3, <1>5 DEF ChainInv

(* Every step keeps the chain's invariant; the stream's do not touch it.   *)
LEMMA ChainKeeps == ChainInv /\ [Next]_vars => ChainInv'
<1> SUFFICES ASSUME ChainInv, [Next]_vars PROVE ChainInv'
  OBVIOUS
<1>1. CASE UNCHANGED call
  BY <1>1 DEF call, ChainInv, CallType, FirstAnswerWins, At
<1>2. CASE Build
  <2>1. /\ pc = "new" /\ UNCHANGED <<op, chain, outcomes, reached, usage>>
        /\ \/ pc' = "returned" /\ result' = [NoResult EXCEPT !.err = "config"]
           \/ pc' = "try" /\ result' = result
    BY <1>2 DEF Build
  <2>2. /\ outcomes = <<>> /\ reached = {} /\ usage = <<>> /\ result = NoResult
        /\ CallType /\ Len(outcomes) < Len(chain)
    BY <2>1 DEF ChainInv
  <2>3. CallType'
    BY <2>1, <2>2 DEF CallType, Results, NoResult
  <2>4. QED
    BY <2>1, <2>2, <2>3 DEF ChainInv, FirstAnswerWins, At, NoResult
<1>3. CASE Attempt \/ Reach
  <2>1. /\ UNCHANGED <<op, chain, outcomes, usage, result>> /\ pc' = "waiting"
        /\ pc \in {"try", "waiting"}
        /\ reached' = reached \/ reached' = reached \cup {At}
    BY <1>3 DEF Attempt, Reach
  <2>2. Len(outcomes) \in Nat /\ At' = At /\ At \in 1..At
    BY <2>1 DEF ChainInv, CallType, At
  <2>3. QED
    BY <2>1, <2>2 DEF ChainInv, CallType, FirstAnswerWins
<1>4. CASE KeyMissing \/ ConnectFails \/ ContextEnds \/ StatusRefused \/ Undecodable \/ NotTheObject
  <2>1. PICK outcome \in Outcome \ {"ok"} : Fail(outcome)
    BY <1>4 DEF KeyMissing, ConnectFails, ContextEnds, StatusRefused, Undecodable, NotTheObject,
             Unreachability, StatusError, OllamaStatusError, GoogleStatusError, CloudStatusError, Outcome
  <2>2. pc \in {"try", "waiting"} /\ UNCHANGED reached
    BY <1>4 DEF KeyMissing, ConnectFails, ContextEnds, StatusRefused, Undecodable, NotTheObject
  <2>3. QED
    BY <2>1, <2>2, FailKeeps
<1>5. CASE CompleteAnswered
  BY <1>5, AnswerKeeps DEF CompleteAnswered
<1>6. CASE StreamOpened
  BY <1>6, AnswerKeeps DEF StreamOpened
<1>7. CASE Connector \/ Forwarder
  BY <1>1, <1>7 DEF Connector, ReadDelta, AnthropicLast, OpenAILast, GoogleLast, OllamaLast, ReadLast,
       ReadEnd, ReadCut, ConnectorGivesUp, Forwarder, ForwardReceives, ForwardClosed, ForwardIdle,
       ForwardCut, ForwarderReturns
<1>8. CASE ProviderSends \/ ProviderStops \/ ProviderEnds \/ Cancel \/ Deadline \/ IdleFires
           \/ Receive \/ ReceiveIdle \/ Over \/ UNCHANGED vars
  BY <1>1, <1>8 DEF ProviderSends, ProviderStops, ProviderEnds, Cancel, Deadline, IdleFires,
       Receive, ReceiveIdle, Over, vars
<1>9. QED
  BY <1>2, <1>3, <1>4, <1>5, <1>6, <1>7, <1>8 DEF Next, Call, Environment

(* Complete and Stream return the first answer in the order of the chain,  *)
(* charged once and to who gave it; after a rejected key no provider is    *)
(* contacted, and a failed request is not charged: for any chain.          *)
THEOREM FirstWins == Spec => []FirstAnswerWins
<1>1. ChainInv => FirstAnswerWins
  BY DEF ChainInv
<1>2. QED
  BY <1>1, ChainStarts, ChainKeeps, PTL DEF Spec

-----------------------------------------------------------------------------
(* The stream.                                                             *)

(* Nothing of a stream runs at the start.                                  *)
LEMMA StreamStarts == Init => VerdictInv
BY DEF Init, VerdictInv, StreamType, NoChunk, Chunks, Verdicts, Told, Cut

(* What the goroutines hand over are chunks, and a verdict is done.        *)
LEMMA ChunksAre == NoChunk \in Chunks /\ (\A n \in Nat : Delta(n) \in Chunks)
                   /\ (\A e \in {"none", "failed", "idle"} : Final(e) \in Chunks /\ Final(e).done)
BY DEF NoChunk, Delta, Final, Chunks

(* The consumer that has a verdict keeps it, and gets one from a done      *)
(* chunk.                                                                  *)
LEMMA VerdictReceived ==
  ASSUME got \in Seq(Chunks), NEW chunk \in Chunks, got' = Append(got, chunk)
  PROVE  got' \in Seq(Chunks) /\ (Told \/ chunk.done => Told')
<1>1. /\ got' \in Seq(Chunks) /\ Len(got') = Len(got) + 1 /\ Len(got) \in Nat
      /\ got'[Len(got')] = chunk /\ \A i \in 1..Len(got) : got'[i] = got[i]
  OBVIOUS
<1>2. ASSUME Told PROVE Told'
  <2>1. PICK i \in 1..Len(got) : got[i].done
    BY <1>2 DEF Told, Verdicts
  <2>2. i \in 1..Len(got') /\ got'[i].done
    BY <1>1, <2>1
  <2>3. QED
    BY <2>2, <1>1 DEF Told, Verdicts
<1>3. ASSUME chunk.done PROVE Told'
  <2>1. Len(got') \in 1..Len(got') /\ got'[Len(got')].done
    BY <1>1, <1>3
  <2>2. QED
    BY <2>1, <1>1 DEF Told, Verdicts
<1>4. QED
  BY <1>1, <1>2, <1>3

(* A step of the call: the stream is not open yet, or opens.               *)
LEMMA CallKeepsVerdict == VerdictInv /\ (Call \/ Reach) => VerdictInv'
<1> SUFFICES ASSUME VerdictInv, Call \/ Reach PROVE VerdictInv'
  OBVIOUS
<1>1. pc # "returned" /\ con.at = "off" /\ fwd.at = "off" /\ released' = released /\ ~released
  BY DEF VerdictInv, Call, Reach, Build, KeyMissing, Attempt, ConnectFails, ContextEnds, StatusRefused,
         Undecodable, NotTheObject, CompleteAnswered, StreamOpened, Fail, contexts
<1>2. pc' \in {"try", "waiting", "returned"}
  BY DEF Call, Reach, Build, KeyMissing, Attempt, ConnectFails, ContextEnds, StatusRefused,
         Undecodable, NotTheObject, CompleteAnswered, StreamOpened, Fail
<1>3. CASE UNCHANGED stream
  BY <1>1, <1>2, <1>3 DEF VerdictInv, StreamType, stream, Told, Verdicts
<1>4. CASE StreamOpened
  <2>1. /\ con' = [con EXCEPT !.at = "read"] /\ fwd' = [fwd EXCEPT !.at = "select"]
        /\ pc' = "returned" /\ UNCHANGED <<nextDelta, got>>
    BY <1>4 DEF StreamOpened
  <2>2. /\ con'.at = "read" /\ con' \in [at : {"off", "read", "drain", "send", "verdict", "closed"}, chunk : Chunks]
        /\ fwd'.at = "select" /\ fwd' \in [at : {"off", "select", "send", "sendIdle", "closed"}, chunk : Chunks]
    BY <2>1 DEF VerdictInv, StreamType
  <2>3. QED
    BY <1>1, <2>1, <2>2 DEF VerdictInv, StreamType
<1>5. UNCHANGED stream \/ StreamOpened
  BY DEF Call, Reach, Build, KeyMissing, Attempt, ConnectFails, ContextEnds, StatusRefused,
         Undecodable, NotTheObject, CompleteAnswered, Fail, stream
<1>6. QED
  BY <1>3, <1>4, <1>5

(* A step of the connector's goroutine: it gives its verdict, or keeps it  *)
(* to itself when the context is over.                                     *)
LEMMA ConnectorKeepsVerdict == VerdictInv /\ Connector => VerdictInv'
<1> SUFFICES ASSUME VerdictInv, Connector PROVE VerdictInv'
  OBVIOUS
<1> USE ChunksAre
<1>1. UNCHANGED <<call, contexts, fwd, got>> /\ con.at \in {"read", "drain", "send", "verdict"}
  BY DEF Connector, ReadDelta, AnthropicLast, OpenAILast, GoogleLast, OllamaLast, ReadLast, ReadEnd,
         ReadCut, ConnectorGivesUp, VerdictInv, StreamType, Verdict
<1>2. /\ nextDelta' \in Nat
      /\ \/ \E n \in Nat : con' = [at |-> "send", chunk |-> Delta(n)]
         \/ \E err \in {"none", "failed", "idle"} : con' = [at |-> "verdict", chunk |-> Final(err)]
         \/ con' = [con EXCEPT !.at = "drain"]
         \/ con' = [at |-> "closed", chunk |-> NoChunk] /\ CtxDone
  BY DEF Connector, ReadDelta, AnthropicLast, OpenAILast, GoogleLast, OllamaLast, ReadLast, ReadEnd,
         ReadCut, ConnectorGivesUp, VerdictInv, StreamType, Verdict
<1>3. /\ con' \in [at : {"off", "read", "drain", "send", "verdict", "closed"}, chunk : Chunks]
      /\ con'.at = "verdict" => con'.chunk.done
      /\ con'.at = "closed" => CtxDone
  BY <1>2 DEF VerdictInv, StreamType
<1>4. CtxDone => Cut \/ fwd.at = "closed"
  BY DEF CtxDone, Cut, VerdictInv
<1>5. pc # "returned" => FALSE
  BY <1>1 DEF VerdictInv
<1>6. StreamType'
  BY <1>1, <1>2, <1>3 DEF VerdictInv, StreamType, call
<1>7. Cut' = Cut /\ Told' = Told /\ fwd' = fwd /\ released' = released /\ pc' = pc
  BY <1>1 DEF call, contexts, Cut, Told, Verdicts
<1>8. QED
  BY <1>3, <1>4, <1>5, <1>6, <1>7 DEF VerdictInv

(* A step of the forwarder's goroutine, or of the consumer that takes its  *)
(* chunk.                                                                  *)
LEMMA ForwarderKeepsVerdict == VerdictInv /\ (Forwarder \/ Receive \/ ReceiveIdle) => VerdictInv'
<1> SUFFICES ASSUME VerdictInv, Forwarder \/ Receive \/ ReceiveIdle PROVE VerdictInv'
  OBVIOUS
<1> USE ChunksAre
<1>1. /\ fwd.at \in {"select", "send", "sendIdle"} /\ pc = "returned" /\ ~released
      /\ UNCHANGED <<pc, caller, deadline, nextDelta>> /\ Cut' = Cut
  BY DEF VerdictInv, Forwarder, ForwardReceives, ForwardClosed, ForwardIdle, ForwardCut, ForwarderReturns,
         Receive, ReceiveIdle, call, contexts, Cut
<1>2. /\ con \in [at : {"off", "read", "drain", "send", "verdict", "closed"}, chunk : Chunks]
      /\ fwd \in [at : {"off", "select", "send", "sendIdle", "closed"}, chunk : Chunks]
      /\ nextDelta \in Nat /\ got \in Seq(Chunks)
  BY DEF VerdictInv, StreamType
<1>3. CASE ForwardReceives
  <2>1. fwd.at = "select" /\ fwd' = [at |-> "send", chunk |-> con.chunk] /\ UNCHANGED <<released, got>>
    BY <1>3 DEF ForwardReceives, contexts
  <2>2. \/ con.at = "send" /\ con' = [at |-> "read", chunk |-> NoChunk]
        \/ con.at = "verdict" /\ con' = [at |-> "closed", chunk |-> NoChunk]
    BY <1>3 DEF ForwardReceives
  <2>3. StreamType'
    BY <1>1, <1>2, <2>1, <2>2 DEF StreamType
  <2>4. QED
    BY <1>1, <1>2, <2>1, <2>2, <2>3 DEF VerdictInv
<1>4. CASE ForwardClosed \/ ForwardCut
  <2>1. fwd' = [at |-> "closed", chunk |-> NoChunk] /\ UNCHANGED <<con, got>>
    BY <1>4 DEF ForwardClosed, ForwardCut, ForwarderReturns
  <2>2. Cut \/ Told
    BY <1>1, <1>4 DEF ForwardClosed, ForwardCut, CtxDone, Cut, VerdictInv
  <2>3. Told' = Told
    BY <2>1 DEF Told, Verdicts
  <2>4. StreamType'
    BY <1>1, <1>2, <2>1 DEF StreamType
  <2>5. con'.at = "verdict" => con'.chunk.done
    BY <2>1 DEF VerdictInv
  <2>6. QED
    BY <1>1, <2>1, <2>2, <2>3, <2>4, <2>5 DEF VerdictInv
<1>5. CASE ForwardIdle
  <2>1. fwd' = [at |-> "sendIdle", chunk |-> Final("idle")] /\ UNCHANGED <<con, got, released>> /\ fwd.at = "select"
    BY <1>5 DEF ForwardIdle, contexts
  <2>2. StreamType'
    BY <1>1, <1>2, <2>1 DEF StreamType
  <2>3. Told' = Told /\ fwd'.at = "sendIdle" /\ fwd'.chunk.done
    BY <2>1 DEF Told, Verdicts
  <2>4. QED
    BY <1>1, <2>1, <2>2, <2>3 DEF VerdictInv
<1>6. CASE Receive
  <2>1. fwd.at = "send" /\ got' = Append(got, fwd.chunk) /\ fwd' = [at |-> "select", chunk |-> NoChunk]
        /\ UNCHANGED <<con, released>>
    BY <1>6 DEF Receive, contexts
  <2>2. got' \in Seq(Chunks) /\ (Told \/ fwd.chunk.done => Told')
    BY <1>2, <2>1, VerdictReceived
  <2>3. StreamType'
    BY <1>1, <1>2, <2>1, <2>2 DEF StreamType
  <2>4. QED
    BY <1>1, <2>1, <2>2, <2>3 DEF VerdictInv
<1>7. CASE ReceiveIdle
  <2>1. fwd.at = "sendIdle" /\ got' = Append(got, fwd.chunk) /\ fwd' = [at |-> "closed", chunk |-> NoChunk]
        /\ UNCHANGED con
    BY <1>7 DEF ReceiveIdle
  <2>2. got' \in Seq(Chunks) /\ Told'
    BY <1>2, <2>1, VerdictReceived DEF VerdictInv
  <2>3. StreamType'
    BY <1>1, <1>2, <2>1, <2>2 DEF StreamType
  <2>4. con'.at = "verdict" => con'.chunk.done
    BY <2>1 DEF VerdictInv
  <2>5. QED
    BY <1>1, <2>1, <2>2, <2>3, <2>4 DEF VerdictInv
<1>8. QED
  BY <1>3, <1>4, <1>5, <1>6, <1>7 DEF Forwarder

(* Every step keeps the verdict's invariant.                               *)
LEMMA VerdictKeeps == VerdictInv /\ [Next]_vars => VerdictInv'
<1> SUFFICES ASSUME VerdictInv, [Next]_vars PROVE VerdictInv'
  OBVIOUS
<1>1. CASE /\ UNCHANGED <<pc, released, con, nextDelta, fwd, got>>
           /\ caller => caller'
           /\ deadline => deadline'
  BY <1>1 DEF VerdictInv, StreamType, Told, Verdicts, Cut
<1>2. CASE ProviderSends \/ ProviderStops \/ ProviderEnds \/ Cancel \/ Deadline \/ IdleFires
           \/ Over \/ UNCHANGED vars
  BY <1>1, <1>2 DEF ProviderSends, ProviderStops, ProviderEnds, Cancel, Deadline, IdleFires, Over,
       vars, call, contexts, stream
<1>3. QED
  BY <1>2, CallKeepsVerdict, ConnectorKeepsVerdict, ForwarderKeepsVerdict DEF Next, Environment

(* out closes without a verdict only when the caller canceled or the       *)
(* deadline passed: for replies of any length from any chain.              *)
THEOREM NeverSilent == Spec => []SilentOnlyWhenCut
<1>1. VerdictInv => SilentOnlyWhenCut
  BY DEF VerdictInv, SilentOnlyWhenCut, Cut, Told
<1>2. QED
  BY <1>1, StreamStarts, VerdictKeeps, PTL DEF Spec

-----------------------------------------------------------------------------
(* What the verdict vouches for.                                           *)

(* The reply as the connector may call it whole: read to its last delta,   *)
(* with nothing to follow, and neither garbled nor broken off.             *)
Sound ==
  /\ nextDelta = body.sent /\ (body.last = "stop" \/ body.end # "open")
  /\ body.last # "garbled" /\ (body.last = "error" => Connected # "anthropic")
  /\ body.end = "broken" => body.last = "stop"

(* The deltas the connector has read are with the consumer but for the one *)
(* the forwarder holds and the one the connector offers.                   *)
HeldBy(at) == IF at = "send" THEN 1 ELSE 0

DeltaInv ==
  /\ VerdictInv
  /\ body \in [sent : Nat, last : {"none", "stop", "error", "garbled"}, end : {"open", "eof", "broken"}]
  /\ con.at = "off" => got = <<>> /\ nextDelta = 0 /\ fwd.at = "off"
  /\ con.at = "send" => con.chunk = Delta(nextDelta)
  /\ con.at = "drain" => /\ nextDelta = body.sent /\ body.last \notin {"none", "garbled"}
                         /\ body.last = "error" => Connected # "anthropic"
  /\ con.at = "verdict" /\ con.chunk.err = "none" => Sound
  /\ Told => fwd.at # "send" /\ (con.at = "closed" \/ fwd.at = "closed")
  /\ ~Told /\ fwd.at # "closed" =>
       /\ con.at \in {"off", "read", "drain", "send"} =>
            nextDelta = Len(got) + HeldBy(fwd.at) + HeldBy(con.at)
       /\ con.at = "verdict" /\ con.chunk.err = "none" => nextDelta = Len(got) + HeldBy(fwd.at)
  /\ fwd.at = "send" /\ ~fwd.chunk.done => fwd.chunk = Delta(Len(got) + 1)
  /\ fwd.at = "send" /\ fwd.chunk.done =>
       con.at = "closed" /\ (fwd.chunk.err = "none" => Sound /\ nextDelta = Len(got))
  /\ fwd.at = "sendIdle" => fwd.chunk.err # "none"
  /\ \A i \in DOMAIN got \ Verdicts : got[i].delta = i
  /\ \A i \in Verdicts, j \in DOMAIN got : i < j => got[j].done
  /\ \A i \in Verdicts : got[i].err = "none" => Sound /\ Text = 1..body.sent

(* Nothing has been read at the start.                                     *)
LEMMA DeltaStarts == Init => DeltaInv
<1> SUFFICES ASSUME Init PROVE DeltaInv
  OBVIOUS
<1>1. VerdictInv
  BY StreamStarts
<1>2. got = <<>> /\ DOMAIN got = {} /\ Len(got) = 0 /\ Verdicts = {}
  BY DEF Init, Verdicts
<1>3. QED
  BY <1>1, <1>2 DEF Init, DeltaInv, NoChunk, Told, HeldBy

(* The consumer's chunks, one more.                                        *)
LEMMA Received ==
  ASSUME got \in Seq(Chunks), NEW chunk \in Chunks, got' = Append(got, chunk)
  PROVE  /\ Len(got) \in Nat /\ Len(got') = Len(got) + 1 /\ DOMAIN got' = DOMAIN got \cup {Len(got) + 1}
         /\ DOMAIN got = 1..Len(got) /\ got'[Len(got) + 1] = chunk /\ \A i \in DOMAIN got : got'[i] = got[i]
         /\ Verdicts' = IF chunk.done THEN Verdicts \cup {Len(got) + 1} ELSE Verdicts
         /\ chunk.done => Text' = Text
<1>1. /\ Len(got) \in Nat /\ Len(got') = Len(got) + 1 /\ DOMAIN got' = DOMAIN got \cup {Len(got) + 1}
      /\ DOMAIN got = 1..Len(got) /\ got'[Len(got) + 1] = chunk /\ \A i \in DOMAIN got : got'[i] = got[i]
  OBVIOUS
<1>2. Verdicts' = IF chunk.done THEN Verdicts \cup {Len(got) + 1} ELSE Verdicts
  BY <1>1 DEF Verdicts
<1>3. ASSUME chunk.done PROVE Text' = Text
  <2>1. DOMAIN got' \ Verdicts' = DOMAIN got \ Verdicts
    BY <1>1, <1>2, <1>3 DEF Verdicts
  <2>2. QED
    BY <1>1, <2>1 DEF Text
<1>4. QED
  BY <1>1, <1>2, <1>3

(* A step of the call: nothing has been read yet.                          *)
LEMMA CallKeepsDeltas == DeltaInv /\ (Call \/ Reach) => DeltaInv'
<1> SUFFICES ASSUME DeltaInv, Call \/ Reach PROVE DeltaInv'
  OBVIOUS
<1>1. VerdictInv /\ VerdictInv'
  BY CallKeepsVerdict DEF DeltaInv
<1>2. con.at = "off" /\ fwd.at = "off" /\ got = <<>> /\ nextDelta = 0
  BY <1>1 DEF DeltaInv, VerdictInv, Call, Reach, Build, KeyMissing, Attempt, ConnectFails, ContextEnds,
         StatusRefused, Undecodable, NotTheObject, CompleteAnswered, StreamOpened
<1>3. /\ body' = body /\ got' = got /\ nextDelta' = nextDelta
      /\ (con' = con /\ fwd' = fwd) \/ (con'.at = "read" /\ fwd'.at = "select")
  <2>1. CASE StreamOpened
    <3>1. con' = [con EXCEPT !.at = "read"] /\ fwd' = [fwd EXCEPT !.at = "select"]
          /\ UNCHANGED <<body, got, nextDelta>>
      BY <2>1 DEF StreamOpened
    <3>2. con'.at = "read" /\ fwd'.at = "select"
      BY <1>1, <3>1 DEF VerdictInv, StreamType
    <3>3. QED
      BY <3>1, <3>2
  <2>2. CASE ~StreamOpened
    <3>1. UNCHANGED stream
      BY <2>2 DEF Call, Reach, Build, KeyMissing, Attempt, ConnectFails, ContextEnds, StatusRefused,
           Undecodable, NotTheObject, CompleteAnswered, Fail, stream
    <3>2. UNCHANGED <<body, con, nextDelta, fwd, idle, got>>
      BY <3>1 DEF stream
    <3>3. QED
      BY <3>2
  <2>3. QED
    BY <2>1, <2>2
<1>4. Verdicts = {} /\ Verdicts' = {} /\ ~Told' /\ DOMAIN got = {} /\ Len(got) = 0
  BY <1>2, <1>3 DEF Verdicts, Told
<1>5. QED
  BY <1>1, <1>2, <1>3, <1>4 DEF DeltaInv, HeldBy

(* A step of the provider.  A reply that was called whole cannot grow.     *)
LEMMA ProviderKeepsDeltas == DeltaInv /\ (ProviderSends \/ ProviderStops \/ ProviderEnds) => DeltaInv'
<1> SUFFICES ASSUME DeltaInv, ProviderSends \/ ProviderStops \/ ProviderEnds PROVE DeltaInv'
  OBVIOUS
<1>1. /\ UNCHANGED <<call, contexts, con, nextDelta, fwd, idle, got>> /\ body.end = "open"
      /\ \/ body.last = "none" /\ body' = [body EXCEPT !.sent = @ + 1]
         \/ body.last = "none" /\ \E last \in {"stop", "error", "garbled"} : body' = [body EXCEPT !.last = last]
         \/ \E end \in {"eof", "broken"} : body' = [body EXCEPT !.end = end]
  BY DEF ProviderSends, ProviderStops, ProviderEnds
<1>2. body \in [sent : Nat, last : {"none", "stop", "error", "garbled"}, end : {"open", "eof", "broken"}]
  BY DEF DeltaInv
<1>3. /\ body' \in [sent : Nat, last : {"none", "stop", "error", "garbled"}, end : {"open", "eof", "broken"}]
      /\ body.last # "none" => body'.sent = body.sent /\ body'.last = body.last
  BY <1>1, <1>2
<1>4. Sound => Sound' /\ body'.sent = body.sent
  BY <1>1, <1>2, <1>3 DEF Sound, call, Connected
<1>5. VerdictInv'
  BY <1>1 DEF DeltaInv, VerdictInv, StreamType, Told, Verdicts, Cut, call, contexts
<1>6. Told' = Told /\ Verdicts' = Verdicts /\ Text' = Text /\ Connected' = Connected
  BY <1>1 DEF Told, Verdicts, Text, call, Connected
<1>7. QED
  BY <1>1, <1>3, <1>4, <1>5, <1>6 DEF DeltaInv

(* What the connector's reading of an event or of the end comes to.        *)
GivesVerdict ==
  \E err \in {"none", "failed"} :
    /\ con' = [at |-> "verdict", chunk |-> Final(err)] /\ con.at \in {"read", "drain"}
    /\ nextDelta' = nextDelta /\ (err = "none" => Sound)
ReadsOn ==
  /\ con' = [con EXCEPT !.at = "drain"] /\ con.at = "read"
  /\ nextDelta' = nextDelta /\ nextDelta = body.sent
  /\ body.last \notin {"none", "garbled"} /\ (body.last = "error" => Connected # "anthropic")

(* A step of the connector's goroutine.                                    *)
LEMMA ConnectorKeepsDeltas == DeltaInv /\ Connector => DeltaInv'
<1> SUFFICES ASSUME DeltaInv, Connector PROVE DeltaInv'
  OBVIOUS
<1>1. VerdictInv /\ VerdictInv'
  BY ConnectorKeepsVerdict DEF DeltaInv
<1>2. /\ body \in [sent : Nat, last : {"none", "stop", "error", "garbled"}, end : {"open", "eof", "broken"}]
      /\ con \in [at : {"off", "read", "drain", "send", "verdict", "closed"}, chunk : Chunks]
      /\ nextDelta \in Nat /\ got \in Seq(Chunks) /\ Len(got) \in Nat
  BY <1>1 DEF DeltaInv, VerdictInv, StreamType
<1>3. UNCHANGED <<call, contexts, body, fwd, idle, got>>
  BY DEF Connector, ReadDelta, AnthropicLast, OpenAILast, GoogleLast, OllamaLast, ReadLast, ReadEnd,
         ReadCut, ConnectorGivesUp
<1>4. Told' = Told /\ Verdicts' = Verdicts /\ Text' = Text /\ Connected' = Connected
  BY <1>3 DEF Told, Verdicts, Text, call, Connected
<1>5. CASE ReadDelta
  <2>1. con.at = "read" /\ nextDelta < body.sent /\ nextDelta' = nextDelta + 1
        /\ con' = [at |-> "send", chunk |-> Delta(nextDelta + 1)]
    BY <1>5 DEF ReadDelta
  <2>2. ~Sound
    BY <1>2, <2>1 DEF Sound
  <2>3. QED
    BY <1>1, <1>2, <1>3, <1>4, <2>1, <2>2 DEF DeltaInv, HeldBy
<1>6. CASE GivesVerdict
  <2>1. PICK err \in {"none", "failed"} :
           /\ con' = [at |-> "verdict", chunk |-> Final(err)] /\ con.at \in {"read", "drain"}
           /\ nextDelta' = nextDelta /\ (err = "none" => Sound)
    BY <1>6 DEF GivesVerdict
  <2>2. con' = [at |-> "verdict", chunk |-> Final(err)] /\ con'.chunk.err = err /\ con'.at = "verdict"
    BY <2>1 DEF Final
  <2>3. Sound' = Sound
    BY <1>3, <1>4, <2>1 DEF Sound
  <2>4. ~Told /\ fwd.at # "closed" => nextDelta = Len(got) + HeldBy(fwd.at)
    <3>1. HeldBy(con.at) = 0 /\ HeldBy(fwd.at) \in Nat
      BY <2>1 DEF HeldBy
    <3>2. QED
      BY <1>2, <2>1, <3>1 DEF DeltaInv
  <2>5. /\ body' = body /\ got' = got /\ nextDelta' = nextDelta /\ fwd' = fwd
        /\ con'.at = "verdict" /\ con'.chunk.err = err /\ (err = "none" => Sound')
    BY <1>3, <2>1, <2>2, <2>3
  <2>6. (Told => fwd.at = "closed") /\ (fwd.at = "send" => ~fwd.chunk.done)
    BY <2>1 DEF DeltaInv
  <2>7. QED
    BY <1>1, <1>4, <2>3, <2>4, <2>5, <2>6 DEF DeltaInv
<1>7. CASE ReadsOn
  <2>1. con'.at = "drain"
    BY <1>2, <1>7 DEF ReadsOn
  <2>2. Sound' = Sound
    BY <1>3, <1>4, <1>7 DEF Sound, ReadsOn
  <2>3. QED
    BY <1>1, <1>2, <1>3, <1>4, <1>7, <2>1, <2>2 DEF DeltaInv, HeldBy, ReadsOn
<1>8. CASE ConnectorGivesUp
  <2>1. /\ nextDelta' = nextDelta /\ con.at \in {"send", "verdict"}
        /\ con'.at \in {"verdict", "closed"}
        /\ con'.chunk.err = "failed" \/ con'.at = "closed"
    BY <1>8 DEF ConnectorGivesUp, Verdict, Final
  <2>2. Sound' = Sound
    BY <1>3, <1>4, <2>1 DEF Sound
  <2>3. QED
    BY <1>1, <1>2, <1>3, <1>4, <2>1, <2>2 DEF DeltaInv, HeldBy
<1>9. ASSUME AnthropicLast \/ OpenAILast \/ GoogleLast \/ OllamaLast
      PROVE  GivesVerdict \/ ReadsOn
  <2>1. con.at = "read" /\ nextDelta' = nextDelta /\ nextDelta = body.sent /\ body.last # "none"
    BY <1>9 DEF AnthropicLast, OpenAILast, GoogleLast, OllamaLast, ReadLast
  <2>2. body.last = "stop" => Sound
    BY <2>1 DEF Sound
  <2>3. QED
    BY <1>2, <1>9, <2>1, <2>2 DEF AnthropicLast, OpenAILast, GoogleLast, OllamaLast, ReadLast, Verdict,
       GivesVerdict, ReadsOn
<1>10. ASSUME ReadEnd \/ ReadCut
       PROVE  GivesVerdict
  <2>1. CASE ReadCut
    BY <2>1 DEF ReadCut, Verdict, GivesVerdict
  <2>2. CASE ReadEnd
    <3>1. con.at \in {"read", "drain"} /\ nextDelta' = nextDelta /\ nextDelta = body.sent /\ body.end # "open"
          /\ body.last # "garbled" /\ (body.last = "error" => Connected # "anthropic")
          /\ con' = [at |-> "verdict", chunk |-> Final(IF body.end = "eof" THEN "none" ELSE "failed")]
      BY <2>2 DEF ReadEnd, DeltaInv, Verdict
    <3>2. body.end = "eof" => Sound
      BY <3>1 DEF Sound
    <3>3. QED
      BY <3>1, <3>2 DEF GivesVerdict
  <2>3. QED
    BY <1>10, <2>1, <2>2
<1>11. QED
  BY <1>5, <1>6, <1>7, <1>8, <1>9, <1>10 DEF Connector

(* A step of the forwarder's goroutine that gives the consumer nothing.    *)
LEMMA ForwarderKeepsDeltas == DeltaInv /\ Forwarder => DeltaInv'
<1> SUFFICES ASSUME DeltaInv, Forwarder PROVE DeltaInv'
  OBVIOUS
<1>1. VerdictInv /\ VerdictInv'
  BY ForwarderKeepsVerdict DEF DeltaInv
<1>2. /\ con \in [at : {"off", "read", "drain", "send", "verdict", "closed"}, chunk : Chunks]
      /\ nextDelta \in Nat /\ got \in Seq(Chunks) /\ Len(got) \in Nat
  BY <1>1 DEF VerdictInv, StreamType
<1>3. UNCHANGED <<call, body, nextDelta, got>> /\ fwd.at \in {"select", "send", "sendIdle"}
  BY DEF Forwarder, ForwardReceives, ForwardClosed, ForwardIdle, ForwardCut, ForwarderReturns
<1>4. Told' = Told /\ Verdicts' = Verdicts /\ Text' = Text /\ Sound' = Sound /\ Connected' = Connected
  BY <1>3 DEF Told, Verdicts, Text, Sound, call, Connected
<1>5. con.at # "off"
  BY <1>3 DEF DeltaInv
<1>6. CASE ForwardReceives
  <2>1. fwd.at = "select" /\ fwd' = [at |-> "send", chunk |-> con.chunk]
        /\ \/ con.at = "send" /\ con' = [at |-> "read", chunk |-> NoChunk]
           \/ con.at = "verdict" /\ con' = [at |-> "closed", chunk |-> NoChunk]
    BY <1>6 DEF ForwardReceives
  <2>2. ~Told
    BY <2>1 DEF DeltaInv
  <2>3. CASE con.at = "send"
    <3>1. con'.at = "read" /\ fwd'.at = "send" /\ fwd'.chunk = Delta(Len(got) + 1) /\ nextDelta = Len(got) + 1
      BY <1>2, <2>1, <2>2, <2>3 DEF DeltaInv, HeldBy
    <3>2. ~fwd'.chunk.done
      BY <3>1 DEF Delta
    <3>3. QED
      BY <1>1, <1>2, <1>3, <1>4, <2>2, <3>1, <3>2 DEF DeltaInv, HeldBy
  <2>4. CASE con.at = "verdict"
    <3>1. con'.at = "closed" /\ fwd'.at = "send" /\ fwd'.chunk = con.chunk /\ con.chunk.done
      BY <1>1, <2>1, <2>4 DEF VerdictInv
    <3>2. con.chunk.err = "none" => Sound /\ nextDelta = Len(got)
      BY <1>2, <2>1, <2>2, <2>4 DEF DeltaInv, HeldBy
    <3>3. QED
      BY <1>1, <1>2, <1>3, <1>4, <2>2, <3>1, <3>2 DEF DeltaInv, HeldBy
  <2>5. QED
    BY <2>1, <2>3, <2>4
<1>7. CASE ForwardClosed \/ ForwardCut
  <2>1. con' = con /\ fwd'.at = "closed"
    BY <1>7 DEF ForwardClosed, ForwardCut, ForwarderReturns
  <2>2. QED
    BY <1>1, <1>3, <1>4, <1>5, <2>1 DEF DeltaInv
<1>8. CASE ForwardIdle
  <2>1. con' = con /\ fwd.at = "select" /\ fwd'.at = "sendIdle" /\ fwd'.chunk.err = "idle"
    BY <1>8 DEF ForwardIdle, Final
  <2>2. QED
    BY <1>1, <1>3, <1>4, <1>5, <2>1 DEF DeltaInv, HeldBy
<1>9. QED
  BY <1>6, <1>7, <1>8 DEF Forwarder

(* The consumer takes a delta, the next one; or a verdict, after which no  *)
(* delta comes.                                                            *)
LEMMA ConsumerKeepsDeltas == DeltaInv /\ (Receive \/ ReceiveIdle) => DeltaInv'
<1> SUFFICES ASSUME DeltaInv, Receive \/ ReceiveIdle PROVE DeltaInv'
  OBVIOUS
<1>1. VerdictInv /\ VerdictInv'
  BY ForwarderKeepsVerdict DEF DeltaInv
<1>2. /\ fwd \in [at : {"off", "select", "send", "sendIdle", "closed"}, chunk : Chunks]
      /\ nextDelta \in Nat /\ got \in Seq(Chunks)
  BY <1>1 DEF VerdictInv, StreamType
<1>3. /\ got' = Append(got, fwd.chunk) /\ UNCHANGED <<call, body, con, nextDelta>>
      /\ \/ fwd.at = "send" /\ fwd'.at = "select"
         \/ fwd.at = "sendIdle" /\ fwd'.at = "closed"
  BY DEF Receive, ReceiveIdle
<1>4. Sound' = Sound /\ Connected' = Connected /\ con.at # "off" /\ fwd.chunk \in Chunks
  BY <1>2, <1>3 DEF Sound, call, Connected, DeltaInv
<1>5. /\ Len(got) \in Nat /\ Len(got') = Len(got) + 1 /\ DOMAIN got' = DOMAIN got \cup {Len(got) + 1}
      /\ DOMAIN got = 1..Len(got) /\ got'[Len(got) + 1] = fwd.chunk /\ \A i \in DOMAIN got : got'[i] = got[i]
      /\ Verdicts' = IF fwd.chunk.done THEN Verdicts \cup {Len(got) + 1} ELSE Verdicts
      /\ fwd.chunk.done => Text' = Text
  BY <1>2, <1>3, <1>4, Received
<1>6. CASE ~fwd.chunk.done
  <2>1. fwd.at = "send" /\ fwd'.at = "select" /\ fwd.chunk = Delta(Len(got) + 1)
    BY <1>1, <1>3, <1>6 DEF VerdictInv, DeltaInv
  <2>2. ~Told /\ Verdicts = {} /\ Verdicts' = {} /\ ~Told'
    BY <1>5, <1>6, <2>1 DEF DeltaInv, Told
  <2>3. \A i \in DOMAIN got' : got'[i].delta = i
    BY <1>5, <2>1, <2>2 DEF DeltaInv, Delta
  <2>4. /\ con.at \in {"off", "read", "drain", "send"} => nextDelta = Len(got') + HeldBy(con.at)
        /\ con.at = "verdict" /\ con.chunk.err = "none" => nextDelta = Len(got')
    <3>1. /\ con.at \in {"off", "read", "drain", "send"} => nextDelta = Len(got) + 1 + HeldBy(con.at)
          /\ con.at = "verdict" /\ con.chunk.err = "none" => nextDelta = Len(got) + 1
      BY <2>1, <2>2 DEF DeltaInv, HeldBy
    <3>2. QED
      BY <1>5, <3>1
  <2>5. HeldBy(fwd'.at) = 0 /\ HeldBy(con.at) \in Nat
    BY <2>1 DEF HeldBy
  <2>6. /\ body' = body /\ con' = con /\ nextDelta' = nextDelta /\ fwd'.at = "select" /\ con.at # "off"
        /\ Sound' = Sound /\ Connected' = Connected /\ Verdicts' = {} /\ ~Told'
    BY <1>3, <1>4, <2>1, <2>2
  <2>7. QED
    BY <1>1, <2>3, <2>4, <2>5, <2>6 DEF DeltaInv
<1>7. CASE fwd.chunk.done
  <2>1. Verdicts' = Verdicts \cup {Len(got) + 1} /\ Told' /\ Text' = Text
    BY <1>5, <1>7 DEF Told
  <2>2. con'.at = "closed" \/ fwd'.at = "closed"
    BY <1>3, <1>7 DEF DeltaInv
  <2>3. \A i \in DOMAIN got' \ Verdicts' : got'[i].delta = i
    BY <1>5, <2>1 DEF DeltaInv
  <2>4. \A i \in Verdicts', j \in DOMAIN got' : i < j => got'[j].done
    BY <1>5, <1>7, <2>1 DEF DeltaInv, Verdicts
  <2>5. fwd.chunk.err = "none" => Sound /\ Text = 1..body.sent
    <3> SUFFICES ASSUME fwd.chunk.err = "none" PROVE Sound /\ Text = 1..body.sent
      OBVIOUS
    <3>1. fwd.at = "send" /\ Sound /\ nextDelta = Len(got) /\ ~Told
      BY <1>3, <1>7 DEF DeltaInv
    <3>2. Verdicts = {} /\ body.sent = Len(got)
      BY <3>1 DEF Told, Sound
    <3>3. Text = {i : i \in DOMAIN got}
      BY <3>2 DEF DeltaInv, Text
    <3>4. QED
      BY <1>5, <3>1, <3>2, <3>3
  <2>6. ASSUME NEW i \in Verdicts', got'[i].err = "none" PROVE Sound' /\ Text' = 1..body'.sent
    <3>1. CASE i = Len(got) + 1
      BY <1>3, <1>4, <1>5, <2>1, <2>5, <2>6, <3>1
    <3>2. CASE i \in Verdicts
      <4>1. i \in DOMAIN got /\ got[i].err = "none"
        BY <1>5, <2>6, <3>2 DEF Verdicts
      <4>2. QED
        BY <1>3, <1>4, <2>1, <3>2, <4>1 DEF DeltaInv
    <3>3. QED
      BY <2>1, <3>1, <3>2
  <2>7. QED
    BY <1>1, <1>3, <1>4, <1>5, <2>1, <2>2, <2>3, <2>4, <2>6 DEF DeltaInv
<1>8. QED
  BY <1>6, <1>7

(* Every step keeps it.                                                    *)
LEMMA DeltasKeep == DeltaInv /\ [Next]_vars => DeltaInv'
<1> SUFFICES ASSUME DeltaInv, [Next]_vars PROVE DeltaInv'
  OBVIOUS
<1>1. CASE UNCHANGED <<call, stream>> /\ VerdictInv'
  BY <1>1 DEF DeltaInv, Sound, Told, Verdicts, Text, Connected, call, stream
<1>2. CASE UNCHANGED <<call, body, con, nextDelta, fwd, got>> /\ VerdictInv'
  BY <1>2 DEF DeltaInv, Sound, Told, Verdicts, Text, Connected, call
<1>3. CASE Cancel \/ Deadline \/ IdleFires \/ Over \/ UNCHANGED vars
  <2>1. VerdictInv'
    BY VerdictKeeps DEF DeltaInv
  <2>2. QED
    BY <1>1, <1>2, <1>3, <2>1 DEF Cancel, Deadline, IdleFires, Over, vars
<1>4. QED
  BY <1>3, CallKeepsDeltas, ProviderKeepsDeltas, ConnectorKeepsDeltas, ForwarderKeepsDeltas,
     ConsumerKeepsDeltas DEF Next, Environment

(* The deltas arrive in order, none is missing or late, and a verdict that *)
(* the reply is whole is true: for replies of any length.                  *)
THEOREM DeltasWhole == Spec => []NothingLostSilently
<1>1. DeltaInv => NothingLostSilently
  BY DEF DeltaInv, NothingLostSilently, Sound
<1>2. QED
  BY <1>1, DeltaStarts, DeltasKeep, PTL DEF Spec
=============================================================================
