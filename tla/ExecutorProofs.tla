--------------------------- MODULE ExecutorProofs ---------------------------
(***************************************************************************)
(* What holds of Executor for any number of helper processes, any capture  *)
(* limit and any amount of output.                                         *)
(***************************************************************************)
EXTENDS Executor, SequenceTheorems, TLAPS

-----------------------------------------------------------------------------
(* The capture buffer. *)

LEMMA LastOfType ==
  ASSUME NEW S, NEW s \in Seq(S), NEW n \in Nat \ {0}
  PROVE  /\ LastOf(s, n) \in Seq(S)
         /\ Len(LastOf(s, n)) = IF Len(s) > n THEN n ELSE Len(s)
         /\ \A k \in 1..Len(LastOf(s, n)) :
              LastOf(s, n)[k] = s[k + (Len(s) - Len(LastOf(s, n)))]
<1>1. Len(s) \in Nat /\ \A k \in 1..Len(s) : s[k] \in S
  BY LenProperties, ElementOfSeq
<1>2. CASE Len(s) > n
  <2> DEFINE m == Len(s) - n + 1
  <2>1. m \in Int /\ Len(s) \in Int /\ \A k \in m..Len(s) : s[k] \in S
    BY <1>1, <1>2
  <2>2. /\ SubSeq(s, m, Len(s)) \in Seq(S)
        /\ Len(SubSeq(s, m, Len(s))) = n
        /\ \A k \in 1..n : SubSeq(s, m, Len(s))[k] = s[m + k - 1]
    BY <1>1, <1>2, <2>1, SubSeqProperties
  <2>3. QED
    BY <1>1, <1>2, <2>2 DEF LastOf
<1>3. CASE ~(Len(s) > n)
  BY <1>1, <1>3 DEF LastOf
<1>4. QED
  BY <1>2, <1>3

LEMMA BytesType ==
  ASSUME NEW a \in Nat, NEW b \in Nat, a <= b, b <= MaxOutput
  PROVE  /\ Bytes(a, b) \in Seq(1..MaxOutput)
         /\ Len(Bytes(a, b)) = b - a
         /\ \A k \in 1..(b - a) : Bytes(a, b)[k] = a + k
<1>1. b - a \in Nat /\ \A k \in 1..(b - a) : a + k \in 1..MaxOutput
  BY ExecutorAssumption
<1>2. Bytes(a, b) \in [1..(b - a) -> 1..MaxOutput]
  BY <1>1 DEF Bytes
<1>3. Bytes(a, b) \in Seq(1..MaxOutput)
  BY <1>1, <1>2, SeqDef
<1>4. Len(Bytes(a, b)) = b - a
  BY <1>1, <1>2, <1>3, LenProperties
<1>5. QED
  BY <1>1, <1>3, <1>4 DEF Bytes

(* The tail of consecutive numbers is consecutive numbers. *)
LEMMA TailOfRow ==
  ASSUME NEW s \in Seq(1..MaxOutput), NEW d \in Nat,
         \A k \in 1..Len(s) : s[k] = k + d
  PROVE  LET tail == LastOf(s, Limit)
         IN  /\ tail \in Seq(1..MaxOutput)
             /\ Len(tail) \in Nat
             /\ Len(tail) = IF Len(s) > Limit THEN Limit ELSE Len(s)
             /\ \A k \in 1..Len(tail) : tail[k] = k + (d + (Len(s) - Len(tail)))
<1> DEFINE tail == LastOf(s, Limit)
<1>0. Limit \in Nat \ {0} /\ Len(s) \in Nat
  BY ExecutorAssumption, LenProperties
<1>1. /\ tail \in Seq(1..MaxOutput)
      /\ Len(tail) = IF Len(s) > Limit THEN Limit ELSE Len(s)
      /\ \A k \in 1..Len(tail) : tail[k] = s[k + (Len(s) - Len(tail))]
  BY <1>0, LastOfType
<1> HIDE DEF tail
<1>2. Len(tail) \in Nat /\ Len(tail) <= Len(s)
  BY <1>0, <1>1
<1>3. ASSUME NEW k \in 1..Len(tail)
      PROVE  tail[k] = k + (d + (Len(s) - Len(tail)))
  <2> DEFINE j == k + (Len(s) - Len(tail))
  <2>1. j \in 1..Len(s)
    BY <1>0, <1>2
  <2>2. s[j] = j + d
    BY <2>1
  <2>3. tail[k] = s[j]
    BY <1>1
  <2> HIDE DEF tail
  <2>4. j + d = k + (d + (Len(s) - Len(tail)))
    BY <1>0, <1>2
  <2>5. QED
    BY <2>2, <2>3, <2>4
<1>4. QED
  BY <1>1, <1>2, <1>3 DEF tail

(* Keeping the tail piece by piece keeps the tail of the whole. *)
LEMMA TailOfPieces ==
  ASSUME NEW a \in Nat, NEW b \in Nat, a < b, b <= MaxOutput
  PROVE  KeepTail(LastOf(Bytes(0, a), Limit), Bytes(a, b))
           = LastOf(Bytes(0, b), Limit)
<1> DEFINE old == LastOf(Bytes(0, a), Limit)
           more == Bytes(a, b)
           whole == old \o more
           left == LastOf(whole, Limit)
           right == LastOf(Bytes(0, b), Limit)
<1>0. Limit \in Nat \ {0} /\ a <= MaxOutput /\ MaxOutput \in Nat
  BY ExecutorAssumption
<1>a. ASSUME NEW c \in Nat, c <= MaxOutput
      PROVE  /\ Bytes(0, c) \in Seq(1..MaxOutput)
             /\ Len(Bytes(0, c)) = c
             /\ \A k \in 1..Len(Bytes(0, c)) : Bytes(0, c)[k] = k + 0
  <2> DEFINE bytes == Bytes(0, c)
  <2>1. /\ bytes \in Seq(1..MaxOutput)
        /\ Len(bytes) = c - 0
        /\ \A k \in 1..(c - 0) : bytes[k] = 0 + k
    <3>1. 0 \in Nat /\ 0 <= c
      OBVIOUS
    <3>2. QED
      BY <1>a, <3>1, BytesType
  <2> HIDE DEF bytes
  <2>2. Len(bytes) = c
    BY <2>1
  <2>3. \A k \in 1..c : bytes[k] = k + 0
    BY <2>1
  <2>4. /\ bytes \in Seq(1..MaxOutput)
        /\ Len(bytes) = c
        /\ \A k \in 1..Len(bytes) : bytes[k] = k + 0
    BY <2>1, <2>2, <2>3
  <2>5. QED
    BY <2>4 DEF bytes
<1>b. ASSUME NEW c \in Nat, c <= MaxOutput
      PROVE  LET tail == LastOf(Bytes(0, c), Limit)
             IN  /\ tail \in Seq(1..MaxOutput) /\ Len(tail) \in Nat
                 /\ Len(tail) = IF c > Limit THEN Limit ELSE c
                 /\ \A k \in 1..Len(tail) : tail[k] = k + (0 + (c - Len(tail)))
  <2>1. Bytes(0, c) \in Seq(1..MaxOutput) /\ Len(Bytes(0, c)) = c
    BY <1>a, <1>b
  <2>2. 0 \in Nat /\ \A k \in 1..Len(Bytes(0, c)) : Bytes(0, c)[k] = k + 0
    BY <1>a, <1>b
  <2> HIDE DEF Bytes
  <2>3. LET tail == LastOf(Bytes(0, c), Limit)
        IN  /\ tail \in Seq(1..MaxOutput) /\ Len(tail) \in Nat
            /\ Len(tail) = IF Len(Bytes(0, c)) > Limit THEN Limit
                                                     ELSE Len(Bytes(0, c))
            /\ \A k \in 1..Len(tail) :
                 tail[k] = k + (0 + (Len(Bytes(0, c)) - Len(tail)))
    BY <2>1, <2>2, TailOfRow
  <2>4. QED
    BY <2>1, <2>3
<1>1. /\ old \in Seq(1..MaxOutput) /\ Len(old) \in Nat
      /\ Len(old) = IF a > Limit THEN Limit ELSE a
      /\ \A k \in 1..Len(old) : old[k] = k + (0 + (a - Len(old)))
  BY <1>0, <1>b
<1>2. /\ more \in Seq(1..MaxOutput)
      /\ Len(more) = b - a
      /\ \A k \in 1..(b - a) : more[k] = a + k
  BY <1>0, BytesType
<1>3. /\ right \in Seq(1..MaxOutput) /\ Len(right) \in Nat
      /\ Len(right) = IF b > Limit THEN Limit ELSE b
      /\ \A k \in 1..Len(right) : right[k] = k + (0 + (b - Len(right)))
  BY <1>0, <1>b
<1> HIDE DEF old, more, right
<1>4. /\ whole \in Seq(1..MaxOutput)
      /\ Len(whole) = Len(old) + Len(more)
      /\ \A k \in 1..(Len(old) + Len(more)) :
           whole[k] = IF k <= Len(old) THEN old[k] ELSE more[k - Len(old)]
  BY <1>1, <1>2, ConcatProperties
<1> HIDE DEF whole
<1>5. a - Len(old) \in Nat /\ Len(whole) = Len(old) + (b - a)
  BY <1>0, <1>1, <1>2, <1>4
<1>6. ASSUME NEW k \in 1..Len(whole)
      PROVE  whole[k] = k + (a - Len(old))
  <2>1. k \in 1..(Len(old) + Len(more)) /\ k \in Nat
    BY <1>6, <1>4, <1>5, <1>1
  <2>2. CASE k <= Len(old)
    <3>1. whole[k] = old[k] /\ k \in 1..Len(old)
      BY <2>1, <2>2, <1>4, <1>1
    <3>2. QED
      BY <3>1, <1>1
  <2>3. CASE ~(k <= Len(old))
    <3>1. whole[k] = more[k - Len(old)]
      BY <2>1, <2>3, <1>4
    <3>2. k - Len(old) \in 1..(b - a)
      BY <2>1, <2>3, <1>1, <1>2
    <3>3. more[k - Len(old)] = a + (k - Len(old))
      BY <3>2, <1>2
    <3>4. QED
      BY <3>1, <3>3, <2>1, <1>1
  <2>4. QED
    BY <2>2, <2>3
<1>7. /\ left \in Seq(1..MaxOutput) /\ Len(left) \in Nat
      /\ Len(left) = IF Len(whole) > Limit THEN Limit ELSE Len(whole)
      /\ \A k \in 1..Len(left) :
           left[k] = k + ((a - Len(old)) + (Len(whole) - Len(left)))
  BY <1>4, <1>5, <1>6, TailOfRow
<1> HIDE DEF left
<1>8. Len(left) = Len(right)
  BY <1>0, <1>1, <1>3, <1>5, <1>7
<1>9. \A k \in 1..Len(left) : left[k] = right[k]
  <2>1. ASSUME NEW k \in 1..Len(left) PROVE left[k] = right[k]
    <3>1. left[k] = k + ((a - Len(old)) + (Len(whole) - Len(left)))
      BY <1>7
    <3>2. right[k] = k + (0 + (b - Len(right)))
      BY <1>3, <1>8
    <3>3. (a - Len(old)) + (Len(whole) - Len(left)) = 0 + (b - Len(right))
      <4>1. Len(old) \in Nat /\ Len(left) \in Nat /\ Len(left) = Len(right)
        BY <1>1, <1>7, <1>8
      <4>2. Len(whole) = Len(old) + (b - a)
        BY <1>5
      <4>3. QED
        BY <4>1, <4>2
    <3>4. QED
      BY <3>1, <3>2, <3>3
  <2>2. QED
    BY <2>1
<1>10. left = right
  BY <1>3, <1>7, <1>8, <1>9, SeqEqual
<1>11. QED
  BY <1>10 DEF KeepTail, left, whole, old, more, right

-----------------------------------------------------------------------------
(* Type correctness. *)

LEMMA TypeInit == Init => TypeOK
<1> SUFFICES ASSUME Init PROVE TypeOK
  OBVIOUS
<1>1. captured \in Seq(1..MaxOutput) /\ Len(captured) <= Limit
  BY ExecutorAssumption DEF Init
<1>2. result \in [exit : {-1, 0, 1}, timedOut : BOOLEAN, canceled : BOOLEAN]
  BY DEF Init, NoResult
<1>3. written \in 0..MaxOutput /\ copied \in 0..written
  BY ExecutorAssumption DEF Init
<1>4. QED
  BY <1>1, <1>2, <1>3 DEF Init, TypeOK

LEMMA TypeStep == TypeOK /\ [Next]_vars => TypeOK'
<1> SUFFICES ASSUME TypeOK, [Next]_vars PROVE TypeOK'
  OBVIOUS
<1> USE ExecutorAssumption
<1>1. ASSUME NEW h \in Helper, NEW p \in Process, Fork(p, h) PROVE TypeOK'
  BY <1>1 DEF Fork, TypeOK, run, output, Alive, Live, Process
<1>2. ASSUME NEW h \in Helper, HelperExits(h) PROVE TypeOK'
  BY <1>2 DEF HelperExits, TypeOK, run, output, Alive, Live, Process
<1>3. ASSUME NEW how \in {"ok", "fail", "signal"}, ShellExits(how) PROVE TypeOK'
  BY <1>3 DEF ShellExits, TypeOK, run, output, Alive, Live, Process
<1>4. CASE Write
  BY <1>4 DEF Write, TypeOK, run, Alive, Live
<1>5. CASE Cancel \/ Deadline
  BY <1>5, ZenonT(30) DEF Cancel, Deadline, TypeOK, run, output, Alive, Live
<1>6. CASE Copy
  <2>1. PICK n \in (copied + 1)..written :
          captured' = KeepTail(captured, Bytes(copied, n)) /\ copied' = n
    BY <1>6 DEF Copy
  <2>2. Bytes(copied, n) \in Seq(1..MaxOutput)
    BY <2>1, BytesType DEF TypeOK
  <2>3. captured \o Bytes(copied, n) \in Seq(1..MaxOutput)
    BY <2>2, ConcatProperties DEF TypeOK
  <2>4. captured' \in Seq(1..MaxOutput) /\ Len(captured') <= Limit
    <3>1. /\ captured' \in Seq(1..MaxOutput)
          /\ Len(captured') = LET s == captured \o Bytes(copied, n)
                              IN  IF Len(s) > Limit THEN Limit ELSE Len(s)
      BY <2>1, <2>3, LastOfType DEF KeepTail
    <3>2. Len(captured \o Bytes(copied, n)) \in Nat
      BY <2>3, LenProperties
    <3>3. QED
      BY <3>1, <3>2
  <2>5. copied' \in 0..written'
    BY <1>6, <2>1 DEF Copy, TypeOK
  <2>6. QED
    BY <1>6, <2>4, <2>5 DEF Copy, TypeOK, run, Alive, Live
<1>7. CASE CopyFails
  BY <1>7 DEF CopyFails, TypeOK, run, Alive, Live
<1>8. CASE Wait
  BY <1>8 DEF Wait, TypeOK, run, output, Alive, Live
<1>9. CASE StartFails
  BY <1>9 DEF StartFails, TypeOK, output, Alive, Live
<1>10. CASE Start
  BY <1>10 DEF Start, TypeOK, output, Alive, Live, Process
<1>11. CASE ReceiveExit
  BY <1>11 DEF ReceiveExit, Return, ExitCode, TypeOK, output, Alive, Live
<1>12. CASE ReceiveDone
  BY <1>12 DEF ReceiveDone, Killed, TypeOK, output, Alive, Live, Process
<1>13. CASE AwaitReap
  BY <1>13 DEF AwaitReap, TimedOut, Return, ExitCode, TypeOK, output, Alive, Live
<1>14. CASE UNCHANGED vars
  BY <1>14 DEF vars, run, output, TypeOK, Alive, Live
<1>15. QED
  BY <1>1, <1>2, <1>3, <1>4, <1>5, <1>6, <1>7, <1>8, <1>9, <1>10, <1>11,
     <1>12, <1>13, <1>14
     DEF Next, Idle

(* Every variable keeps its type: only live processes hold the pipe, no    *)
(* byte is copied before it is written, and the capture never exceeds its  *)
(* limit (executor.go: Run, capWriter).                                    *)
THEOREM TypeCorrect == Spec => []TypeOK
BY TypeInit, TypeStep, PTL DEF Spec

-----------------------------------------------------------------------------
(* The captured tail. *)

TailInv == captured = LastOf(Bytes(0, copied), Limit)

LEMMA TailStep == TypeOK /\ TailInv /\ [Next]_vars => TailInv'
<1> SUFFICES ASSUME TypeOK, TailInv, [Next]_vars PROVE TailInv'
  OBVIOUS
<1>1. CASE Copy
  <2>1. PICK n \in (copied + 1)..written :
          captured' = KeepTail(captured, Bytes(copied, n)) /\ copied' = n
    BY <1>1 DEF Copy
  <2>2. copied \in Nat /\ n \in Nat /\ copied < n /\ n <= MaxOutput
    BY <2>1, ExecutorAssumption DEF TypeOK
  <2>3. KeepTail(LastOf(Bytes(0, copied), Limit), Bytes(copied, n))
          = LastOf(Bytes(0, n), Limit)
    BY <2>2, TailOfPieces
  <2>4. QED
    BY <2>1, <2>3 DEF TailInv
<1>2. CASE UNCHANGED <<captured, copied>>
  BY <1>2 DEF TailInv
<1>3. QED
  BY <1>1, <1>2
     DEF Next, Fork, HelperExits, ShellExits, Write, Cancel, Deadline,
         CopyFails, Wait, StartFails, Start, ReceiveExit, ReceiveDone,
         AwaitReap, Return, Idle, vars, run, output

-----------------------------------------------------------------------------
(* The exit, the reaping and the end of the copying. *)

LEMMA ReapInit == Init => ReapInv
BY DEF Init, ReapInv, ZeroIsSuccess, NoResult

LEMMA ReapStep == TypeOK /\ ReapInv /\ [Next]_vars => ReapInv'
<1> SUFFICES ASSUME TypeOK, ReapInv, [Next]_vars PROVE ReapInv'
  OBVIOUS
<1> USE ExecutorAssumption DEF ReapInv, CopyingOver, ZeroIsSuccess, NoResult
<1>1. ASSUME NEW h \in Helper, NEW p \in Process, Fork(p, h) PROVE ReapInv'
  <2>1. proc'["sh"] = proc["sh"] /\ pc # "start"
    BY <1>1 DEF Fork, TypeOK, Live, Process
  <2>2. piped = {} => piped' = {}
    BY <1>1 DEF Fork
  <2>3. QED
    BY <1>1, <2>1, <2>2 DEF Fork, run, output
<1>2. ASSUME NEW h \in Helper, HelperExits(h) PROVE ReapInv'
  <2>1. proc'["sh"] = proc["sh"] /\ pc # "start"
    BY <1>2 DEF HelperExits, TypeOK, Live, Process
  <2>2. QED
    BY <1>2, <2>1 DEF HelperExits, run, output
<1>3. ASSUME NEW how \in {"ok", "fail", "signal"}, ShellExits(how) PROVE ReapInv'
  <2>1. exit = "none" /\ pc # "start" /\ waitDone = "empty" /\ pc # "returned"
    BY <1>3 DEF ShellExits, TypeOK, Live, Process
  <2>2. proc'["sh"] = "dead"
    BY <1>3 DEF ShellExits, TypeOK, Process
  <2>3. QED
    BY <1>3, <2>1, <2>2 DEF ShellExits, run, output
<1>4. CASE Write
  BY <1>4 DEF Write, run
<1>5. CASE Cancel \/ Deadline
  BY <1>5 DEF Cancel, Deadline, run, output
<1>6. CASE Copy
  <2>1. copied < written
    BY <1>6 DEF Copy, TypeOK
  <2>2. ~copyFailed /\ ~CopyingOver
    BY <1>6, <2>1 DEF Copy, TypeOK
  <2>3. QED
    BY <1>6, <2>2 DEF Copy, run
<1>7. CASE CopyFails
  <2>1. ~CopyingOver
    BY <1>7 DEF CopyFails, TypeOK
  <2>2. QED
    BY <1>7, <2>1 DEF CopyFails, run
<1>8. CASE Wait
  BY <1>8 DEF Wait, Drained, run, output, TypeOK
<1>9. CASE StartFails
  BY <1>9 DEF StartFails, output, TypeOK
<1>10. CASE Start
  <2>1. proc'["sh"] = "group" /\ exit' = "none"
    BY <1>10 DEF Start, TypeOK, Process
  <2>2. QED
    BY <1>10, <2>1 DEF Start, output, TypeOK
<1>11. CASE ReceiveExit
  BY <1>11 DEF ReceiveExit, Return, ExitCode, output, TypeOK
<1>12. CASE ReceiveDone
  <2>1. proc'["sh"] = "dead"
    BY <1>12 DEF ReceiveDone, Killed, TypeOK, Process
  <2>2. pc = "select" /\ pc' = "kill"
    BY <1>12 DEF ReceiveDone
  <2>3. QED
    BY <1>12, <2>1, <2>2 DEF ReceiveDone, output, TypeOK
<1>13. CASE AwaitReap
  BY <1>13 DEF AwaitReap, Return, ExitCode, output, TypeOK
<1>14. CASE UNCHANGED vars
  BY <1>14 DEF vars, run, output
<1>15. QED
  BY <1>1, <1>2, <1>3, <1>4, <1>5, <1>6, <1>7, <1>8, <1>9, <1>10, <1>11,
     <1>12, <1>13, <1>14
     DEF Next, Idle

(* Exit code 0 is the shell's own, and none of its output was lost: the    *)
(* runner takes 0 for success (executor.go: Run, extractExitCode).         *)
THEOREM ZeroHolds == Spec => []ZeroIsSuccess
<1>1. ReapInv => ZeroIsSuccess
  BY DEF ReapInv
<1>2. QED
  BY <1>1, ReapInit, ReapStep, TypeCorrect, PTL DEF Spec

(* The Result carries the last Limit bytes of what reached the pipe, and   *)
(* misses nothing unless the live writer failed (executor.go: capWriter).  *)
THEOREM TailHolds == Spec => []TailComplete
<1>1. Init => TailInv
  <2>1. Bytes(0, 0) = <<>>
    BY DEF Bytes
  <2>2. LastOf(<<>>, Limit) = <<>>
    BY ExecutorAssumption DEF LastOf
  <2>3. QED
    BY <2>1, <2>2 DEF Init, TailInv
<1>2. TailInv /\ ReapInv => TailComplete
  BY DEF TailInv, ReapInv, TailComplete, CopyingOver
<1>3. QED
  BY <1>1, <1>2, TailStep, ReapInit, ReapStep, TypeCorrect, PTL DEF Spec

-----------------------------------------------------------------------------
(* The kill and the flags. *)

LEMMA KillInit == Init => KillInv
BY DEF Init, KillInv, FlagsHonest, NoResult

LEMMA KillStep == TypeOK /\ ReapInv /\ KillInv /\ [Next]_vars => KillInv'
<1> SUFFICES ASSUME TypeOK, ReapInv, KillInv, [Next]_vars PROVE KillInv'
  OBVIOUS
<1> USE ExecutorAssumption DEF KillInv, FlagsHonest
<1>1. ASSUME NEW h \in Helper, NEW p \in Process, Fork(p, h) PROVE KillInv'
  <2>1. ASSUME GroupDead PROVE GroupDead'
    BY <1>1, <2>1 DEF Fork, run, TypeOK, Live, Process, GroupDead
  <2>2. QED
    BY <1>1, <2>1 DEF Fork, run
<1>2. ASSUME NEW h \in Helper, HelperExits(h) PROVE KillInv'
  <2>1. ASSUME GroupDead PROVE GroupDead'
    BY <1>2, <2>1 DEF HelperExits, run, TypeOK, Process, GroupDead
  <2>2. QED
    BY <1>2, <2>1 DEF HelperExits, run
<1>3. ASSUME NEW how \in {"ok", "fail", "signal"}, ShellExits(how) PROVE KillInv'
  <2>1. ASSUME GroupDead PROVE GroupDead'
    BY <1>3, <2>1 DEF ShellExits, run, TypeOK, Process, GroupDead
  <2>2. QED
    BY <1>3, <2>1 DEF ShellExits, run
<1>4. ASSUME UNCHANGED <<run, ctx, doneBy, proc>> PROVE KillInv'
  BY <1>4 DEF run, GroupDead
<1>5. CASE Write \/ Copy \/ CopyFails \/ Wait
  BY <1>4, <1>5 DEF Write, Copy, CopyFails, Wait
<1>6. CASE Cancel \/ Deadline
  <2>1. result = NoResult
    BY <1>6 DEF Cancel, Deadline, ReapInv
  <2>2. ~result.canceled /\ ~result.timedOut
    BY <2>1 DEF NoResult
  <2>3. QED
    BY <1>6, <2>2 DEF Cancel, Deadline, run, GroupDead
<1>7. CASE StartFails \/ Start
  <2>1. result = NoResult
    BY <1>7 DEF StartFails, Start, ReapInv
  <2>2. ~result.canceled /\ ~result.timedOut
    BY <2>1 DEF NoResult
  <2>3. QED
    BY <1>7, <2>2 DEF StartFails, Start
<1>8. CASE ReceiveExit
  BY <1>8 DEF ReceiveExit, Return
<1>9. CASE ReceiveDone
  <2>1. GroupDead'
    BY <1>9 DEF ReceiveDone, Killed, GroupDead, TypeOK
  <2>2. QED
    BY <1>9, <2>1 DEF ReceiveDone, ReapInv, NoResult
<1>10. CASE AwaitReap
  <2>1. GroupDead'
    BY <1>10 DEF AwaitReap, Return, GroupDead
  <2>2. doneBy \in {"deadline", "cancel"}
    BY <1>10 DEF AwaitReap, TypeOK
  <2>3. TimedOut => timeout /\ ~ctx
    BY DEF TimedOut
  <2>4. ~TimedOut => ctx
    BY <2>2 DEF TimedOut
  <2>5. /\ result'.timedOut = TimedOut /\ result'.canceled = ~TimedOut
        /\ pc' = "returned"
        /\ UNCHANGED <<ctx, doneBy, timeout>>
    BY <1>10 DEF AwaitReap, Return
  <2>6. QED
    BY <2>1, <2>3, <2>4, <2>5
<1>11. CASE UNCHANGED vars
  BY <1>4, <1>11 DEF vars, run
<1>12. QED
  BY <1>1, <1>2, <1>3, <1>5, <1>6, <1>7, <1>8, <1>9, <1>10, <1>11
     DEF Next, Idle

(* A timeout or a cancellation leaves no process of the group alive behind *)
(* the Result, on Unix (executor_unix.go: killProcessGroup).               *)
THEOREM GroupKilled == Spec => []NoSurvivor
<1>1. KillInv => NoSurvivor
  BY DEF KillInv, NoSurvivor, GroupDead
<1>2. QED
  BY <1>1, KillInit, KillStep, ReapInit, ReapStep, TypeCorrect, PTL DEF Spec

(* Canceled is only said of a canceled context, TimedOut only of one that  *)
(* was not, and never both (executor.go: Run).                             *)
THEOREM FlagsHold == Spec => []FlagsHonest
<1>1. KillInv => FlagsHonest
  BY DEF KillInv
<1>2. QED
  BY <1>1, KillInit, KillStep, ReapInit, ReapStep, TypeCorrect, PTL DEF Spec

=============================================================================
