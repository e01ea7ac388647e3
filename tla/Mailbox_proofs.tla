--------------------------- MODULE Mailbox_proofs ---------------------------
(***************************************************************************)
(* The mailbox keeps RequestReply's promise for any set of requests and any *)
(* number of doorbells, time-outs and restarts.  The argument: doorbells    *)
(* are never reused, so `done = seq` while the host waits can only mean     *)
(* that the firmware saw this very doorbell, and the doorbell is rung only  *)
(* once the whole request is in place.                                      *)
(***************************************************************************)
EXTENDS Mailbox, TLAPS

InHand == <<cur, cur>>

(* A request is in hand exactly while the bridge is not idle.                 *)
Asked ==
  /\ host # "idle" => cur \in Requests /\ answer = None
  /\ host \in {"write1", "write2", "ring"} => seq < MaxSeq
  /\ host \in {"wait", "read1", "read2"} => seq > 0

(* The firmware works on a doorbell it has not answered.                      *)
Unanswered == fw # "poll" => done < bell /\ bell <= doorbell

(* Once rung, the request is whole, unless the firmware's restart cleared it.  *)
RequestInPlace ==
  /\ host = "write2" => request[1] \in {cur, None}
  /\ host = "ring" \/ (host = "wait" /\ doorbell = seq)
       => request[1] = None \/ request = InHand

(* What the firmware has copied and written so far for the current doorbell.  *)
WorkInHand ==
  host = "wait" /\ fw # "poll" /\ bell = seq =>
    /\ fw = "copy2" => buf[1] = request[1]
    /\ fw = "judge" => buf = request
    /\ fw \in {"reply1", "reply2"} => buf = InHand
    /\ fw = "reply2" => reply[1] = cur
    /\ fw = "serve" => reply = InHand
    /\ fw = "finish" => silent \/ reply = InHand

(* `done` catching up with seq means the reply is the one to hand on.          *)
ReplyInHand ==
  /\ host = "wait" /\ done = seq => silent \/ reply = InHand
  /\ host \in {"read1", "read2"} => done = seq /\ reply = InHand
  /\ host = "read2" => got[1] = cur
  /\ host = "send" => got = InHand

IInv == TypeOK /\ Asked /\ Unanswered /\ RequestInPlace /\ WorkInHand /\ ReplyInHand
-----------------------------------------------------------------------------
LEMMA InitOK == Init => IInv
<1> SUFFICES ASSUME Init PROVE IInv
  OBVIOUS
<1>1. TypeOK
  <2>1. silent \in BOOLEAN
    BY DEF Init
  <2> QED BY <2>1, MailboxAssumption DEF Init, TypeOK, Halves, Blank
<1>2. Asked /\ Unanswered /\ RequestInPlace /\ WorkInHand /\ ReplyInHand
  BY MailboxAssumption DEF Init, Asked, Unanswered, RequestInPlace, WorkInHand, ReplyInHand
<1> QED BY <1>1, <1>2 DEF IInv

LEMMA StepOK == IInv /\ [Next]_vars => IInv'
<1> SUFFICES ASSUME IInv, [Next]_vars PROVE IInv'
  OBVIOUS
<1> USE MailboxAssumption DEF IInv, TypeOK, Asked, Unanswered, RequestInPlace, WorkInHand,
        ReplyInHand, InHand, Halves, Blank, mailbox, bridge, task
<1>1. CASE RecvFrom
  BY <1>1 DEF RecvFrom
<1>2. CASE WriteRequest
  BY <1>2 DEF WriteRequest
<1>3. CASE Ring
  BY <1>3 DEF Ring, NextSeq
<1>4. CASE SeeDone
  BY <1>4 DEF SeeDone
<1>5. CASE TimeOut
  BY <1>5 DEF TimeOut
<1>6. CASE ProbeFails
  BY <1>6 DEF ProbeFails, NextSeq
<1>7. CASE ReadReply
  BY <1>7 DEF ReadReply
<1>8. CASE SendTo
  BY <1>8 DEF SendTo
<1>9. CASE BridgeRestart
  BY <1>9 DEF BridgeRestart, ResumeSeq
<1>10. CASE See
  BY <1>10 DEF See
<1>11. CASE CopyRequest
  BY <1>11 DEF CopyRequest
<1>12. CASE Judge
  BY <1>12 DEF Judge
<1>13. CASE WriteReply
  BY <1>13 DEF WriteReply
<1>14. CASE WriteSilent
  <2>1. silent' \in BOOLEAN
    BY <1>14 DEF WriteSilent
  <2>2. TypeOK'
    BY <1>14, <2>1 DEF WriteSilent
  <2>3. WorkInHand'
    <3>1. CASE fw = "serve"
      BY <1>14, <3>1 DEF WriteSilent
    <3>2. CASE fw = "decline"
      <4>1. silent'
        BY <1>14, <3>2 DEF WriteSilent
      <4> QED BY <1>14, <3>2, <4>1 DEF WriteSilent
    <3> QED BY <1>14, <3>1, <3>2 DEF WriteSilent
  <2>4. ReplyInHand'
    <3>1. ~(host = "wait" /\ done = seq)
      BY <1>14 DEF WriteSilent
    <3> QED BY <1>14, <3>1 DEF WriteSilent
  <2>5. Asked' /\ Unanswered' /\ RequestInPlace'
    BY <1>14 DEF WriteSilent
  <2> QED BY <2>2, <2>3, <2>4, <2>5
<1>15. CASE Finish
  BY <1>15 DEF Finish, Finished
<1>16. CASE FirmwareRestart
  <2>1. silent' \in BOOLEAN
    BY <1>16 DEF FirmwareRestart
  <2>2. TypeOK'
    BY <1>16, <2>1 DEF FirmwareRestart
  <2>3. Asked' /\ Unanswered' /\ RequestInPlace' /\ WorkInHand' /\ ReplyInHand'
    BY <1>16 DEF FirmwareRestart
  <2> QED BY <2>2, <2>3
<1>17. CASE UNCHANGED vars
  BY <1>17 DEF vars
<1> QED
  BY <1>1, <1>2, <1>3, <1>4, <1>5, <1>6, <1>7, <1>8, <1>9, <1>10, <1>11, <1>12, <1>13,
     <1>14, <1>15, <1>16, <1>17 DEF Next, Bridge, Firmware

(* Every reachable state of bridge, mailbox and task satisfies the invariant.  *)
THEOREM MailboxInvariant == Spec => []IInv
BY InitOK, StepOK, PTL DEF Spec

(* Types and the order of the counters, for any number of doorbells.           *)
THEOREM MailboxTypeCorrect == Spec => []TypeOK
<1>1. IInv => TypeOK
  BY DEF IInv
<1> QED BY MailboxInvariant, <1>1, PTL
-----------------------------------------------------------------------------
AskedNow == IF host = "idle" THEN None ELSE cur

LEMMA InitMaps == Init => RR!Init
BY DEF Init, RR!Init

(* Receiving asks, sending replies, the ways out without a reply give up, and  *)
(* every other step is invisible to the client.                                *)
LEMMA StepMaps == IInv /\ [Next]_vars => [RR!Next]_<<AskedNow, answer>>
<1> SUFFICES ASSUME IInv, [Next]_vars
             PROVE RR!Ask \/ RR!Reply \/ RR!GiveUp \/ UNCHANGED <<AskedNow, answer>>
  BY DEF RR!Next
<1>1. host # "idle" => AskedNow = cur /\ cur # None
  BY MailboxAssumption DEF IInv, Asked, AskedNow
<1>2. host = "idle" => AskedNow = None
  BY DEF AskedNow
<1>3. CASE RecvFrom
  <2>1. AskedNow' \in Requests /\ answer' = None
    BY <1>3 DEF RecvFrom, AskedNow
  <2>2. RR!Ask
    BY <1>2, <1>3, <2>1 DEF RecvFrom, RR!Ask, AskedNow
  <2> QED BY <2>2
<1>4. CASE WriteRequest \/ Ring \/ ReadReply
  BY <1>4 DEF WriteRequest, Ring, ReadReply, AskedNow
<1>5. CASE SeeDone \/ TimeOut \/ ProbeFails
  <2>1. answer = None
    BY <1>5 DEF IInv, Asked, SeeDone, TimeOut, ProbeFails
  <2>2. CASE host' = "idle"
    BY <1>1, <1>5, <2>1, <2>2 DEF SeeDone, TimeOut, ProbeFails, RR!GiveUp, AskedNow
  <2>3. CASE host' # "idle"
    BY <1>5, <2>3 DEF SeeDone, TimeOut, ProbeFails, AskedNow
  <2> QED BY <2>2, <2>3
<1>6. CASE SendTo
  BY <1>1, <1>6 DEF IInv, ReplyInHand, InHand, SendTo, RR!Reply, AskedNow
<1>7. CASE BridgeRestart
  <2>1. CASE host = "idle"
    BY <1>7, <2>1 DEF BridgeRestart, AskedNow
  <2>2. CASE host # "idle"
    BY <1>1, <1>7, <2>2 DEF BridgeRestart, RR!GiveUp, AskedNow
  <2> QED BY <2>1, <2>2
<1>8. CASE Firmware \/ FirmwareRestart
  BY <1>8 DEF Firmware, See, CopyRequest, Judge, WriteReply, WriteSilent, Finish,
     FirmwareRestart, bridge, AskedNow
<1>9. CASE UNCHANGED vars
  BY <1>9 DEF vars, bridge, AskedNow
<1> QED BY <1>3, <1>4, <1>5, <1>6, <1>7, <1>8, <1>9 DEF Next, Bridge

(* The mailbox, with all its time-outs, late answers and restarts, implements  *)
(* the bridge's promise: a reply that is sent answers the request in hand.      *)
THEOREM MailboxImplements == Spec => Implements
<1>1. IInv /\ [Next]_vars => [RR!Next]_<<IF host = "idle" THEN None ELSE cur, answer>>
  BY StepMaps DEF AskedNow
<1> QED BY InitMaps, MailboxInvariant, <1>1, PTL DEF Spec, Implements, RR!Spec
=============================================================================
