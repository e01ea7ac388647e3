------------------------------ MODULE Mailbox ------------------------------
(***************************************************************************)
(* The SWD mailbox: swd-ntp-bridge on the host writes an NTP request into   *)
(* the target's RAM through the debug probe and rings the doorbell;         *)
(* swd_rx_task polls, answers and sets `done`.  Neither side can hold the   *)
(* other off: the host gives up after ANSWER_TIMEOUT and goes on to the     *)
(* next request while the firmware may still be at work on the last.        *)
(*                                                                          *)
(* A packet is copied byte by byte; two halves, each naming the request it  *)
(* belongs to, are enough to tell a torn packet from a whole one.  The      *)
(* timestamps in the mailbox (logged by the bridge, never sent) and the     *)
(* reason for a silence are left out.                                       *)
(***************************************************************************)
EXTENDS Integers

CONSTANTS
  Requests,  \* what clients send
  None,      \* a half that holds no request: RAM after a restart
  MaxSeq,    \* bound: doorbells rung
  MaxRestarts \* bound: restarts of the bridge and of the firmware

ASSUME MailboxAssumption ==
  None \notin Requests /\ MaxSeq \in Nat \ {0} /\ MaxRestarts \in Nat

VARIABLES
  request, doorbell,       \* mailbox fields the host writes
  reply, silent, done,     \* mailbox fields the firmware writes
  host, cur, seq, got,     \* exchange: where it is, its request, seq, reply read so far
  fw, bell, buf,           \* swd_rx_task: where it is, the doorbell it saw, buf
  answer,                  \* history: the last reply the bridge sent, or None
  restarts                 \* restarts so far

mailbox == <<request, doorbell, reply, silent, done>>
bridge == <<host, cur, seq, got, answer>>
task == <<fw, bell, buf>>
vars == <<mailbox, bridge, task, restarts>>

Blank == <<None, None>>
-----------------------------------------------------------------------------
(* exchange, on the host.                                                     *)

RecvFrom ==
  /\ host = "idle" /\ seq < MaxSeq
  /\ cur' \in Requests
  /\ host' = "write1" /\ got' = Blank /\ answer' = None
  /\ UNCHANGED <<mailbox, seq, task, restarts>>

WriteRequest ==
  /\ \/ host = "write1" /\ host' = "write2" /\ request' = <<cur, request[2]>>
     \/ host = "write2" /\ host' = "ring" /\ request' = <<request[1], cur>>
  /\ UNCHANGED <<doorbell, reply, silent, done, cur, seq, got, answer, task, restarts>>

NextSeq == seq + 1

Ring ==
  /\ host = "ring" /\ host' = "wait"
  /\ seq' = NextSeq /\ doorbell' = NextSeq
  /\ UNCHANGED <<request, reply, silent, done, cur, got, answer, task, restarts>>

\* done matches; a reason to be silent ends the exchange
SeeDone ==
  /\ host = "wait" /\ done = seq
  /\ host' = IF silent THEN "idle" ELSE "read1"
  /\ UNCHANGED <<mailbox, cur, seq, got, answer, task, restarts>>

TimeOut ==
  /\ host = "wait" /\ done # seq
  /\ host' = "idle"
  /\ UNCHANGED <<mailbox, cur, seq, got, answer, task, restarts>>

(* A probe access that fails ends the exchange wherever it is: the request may *)
(* be half written, and seq one on from a doorbell that was never rung.         *)
ProbeFails ==
  /\ host \in {"write1", "write2", "ring", "wait", "read1", "read2"}
  /\ host' = "idle" /\ seq' = IF host = "ring" THEN NextSeq ELSE seq
  /\ UNCHANGED <<mailbox, cur, got, answer, task, restarts>>

ReadReply ==
  /\ \/ host = "read1" /\ host' = "read2" /\ got' = <<reply[1], got[2]>>
     \/ host = "read2" /\ host' = "send" /\ got' = <<got[1], reply[2]>>
  /\ UNCHANGED <<mailbox, cur, seq, answer, task, restarts>>

SendTo ==
  /\ host = "send" /\ host' = "idle"
  /\ answer' = got
  /\ UNCHANGED <<mailbox, cur, seq, got, task, restarts>>

\* the doorbell found in the mailbox
ResumeSeq == doorbell

(* The bridge starts over; the client it owed a reply gets none.               *)
BridgeRestart ==
  /\ restarts < MaxRestarts /\ restarts' = restarts + 1
  /\ host' = "idle" /\ seq' = ResumeSeq /\ got' = Blank
  /\ answer' = IF host = "idle" THEN answer ELSE None
  /\ UNCHANGED <<mailbox, cur, task>>
-----------------------------------------------------------------------------
(* swd_rx_task.                                                               *)

See ==
  /\ fw = "poll" /\ doorbell # done
  /\ fw' = "copy1" /\ bell' = doorbell
  /\ UNCHANGED <<mailbox, bridge, buf, restarts>>

CopyRequest ==
  /\ \/ fw = "copy1" /\ fw' = "copy2" /\ buf' = <<request[1], buf[2]>>
     \/ fw = "copy2" /\ fw' = "judge" /\ buf' = <<buf[1], request[2]>>
  /\ UNCHANGED <<mailbox, bridge, bell, restarts>>

\* mutant: a request that is not served is dropped without a word
JudgeSkips ==
  /\ fw = "judge" /\ fw' \in {"reply1", "poll"}
  /\ UNCHANGED <<mailbox, bridge, bell, buf, restarts>>

\* decode and respond: serve or stay silent.  The mode is in the first byte,
\* and cleared RAM is not a client's request.
Judge ==
  /\ fw = "judge"
  /\ fw' \in IF buf[1] = None THEN {"decline"} ELSE {"reply1", "decline"}
  /\ UNCHANGED <<mailbox, bridge, bell, buf, restarts>>

WriteReply ==
  /\ \/ fw = "reply1" /\ fw' = "reply2" /\ reply' = <<buf[1], reply[2]>>
     \/ fw = "reply2" /\ fw' = "serve" /\ reply' = <<reply[1], buf[2]>>
  /\ UNCHANGED <<request, doorbell, silent, done, bridge, bell, buf, restarts>>

WriteSilent ==
  /\ \/ fw = "serve" /\ silent' = FALSE
     \/ fw = "decline" /\ silent' = TRUE
  /\ fw' = "finish"
  /\ UNCHANGED <<request, doorbell, reply, done, bridge, bell, buf, restarts>>

\* mutant: `done` is set to the doorbell of the moment
FinishedLatest == doorbell

Finished == bell

Finish ==
  /\ fw = "finish" /\ fw' = "poll"
  /\ done' = Finished
  /\ UNCHANGED <<request, doorbell, reply, silent, bridge, bell, buf, restarts>>

(* The firmware reboots and its RAM is cleared; not within the few probe      *)
(* reads between seeing `done` and the end of the reply.                       *)
FirmwareRestart ==
  /\ restarts < MaxRestarts /\ restarts' = restarts + 1
  /\ host \notin {"read1", "read2"}
  /\ request' = Blank /\ doorbell' = 0 /\ reply' = Blank /\ silent' = FALSE /\ done' = 0
  /\ fw' = "poll" /\ bell' = 0 /\ buf' = Blank
  /\ UNCHANGED bridge
-----------------------------------------------------------------------------
Init ==
  /\ request = Blank /\ doorbell = 0 /\ reply = Blank /\ silent = FALSE /\ done = 0
  /\ host = "idle" /\ cur = None /\ seq = 0 /\ got = Blank /\ answer = None
  /\ fw = "poll" /\ bell = 0 /\ buf = Blank
  /\ restarts = 0

Bridge ==
  \/ RecvFrom \/ WriteRequest \/ Ring \/ SeeDone \/ TimeOut \/ ProbeFails
  \/ ReadReply \/ SendTo
Firmware == See \/ CopyRequest \/ Judge \/ WriteReply \/ WriteSilent \/ Finish
Next == Bridge \/ BridgeRestart \/ Firmware \/ FirmwareRestart

Spec == Init /\ [][Next]_vars

(* The firmware's task keeps being scheduled.                                 *)
FairSpec == Spec /\ WF_vars(Firmware)
-----------------------------------------------------------------------------
Halves == Requests \cup {None}

TypeOK ==
  /\ request \in Halves \X Halves /\ reply \in Halves \X Halves
  /\ got \in Halves \X Halves /\ buf \in Halves \X Halves
  /\ doorbell \in 0 .. MaxSeq /\ done \in 0 .. MaxSeq /\ seq \in 0 .. MaxSeq /\ bell \in 0 .. MaxSeq
  /\ done <= doorbell /\ doorbell <= seq
  /\ silent \in BOOLEAN /\ cur \in Halves
  /\ answer \in (Halves \X Halves) \cup {None}
  /\ host \in {"idle", "write1", "write2", "ring", "wait", "read1", "read2", "send"}
  /\ fw \in {"poll", "copy1", "copy2", "judge", "reply1", "reply2", "serve", "decline", "finish"}
  /\ restarts \in 0 .. MaxRestarts

(* The bridge keeps the promise of RequestReply: a reply that is sent is whole *)
(* and answers the request in hand, never an earlier one that timed out and    *)
(* never half of two.                                                          *)
RR == INSTANCE RequestReply WITH asked <- IF host = "idle" THEN None ELSE cur
Implements == RR!Spec

(* No doorbell is lost: one that is not rung over is answered, however late.  *)
BellAnswered == \A s \in 1 .. MaxSeq : doorbell = s ~> (done = s \/ doorbell # s)
=============================================================================
