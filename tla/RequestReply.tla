---------------------------- MODULE RequestReply ----------------------------
(***************************************************************************)
(* What the SWD bridge promises an NTP client: one request is in hand at a  *)
(* time, and it ends with a reply made to that request, or with none.       *)
(***************************************************************************)
CONSTANTS Requests, None

VARIABLES
  asked,   \* the request in hand, or None
  answer   \* the two halves of the last reply sent, or None

Init == asked = None /\ answer = None

Ask == asked = None /\ asked' \in Requests /\ answer' = None

Reply == asked # None /\ asked' = None /\ answer' = <<asked, asked>>

\* the firmware stays silent, the bridge times out, the probe fails, one restarts
GiveUp == asked # None /\ asked' = None /\ answer' = None

Next == Ask \/ Reply \/ GiveUp

Spec == Init /\ [][Next]_<<asked, answer>>
=============================================================================
