--------------------------- MODULE BootCalibration ---------------------------
(***************************************************************************)
(* The boot-time calibration of K, the constant offset between the counters *)
(* of SM0 and SM2: both watch the receiver's pin, their FIFOs are drained,  *)
(* and a few pairs of captures are taken.  A pair is right when both halves *)
(* are captures of the same edge.  K is the mean of the pairs' differences, *)
(* so a run of pairs that are one edge apart puts K off by one second.      *)
(*                                                                         *)
(* Readings are in ticks, unwrapped, with K = 0 the offset to be found.  SM2 *)
(* samples the pin a cycle after SM0 or before it, and so may count the      *)
(* same edge a tick later.                                                  *)
(***************************************************************************)
EXTENDS Integers, Sequences

CONSTANTS
  Attempts,    \* attempts before the last K is used as it is
  Samples,     \* pairs taken in an attempt
  Enough,      \* pairs an attempt needs to be clean
  Intervals,   \* ticks from one edge of the receiver to the next
  Varies,      \* ticks by which an interval differs from the next, 0 if it need not
  MaxRaces,    \* bound: edges that fall between the two drains
  MaxTimeouts  \* bound: waits of 30 s without an edge

ASSUME CalibrationAssumption ==
  /\ Attempts \in Nat \ {0} /\ Samples \in Nat \ {0} /\ Enough \in 2 .. Samples
  /\ Intervals \subseteq Nat /\ Varies \in Nat /\ MaxRaces \in Nat /\ MaxTimeouts \in Nat

VARIABLES
  ticks,     \* SM0's reading of the receiver's last edge
  interval,  \* ticks from the edge before to that one
  fifo0,     \* RX FIFO of SM0: readings, oldest first
  fifo2,     \* RX FIFO of SM2
  bootPc,    \* "drain0", "drain2", "c0", "c2", "done"
  attempt,   \* attempt number, from 0
  c0,        \* the half of a pair in hand
  samples,   \* the difference c0 - c2 of every pair taken
  phaseK, k_n, \* the calibrated offset and the pairs behind it, none at first
  k_clean,
  races, timeouts, \* disturbances so far
  raced,     \* history: an edge fell between the drains of this attempt
  tainted    \* history: and of the attempt K is from

calibrated == <<phaseK, k_n, k_clean>>
bootVars == <<ticks, interval, fifo0, fifo2, bootPc, attempt, c0, samples, calibrated,
              races, timeouts, raced, tainted>>

Apart(x, y) == IF x < y THEN y - x ELSE x - y
-----------------------------------------------------------------------------
(* Both state machines capture an edge.  The task is awake well within a       *)
(* second, so edges come while it waits, before it drains or, rarely, between  *)
(* the two drains.                                                             *)
Edge ==
  /\ \/ bootPc = "c0" /\ fifo0 = <<>> /\ UNCHANGED <<races, raced>>
     \/ bootPc \in {"c2", "drain0"} /\ fifo2 = <<>> /\ UNCHANGED <<races, raced>>
     \/ bootPc = "drain2" /\ fifo2 = <<>> /\ races < MaxRaces
        /\ races' = races + 1 /\ raced' = TRUE
  /\ interval' \in {i \in Intervals : Apart(i, interval) >= Varies}
  /\ ticks' = ticks + interval'
  /\ fifo0' = Append(fifo0, ticks')
  /\ \E late \in 0 .. 1 : fifo2' = Append(fifo2, ticks' + late)
  /\ UNCHANGED <<bootPc, attempt, c0, samples, calibrated, timeouts, tainted>>

\* mutant: what SM0 captured before SM2 ran stays in its FIFO
Drain0Left ==
  /\ bootPc = "drain0" /\ bootPc' = "drain2"
  /\ samples' = <<>>
  /\ UNCHANGED <<ticks, interval, fifo0, fifo2, attempt, c0, calibrated, races, timeouts,
                 raced, tainted>>

Drain0 ==
  /\ bootPc = "drain0" /\ bootPc' = "drain2"
  /\ fifo0' = <<>> /\ samples' = <<>>
  /\ UNCHANGED <<ticks, interval, fifo2, attempt, c0, calibrated, races, timeouts,
                 raced, tainted>>

Drain2 ==
  /\ bootPc = "drain2" /\ bootPc' = "c0"
  /\ fifo2' = <<>>
  /\ UNCHANGED <<ticks, interval, fifo0, attempt, c0, samples, calibrated, races, timeouts,
                 raced, tainted>>

WaitEdge ==
  /\ bootPc = "c0" /\ fifo0 # <<>>
  /\ c0' = Head(fifo0) /\ fifo0' = Tail(fifo0) /\ bootPc' = "c2"
  /\ UNCHANGED <<ticks, interval, fifo2, attempt, samples, calibrated, races, timeouts,
                 raced, tainted>>

SmallSpread(pairs) == \A i, j \in DOMAIN pairs : pairs[i] - pairs[j] <= 1

\* mutant: an attempt that is not clean goes on with the FIFOs as they are
NextAttemptUndrained == "c0"

\* the FIFOs are drained again
NextAttempt == "drain0"

\* The end of an attempt: the last candidate stands unless a clean one ends it.
\* Of the mean only that it lies between its samples is kept.
Evaluate(pairs) ==
  IF pairs = <<>>
    THEN bootPc' = "done" /\ UNCHANGED <<attempt, calibrated, samples, raced, tainted>>
    ELSE /\ \E i, j \in DOMAIN pairs : phaseK' \in pairs[i] .. pairs[j]
         /\ k_n' = Len(pairs) /\ tainted' = raced /\ raced' = FALSE
         /\ k_clean' = (Len(pairs) >= Enough /\ SmallSpread(pairs))
         /\ IF k_clean' \/ attempt = Attempts - 1
              THEN bootPc' = "done" /\ UNCHANGED <<attempt, samples>>
              ELSE bootPc' = NextAttempt /\ attempt' = attempt + 1 /\ samples' = <<>>

WaitPull ==
  /\ bootPc = "c2" /\ fifo2 # <<>>
  /\ fifo2' = Tail(fifo2)
  /\ LET pairs == Append(samples, c0 - Head(fifo2))
     IN  IF Len(pairs) = Samples
           THEN Evaluate(pairs)
           ELSE /\ samples' = pairs /\ bootPc' = "c0"
                /\ UNCHANGED <<attempt, calibrated, raced, tainted>>
  /\ UNCHANGED <<ticks, interval, fifo0, c0, races, timeouts>>

(* with_timeout drops the pair it was waiting for, and the attempt ends.       *)
TimeOut ==
  /\ (bootPc = "c0" /\ fifo0 = <<>>) \/ (bootPc = "c2" /\ fifo2 = <<>>)
  /\ timeouts < MaxTimeouts /\ timeouts' = timeouts + 1
  /\ Evaluate(samples)
  /\ UNCHANGED <<ticks, interval, fifo0, fifo2, c0, races>>

\* SM0 has been capturing since before SM2 was enabled
BootInit ==
  /\ ticks = 0 /\ interval \in Intervals /\ fifo0 \in {<<>>, <<0>>} /\ fifo2 = <<>>
  /\ bootPc = "drain0" /\ attempt = 0 /\ c0 = 0 /\ samples = <<>>
  /\ phaseK = 0 /\ k_n = 0 /\ k_clean = FALSE /\ races = 0 /\ timeouts = 0
  /\ raced = FALSE /\ tainted = FALSE

BootNext == Edge \/ Drain0 \/ Drain2 \/ WaitEdge \/ WaitPull \/ TimeOut

BootSpec == BootInit /\ [][BootNext]_bootVars
-----------------------------------------------------------------------------
BootTypeOK ==
  /\ bootPc \in {"drain0", "drain2", "c0", "c2", "done"} /\ attempt \in 0 .. Attempts - 1
  /\ Len(fifo0) <= 2 /\ Len(fifo2) <= 2 /\ Len(samples) < Samples
  /\ phaseK \in Int /\ k_n \in 0 .. Samples /\ k_clean \in BOOLEAN
  /\ races \in 0 .. MaxRaces /\ timeouts \in 0 .. MaxTimeouts
  /\ raced \in BOOLEAN /\ tainted \in BOOLEAN

\* the offset pairs of the same edge have, to the tick
SameEdge == phaseK \in -1 .. 0

(* "Draining both FIFOs first guarantees that c0 and c2 are the same edge from  *)
(* the next one on", and the check of the spread that an attempt with another   *)
(* edge mixed in is taken again (main.rs:1400-1403): a calibration declared     *)
(* clean would be one on same-edge pairs.  It need not be: an edge between the  *)
(* drains shifts every pair of the attempt by the same interval, and intervals  *)
(* that agree to a tick pass the check.                                        *)
CleanMeansSameEdge == k_clean => SameEdge

(* Nothing else puts K off: whatever SM0 captured before SM2 was enabled, in     *)
(* whichever attempt K was found and whatever waits ended it, K is that of       *)
(* same-edge pairs unless an edge fell between that attempt's own drains, and    *)
(* this for every receiver (main.rs:1408-1454).                                 *)
OffOnlyByRace == k_n > 0 /\ ~tainted => SameEdge

(* An edge that slips between the drains costs an attempt, not the boot: with    *)
(* one undisturbed attempt left and no time-out, calibration ends clean, and     *)
(* on same-edge pairs, if the receiver's intervals vary by more than the spread  *)
(* the check allows.                                                           *)
RetryRecovers == bootPc = "done" /\ timeouts = 0 => k_clean /\ SameEdge
=============================================================================
