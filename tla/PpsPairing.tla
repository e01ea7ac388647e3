----------------------------- MODULE PpsPairing -----------------------------
(***************************************************************************)
(* Pairing PPS edges with NMEA time sentences (PpsTimeSync behind           *)
(* PpsGpsdo): the PPS task records each captured edge as pending, the UART  *)
(* task pairs the next time sentence with it, and the pair becomes the UTC  *)
(* epoch the clock answers from.  The receiver and the line are the         *)
(* environment: each second it emits a pulse and, later, one time sentence  *)
(* for it.  Edges and sentences carry their age in whole seconds; a paired  *)
(* edge is labelled with the wrong second when the ages differ.             *)
(***************************************************************************)
EXTENDS Integers, Sequences, FiniteSets

CONSTANTS
  Stamp,        \* second a sentence names, relative to its pulse: -1, 0 or 1
  Association,  \* PpsNmeaAssociation::edge_offset_seconds
  Faults,       \* kinds of disturbance that may happen
  MaxFaults     \* bound on the number of disturbances

NoEdge == [age |-> 0, kind |-> "none"]

ASSUME PairingAssumption ==
  /\ Stamp \in -1 .. 1 /\ Association \in -1 .. 1
  /\ Faults \subseteq {"lose", "miss", "late", "glitch"}
  /\ MaxFaults \in Nat

VARIABLES
  pending,   \* PpsTimeSync.pending: the most recent un-paired edge
  uart,      \* ages of the time sentences on the line, oldest first
  epoch,     \* the epoch's error: label minus true second, and its edge's kind
  faults,    \* disturbances so far
  used,      \* history: the last captured edge has already been paired
  punctual   \* history: no pulse came while a sentence was still on the line,
             \* and none was missed while the edge before it was unpaired

vars == <<pending, uart, epoch, faults, used, punctual>>

NoEpoch == [off |-> 0, kind |-> "none"]
MaxAge == MaxFaults + 2
Older(age) == IF age < MaxAge THEN age + 1 ELSE MaxAge
Aged(edge) == IF edge = NoEdge THEN NoEdge ELSE [edge EXCEPT !.age = Older(@)]
Spend(kinds) ==
  /\ kinds \subseteq Faults
  /\ faults + Cardinality(kinds) <= MaxFaults
  /\ faults' = faults + Cardinality(kinds)
-----------------------------------------------------------------------------
(* PpsTimeSync::on_pps_edge: any captured edge replaces the pending one,     *)
(* whatever Gnssdo::on_pps classifies it as.                                 *)
OnPpsEdge(kind) == pending' = [age |-> 0, kind |-> kind] /\ used' = FALSE

(* The environment's next second: its pulse, unless it is missed, and its    *)
(* sentence, unless it is lost or arrives corrupt (feed_nmea then returns    *)
(* before touching anything).  A sentence still on the line is late.         *)
NextSecond ==
  \E missed, lost \in BOOLEAN :
    /\ Spend(  (IF missed THEN {"miss"} ELSE {}) \cup (IF lost THEN {"lose"} ELSE {})
             \cup (IF uart # <<>> THEN {"late"} ELSE {}))
    /\ punctual' = (punctual /\ uart = <<>> /\ (missed => pending = NoEdge))
    /\ IF missed THEN pending' = Aged(pending) /\ UNCHANGED used ELSE OnPpsEdge("pulse")
    /\ LET inFlight == [i \in DOMAIN uart |-> Older(uart[i])]
       IN  uart' = IF lost THEN inFlight ELSE Append(inFlight, 0)
    /\ UNCHANGED epoch

(* A spurious capture between two pulses.                                    *)
Glitch ==
  /\ Spend({"glitch"})
  /\ OnPpsEdge("glitch")
  /\ UNCHANGED <<uart, epoch, punctual>>

\* mutant: the edge stays pending after it was paired
OnTimeKeepsEdge(label) ==
  IF pending = NoEdge
    THEN UNCHANGED <<pending, epoch, used>>
    ELSE /\ pending' = pending
         /\ epoch' = [off |-> pending.age - label + Association, kind |-> pending.kind]
         /\ used' = TRUE

\* mutant: the association is subtracted
OnTimeSwapped(label) ==
  IF pending = NoEdge
    THEN UNCHANGED <<pending, epoch, used>>
    ELSE /\ pending' = NoEdge
         /\ epoch' = [off |-> pending.age - label - Association, kind |-> pending.kind]
         /\ used' = TRUE

\* mutant: an epoch, once set, is never replaced
OnTimeFirstOnly(label) ==
  IF pending = NoEdge \/ epoch # NoEpoch
    THEN UNCHANGED <<pending, epoch, used>>
    ELSE /\ pending' = NoEdge
         /\ epoch' = [off |-> pending.age - label + Association, kind |-> pending.kind]
         /\ used' = TRUE

(* on_time and the on_utc behind it.  The date is always known here: feed_nmea *)
(* sets it from the same sentence.  `label` is how many seconds ago the second *)
(* the sentence names began.                                                   *)
OnTime(label) ==
  IF pending = NoEdge
    THEN UNCHANGED <<pending, epoch, used>>
    ELSE /\ pending' = NoEdge
         /\ epoch' = [off |-> pending.age - label + Association, kind |-> pending.kind]
         /\ used' = TRUE

(* PpsGpsdo::feed_nmea on the configured sentence.                            *)
FeedNmea ==
  /\ uart # <<>>
  /\ OnTime(Head(uart) - Stamp)
  /\ uart' = Tail(uart)
  /\ UNCHANGED <<faults, punctual>>

Init ==
  /\ pending = NoEdge /\ uart = <<>> /\ epoch = NoEpoch
  /\ faults = 0 /\ used = FALSE /\ punctual = TRUE

Next == NextSecond \/ Glitch \/ FeedNmea

(* The receiver goes on, and the UART task reads what it sends.               *)
Spec == Init /\ [][Next]_vars /\ WF_vars(NextSecond) /\ WF_vars(FeedNmea)
-----------------------------------------------------------------------------
TypeOK ==
  /\ pending \in [age : 0 .. MaxAge, kind : {"none", "pulse", "glitch"}]
  /\ \A i \in DOMAIN uart : uart[i] \in 0 .. MaxAge
  /\ Len(uart) <= MaxFaults + 1
  /\ epoch.kind \in {"none", "pulse", "glitch"} /\ epoch.off \in -(MaxAge + 2) .. MaxAge + 2
  /\ faults \in 0 .. MaxFaults /\ used \in BOOLEAN /\ punctual \in BOOLEAN
  /\ used => pending = NoEdge

(* A stale edge is never paired with another second (timesync.rs:250-252):    *)
(* the epoch labels its edge with the second that edge began, and the UTC the *)
(* clock answers is not off by whole seconds.                                 *)
EpochRight == epoch.off = 0

(* What the pairing gives: sentences and pulses may be lost and edges may be   *)
(* spurious, in any number and order, but as long as no sentence is late and   *)
(* no pulse fails on an edge that is still unpaired the epoch is right.        *)
PunctualEpochRight == punctual => EpochRight

(* An edge is paired with one sentence at most (timesync.rs:250-252).         *)
EdgePairedOnce == [][ epoch' # epoch => pending # NoEdge /\ ~used ]_vars

(* When the disturbances stop, the epoch becomes and stays right.              *)
EpochHeals == <>[](epoch.off = 0 /\ epoch.kind = "pulse")
=============================================================================
