----------------------------- MODULE NtpServer -----------------------------
(***************************************************************************)
(* tiny-ntp: what a server says and when it says nothing, and what a client *)
(* makes of an answer.  All of it is stateless; the callers keep the state. *)
(*                                                                         *)
(* A source is a reference clock (Reference) or an upstream server.  The    *)
(* clock's state is that of ClockState: lastUpdate is NoTime before the     *)
(* first pairing.                                                          *)
(***************************************************************************)
EXTENDS NtpTimestamp

CONSTANTS
  BaseDispersion, \* base_dispersion_ns
  DriftDen,       \* one over holdover_drift_ppb: ticks of holdover per tick of dispersion
  MaxHoldover,    \* max_holdover_ns
  MaxStratum,     \* MAX_STRATUM
  WidestStratum,  \* u8::MAX
  NoTime          \* None

ASSUME ServerAssumption ==
  /\ BaseDispersion \in Nat /\ DriftDen \in Nat \ {0} /\ MaxHoldover \in Nat
  /\ MaxStratum \in Nat \ {0} /\ WidestStratum \in Nat /\ MaxStratum <= WidestStratum
  /\ NoTime \notin Int

NtpVersion == 4
Modes == {"client", "server", "broadcast", "other"}
Reference == [kind |-> "reference"]

\* mutant: it does not grow during a holdover
RootDispersionFlat(holdover) == BaseDispersion
RootDispersion(holdover) ==
  AtMost(BaseDispersion + AtMost(holdover \div DriftDen, Widest), Widest)

Stratum(source) ==
  IF source = Reference THEN 1 ELSE AtMost(source.stratum + 1, WidestStratum)

SilentReason(source, state) ==
  IF state.lastUpdate = NoTime THEN "NoEpoch"
  ELSE IF ~state.locked THEN "FrequencyUnlocked"
  ELSE IF state.holdover > MaxHoldover THEN "HoldoverExceeded"
  ELSE IF source # Reference /\ source.stratum = 0 THEN "UpstreamUnsynchronised"
  ELSE IF Stratum(source) >= MaxStratum THEN "TooDeep"
  ELSE "none"

Serves(source, state) == SilentReason(source, state) = "none"

\* mutant: only what the source itself claims
RootDelayOwnHop(source) == IF source = Reference THEN 0 ELSE source.rootDelay
\* a hop's negative delay is no distance; its magnitude goes to the dispersion
RootDelay(source) ==
  IF source = Reference THEN 0
  ELSE ShortFromNanos(ShortToNanos(source.rootDelay) + AtLeast(source.delay, 0))

\* mutant: a negative delay of the hop is left out of the distance and forgotten
DispersionForgets(source, holdover) ==
  IF source = Reference THEN ShortFromNanos(RootDispersion(holdover))
  ELSE ShortFromNanos(ShortToNanos(source.rootDispersion) + RootDispersion(holdover))

Dispersion(source, holdover) ==
  IF source = Reference THEN ShortFromNanos(RootDispersion(holdover))
  ELSE ShortFromNanos(ShortToNanos(source.rootDispersion) + RootDispersion(holdover)
                        + Abs(AtMost(source.delay, 0)))

BasePacket(source, state) ==
  [mode |-> "broadcast", version |-> NtpVersion, synchronized |-> TRUE,
   stratum |-> Stratum(source),
   rootDelay |-> RootDelay(source),
   rootDispersion |-> Dispersion(source, state.holdover),
   reference |-> FromUnixNs(state.lastUpdate),
   origin |-> ZeroTime, receive |-> ZeroTime, transmit |-> ZeroTime]

\* Nothing stands for Silent
Nothing == [mode |-> "silent"]

Broadcast(source, state, transmitNs) ==
  IF ~Serves(source, state) THEN Nothing
  ELSE [BasePacket(source, state) EXCEPT !.transmit = FromUnixNs(transmitNs)]

IsQuestion(request) == request.mode = "client" /\ request.version \in 1..NtpVersion

Respond(source, state, request, receiveNs, transmitNs) ==
  IF ~IsQuestion(request) \/ ~Serves(source, state) THEN Nothing
  ELSE [BasePacket(source, state) EXCEPT
          !.mode = "server", !.version = request.version, !.origin = request.transmit,
          !.receive = FromUnixNs(receiveNs), !.transmit = FromUnixNs(transmitNs)]
-----------------------------------------------------------------------------
(* The client's side.                                                        *)
Request(transmitNs) ==
  [mode |-> "client", version |-> NtpVersion, synchronized |-> TRUE, stratum |-> 0,
   rootDelay |-> 0, rootDispersion |-> 0, reference |-> ZeroTime,
   origin |-> ZeroTime, receive |-> ZeroTime, transmit |-> FromUnixNs(transmitNs)]

Synchronised(p) == p.synchronized /\ p.stratum \in 1..(MaxStratum - 1)

Believes(request, reply) ==
  /\ reply.mode = "server" /\ reply.version = request.version
  /\ reply.origin = request.transmit /\ reply.transmit # ZeroTime
  /\ Synchronised(reply)

BelievesBroadcast(p) ==
  p.mode = "broadcast" /\ p.transmit # ZeroTime /\ Synchronised(p)

Saturated(x) == AtLeast(AtMost(x, Widest), -Widest - 1)

Measure(request, reply, arrival) ==
  LET t1 == ToUnixNsNear(request.transmit, arrival)
      t2 == ToUnixNsNear(reply.receive, arrival)
      t3 == ToUnixNsNear(reply.transmit, arrival)
  IN  [offset |-> Saturated(Quot((t2 - t1) + (t3 - arrival), 2)),
       delay |-> Saturated((arrival - t1) - (t3 - t2)),
       stratum |-> reply.stratum]

AcceptBroadcast(p, arrival, delay) ==
  [offset |-> Saturated(ToUnixNsNear(p.transmit, arrival) - arrival + Quot(delay, 2)),
   delay |-> delay, stratum |-> p.stratum]

\* on the wire the version has three bits
Wire(p) == [p EXCEPT !.version = @ % 8]
=============================================================================
