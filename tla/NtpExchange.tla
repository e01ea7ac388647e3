---------------------------- MODULE NtpExchange ----------------------------
(***************************************************************************)
(* A primary server, a client that follows it and may serve others in turn, *)
(* and a network that loses, delays, repeats and reorders packets and may   *)
(* hand any packet to anyone.  The primary's clock slips within the drift   *)
(* its configuration claims while it has no pulse.  The client's clock is   *)
(* off by any skew, runs fast or slow or is stepped by others, and is set   *)
(* by what it measures, after which it drifts as its configuration claims.  *)
(***************************************************************************)
EXTENDS NtpServer, FiniteSets

CONSTANTS
  Start, Horizon, \* bound: true time runs from Start to Horizon
  Skews,          \* how far the client's clock may be off at first
  Strangers,      \* packets of other hosts
  PathDelay,      \* the delay a broadcast client is configured with
  Processing,     \* ticks from a request's arrival to its answer's departure
  Rates,          \* what the client's clock may gain on true time in a tick
  Loose,          \* bound: how far it may be off before it is set
  Wander,         \* bound: what it may gain or lose while the client waits
  Reach,          \* how far the client's clock may ever be off
  MaxRequests,    \* bound on the client's requests
  MaxAnswers      \* bound on the primary's packets

ASSUME ExchangeAssumption ==
  /\ Start \in Nat /\ Horizon \in Nat /\ Start <= Horizon /\ Skews \subseteq Int
  /\ PathDelay \in Nat /\ Processing \subseteq Nat /\ Rates \subseteq Int
  /\ MaxRequests \in Nat /\ MaxAnswers \in Nat

\* The clocks are never so far apart that a timestamp's era is in doubt, which
\* is what to_unix_ns_near asks of its caller: "a roughly known local time".
Span == Horizon - Start
ASSUME NearAssumption ==
  /\ {Loose, Wander, Reach} \subseteq Nat /\ \A s \in Skews : Abs(s) <= Loose
  /\ Loose <= Reach /\ Wander <= Reach /\ 5 * Span + Wander + 1 <= 2 * Reach
  /\ 2 * ((Reach + 2 * Span) \div Nanos + 1) < EraSecs

\* i64 nanoseconds hold every time of the run and more than a short value does
ASSUME WidestAssumption ==
  /\ Horizon + Reach + 2 * Span + PathDelay < Widest
  /\ ShortSecs * Nanos <= Widest

\* The base dispersion, 1 ms as the callers set it, covers what rounding to the
\* short format can take off a time, about 8 us.
Grain == (Nanos + ShortFrac) \div (2 * ShortFrac)
ASSUME BaseAssumption == 3 * Grain + 1 <= 2 * BaseDispersion

VARIABLES
  now,     \* true time
  slip,    \* the primary's clock minus true time
  updated, \* true time of the primary's last pulse, NoTime before the first
  locked,  \* the primary's frequency lock
  skew,    \* the client's clock minus true time
  asked,   \* the request the client waits on, Nothing if none
  began,   \* its clock's skew when it asked
  source,  \* the client's source once it follows the primary, Nothing before
  followed,\* true time at which it was set
  settled, \* its skew then
  unseen,  \* history: what its clock had lost meanwhile and the delay does not show
  asks,    \* requests sent
  net      \* every packet sent, with its departure and the primary's slip then

primary == <<slip, updated, locked>>
client == <<skew, asked, began, source, followed, settled, unseen, asks>>
vars == <<now, primary, client, net>>

\* nobody else poses as a synchronised server
Packet ==
  [mode : Modes, version : Nat, synchronized : BOOLEAN, stratum : Nat,
   rootDelay : 0..ShortMax, rootDispersion : 0..ShortMax, reference : Timestamp,
   origin : Timestamp, receive : Timestamp, transmit : Timestamp]
ASSUME StrangerAssumption ==
  \A p \in Strangers :
    p \in Packet /\ (p.mode \in {"server", "broadcast"} => ~Synchronised(p))

PrimaryNow == now + slip
ClientNow == now + skew
Holdover == IF updated = NoTime THEN 0 ELSE now - updated

PrimaryState ==
  [lastUpdate |-> IF updated = NoTime THEN NoTime ELSE PrimaryNow - Holdover,
   holdover |-> Holdover, locked |-> locked]

Sent(p, departure) == [packet |-> Wire(p), at |-> departure, slip |-> slip]
Answers == {m \in net : m.packet.mode \in {"server", "broadcast"}}
-----------------------------------------------------------------------------
(* A pulse sets the primary's clock, without one it may slip by what         *)
(* holdover_drift_ppb allows; so may the client's once it is set.             *)
Tick ==
  /\ now < Horizon
  /\ now' = now + 1
  /\ slip' \in {slip - 1, slip, slip + 1}
  /\ updated # NoTime => Abs(slip') <= (now' - updated) \div DriftDen
  /\ \E gain \in Rates : skew' = skew + gain
  /\ asked # Nothing => Abs(skew' - began) <= Wander
  /\ IF source = Nothing
       THEN Abs(skew') <= Loose
       ELSE Abs(skew' - settled) <= (now' - followed) \div DriftDen
  /\ UNCHANGED <<updated, locked, asked, began, source, followed, settled, unseen, asks, net>>

Pulse ==
  /\ updated' = now /\ slip' = 0
  /\ locked' \in {locked, TRUE}
  /\ UNCHANGED <<now, client, net>>

Shout ==
  LET p == Broadcast(Reference, PrimaryState, PrimaryNow)
  IN  /\ Cardinality(Answers) < MaxAnswers
      /\ p # Nothing
      /\ net' = net \union {Sent(p, now)}
      /\ UNCHANGED <<now, primary, client>>

\* any packet may reach the primary, its own among them
Serve(m) ==
  \E t \in Processing :
    LET p == Respond(Reference, PrimaryState, m.packet, PrimaryNow, PrimaryNow + t)
    IN  /\ m.at <= now /\ Cardinality(Answers) < MaxAnswers
        /\ p # Nothing
        /\ net' = net \union {Sent(p, now + t)}
        /\ UNCHANGED <<now, primary, client>>
-----------------------------------------------------------------------------
\* an answer is matched by the request's time alone, so the caller has to see to
\* it that no two requests leave at the same reading of its clock
Ask ==
  /\ asks < MaxRequests
  /\ asks' = asks + 1
  /\ asked' = Request(ClientNow) /\ began' = skew
  /\ \A m \in net : m.packet.transmit # asked'.transmit
  /\ net' = net \union {Sent(asked', now)}
  /\ UNCHANGED <<now, primary, skew, source, followed, settled, unseen>>

Answered(m) == m.at <= now /\ asked # Nothing /\ Believes(asked, m.packet)

\* what the client's clock has lost since it asked
Lost == AtLeast(began - skew, 0)

\* the client sets its clock, remembers its source and the question is answered
Follow(m) ==
  LET r == Measure(asked, m.packet, ClientNow)
  IN  /\ Answered(m)
      /\ skew' = skew + r.offset
      /\ source' = [kind |-> "upstream", stratum |-> r.stratum, delay |-> r.delay,
                    rootDelay |-> m.packet.rootDelay,
                    rootDispersion |-> m.packet.rootDispersion]
      /\ followed' = now /\ settled' = skew'
      /\ unseen' = AtLeast(Lost + AtMost(r.delay, 0), 0)
      /\ asked' = Nothing /\ began' = 0
      /\ UNCHANGED <<now, primary, asks, net>>

\* the client, serving what it follows
ClientState ==
  [lastUpdate |-> ClientNow - (now - followed), holdover |-> now - followed, locked |-> TRUE]
Passes == IF source = Nothing THEN Nothing ELSE Broadcast(source, ClientState, ClientNow)

Init ==
  /\ now = Start /\ slip = 0 /\ updated = NoTime /\ locked = FALSE
  /\ skew \in Skews /\ asked = Nothing /\ began = 0
  /\ source = Nothing /\ followed = 0 /\ settled = 0 /\ unseen = 0 /\ asks = 0
  /\ net = {[packet |-> Wire(p), at |-> Start, slip |-> 0] : p \in Strangers}

Next ==
  \/ Tick \/ Pulse \/ Shout \/ Ask
  \/ \E m \in net : Serve(m) \/ Follow(m)

Spec == Init /\ [][Next]_vars
-----------------------------------------------------------------------------
\* What the client takes from a packet is right, whatever the network repeated
\* or delayed, across an era's end and whatever the skew: an exchange is off by
\* at most half the delay measured with it, and what the client's own clock lost
\* meanwhile (client.rs measure), a broadcast by exactly what the configured
\* delay misses of the path (accept_broadcast).
MeasuredSound ==
  \A m \in net :
    LET truth == m.slip - skew
    IN  /\ Answered(m) =>
             LET r == Measure(asked, m.packet, ClientNow)
             IN  r.delay >= -Lost /\ 2 * Abs(r.offset - truth) <= r.delay + 1 + 2 * Lost
        /\ m.at <= now /\ BelievesBroadcast(m.packet) =>
             AcceptBroadcast(m.packet, ClientNow, PathDelay).offset - truth
               = Quot(PathDelay, 2) - (now - m.at)

\* The primary never claims a better clock than it has: the error of what it
\* sends is within the root dispersion it sends with it, or that is at the
\* format's ceiling (server.rs root_dispersion_ns, timestamp.rs from_nanos).
PrimaryHonest ==
  \A m \in Answers : \/ m.packet.stratum # 1
                     \/ Abs(m.slip) <= ShortToNanos(m.packet.rootDispersion)
                     \/ m.packet.rootDispersion = ShortMax

\* Nor does a server one hop down, while it drifts as it claims: its error is
\* within half the root delay plus the root dispersion it passes on.  What its
\* clock lost during the exchange counts as far as the measured delay shows it
\* by being negative (server.rs base_packet); the rest it cannot know.
PassedOnHonest ==
  \/ Passes = Nothing \/ Passes.rootDispersion = ShortMax \/ Passes.rootDelay = ShortMax
  \/ 2 * Abs(skew) <= ShortToNanos(Passes.rootDelay)
                         + 2 * (ShortToNanos(Passes.rootDispersion) + unseen)
=============================================================================
