# TLA+ models of pico-gnss

pico-gnss is a GNSS-disciplined clock on an RP2040. It captures a receiver's
1PPS with a PIO state machine, estimates the crystal's frequency, labels the
pulses with UTC from NMEA sentences, steers a 1PPS output of its own, and serves
the time over NTP on a 10BASE-T pair it drives itself. The modules here model
the firmware from the PIO instructions to the NTP packets; what they aim at is
what depends on the order of things and on numbers at their edges, and is hard to
reach with a unit test.

`tlc -config X.cfg M` runs a check and `tlapm M_proofs.tla` the proofs, from this
directory.

## 1. The system

| Component | Source | State | Operations | Talks to |
|---|---|---|---|---|
| PpsTracker | `gnssdo/src/pps.rs` | last edge time | `record` | called by Gnssdo |
| DisciplinedClock, Gnssdo | `gnssdo/src/gpsdo.rs` | frequency, slope, samples, quarantine; epoch; temperature regression, lead filter, observer | `on_pps`, `update_freq`, `start_quarantine`, `update_temp`, `update_epoch`, queries | fed by PpsGpsdo, read by every task |
| Phase-lock loop, controllers | `gnssdo/src/{pll,control,controllers}.rs` | trim, observer, lock and outlier counters, boost | `step`, `start_segment` | called by gen_capture_task |
| Saw-tooth error | `gnssdo/src/qerr.rs` | none | subtraction and rounding | no firmware |
| Capture and output programs | `rp-pps/src/{lib,embassy,rp2040}.rs` | PIO registers and FIFOs, `PpsEdgeTimeline`, period dither | `observe`, `set_next_period`, `latest_capture`, phase arithmetic | PIO on one side, tasks on the other |
| PPS/NMEA pairing | `rp-pps/src/{timesync,gpsdo}.rs` | pending edge, date | `on_pps_edge`, `feed_nmea` | PPS task and UART task, one mutex |
| NMEA line assembler | `rp-pps/src/assembler.rs` | line buffer | `push` | UART task, baud probe |
| Output loop | `pico-gnss/src/main.rs`: `pps_task`, `gen_capture_task`, `recal_k` | C0_GPS / C0_GEN, last edge, generation, period, K | per-edge loop, recalibration | both captures, the output, the controllers |
| Boot calibration | `pico-gnss/src/main.rs`, before the tasks start | sample pairs, K | drain, sample, judge, retry | both capture FIFOs |
| Receiver link | `pico-gnss/src/mt3333.rs`, `pico-ntp/src/main.rs` | UART rate | `establish_link`, `establish_gnss_link`, `follow_baud` | receiver |
| NTP server, client, timestamps | `tiny-ntp/src/*.rs` | none, packets | `respond`, `broadcast`, `measure`, `accept_broadcast` | pico-ntp |
| NTP firmware | `pico-ntp/src/main.rs` | last target, packet under way | `ntp_task` | clock, transmitter |
| SWD mailbox, bridge | `pico-ntp/src/swd_rx.rs`, `tools/swd-ntp-bridge` | mailbox in RAM, `seq` | `exchange`, `swd_rx_task` | each other, over a debug probe |
| 10BASE-T transmitter | `pico-10base-t/src/*.rs` | PIO FIFO | frame building, Manchester words, link pulses | pico-ntp |

What is hard: two tasks and three state machines that meet at bounded FIFOs and
an atomic counter, where either side may see a second's edge first; a pairing of
two streams either of which may lose items; estimators and controllers with
several gates in a row, whose long-term behaviour no unit test reaches; counters
that wrap at different moments; time that steps backward under a task that
sleeps; a protocol over shared RAM in which neither side can hold the other off;
a 32-bit era that ends. Nothing is persisted: a restart starts from scratch,
except in the mailbox and in the receiver's baud rate, which survive it.

What makes each part correct:

* estimator: outliers have bounded effect, a gap costs a quarantine, honest edges win in the end, and what is steered comes back to the crystal;
* readings: a scheduled instant and a reading are inverse, a holdover follows a drifting crystal;
* phase loop: no limit is left, a lock is only reported on a phase near zero, disturbances end, switches are seamless;
* capture and output: a phase is the true distance of two edges, the output keeps its schedule;
* output loop: the output is fed every second, and valid pairs come back after any disturbance;
* pairing: an epoch is never whole seconds off, an edge is used once, faults heal;
* calibration: K is that of same-edge pairs unless an edge fell between the drains, and such a race costs an attempt;
* receiver link: port and receiver end at one rate;
* NTP: an untrusted clock is never served, no server claims a better clock than it has, a measured offset is right within half the delay and what the client's clock lost meanwhile, a packet leaves at the second it names;
* mailbox: a reply is whole and for the request in hand, and no request is forgotten;
* transmitter: what a receiver reads is what was to be sent, and the pair is never quiet for long.

## 2. Modules

| Module | Models | Checked by | Proved in |
|---|---|---|---|
| `Gnssdo` | PpsTracker, `update_freq`, `start_quarantine`, `on_pps` | `MC_Gnssdo` | `Gnssdo_proofs` |
| `DisciplinedTime` | readings, holdover readings, scheduled instants | `MC_Gnssdo` | `Gnssdo_proofs` |
| `CaptureTimeline` (extends `Gnssdo`) | the 32-bit capture counter, `PpsEdgeTimeline` | `MC_GnssdoTracking` | `Gnssdo_proofs` |
| `TempFeedforward` (extends `CaptureTimeline`) | `update_temp`, regression, observer, the steered frequency | `MC_GnssdoTracking` | |
| `GnssdoTracking` (extends `TempFeedforward`) | receiver, crystal and temperature around them | `MC_GnssdoTracking` | `Gnssdo_proofs` |
| `FixedPoint` | division towards zero, clamps | through its users | lemmas in `PhaseLoop_proofs` |
| `PhaseControllers` | `PhaseLockLoop`, the other controllers | `MC_PhaseLoop` | `PhaseLoop_proofs` |
| `PhaseLoop` (extends `PhaseControllers`) | the loop closed over the output | `MC_PhaseLoop` | `PhaseLoop_proofs` |
| `PpsPairing` | `PpsTimeSync`, `feed_nmea`, the line | `MC_PpsPairing` | `RpPps_proofs` |
| `Loopback` | output program, FIFOs, `pps_task`, `gen_capture_task`, `recal_k` | `MC_Loopback` | `Loopback_proofs` |
| `BootCalibration` | the calibration before the tasks start | `MC_DataPath`, `MC_BootCalibration` | `BootCalibration_proofs` |
| `RequestReply` | what the bridge promises its clients (abstract) | as `Implements` of `Mailbox` | |
| `Mailbox` | `swd_rx_task` and `exchange` | `MC_Mailbox` | `Mailbox_proofs` |
| `NtpTimestamp` | formats, eras, short format | `MC_NtpExchange` | `NtpExchange_proofs` |
| `NtpServer` (extends `NtpTimestamp`) | the gate, `respond`, `broadcast`, `measure`, `accept_broadcast` | `MC_NtpExchange` | `NtpExchange_proofs` |
| `NtpExchange` (extends `NtpServer`) | a primary, a client that serves in turn, a network | `MC_NtpExchange` | `NtpExchange_proofs` |
| `BaudLink` | the receiver's link under three firmwares | `MC_NtpBroadcast` | `NtpBroadcast_proofs` |
| `NtpBroadcast` (extends `BaudLink`, `NtpServer`) | boot and `ntp_task` on the clock the others discipline | `MC_NtpBroadcast` | `NtpBroadcast_proofs` |
| `PioPrograms`, `PioEdges` | the PIO programs cycle by cycle; three state machines on one clock | `MC_DataPath` | `RpPps_proofs` |
| `NmeaLine` | the line assembler | `MC_DataPath` | `RpPps_proofs` |
| `CivilTime` | the calendar, `parse` limits, leap seconds | `MC_DataPath` | `RpPps_proofs` |
| `EtherFrame`, `EtherLine` | frames with their checksums; transmitter, pair and a receiver | `MC_DataPath` | |
| `DataPath` (extends `BootCalibration`) | the last four and the boot calibration side by side | `MC_DataPath` | `RpPps_proofs`, all but the frames |

### Estimator: Gnssdo, DisciplinedTime, CaptureTimeline, TempFeedforward, GnssdoTracking

`OnPps(d)` is one call of `on_pps` with an edge `d` ticks after the last.
`Classify` is `PpsTracker::record`; `UpdateFreq` is the disjunction of the five
ways through `update_freq`, in the code's order. `samples` saturates at
`LockSamples`, the only value besides 0 the code compares it to. `>>` on a
negative i64 rounds down, as `\div` does. `calm` is a history variable, so that
`QuarantineProtects` does not restate the quarantine counter. The counter behind
the edges wraps at 68.7 s (`interval_ticks`); `settled` counts edges from the true
spacing, where `calm` counts them as the tracker sees them.

`temp` holds the temperature states; it never feeds back into the estimate.
`OnPpsEdgeLearning` is the whole of `on_pps`, `Predicted` and `Steering` are what
`gen_capture_task` asks for. `GnssdoTracking` drives it all with honest edges at
the crystal's spacing, and a bounded number of disturbances.

Time is in ticks, a second is `Nominal` of them and frequencies carry a factor
`Scale`, as the code's ns, 10^9 and milli-ppb. The numbers are small but keep the
code's order of thresholds (residual gate < converge gate < emergency stop <
tolerance < second). The proofs assume no such order.

### PhaseControllers and PhaseLoop

A controller is a record that carries its kind, `Step` one call of `step()`.
`PhaseLoop` closes the loop: the word computed at an edge sets the length of the
period after the next, and the phase drifts by what the frequency estimate leaves
over. `Quiet` is an edge with a good sample, `Spike` one with a bad capture,
`Holdover` one that is not valid, `Jump` a move of the real phase, `Switch` a
change of the controller as in the sweep, which goes through the seven closed
loops. The open loop is run too, from the start and without a residual drift, since
it corrects none: what is left to check of it is that the switch away from it is
seamless and what follows settles.

### PpsPairing and CivilTime

`OnPpsEdge`, `OnTime` and `FeedNmea` are the calls; `NextSecond` and `Glitch` the
environment. Edges and sentences are represented by their age in seconds; which
second a date and a time mean is `CivilTime`'s. `epoch.off` is the error in whole
seconds. `feed_nmea` itself does not look at the checksum (assembler.rs:7-8 leaves
it to the parser): a sentence that does not parse is a lost one, and one that
parses with wrong digits is not modelled.

### Loopback, BootCalibration, PioPrograms, PioEdges

In `Loopback` a second has one receiver edge (or none) and one output edge, in
either order. An action is what a task does between two awaits: the executor is
cooperative, so that is atomic for the other task, while the state machines
(`GpsEdge`, `OutEdge`) move at any time. `pc` is where `gen_capture_task` waits.
`news` is the difference of `C0_GEN` and `last_gen`; a period word is the age of
the edge it was computed at. `Valid` is `fresh && sane && c0 != 0 && paired`. A
recalibration may be entered at any step, which is more than the code does.

`BootCalibration` has the readings of the two counters in ticks, with K = 0 as the
offset to be found; SM2 may count an edge a tick later than SM0. `Intervals` are the
receiver's, and `Varies` says by how much one differs from the next at least. Pairs one edge
apart differ by an interval each, so the spread check, which is the code's, sees
them only if the intervals vary by more than what it allows.

`PioPrograms` has the capture and the output program as instructions, `Cycle`
being one clock, and the arithmetic of lib.rs on top; `PioEdges` runs three state
machines on one clock, as long as wanted.

### NTP: NtpTimestamp, NtpServer, NtpExchange, BaudLink, NtpBroadcast

Timestamps are true numbers here, with the era's end, the fraction and the short
format scaled down; `Wire` is what a packet keeps of them. A server's state is
`lastUpdate`, `holdover`, `locked`. `NtpExchange` keeps every packet ever sent and
may hand any of them to anyone. The client's clock gains and loses on true time:
anything before it follows the primary (within `Loose`), up to `Wander` while it waits for
an answer, and what its own drift allows once it is set. A loss while it waits
makes the measured delay too short, or negative; `Lost` is that loss, and `unseen`
the part of it that a negative delay does not show, which no server could pass on. In `BaudLink` the three firmwares find the
receiver's rate, each in its own way, and any may be flashed next.

`NtpBroadcast` counts ticks within the second of the disciplined clock, and whole
seconds relative to it: `target`, `lastTarget` and `sent` shift by one with every
second and by the step with every correction of the epoch. `Tick` is time,
`Pair` the pairing of a sentence; `Idle`, `Prepare`, `Handover` are what
`ntp_task` does between two awaits.

### Mailbox

The 48 bytes of a packet are two halves, each naming its request, so torn packets
show. `exchange` and `swd_rx_task` are cut at every access to the mailbox.
`TimeOut` may happen at any moment before `done` matches, and a probe access may
fail anywhere in an exchange (`ProbeFails`), also when `seq` has moved and the doorbell has not. The bridge resumes from
the doorbell in RAM, the firmware clears RAM. A restart of the firmware between
the host's read of `done` and the end of its read of the reply is excluded
(`FirmwareRestart`): the protocol cannot detect it, and the client gets zeros.

### NmeaLine, EtherFrame, EtherLine

`NmeaLine` keeps every byte pushed, and its property says what must leave the
assembler in terms of these alone. `EtherFrame` builds a frame byte by byte with
the real CRC and checksums; `EtherLine` sends it through the FIFO and a receiver
built from the standards reads the symbols back. Buffers are large enough; the
builders' `None` for one that is not is left out. It assumes that the DMA keeps
the FIFO from running dry inside a frame.

## 3. Runs

| Run | Expect | Shows |
|---|---|---|
| `MC_Gnssdo` | pass | every sequence of edges: `FreqBounded`, `QuarantineProtects`, `EdgeAuthority`; for whatever estimate is reached, `ReadoutInverts` and `HoldoverTracksRamp` |
| `MC_GnssdoTracking` | pass | `GapQuarantined`; liveness: `HonestEdgesApplied`, `Converges`, `SteeringSettles` |
| `MC_GnssdoLockout` | violation | one multipath edge while converging makes the residual gate reject every honest edge for ever |
| `MC_PpsPairing` | pass | `PunctualEpochRight`, `EdgePairedOnce`; liveness: `EpochHeals` |
| `MC_PpsPairingStale` | violation | a lost sentence, then a missed pulse: the epoch is one second off |
| `MC_Loopback` | pass | `FedWhileScheduled`, `NoWordDropped`, `SampleResumesUnled`; liveness: `LoopRecovers`, `MissRealigns` |
| `MC_BootCalibration` | violation | a receiver whose intervals agree to a tick: an edge between the drains gives a clean calibration that is a second off |
| `MC_PhaseLoop` | pass | all eight controllers, seven of them after switches too: `SettledHolds`, `AstrayBounded`, `BoostBounded`, `SwitchSeamless`; liveness: `Settles` |
| `MC_NtpExchange` | pass | `MeasuredSound`, `PrimaryHonest`, `PassedOnHonest`, across the end of an era, past the short format's ceiling and with negative delays |
| `MC_NtpBroadcast` | pass | `LinkHeld`, `PortFollows`, `StampsIncrease`, `LeavesOnTime`, `SpeaksOnlyVouched`; liveness: `Announces` |
| `MC_Mailbox` | pass | `Implements` (RequestReply); liveness: `BellAnswered` |
| `MC_DataPath` | pass | `PhaseFaithful`, `EdgesOnSchedule`, `SentencesWhole`, `DaysCounted`, `FrameReadBack`; of the boot calibration `OffOnlyByRace`, `RetryRecovers` |

Every property of a passing run has a mutant (`\* mutant:` in the module,
`PROJECT.json`): a plausible bug in a definition under which TLC finds that
property violated.

### Bounds

* `MC_Gnssdo`: unbounded in time; 20 spacings on and beside every threshold. The
  code's own clamps bound the state (`FreqBounded`). Readings up to `Horizon`
  seconds from the epoch.
* `MC_GnssdoTracking`: three disturbances, among them a wrong reading of the
  sensor, and one change of the temperature. Three are what a quarantine and a
  gate need to interact. Multipath only after the lock, and with a temperature
  change to come only once the estimate has caught up: four multipath edges in a
  row, or one on top of a lag, drag the scaled-down level out of the gate (with
  the code's numbers it takes hundreds), which is the lockout of the next run by
  another road. The temperature is read at most once per edge and need not be read
  at all, from the third of the clock's four samples to the lock (`ReadFrom`: the
  phase loop, which is not in this run, locks after 5 edges, the clock after 8); it changes once the clock is locked and caught up.
* `MC_PhaseLoop`: two disturbances, at fixed distances after the last (`When`) and
  at any controller; gains and windows scaled, in the code's order; 40 edges to
  settle. The proofs have no such bounds.
* `MC_PpsPairing`: five disturbances: a lost sentence and a missed pulse, twice, and one more.
* `MC_Loopback`: two missed pulses, two recalibrations (of two samples, two
  seconds of patience, instead of six and three: the loop is the same; with a
  patience of one it is not, see `LoopbackAssumption`), one long lead, one stall; FIFOs of the hardware's depth, which decides the latency. A run
  dry output makes no edges for half a minute, so deadlock is not checked;
  `LoopRecovers` and `MissRealigns` say that nothing else stops.
* `MC_BootCalibration`, and this part of `MC_DataPath`: four attempts as in the code,
  four pairs for six, three edges between drains, two time-outs; intervals of
  8 and 11 ticks by turns, in the violation's run of 8 or 9.
  It ends, so deadlock is not checked.
* `MC_NtpExchange`: five half seconds around the end of an era of 26 s, two
  requests, an answer, a client's clock 4 s behind or 3 s ahead (`Reach`: half an
  era is what a timestamp leaves open), a request of an unknown version and an
  answer nobody asked for. The client's clock loses two ticks in one of true time, keeps
  step or gains one, up to `Wander` in an exchange: enough for a measured delay to turn
  negative. The short format ends at 2 s, which the dispersion of the longest holdover reaches.
* `MC_NtpBroadcast`: three faults of any kind (lost command, power loss, restart or
  reflash, wrong pairing, lost fix), a second of six ticks, link pulses every two,
  wake-ups up to one tick late, sleeps up to one short. Holdover to just past its limit.
* `MC_Mailbox`: two requests, three doorbells, two restarts. The proof has no such bounds.
* `MC_DataPath`: counters that wrap every 73 ticks with a second of 48 cycles and
  counters one tick apart, so that an edge meets every third place of a counter's
  lap, the wraps among them; the phase read is then off by up to three cycles (with two
  in place of three TLC finds a counterexample); corrections of a cycle either way; every stream of eight bytes of
  four kinds, with a buffer of four; every day from 1970 to 2104, the non-leap 2100 included;
  frames with a zero UDP checksum and with odd and even payloads, two in a row.
  The five parts share no state; `part` says which of them moves. Parts end, so
  deadlock is not checked.

### Fairness

* `GnssdoTracking`: `WF(HonestEdge)`: the receiver pulses every second and
  `pps_task` only awaits the capture. Nothing is asked of the sensor.
* `PpsPairing`: `WF(NextSecond)`, `WF(FeedNmea)`: the UART loop handles every
  sentence it gets and waits for nothing else.
* `Loopback`: `WF(Next)`: oscillators and executor keep running; no action repeats
  without a `Tick`, so no task is starved except where `Tick` spends a stall.
* `PhaseLoop`: `WF(Quiet)`: output edges keep coming.
* `Mailbox`: `WF(Firmware)` for `BellAnswered` only: `swd_rx_task` has no await
  besides its 2 ms timer.
* `NtpBroadcast`: `WF` of the probes (each is timed), of `Tick`, of `Pair` (a
  sentence that can be read is) and of `NtpTask`; `SF(Prepare)`: a wake-up may be
  late and miss a second, but not at every second there is.

Disturbances never have fairness.

### What the violations say

Three properties that a comment of the code states do not hold of it (`findings`).
The residual gate has no way back from a wrong estimate. A pending edge has no
age, so it can be paired with a later second. The drains before the boot calibration
(main.rs:1409-1410) are one after the other, so they do not make the next captures ones
of the same edge, and the spread check sees it only if the receiver is unsteady
by more than a tick.

Other behaviours met while modelling, which no comment plainly rules out or which
are too narrow for a run:

* An outage of 482 s is seven turns of the capture counter and 0.964 s, and passes
  for a second (`GapQuarantined` leaves such gaps out).
* After a recalibration the TX FIFO is full: periods take effect four edges late.
* One output edge that leads by more than 500 us leaves `C0_GEN` one ahead, and
  samples invalid until a missed pulse or a recalibration; a second without the
  task before the first recalibration loses the output (`FedWhileScheduled`).
* The very first sample bypasses the converge gate (gpsdo.rs:362, against 51-53).
* The feedforward takes over at the first variation of the temperature while its
  observer starts from zero: for the observer's first dozen edges the prediction is
  off by most of the crystal's offset and the steering clamp holds it, where
  gpsdo.rs:630-634 calls the clamp dormant; the test at 1404 warms up for 1000 edges.
  The shifts round down, so covariance and variance do not return to zero and the
  feedforward stays engaged at whatever coefficient it has then.
* main.rs:348 says the temperature learning continues while the feedforward is
  off; gpsdo.rs:419 gates it.
* Each pulse a capture counter sees costs three uncounted cycles: K moves by
  1.5 ticks with every pulse one of the counters misses (NOTES.md:97 has the
  constant part), and a pulse shorter than the loop can be missed at a wrap.
* A wake-up late by just over a nap of 16 ms loses the second, where
  pico-ntp/main.rs:378-381 says "never past it".
* A receiver that switches its rate only after the last probe has found it at
  9600 is not heard again (`PortFollows` excepts it by `tidy`).
* A packet that sleeps over a step of the epoch carries the old epoch's second
  (`LeavesOnTime` excepts it by `stepped`).
* rp2040.rs says of `set_period` that an empty FIFO holds the previous period;
  lib.rs:238-247 says why it does not. rp-pps/gpsdo.rs names RMC as the default
  sentence of `feed_nmea`; it is ZDA.
* `P` and `Pd` drop the trim they are seeded with at their first edge, so
  `SwitchSeamless` leaves them out.

## 4. Proofs

All for every value of the constants, under the named assumptions of the modules
(`ASSUME`, evaluated by TLC at the run's values). Most only give types and signs.
Those that say more:

* `FoldAssumption`: no spacing outside the tolerance looks like a second to the
  32-bit counter. One does, 482 s, and it is left out (see above).
* `HonestAssumption`: the crystal's own spacing is within the tolerance.
* `ReworkAssumption`: an edge moves the reworked integrator by less than its range.
* `LoopbackAssumption`: a recalibration waits for two seconds or more (the code: three)
  before it takes a pulse for missed. With one second it may let the counter go in a
  second whose pulse is still to be published, and TLC finds the sample after it invalid.
* `NearAssumption`: client and primary are within half an era of each other, which
  `to_unix_ns_near` asks of its caller, also when the client's clock has strayed
  (`Loose`) and while it waits (`Wander`). `WidestAssumption`: i64 nanoseconds hold the
  times of the run. `BaseAssumption`: the base dispersion, 1 ms, covers the
  rounding of the short format, 15 us. `StrangerAssumption`: only the primary claims
  to be synchronised.
* `StampAssumption`: `Oldest` is further back than any correction of the epoch reaches.
* `LineAssumption`: start, terminators and other bytes differ.
* `ScheduleAssumption`: every word the output may be given fits its register, and
  its period is longer than the task takes to handle an edge (the code: a word of
  about 125 million cycles, corrections of some thousands, a task that waits for
  nothing but the edge). `next_period` narrows to 32 bits without a check, so the
  first half is what the caller owes it.
* `PioAssumption`: a pulse is at least five cycles (the code's: tens of
  milliseconds), so that it outlasts its own capture, and is over when the machines
  are started. `StrayAssumption`: there is a distance, `Stray`, that the output's
  edge need not leave: the loop can turn it either way, and a period's correction
  does not take it from where it may be left alone (`Near`, and what a phase may be
  misread by) past `Stray`; and `Stray` is less than half a second, less than what the
  task leaves of one, and with a second less than a turn of the counters. The code
  corrects some thousands of cycles in a second of 125 million, its counters turn
  in 68.7 s.

`Gnssdo_proofs`. The invariant is `TypeOK`, `FreqBounded`, `SlopeAtRest` (no slope
before the lock: the level is a plain average until then) and
`CalmPaysQuarantine` (edges still owed to the quarantine and those gone by cover
`QuarantineSamples`). The bound on `freq` is where the pull of an admitted edge
(at least a 1/AlphaDiv share of the distance) balances the largest slope; its
arithmetic is in lemmas about division. From it: `TypeCorrect`,
`EstimateBounded`, `QuarantineHolds`, `EdgeAuthorityBounded`. `GapsQuarantined` says
the same of true gaps, which reach the estimator through the wrapped counter:
`GapInv` counts `settled` against the quarantine as `CalmPaysQuarantine` counts
`calm`, and a spacing is judged as it was meant by `FoldAssumption`. `ReadoutInverse`
and `HoldoverTracks` are about arithmetic: how far a quotient towards zero is from the
true one, first for the level alone, then for the level and the slope's projection
together, where the holdover's formula is rearranged into a square.

`PhaseLoop_proofs`. `LoopInv` is `TypeOK` with two accounts: `LockAccount` (while
the loop reports lock, the strayed edges in a row are among those it counts as
rejected) and `BoostAccount` (the edges in the boost are those the controller has
counted). One lemma per controller says what a step does to the
limits and the counters. `TypeCorrect` is a result here and not bookkeeping: no
gain or phase takes a trim past its limit, the reworked integrator's bleeding
back included. Then `StrayedLockEnds`, `BoostEnds`, `SwitchIsSeamless`.

`RpPps_proofs`. `PunctualPairing` assumes `Stamp = -Association` (the receiver
is configured right) and shows that while `punctual` the line holds at most the
sentence of the second in progress and the pending edge is of that second.
`PairedOnce` needs only that a paired edge is no longer pending.
`SentencesPassWhole`: there is at most one place in the stream where a sentence may be
open (`OpenAt`: a start, with neither a start nor a terminator after it), and
`LineInv` says that the assembler's buffer is the stream from there, or the
sentence has outgrown it. `DatesCount`: counted from March the days before a year and
before a month are quotients; what they add up to from one day, month and year to
the next is `DayAfter`, `MonthAfter` and `YearAfter`, and no induction is needed
because the walk of `Calendar` is the induction.
`EdgesKeepSchedule` follows the output program and its capture clock by clock. The
invariant, `ScheduleInv`, has three accounts over one number, the cycles since the
last edge: `OutputAt` (which instruction the program is at, and what its registers
hold, for the word of this period), `EdgeHeard` (the capture takes four cycles at
most to push the edge, it waits out the pulse before it looks for the next, and
the task answers within `Prompt`, so the next word is there when the program
comes to pull it) and `Ledger` (what the accumulator holds is exactly what the
output will fall short by once the words already given are spent). The last is
why the error of a dithered period never adds up; the first two are why no word
is used twice or skipped, without which it would. The lemmas before them say
what each instruction does (`OutputCycle`, `CaptureCycle`).
`PhaseReadsTrue` is about both captures and the loop together. A counter takes two
cycles a count and one more to wrap, so it goes round a lap of `2 * Word + 1` cycles,
and three more for every pulse it sees end. `Where` is its place in the lap with the
pulse in hand already counted; a clock moves it on by one, whatever the instruction
(`WhereStep`, `WhereEdge`). Hence three facts about places modulo laps: the two machines
stay as far apart as they were started, but for the pulses one of them has seen more
(`InStep`); a count was taken zero to two cycles after its edge, two only at a wrap
(`Stamps`, `StampTaken`); and so the distance of two edges, less twice the lag
of their counts, is three cycles at most, once it is known that they are too near for
another lap (`LagRead`, `ReadPhase`). That they are is the loop's doing and the other
half of the invariant: `NearSecond` keeps the last edge and the ends of the periods its
words will make within `Stray` of the second. A word is given two edges ahead, on a
phase that is itself such a reading (`TurnedBack`): the two statements are
proved together, by one induction. `PhaseFaithful` says three cycles, a tick and a
half: an edge met by the instruction that goes on to wrap is counted two cycles late.

`Loopback_proofs`. The invariant is `Types`, `PinFollows`, `Room` and `Fed`. `Room`
says that every output edge still to be handled has taken a word out of the FIFO,
so the iteration's word always fits, also after stalls and starvation
(`EveryWordIsKept`); `Fed` that without a stall there is a word for the next edge
(`OutputIsFed`). `SamplesResume` needs who has seen which edge of the second: without a
stall or a long lead an output edge in hand is of this second (`Edges`), a publication
not yet read is too and belongs to an output edge still to be dealt with
(`Published`), `last_x` is the second before (`Chain`), and `recal_k` lets go of the
counter only when no publication can follow (`Measuring`).

`BootCalibration_proofs`. `OffsetIsOfSameEdge` needs an invariant about which edges
the FIFOs, the half in hand and the pairs taken are of, depending on whether
this attempt was raced; it assumes nothing of the receiver. `CleanIsSameEdge`
needs another, about sizes: in a raced attempt every pair is an interval, to the tick of
the sampling, and the FIFOs hold what the next will be made of; with intervals that
differ by three ticks (`Varies >= 3`) two pairs in a row show more spread than
the check lets pass. Of a receiver that is steadier the theorem is false, which the
violation's run shows. `RetriesRecover` assumes the same and fewer races than attempts.

`NtpExchange_proofs`. The arithmetic first: a whole number of nanoseconds comes back from
its fraction, a time from its timestamp by a clock near enough across the end of an era
(`NearExact`), and the short format loses at most `Grain` below its ceiling and nothing
above (`ShortBack`, `PastCeiling`). The invariant has three parts: the primary's slip
is within what it claims (`ClockInv`); an answer repeats a question that had arrived
before it left, and what it claims covers the slip it left with (`NetInv`); no
packet with the time of the question in hand is older than that question, and the
client's clock, drifting since it was set, is within what it measured, its source
claimed and it lost unseen (`ClientInv`). Then
`TakesTheTruth`, `ClaimsNoBetterClock`, `PassesNoBetterClock`.

`NtpBroadcast_proofs`. `LinkInv` (what each stage of the establishing knows of the
receiver) gives `LinkFollows`; with `TaskInv` (types, `Busy`: how long the pair
can have been quiet where the task is; `Vouched`; `Aimed`: the sleep ends at the
target) `PairStaysUp`, `SpeaksVouched`, `PacketsOnTime`. `SecondsInOrder` adds
`StampInv`: a packet under way names a second after all that were announced, and its
sleep ends there but for the error it was prepared with, so that it is handed over
before a correction of the epoch can put another second in its place.

`Mailbox_proofs`. `MailboxImplements`: `Spec` implements `RequestReply`, with
`asked` the request of an exchange in progress. For every place host and firmware
can be in together, the invariant says what the mailbox holds if the firmware is
at work on *this* request (`bell = seq`). What it does for an earlier doorbell is
not constrained: `done` will then not match.

Only model-checked:

* all liveness, since TLAPS has no rules for fairness and `ENABLED` here;
* `SettledHolds`: that a disturbance does not take a settled loop out of lock is a
  matter of the tuning's numbers, not true of every gain;
* `FrameReadBack`: a checksum is a walk over the frame, and what a walk computes for
  every input needs an induction over data, which the installed provers cannot
  instantiate.

## 5. Not modelled, and why

* `qerr.rs`: a subtraction with rounding that no firmware calls.
* `PolarityProbe`: a count of samples over a second and a half, multiplied by 100
  for a percentage (it would overflow after 43 million samples, it takes far fewer).
* Log output, telemetry, and the experiments behind `const` flags that are off in
  production (PRBS, kick, shadow recalibration, intermittent loopback, run-time
  changes of the feedforward).
* The receiver's configuration sentences and their acknowledgements, which only log.
* The fields of an NMEA sentence as text; the yanmea back end, which is a dependency.
* Of NTP: leap warnings, poll, precision, reference identifiers: no decision reads them.
* The bridge's pin-probing modes: measuring aids without state. Set-up of pins,
  clocks and DMA.
* The web application and the analysis scripts.

Hazards without a property: a firmware restart in the middle of the host's
reading of a reply (undetectable, see Mailbox), and an estimate kept frozen by a
pulse that is missed every few seconds: the quarantine starts anew each time,
which is what the code means to do (gpsdo.rs:349, 530-538); nothing says how
often is too often.

## 6. Plan

Done so far: the estimator with its feedforward and its readings, the capture
timeline, the pairing, the output loop and its calibrations, the controllers, the
receiver link, NTP on both sides and its firmware, the mailbox, the data path.

What would add most next:

1. `Loopback` and `PhaseLoop` composed: the loop's sample stream, four edges of
   latency after a recalibration included, into the controllers.
2. The mailbox's firmware restart with the reply's `done` written before it.
3. `NmeaLine` in front of `PpsPairing`: which sentences a corrupted stream can
   still put to the pairing.
