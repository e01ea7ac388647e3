------------------------------ MODULE PioEdges ------------------------------
(***************************************************************************)
(* Three state machines on one clock: two capture the receiver's pulse and  *)
(* the output's, whose duty cycles differ, and one makes the output.  The   *)
(* capture counters wrap, each at its own time, for as long as the program  *)
(* runs; a task feeds the output one period word per captured edge.         *)
(***************************************************************************)
EXTENDS PioPrograms

CONSTANTS
  Widths,  \* high cycles of the receiver's pulse and of the output's
  Offsets, \* offset of the two capture counters, in ticks
  Freqs,   \* frequency offsets, in Unit-ths of a cycle per second
  Corrs,   \* phase corrections, in cycles
  MaxLag,  \* max_lag: ticks within which two edges are a pair
  Near,    \* ticks within which the phase loop may correct either way
  Prompt   \* bound: cycles within which the task handles a capture

VARIABLES
  t,       \* cycle of the receiver's second
  sm,      \* state machines: gps and out capture, gen makes the output
  width,   \* high cycles of the two pulses
  offset,  \* K: the counters' offset at start
  freq,    \* frequency asked for
  acc,     \* the dither's accumulator
  cap,     \* last value of each capture that was read
  seen,    \* history: cycles since the edge each capture saw last
  rose,    \* history: cycles since the output rose
  wants,   \* history: the lengths the words in the FIFO were computed for
  late     \* history: cycles the output is behind its ideal edge, in Unit-ths

vars == <<t, sm, width, offset, freq, acc, cap, seen, rose, wants, late>>

Gps == t < width.gps
Level(s) == IF s = "gps" THEN Gps ELSE sm.gen.pin

Captures == {"gps", "out"}
Program(s) == IF s = "gen" THEN OutputProgram ELSE CaptureProgram

\* the first word's wait, before the first edge, is not a second
Unset == -1
Rises == ~sm.gen.pin /\ sm.gen.pc = 7
Pulling == sm.gen.pc = 4

(* One clock of everything.  A captured edge is read before the next one.      *)
Clock ==
  /\ \A s \in Captures : sm[s].rx # <<>> => seen[s] < Prompt
  /\ t' = (t + 1) % Clk
  /\ sm' = [s \in DOMAIN sm |-> Cycle(Program(s), sm[s], s # "gen" /\ Level(s))]
  /\ seen' = [s \in Captures |->
       IF Pushes(Program(s), sm[s])
         THEN IF s = "gps" THEN t + 1 ELSE rose + 1
         ELSE IF seen[s] = Unset THEN Unset ELSE AtMost(seen[s] + 1, 2 * Clk)]
  /\ rose' = IF Rises THEN 0 ELSE IF rose = Unset THEN Unset ELSE rose + 1
  /\ late' = IF Rises /\ rose # Unset THEN late + (rose + 1) * Unit - wants[1] ELSE late
  /\ wants' = IF Rises /\ rose # Unset THEN Tail(wants) ELSE wants
  /\ UNCHANGED <<width, offset, freq, acc, cap>>

(* pps_task: the receiver's edge is read and published.                        *)
ReadGps ==
  /\ sm.gps.rx # <<>>
  /\ cap' = [cap EXCEPT !.gps = LatestCapture(sm.gps.rx)]
  /\ sm' = [sm EXCEPT !.gps.rx = <<>>]
  /\ UNCHANGED <<t, width, offset, freq, acc, seen, rose, wants, late>>

\* what is asked of the phase loop: it turns an output that has strayed back
Turns(c, out) ==
  LET phase == LoopbackPhaseTicks(cap.gps, out, offset)
  IN  cap.gps # Unset => /\ phase > Near => \A d \in Corrs : c >= d
                         /\ phase < -Near => \A d \in Corrs : c <= d

(* gen_capture_task: an output edge, and the word for the period after next.   *)
ReadOut ==
  \E c \in Corrs :
    LET next == NextPeriod(acc, freq, c, width.out)
    IN  /\ sm.out.rx # <<>> /\ Turns(c, LatestCapture(sm.out.rx))
        /\ cap' = [cap EXCEPT !.out = LatestCapture(sm.out.rx)]
        /\ Len(sm.gen.tx) < Depth
        /\ sm' = [sm EXCEPT !.out.rx = <<>>, !.gen.tx = TryPush(@, next.word)]
        /\ wants' = Append(wants, (Clk - c) * Unit + freq)
        /\ acc' = next.acc
        /\ UNCHANGED <<t, width, offset, freq, seen, rose, late>>

Init ==
  /\ t \in {Clk - 4, Clk - 9} /\ offset \in Offsets
  /\ width \in [gps : Widths, out : Widths] /\ freq \in Freqs
  /\ sm = [gps |-> Machine(0, <<>>), out |-> Machine((0 - offset) % Word, <<>>),
           gen |-> Machine(0, <<width.out, OutputPeriodCycles(width.out)>>)]
  /\ acc = 0 /\ cap = [s \in Captures |-> Unset]
  /\ seen = [s \in Captures |-> Unset] /\ rose = Unset
  /\ wants = <<Clk * Unit>> /\ late = 0

Next == Clock \/ ReadGps \/ ReadOut
Spec == Init /\ [][Next]_vars
-----------------------------------------------------------------------------
Both == \A s \in Captures : cap[s] # Unset /\ sm[s].rx = <<>>
Lag == RawLag(cap.gps, cap.out, offset)

\* The phase read from the two counters is the true distance of the two edges,
\* to a tick and a half, however long the counters have run, wherever each of
\* them wrapped and whatever the duty cycles of the two pulses (lib.rs:189-205,
\* 358-385).  Each count is up to two cycles late, the latest only where its
\* counter wraps, and the wrap is a cycle of its own.
PhaseFaithful ==
  Both /\ Abs(Lag) <= MaxLag =>
    Abs(CyclesPerTick * LoopbackPhaseTicks(cap.gps, cap.out, offset) - (seen.gps - seen.out)) <= 3

\* The output's edges come within a cycle of their ideal times, for any width
\* of the pulse and any frequency however small, and the error never adds up
\* (lib.rs:66-71, 521-567).
EdgesOnSchedule == late \in (1 - Unit) .. 0
=============================================================================
