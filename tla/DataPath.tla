------------------------------ MODULE DataPath ------------------------------
(***************************************************************************)
(* The parts that carry an edge, a sentence, a date and a frame, and the    *)
(* calibration of the counters at boot.  They share no state, so what one   *)
(* does is the same whatever the others do: a behaviour moves one of them,  *)
(* `part`, and leaves the others at rest.                                   *)
(***************************************************************************)
EXTENDS BootCalibration

CONSTANTS Word, Depth, Clk, Unit, Widths, Offsets, Freqs, Corrs, MaxLag, Near, Prompt, Stray,
          Start, Terminators, Others, MaxSentence, MaxBytes,
          LastYear,
          Frames, TxDepth, MaxSent

\* A pulse of the receiver outlasts its capture and is over when the machines start.
ASSUME PioAssumption ==
  /\ {Word, Depth, Clk, Unit} \subseteq Nat \ {0} /\ Word > Clk
  /\ Widths \subseteq 5..(Clk - 9) /\ Offsets \subseteq 0..(Word - 1)
  /\ Freqs \subseteq Int /\ Corrs \subseteq Int
  /\ MaxLag \in Nat /\ 4 * MaxLag < Clk /\ Near \in Nat /\ Prompt \in Nat
ASSUME LineAssumption ==
  /\ MaxSentence \in Nat \ {0} /\ MaxBytes \in Nat
  /\ Start \notin Terminators /\ Start \notin Others /\ Terminators \cap Others = {}
ASSUME CalendarAssumption == LastYear \in Nat /\ LastYear >= 1970
ASSUME EtherAssumption == TxDepth \in Nat \ {0} /\ MaxSent \in Nat

VARIABLES part,
          t, sm, width, offset, freq, acc, cap, seen, rose, wants, late,
          buf, inSentence, emitted, wire,
          year, month, day, n,
          symbols, fifo, heard, due, sent

edges == <<t, sm, width, offset, freq, acc, cap, seen, rose, wants, late>>
line == <<buf, inSentence, emitted, wire>>
calendar == <<year, month, day, n>>
ether == <<symbols, fifo, heard, due, sent>>
dataVars == <<part, edges, line, calendar, ether, bootVars>>

Edges == INSTANCE PioEdges
Line == INSTANCE NmeaLine
Calendar == INSTANCE CivilTime
Ether == INSTANCE EtherLine

\* A word of the output fits its register and is longer than the task takes.
ASSUME ScheduleAssumption ==
  /\ Prompt <= 2 * Clk
  /\ \A w \in Widths, f \in Freqs \union {0}, c \in Corrs \union {0} :
       LET word == Edges!OutputPeriodCycles(w) + f \div Unit - c
       IN  word \in 0 .. (Word - 2) /\ Prompt < w + word + 3

\* Stray bounds what the output's edge may be off the receiver's second: the loop
\* can turn it either way and is gentle enough not to pass the bound, the task has
\* handled an edge before the other's next, and a count says which second it is of.
ASSUME StrayAssumption ==
  /\ Clk % Edges!CyclesPerTick = 0 /\ Stray \in Nat
  /\ 2 * Stray + 12 < Clk /\ Prompt + Stray < Clk /\ Clk + Stray + 6 < Word
  /\ \A f \in Freqs : /\ \E c \in Corrs : c * Unit <= f
                      /\ \E c \in Corrs : c * Unit >= f
  /\ \A f \in Freqs, c \in Corrs :
       LET slip == f \div Unit - c
       IN  2 * Near + 6 + 2 * slip + 2 <= Stray /\ 2 * Near + 6 - 2 * slip <= Stray

DataInit ==
  /\ part \in {"edges", "line", "calendar", "ether", "boot"}
  /\ Edges!Init /\ Line!Init /\ Calendar!Init /\ Ether!Init /\ BootInit
  \* one start is enough for a part that rests
  /\ part # "edges" => t = Clk - 4 /\ \A w \in Widths : w >= width.gps /\ w >= width.out
  /\ part # "boot" => fifo0 = <<>> /\ \A i \in Intervals : i >= interval

DataNext ==
  \/ part = "edges" /\ Edges!Next /\ UNCHANGED <<part, line, calendar, ether, bootVars>>
  \/ part = "line" /\ Line!Next /\ UNCHANGED <<part, edges, calendar, ether, bootVars>>
  \/ part = "calendar" /\ Calendar!Next /\ UNCHANGED <<part, edges, line, ether, bootVars>>
  \/ part = "ether" /\ Ether!Next /\ UNCHANGED <<part, edges, line, calendar, bootVars>>
  \/ part = "boot" /\ BootNext /\ UNCHANGED <<part, edges, line, calendar, ether>>

DataSpec == DataInit /\ [][DataNext]_dataVars
-----------------------------------------------------------------------------
\* Each part's property, stated and explained in its own module: the phase read
\* from two wrapping counters is the true one (lib.rs:189-205, 358-385),
PhaseFaithful == Edges!PhaseFaithful
\* the output's edges stay on their schedule (lib.rs:66-71, 521-567),
EdgesOnSchedule == Edges!EdgesOnSchedule
\* whole sentences and nothing else leave the assembler (assembler.rs:29-62),
SentencesWhole == Line!SentencesWhole
\* dates count days and impossible ones are refused (timesync.rs:15-65, 107-143),
DaysCounted == Calendar!DaysCounted
\* and a receiver reads every frame as what was to be sent (frame.rs:91-225).
FrameReadBack == Ether!FrameReadBack
=============================================================================
