----------------------------- MODULE PioPrograms -----------------------------
(***************************************************************************)
(* The PIO programs of rp-pps, cycle by cycle, and the words the library    *)
(* computes for them.  A state machine is a record of its program counter,  *)
(* its registers, its FIFOs and the pin it drives; Cycle is one clock.      *)
(***************************************************************************)
EXTENDS FixedPoint, Sequences, SequencesExt

CONSTANTS
  Word,    \* 2^32: what a register counts to
  Depth,   \* entries of a FIFO
  Clk,     \* clk_hz: cycles of a second
  Unit     \* 10^12: parts per cycle of the dither's accumulator

CyclesPerTick == 2
OutputOverhead == 7

Ins(op, arg, to) == [op |-> op, arg |-> arg, to |-> to]

\* mutant: pps_capture_program, without the toll of the high loop
CaptureProgramPlain ==
  << Ins("jmp", "pin", 4), Ins("jmp", "x--", 1), Ins("jmp", "always", 1),
     Ins("in", "x", 0), Ins("push", "noblock", 0),
     Ins("jmp", "x--", 7), Ins("jmp", "pin", 6) >>

(* pps_capture_program_wrap_balanced; 1 is low, 4 rising, 6 high, 8 highchk.  *)
CaptureProgram ==
  << Ins("jmp", "pin", 4), Ins("jmp", "x--", 1), Ins("jmp", "always", 1),
     Ins("in", "x", 0), Ins("push", "noblock", 0),
     Ins("jmp", "x--", 8), Ins("jmp", "always", 8), Ins("jmp", "pin", 6) >>

(* pps_output_program; 4 is the wrap target, 8 high, 10 low.                  *)
OutputProgram ==
  << Ins("pull", "block", 0), Ins("mov_isr", "osr", 0), Ins("set_pindirs", "1", 0),
     Ins("pull", "noblock", 0), Ins("mov_y", "osr", 0), Ins("mov_x", "isr", 0),
     Ins("set_pins", "1", 0), Ins("jmp", "x--", 8), Ins("set_pins", "0", 0),
     Ins("jmp", "y--", 10) >>

WrapTarget(program) == IF program = OutputProgram THEN 4 ELSE 1

Machine(x, tx) ==
  [pc |-> 1, x |-> x, y |-> 0, isr |-> 0, osr |-> 0, pin |-> FALSE, tx |-> tx, rx |-> <<>>]
-----------------------------------------------------------------------------
Counts(ins, register) == ins.op = "jmp" /\ ins.arg = register
Lowered(v) == (v - 1) % Word

\* a conditional jump tests the register before it counts it down
Jumps(m, ins, level) ==
  CASE ins.arg = "always" -> TRUE
    [] ins.arg = "pin" -> level
    [] ins.arg = "x--" -> m.x # 0
    [] ins.arg = "y--" -> m.y # 0

\* pull noblock takes X when there is nothing to pull
Pulled(m) == IF m.tx = <<>> THEN m.x ELSE Head(m.tx)

Blocked(m, ins) == ins.op = "pull" /\ ins.arg = "block" /\ m.tx = <<>>

NextPc(program, m, ins, level) ==
  IF Blocked(m, ins) THEN m.pc
  ELSE IF ins.op = "jmp" /\ Jumps(m, ins, level) THEN ins.to
  ELSE IF m.pc = Len(program) THEN WrapTarget(program) ELSE m.pc + 1

\* one clock, with the jmp pin at level
Cycle(program, m, level) ==
  LET ins == program[m.pc] IN
  [m EXCEPT
    !.pc = NextPc(program, m, ins, level),
    !.x = CASE Counts(ins, "x--") -> Lowered(@) [] ins.op = "mov_x" -> m.isr [] OTHER -> @,
    !.y = CASE Counts(ins, "y--") -> Lowered(@) [] ins.op = "mov_y" -> m.osr [] OTHER -> @,
    !.isr = CASE ins.op = "in" -> m.x [] ins.op = "mov_isr" -> m.osr
              [] ins.op = "push" -> 0 [] OTHER -> @,
    !.osr = IF ins.op = "pull" THEN Pulled(m) ELSE @,
    !.tx = IF ins.op = "pull" /\ @ # <<>> THEN Tail(@) ELSE @,
    !.rx = IF ins.op = "push" /\ Len(@) < Depth THEN Append(@, m.isr) ELSE @,
    !.pin = IF ins.op = "set_pins" THEN ins.arg = "1" ELSE @]

Pushes(program, m) == program[m.pc].op = "push"
-----------------------------------------------------------------------------
(* What the library computes.                                                 *)

\* set_period: a full FIFO drops the word
TryPush(fifo, w) == IF Len(fifo) < Depth THEN Append(fifo, w) ELSE fifo

\* output_period_cycles
OutputPeriodCycles(high) == Clk - OutputOverhead - high

\* mutant: the fraction is thrown away
NextPeriodForgets(acc, freq, corr, high) ==
  [acc |-> 0, word |-> OutputPeriodCycles(high) + (acc + freq) \div Unit - corr]

(* OutputPeriodDither::next_period: freq in parts per second, the correction   *)
(* in cycles; \div and % are div_euclid and rem_euclid.                        *)
NextPeriod(acc, freq, corr, high) ==
  [acc |-> (acc + freq) % Unit,
   word |-> OutputPeriodCycles(high) + (acc + freq) \div Unit - corr]

\* latest_capture
LatestCapture(fifo) == Last(fifo)

Signed(v) == IF 2 * v >= Word THEN v - Word ELSE v

\* loopback_raw_lag_ticks
RawLag(reference, output, offset) == Signed((reference - output - offset) % Word)

\* loopback_phase_ticks: % keeps the dividend's sign
LoopbackPhaseTicks(reference, output, offset) ==
  LET second == Clk \div CyclesPerTick
      lag == RawLag(reference, output, offset)
      r == lag - second * Quot(lag, second)
  IN  IF r > second \div 2 THEN r - second
      ELSE IF r < -(second \div 2) THEN r + second ELSE r
=============================================================================
