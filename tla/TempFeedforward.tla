-------------------------- MODULE TempFeedforward --------------------------
(***************************************************************************)
(* The temperature feedforward of DisciplinedClock: a regression of the     *)
(* measured frequency on the die's temperature, a lead filter that turns    *)
(* the die's temperature into the crystal's, an observer for the rest, and  *)
(* the frequency the output is steered with.  It is enabled once at boot    *)
(* and never switched here.  temp_die_lp goes through the same filter as    *)
(* temp_sm, and temp_die_prev is its value before, so sm stands for both.   *)
(***************************************************************************)
EXTENDS CaptureTimeline

CONSTANTS
  TempUnit,       \* 2^TEMP_FP
  SmDiv,          \* 2^temp_ff_sm_shift
  RegDiv,         \* 2^temp_ff_shift
  LeadDiv,        \* 2^temp_ff_dlead_shift
  Lag, LagUnit,   \* temp_ff_lag_q8, and its 256
  LeadClamp,      \* temp_ff_lead_clamp_raw
  KClamp,         \* temp_k_clamp_mppb
  ObsDiv,         \* 2^resid_obs_shift
  PredLead,       \* pred_lead_samples
  SteerBound      \* steer_ff_bound_mppb

ASSUME FeedforwardAssumption ==
  /\ {TempUnit, SmDiv, RegDiv, LeadDiv, LagUnit, ObsDiv} \subseteq Nat \ {0}
  /\ Lag \in Nat /\ LeadClamp \in Nat /\ KClamp \in Nat
  /\ PredLead \in Nat /\ SteerBound \in Nat

VARIABLE temp  \* the states temp_*, r_resid and tcrys_hat

fvars == <<cvars, temp>>

\* `/` rounds toward zero
Ratio(x, y) == IF x < 0 THEN -((-x) \div y) ELSE x \div y

\* temp_ff_mppb, with the coefficient of temp_k_mppb_per_unit
Feedforward(f) ==
  IF f.var <= 0 THEN 0
  ELSE Ratio(Clamp(Ratio(f.cov * TempUnit, f.var), KClamp) * (f.crystal - f.ref), TempUnit)

\* mutant: the observer is told nothing of the feedforward
ObservedAlone(f, measured) == f.resid + (measured - f.resid) \div ObsDiv
Observed(f, measured) == f.resid + (measured - Feedforward(f) - f.resid) \div ObsDiv

\* the last part of update_freq, for an edge that was applied
Learned(measured) ==
  LET mt == temp.mt + (temp.sm - temp.mt) \div RegDiv
      mf == temp.mf + (measured - temp.mf) \div RegDiv
      dt == temp.sm - mt
      df == measured - mf
      f  == [temp EXCEPT !.mt = mt, !.mf = mf,
                         !.cov = @ + (dt * df - @) \div RegDiv,
                         !.var = @ + (dt * dt - @) \div RegDiv]
  IN  [f EXCEPT !.resid = Observed(f, measured)]

\* on_pps_edge with the temperature part: only an edge applied by a locked clock teaches
OnPpsEdgeLearning(spacing) ==
  /\ OnPpsEdge(spacing)
  /\ temp' = IF temp.have /\ IsLocked /\ outcome' = "Applied"
               THEN Learned((Measured(spacing) - Nominal) * Scale) ELSE temp

\* update_temp: the first reading is the reference
FirstTemp(reading) ==
  [temp EXCEPT !.have = TRUE, !.sm = reading, !.mt = reading, !.mf = freq,
               !.ref = reading, !.lead = 0, !.crystal = reading]

NextTemp(reading) ==
  LET step == (reading - temp.sm) \div SmDiv
      lead == temp.lead + (step - temp.lead) \div LeadDiv
  IN  [temp EXCEPT !.sm = @ + step, !.lead = lead,
                   !.crystal = temp.sm + step
                                 + Clamp((Lag * lead) \div LagUnit, LeadClamp * TempUnit)]

UpdateTemp(reading) ==
  /\ temp' = IF temp.have THEN NextTemp(reading * TempUnit) ELSE FirstTemp(reading * TempUnit)
  /\ UNCHANGED cvars

\* predicted_freq_mppb and steering_freq_mppb
Engaged == temp.have /\ temp.var > 0
Predicted == IF Engaged THEN Feedforward(temp) + temp.resid ELSE freq + slope * PredLead
Steering == freq + Clamp(Predicted - freq, SteerBound)

FInit ==
  /\ CInit
  /\ temp = [have |-> FALSE, sm |-> 0, mt |-> 0, mf |-> 0, cov |-> 0, var |-> 0, ref |-> 0,
             resid |-> 0, lead |-> 0, crystal |-> 0]
=============================================================================
