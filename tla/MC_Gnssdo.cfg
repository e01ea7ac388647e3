SPECIFICATION Spec
CONSTANTS
  Nominal = 100
  Tolerance = 20
  SaneDev = 8
  ConvergeGate = 4
  ResidualGate = 2
  Scale = 4
  AlphaDiv = 4
  AlphaFastDiv = 2
  SlopeDiv = 2
  SlopeMax = 2
  SlopeWiden = 2
  SlopeFreeze = 8
  LockSamples = 4
  QuarantineSamples = 2
  Deltas <- MCDeltas
  Horizon = 8
INVARIANT FreqBounded
INVARIANT ReadoutInverts
INVARIANT HoldoverTracksRamp
PROPERTY QuarantineProtects
PROPERTY EdgeAuthority
