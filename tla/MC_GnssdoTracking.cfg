SPECIFICATION TSpec
CONSTANTS
  Nominal = 100
  Tolerance = 20
  SaneDev = 16
  ConvergeGate = 8
  ResidualGate = 2
  Scale = 4
  AlphaDiv = 4
  AlphaFastDiv = 2
  SlopeDiv = 8
  SlopeMax = 2
  SlopeWiden = 2
  SlopeFreeze = 24
  LockSamples = 4
  QuarantineSamples = 2
  Deltas = {0}
  CounterSpan = 603
  TempUnit = 4
  SmDiv = 2
  RegDiv = 4
  LeadDiv = 2
  Lag = 1
  LagUnit = 1
  LeadClamp = 1
  KClamp = 20
  ObsDiv = 2
  PredLead = 1
  SteerBound = 10
  Tempco = 1
  Temps = {0, 1}
  ReadFrom = 3
  Spacings <- MCSpacings
  Multipath <- MCMultipath
  Honest = 103
  MultipathFrom = 4
  MaxDisturbances = 3
  MaxWarmings = 1
PROPERTY GapQuarantined
PROPERTY HonestEdgesApplied
PROPERTY Converges
PROPERTY SteeringSettles
