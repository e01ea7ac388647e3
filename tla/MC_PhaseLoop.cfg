SPECIFICATION Spec
CONSTANTS
  Scale = 4
  CorrClamp = 100
  LockWindow = 16
  LockHold = 3
  Outlier = 48
  OutlierMax = 2
  TrimMax = 32
  KpInv = 4
  DDen = 4
  IDen = 12
  IEnable = 80
  Calm = 16
  Shift = 1
  Deadband = 0
  InputClamp = 13
  KbcInv = 5
  Steady <- SteadyGains
  Fast <- FastGains
  InnovEnter = 48
  BoostMax = 6
  ExitWindow = 16
  ExitHold = 3
  Start <- Starts
  Drifts <- Residues
  Spikes <- BadCaptures
  Jumps <- Kicks
  MaxFaults = 2
  When <- Moments
  Settling = 40
INVARIANT SettledHolds
INVARIANT AstrayBounded
INVARIANT BoostBounded
PROPERTY SwitchSeamless
PROPERTY Settles
