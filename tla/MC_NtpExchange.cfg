SPECIFICATION Spec
CONSTANTS
  Nanos = 2
  Frac = 4
  EraSecs = 26
  UnixOffset = 3
  ShortSecs = 2
  ShortFrac = 4
  Widest = 1000
  BaseDispersion = 1
  DriftDen = 1
  MaxHoldover = 3
  MaxStratum = 16
  WidestStratum = 255
  NoTime = NoTime
  Start = 43
  Horizon = 47
  Skews <- ClockSkews
  Rates <- Gains
  Loose = 8
  Wander = 6
  Strangers <- Others
  PathDelay = 2
  Processing <- OwnTimeSlow
  Reach = 14
  MaxRequests = 2
  MaxAnswers = 2
INVARIANT MeasuredSound
INVARIANT PassedOnHonest
INVARIANT PrimaryHonest
