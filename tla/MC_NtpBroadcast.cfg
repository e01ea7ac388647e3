SPECIFICATION Spec
CONSTANTS
  MaxFaults = 3
  Nanos = 2
  Frac = 4
  EraSecs = 24
  UnixOffset = 3
  ShortSecs = 3
  ShortFrac = 4
  Widest = 1000
  BaseDispersion = 1
  DriftDen = 1
  MaxHoldover = 11
  MaxStratum = 16
  WidestStratum = 255
  NoTime = NoTime
  Second = 6
  Nlp = 2
  Late = 1
  Early = 1
  LockAfter = 2
  Errors <- OneSecond
  Oldest <- LongAgo
INVARIANT LinkHeld
INVARIANT PortFollows
PROPERTY StampsIncrease
PROPERTY LeavesOnTime
PROPERTY SpeaksOnlyVouched
PROPERTY Announces
