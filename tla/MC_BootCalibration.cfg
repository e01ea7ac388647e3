SPECIFICATION BootSpec
CONSTANTS
  Attempts = 4
  Samples = 4
  Enough = 3
  Intervals <- Steady
  Varies = 0
  MaxRaces = 3
  MaxTimeouts = 2
\* the calibration ends
CHECK_DEADLOCK FALSE
INVARIANT CleanMeansSameEdge
