SPECIFICATION Spec
CONSTANTS
  Stamp <- PreviousSecond
  Association = 1
  Faults <- AllFaults
  MaxFaults = 5
INVARIANT PunctualEpochRight
PROPERTY EdgePairedOnce
PROPERTY EpochHeals
