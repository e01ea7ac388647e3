SPECIFICATION Spec
CONSTANTS
  Stamp <- PreviousSecond
  Association = 1
  Faults <- Outages
  MaxFaults = 2
INVARIANT EpochRight
