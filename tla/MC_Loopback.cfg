SPECIFICATION Spec
CONSTANTS
  TxDepth = 4
  RxDepth = 4
  RecalSamples = 2
  Patience = 2
  MaxMisses = 2
  MaxRecals = 2
  MaxLongLeads = 1
  MaxStalls = 1
\* an output that has run dry makes no more edges
CHECK_DEADLOCK FALSE
INVARIANT FedWhileScheduled
PROPERTY NoWordDropped
PROPERTY SampleResumesUnled
PROPERTY LoopRecovers
PROPERTY MissRealigns
