SPECIFICATION DataSpec
CONSTANTS
  Word = 73
  Depth = 4
  Clk = 48
  Unit = 2
  Widths <- PulseWidths
  Offsets <- CounterOffsets
  Freqs <- FreqOffsets
  Corrs <- Corrections
  MaxLag = 4
  Near = 3
  Prompt = 7
  Stray = 16
  Start = "$"
  Terminators = {"CR"}
  Others = {"a", "b"}
  MaxSentence = 4
  MaxBytes = 8
  LastYear = 2104
  Frames <- SomeFrames
  TxDepth = 8
  MaxSent = 2
  Attempts = 4
  Samples = 4
  Enough = 3
  Intervals <- Unsteady
  Varies = 3
  MaxRaces = 3
  MaxTimeouts = 2
INVARIANT PhaseFaithful
INVARIANT EdgesOnSchedule
INVARIANT SentencesWhole
INVARIANT DaysCounted
INVARIANT FrameReadBack
INVARIANT OffOnlyByRace
INVARIANT RetryRecovers
CHECK_DEADLOCK FALSE
