CONSTANTS
  Kinds <- SplitKinds
  Chunk = 3
  MaxLines = 2
  MaxTruncations = 0
SPECIFICATION Spec
INVARIANT LiveMatchesCorpus
CHECK_DEADLOCK FALSE
