CONSTANTS
  Kinds <- ReplayKinds
  Chunk = 4
  MaxLines = 3
  MaxTruncations = 1
SPECIFICATION Spec
INVARIANTS TypeOK PairsTheRightLines PublishedInOrder
PROPERTIES SeeksRight EverythingIsRead
CHECK_DEADLOCK FALSE
