SPECIFICATION FairSpec
CONSTANTS
  one = one
  two = two
  three = three
  empty = empty
  Batches <- MCBatches
  BatchSize <- MCBatchSize
INVARIANTS TypeOK OneWriteAtATime NeverStalled BatchesInOrder
PROPERTY AllWritten
CHECK_DEADLOCK FALSE
