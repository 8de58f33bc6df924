\* Four slots, two buckets, two pages of the file with descriptor 3; the block
\* in the frame of slot 0 has an address for which no bucket exists.
SPECIFICATION Spec
CONSTANTS
  NumPages = 4
  NumBuckets = 2
  Fd = 3
  MaxPages = 2
INVARIANTS
  TypeOK
  ChainsMatchLists
  EvictsLeastRecent
PROPERTY ActsAsPool
