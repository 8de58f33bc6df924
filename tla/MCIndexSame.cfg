SPECIFICATION Spec
CONSTANTS
  MaxKeys = 3
  MaxEntries = 7
  KeyValues <- MCKeys
  MaxSame <- AllTwice
INVARIANTS
  EqualKeysFound
