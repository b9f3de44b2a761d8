CONSTANTS
  MaxLen = 3
  UsizeMax <- MCUsizeMax
  Programs <- MCPrograms
  Packets <- MCPackets
SPECIFICATION PairSpec
INVARIANTS
  AgreeUntilRejected
  TruncationOnlyRejects
PROPERTIES
  BothReturn
CHECK_DEADLOCK FALSE
