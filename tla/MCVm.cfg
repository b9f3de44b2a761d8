CONSTANTS
  MaxLen = 3
  UsizeMax <- MCUsizeMax
  Programs <- MCPrograms
  Packets <- MCPackets
SPECIFICATION Spec
INVARIANTS
  TypeOK
  ValidNeverRunsOff
  ReturnHasCause
PROPERTIES
  ForwardOnly
  RunsAsListed
  Terminates
CHECK_DEADLOCK FALSE
