CONSTANTS
  MaxLen = 5
  MaxDisp = 1
  Streams <- MCStreams
SPECIFICATION BpSpec
INVARIANTS
  BpTypeOK
  PanicsOnlyIllFormed
  JumpsLand
  AssembledWhole
  AssembledValid
  OverflowIsReal
