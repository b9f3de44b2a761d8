CONSTANTS
  Exprs <- MCExprs
  Snaplens <- MCSnaplens
SPECIFICATION CgSpec
INVARIANTS
  CgTypeOK
  LabelsPlacedOnce
  NoBackwardJump
  NeverPanics
