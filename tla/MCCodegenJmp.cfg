CONSTANTS
  Exprs <- MCExprs
  Snaplens <- MCSnaplens
SPECIFICATION CgSpec
INVARIANT NoJmpEmitted
