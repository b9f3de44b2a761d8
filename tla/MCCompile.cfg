CONSTANTS
  Sources <- MCSources
  Snaplens <- MCSnaplens
  PacketsOn <- MCPacketsOn
  MaxDisp = 255
  UsizeMax <- MCUsizeMax
SPECIFICATION CompSpec
INVARIANT OutputValid
PROPERTY KeepsPromise
