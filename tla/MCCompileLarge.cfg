CONSTANTS
  Sources <- MCLarge
  Snaplens <- MCSnaplens
  PacketsOn <- MCPacketsOn
  MaxDisp = 255
  UsizeMax <- MCUsizeMax
SPECIFICATION CompSpec
INVARIANT OverflowNeedsManyPrimitives
