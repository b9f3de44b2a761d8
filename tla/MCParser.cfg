CONSTANTS
  MaxUnits = 5
  Inputs <- MCInputs
  Hosts <- MCHosts
  Nets <- MCNets
  Ports <- MCPorts
  Macs <- MCMacs
  EtherTypes <- MCEtherTypes
  Continuations <- MCContinuations
SPECIFICATION ParseSpec
INVARIANTS
  ParseTypeOK
  DepthIsNesting
  ReadsGrammar
  FirstWrongToken
  FitsCodegen
  LiteralsRead
PROPERTY ParseTerminates
CHECK_DEADLOCK FALSE
