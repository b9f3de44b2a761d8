CONSTANTS
  MaxUnits = 0
  Inputs <- MCMatched
  Hosts <- MCHosts
  Nets <- MCNets
  Ports <- MCPorts
  Macs <- MCMacs
  EtherTypes <- MCEtherTypes
  Continuations <- MCContinuations
SPECIFICATION ParseSpec
INVARIANT UnbalancedIsUnbalanced
CHECK_DEADLOCK FALSE
