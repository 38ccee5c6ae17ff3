CONSTANTS
  Parts <- MCParts
  Root = 1
  Trees <- MCTrees
  HeaderBlocks <- MCNoEnvelopeBlocks
  Octets <- MCOctets
  Lines <- MCLines
  UpperToLower <- MCUpperToLower
  MaxPasses = 2
  NULL = NULL
SPECIFICATION Spec
INVARIANT NoEnvelopeWithoutEnvelopeHeaders
CHECK_DEADLOCK FALSE
