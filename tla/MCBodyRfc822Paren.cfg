CONSTANTS
  Parts <- MCParts
  Root = 1
  Trees <- MCTrees
  HeaderBlocks <- MCEnvelopeBlocks
  Octets <- MCOctets
  Lines <- MCLines
  UpperToLower <- MCUpperToLower
  MaxPasses = 2
  NULL = NULL
SPECIFICATION Spec
INVARIANT BodyFromBodyStructure
CHECK_DEADLOCK FALSE
