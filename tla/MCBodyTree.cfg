CONSTANTS
  Parts <- MCParts
  Root = 1
  Trees <- MCTrees
  HeaderBlocks <- MCHeaderBlocks
  Octets <- MCOctets
  Lines <- MCLines
  UpperToLower <- MCUpperToLower
  MaxPasses = 2
  NULL = NULL
SPECIFICATION Spec
INVARIANTS
  BodyFromBodyStructure
  BodyPrefixOfBodyStructure
  WriterAssertionsHold
CHECK_DEADLOCK FALSE
