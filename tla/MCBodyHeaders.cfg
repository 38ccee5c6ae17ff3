CONSTANTS
  Parts <- MCParts
  Root = 1
  Trees <- MCTrees
  HeaderBlocks <- MCHeaderBlocks
  Octets <- MCOctets
  Lines <- MCLines
  UpperToLower <- MCUpperToLower
  MaxPasses = 2
  NULL = NULL
SPECIFICATION Spec
INVARIANTS
  TypeOK
  MetadataFollowsHeaders
CHECK_DEADLOCK FALSE
