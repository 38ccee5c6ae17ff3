CONSTANTS
  Objects = {o1}
  IdTypes <- MCIdTypes
  UserAuthenticated = TRUE
  UserGroups = {}
  UserName = "me"
  Inputs <- MCInputs
  NULL = NULL
  CharBit = 2
  m1 = m1
  m2 = m2
  m3 = m3
  m4 = m4
  m5 = m5
  m6 = m6
  o1 = o1
  o2 = o2
  MaskIds <- MCMaskIds
SYMMETRY Symmetry
VIEW View
SPECIFICATION Spec
INVARIANT
  NoMaskOutlivesCache
CHECK_DEADLOCK FALSE
