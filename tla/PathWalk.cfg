SPECIFICATION OpenFairSpec
CONSTANTS
  r = r a = a b = b f = f l1 = l1 l2 = l2 l3 = l3 l4 = l4 l5 = l5 s = s t = t u = u g = g
  m0 = m0 m1 = m1 m2 = m2 none = none
  Dentries <- MCDentries
  Mounts <- MCMounts
  Names <- MCNames
  Kind <- MCKind
  Child <- MCChild
  Absent = none
  UpDir <- MCUpDir
  Body <- MCBody
  RootOf <- MCRootOf
  Place <- MCPlace
  Roots <- MCRoots
  Paths <- MCPaths
  FlagSets <- MCFlagSets
  Faults = TRUE
  OpenFlagSets <- MCOpenFlagSets
  New = g
  EMBEDDED_NAME_MAX = 2
  PATH_MAX = 4
  MAXSYMLINKS = 4
  EMBEDDED_LEVELS = 1
INVARIANTS
  StackInBounds NamesAreLive NamesAreKept WalkCleansUp
  ResolvesAsSpecified OpensAsAsked
PROPERTY
  CallsReturn
