CONSTANTS
  A = A
  B = B
  C = C
  la = la
  lb = lb
  labc = labc
  lfail = lfail
  lbad = lbad
  lnosym = lnosym
  NULL = NULL
  Libs = {la, lb, labc, lfail, lbad, lnosym}
  Names = {A, B, C}
  Base <- MCBase
  Opens = {la, lb, labc, lfail, lnosym}
  HasSymbol = {la, lb, labc, lfail, lbad}
  Apis <- MCApis
  SearchPaths <- MCPaths
  Kinds = {"storage", "mapping"}
  MaxOpen = 3
SPECIFICATION Spec
INVARIANTS
  LibrariesExact
  LookupsExact
  LoadAllEnds
PROPERTIES
  LoadAllComplete
