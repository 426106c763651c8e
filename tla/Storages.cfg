CONSTANTS
  s1 = s1
  s2 = s2
  s3 = s3
  s4 = s4
  F = F
  G = G
  X = X
  M = M
  E = E
  D1 = D1
  NULL = NULL
  Slots = {s1, s2, s3, s4}
  Locs = {F, G, X}
  Ids = {M, E, D1}
  MetaIds = {M, E}
  MetaOf <- Metas
  Broken = {E}
  File0 <- Files
  Path <- XThenF
  Opens <- Openings
  AskIds = {D1, E}
  NewIds = {D1}
  SaveIds = {D1, M}
  FreeCached = FALSE
  MaxOwn = 2
  MaxIters = 1
  Chunk = 1
  PtrSize = 8
SYMMETRY Perms
SPECIFICATION Spec
INVARIANTS
  RefsExact
  HotListExact
  SearchComplete
  ReturnsLive
PROPERTIES
  DataIsKept
