CONSTANTS
  Basic = Basic
  Entity = Entity
  a1 = a1
  a2 = a2
  a3 = a3
  a4 = a4
  BasicId = BasicId
  EntityId = EntityId
  Ent = Ent
  BadEnt = BadEnt
  NoEnt = NoEnt
  D1 = D1
  D2 = D2
  D3 = D3
  h1 = h1
  h2 = h2
  h3 = h3
  NULL = NULL
  Addr = {Basic, Entity, a1, a2, a3, a4}
  MetaIds = {BasicId, EntityId, Ent}
  Ids = {BasicId, EntityId, Ent, D1, D2, D3}
  Handles = {h1, h2}
  Dims = {0}
  Stored <- DiskSmall
  NewIds = {D1, D2, D3}
  WorkIds = {D1, D2, D3}
  HasIds = {}
  ScanIds = {}
  ForgetIds = {}
  Reuse = FALSE
  ScanShared = FALSE
  BorrowParents = FALSE
  MaxLost = 1
SPECIFICATION Spec
INVARIANTS
  TransactionsSound
PROPERTIES
  FrozenKeepsParent
  CallsReturn
