CONSTANTS
  Basic = Basic
  Entity = Entity
  a1 = a1
  a2 = a2
  a3 = a3
  a4 = a4
  BasicId = BasicId
  EntityId = EntityId
  Ent = Ent
  BadEnt = BadEnt
  NoEnt = NoEnt
  D1 = D1
  D2 = D2
  D3 = D3
  h1 = h1
  h2 = h2
  h3 = h3
  NULL = NULL
  Addr = {Basic, Entity, a1, a2, a3}
  MetaIds = {BasicId, EntityId, Ent, BadEnt, NoEnt}
  Ids = {BasicId, EntityId, Ent, BadEnt, NoEnt, D1, D2, D3}
  Handles = {h1, h2}
  Dims = {0, 1}
  Stored <- Disk
  NewIds = {D1, BadEnt}
  WorkIds = {D1, BadEnt}
  HasIds = {Ent}
  ScanIds = {Ent, D1, BadEnt}
  ForgetIds = {Ent}
  Reuse = TRUE
  ScanShared = FALSE
  BorrowParents = FALSE
  MaxLost = 1
SYMMETRY Perms
SPECIFICATION Spec
INVARIANTS
  TypeOK
  RefcountExact
  NoDangling
  StoreExact
  BorrowedValid
PROPERTIES
  MetadataPersistent
