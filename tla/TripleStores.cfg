CONSTANTS
  a = a
  b = b
  p = p
  x = x
  xsd = xsd
  i1 = i1
  i2 = i2
  id1 = id1
  id2 = id2
  id3 = id3
  NULL = NULL
  EMPTY = EMPTY
  Triples <- AllTriples
  Ids = {id1, id2, id3}
  IdOf <- DistinctIds
  Queries <- SomeQueries
  Iters = {i1, i2}
  Batches <- SomeBatches
  Chunk = 2
  MaxSlots = 4
SYMMETRY Perms
SPECIFICATION Spec
INVARIANTS
  ArrayExact
  MapExact
  Lifetime
PROPERTIES
  RemoveComplete
  IteratesSet
