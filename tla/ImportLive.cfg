SPECIFICATION FairSpec
CONSTANTS
  i1 = i1
  i2 = i2
  c1 = c1
  ann = ann
  bob = bob
  rep1 = rep1
  rep2 = rep2
  title = title
  isbn = isbn
  other = other
  lock = lock
  LockKeys = {lock}
  Keys = {title, isbn, other}
  NoRequest = NoRequest
  NoBackend = NoBackend
  NoReplica = NoReplica
  Imports = {i1}
  Creates = {c1}
  Owners = {ann, bob}
  OwnerOf <- CollideOwner
  LockKeyOf <- CollideKeys
  Replicas = {rep1}
  ReplicaOf <- CollideReplica
  RowKeys <- CollideRows
  Backends = {b1, b2}
  MaxOpenConns = 2
  MaxFaults = 1
  MayEnd = {i1, c1}
  Deletable = {}
INVARIANTS
  OutcomesTrue
  SkipsHaveASource
PROPERTIES
  EveryRequestAnswered
  EveryLockFreed
