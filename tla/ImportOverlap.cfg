SPECIFICATION Spec
CONSTANTS
  i1 = i1
  i2 = i2
  c1 = c1
  ann = ann
  bob = bob
  rep1 = rep1
  rep2 = rep2
  title = title
  isbn = isbn
  other = other
  lock = lock
  LockKeys = {lock}
  Keys = {title, isbn, other}
  NoRequest = NoRequest
  NoBackend = NoBackend
  NoReplica = NoReplica
  Imports = {i1, i2}
  Creates = {}
  Owners = {ann}
  OwnerOf <- OverlapOwner
  LockKeyOf <- OverlapKeys
  Replicas = {rep1, rep2}
  ReplicaOf <- OverlapReplica
  RowKeys <- OverlapRows
  Backends = {b1, b2, b3}
  MaxOpenConns = 2
  MaxFaults = 1
  MayEnd = {i1, i2}
  Deletable <- OverlapDeletes
INVARIANTS
  TypeOK
  PoolClean
  SnapshotComplete
  OutcomesAddUp
PROPERTIES
  ImportsNeverDuplicate
  ImplementsOwnerLibrary
SYMMETRY SessionSymmetry
