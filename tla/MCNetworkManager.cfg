\* One caller at a time (spec section 5), no storage faults, one restart.
CONSTANTS
  Nodes = {a, b}
  Nets = {n1, n2}
  n1 = n1
  n2 = n2
  Insts = {i1, i2}
  i1 = i1
  i2 = i2
  Callers = {c1}
  SubnetCount = 2
  HostCount = 2
  VlanCapacity = 2
  StaleNode = StaleNode
  None = None
  InstNets <- MCInstNets
  ProviderLists <- MCProviderListsSmall
  InitNetworkRows <- MCInitNetworkRows
  Serialised = TRUE
  StorageFaults = FALSE
  MaxRestarts = 1
SPECIFICATION Spec
INVARIANTS
  TypeOK
  IPUnique
  HeldIPsAllocated
  VLANStable

  StorageMirror
  ReconcileIdempotent
PROPERTIES
  RefinesRegistry
