\* The serialised configuration, checking that no DNS entry outlives its instance.
CONSTANTS
  Nodes = {a, b}
  Nets = {n1, n2}
  n1 = n1
  n2 = n2
  Insts = {i1, i2}
  i1 = i1
  i2 = i2
  Callers = {c1}
  SubnetCount = 2
  HostCount = 2
  VlanCapacity = 2
  StaleNode = StaleNode
  None = None
  InstNets <- MCInstNets
  ProviderLists <- MCProviderLists
  InitNetworkRows <- MCInitNetworkRows
  Serialised = TRUE
  StorageFaults = FALSE
  MaxRestarts = 1
SPECIFICATION Spec
SYMMETRY MCSymmetry
INVARIANT DNSNoStale
