\* Two concurrent callers, as the code allows: Prepare holds no lock.
CONSTANTS
  Nodes = {a, b}
  Nets = {n1, n2}
  n1 = n1
  n2 = n2
  Insts = {i1, i2}
  i1 = i1
  i2 = i2
  Callers = {c1, c2}
  SubnetCount = 2
  HostCount = 3
  VlanCapacity = 2
  StaleNode = StaleNode
  None = None
  InstNets <- MCInstNets
  ProviderLists <- MCProviderLists
  InitNetworkRows <- MCInitNetworkRows
  Serialised = FALSE
  StorageFaults = FALSE
  MaxRestarts = 1
SPECIFICATION Spec
SYMMETRY MCSymmetry
INVARIANT IPUnique
