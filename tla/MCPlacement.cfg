\* Placement without restarts: every select-node request of five instances
\* (three needing a gpu share), every save.
CONSTANTS
  na = na  nb = nb  nc = nc  nd = nd
  r1 = r1  r2 = r2  l1 = l1  l2 = l2  res1 = res1  gpu = gpu
  s1 = s1  s2 = s2  L1 = L1  L2 = L2
  i1 = i1  i2 = i2  i3 = i3  i4 = i4  i5 = i5  i6 = i6  i7 = i7
  Nodes = {na, nb, nc, nd}
  Instances = {i1, i2, i4, i5, i6}
  Services = {s1, s2}
  BadRunners = BadRunners
  NotExist = NotExist
  None = None
  NodeOrder <- MCNodeOrder
  DefaultRunners <- MCDefaultRunners
  NodeRunners <- MCNodeRunners
  NodePriority <- MCNodePriority
  NodeLabels <- MCNodeLabels
  NodeResources <- MCNodeResources
  NodeDevices <- MCNodeDevices
  IsLocal <- MCIsLocal
  SvcRunners <- MCSvcRunners
  SvcResources <- MCSvcResources
  SvcDevices <- MCSvcDevices
  SvcLayers <- MCSvcLayers
  InstService <- MCInstService
  InstLabels <- MCInstLabels
  StorageFaults = FALSE
  MaxRestarts = 0
SPECIFICATION Spec
INVARIANTS
  TypeOK
  DeviceAccounting
  FilterMonotone
PROPERTIES
  PlaceMatchesReference
