----------------------------- MODULE Placement -----------------------------
(***************************************************************************)
(* The placement engine of the launcher (the nodeHandler part of           *)
(* networkmanager.go, lines 803-1163): per-node device counters, the       *)
(* pending run request of every node and its persisted copy, the filter    *)
(* pipeline (runners, labels, resources, devices), the priority choice,    *)
(* device allocation and run-request accumulation.                         *)
(*                                                                         *)
(* The launcher code that calls these functions is not among the sources;  *)
(* the select-node request of spec section 4.5 composes them in the order  *)
(* the spec gives (filters, priority, allocateDevices, addRunRequest).     *)
(*                                                                         *)
(* Node and service descriptors are constants: names are model values,     *)
(* lists are sequences in the order the code iterates them.  A service or  *)
(* layer descriptor in a run request is its id and the URL variant         *)
(* (local or remote) addRunRequest puts in it.                             *)
(***************************************************************************)
EXTENDS Integers, Sequences, FiniteSets
LOCAL INSTANCE SequencesExt
LOCAL INSTANCE Functions

CONSTANTS
  Nodes,           \* node ids
  NodeOrder,       \* allNodes: the nodes in the order the launcher holds them
  Instances,       \* instance idents to place
  Services,        \* service ids
  DefaultRunners,  \* defaultRunners: runner names, a sequence
  NodeRunners,     \* [Nodes -> Seq(runner) \cup {BadRunners}]: GetNodeRunners
  BadRunners,      \* GetNodeRunners returns an error for this node
  NodePriority,    \* [Nodes -> Nat]: nodeConfig.Priority
  NodeLabels,      \* [Nodes -> Seq(label)]: nodeConfig.Labels
  NodeResources,   \* [Nodes -> Seq(resource)]: names of nodeConfig.Resources
  NodeDevices,     \* [Nodes -> Seq([name, shared])]: nodeConfig.Devices
  IsLocal,         \* [Nodes -> BOOLEAN]: nodeHandler.isLocalNode
  SvcRunners,      \* [Services -> Seq(runner)]: Config.Runners
  SvcResources,    \* [Services -> Seq(resource)]: Config.Resources
  SvcDevices,      \* [Services -> Seq(device name)]: Config.Devices
  SvcLayers,       \* [Services -> Seq(layer)]: the layers passed to addRunRequest
  InstService,     \* [Instances -> Services]
  InstLabels,      \* [Instances -> Seq(label)]: instanceInfo.Labels
  NotExist,        \* GetNodeState's ErrNotExist: nothing persisted for the node
  None,            \* no node chosen
  StorageFaults,   \* TRUE: GetNodeState and SetNodeState may fail
  MaxRestarts      \* bound on launcher restarts (node handlers re-created)

ASSUME /\ NodeOrder \in Seq(Nodes) /\ ToSet(NodeOrder) = Nodes
       /\ MaxRestarts \in Nat

VARIABLES
  allocated,   \* [Nodes -> counters]: availableDevices[j].allocatedCount
  runRequest,  \* [Nodes -> RunRequest]: currentRunRequest
  nodeState,   \* storage GetNodeState/SetNodeState: RunRequest or NotExist
  result,      \* the return of the last select-node request
  restarts     \* launcher restarts so far

vars == <<allocated, runRequest, nodeState, result, restarts>>

-----------------------------------------------------------------------------
(* Descriptors                                                             *)

\* The URL addRunRequest stores: the remote one on a node that is not local.
URLOf(n) == IF IsLocal[n] THEN "local" ELSE "remote"

ServiceDesc(s, n) == [id |-> s, url |-> URLOf(n)]
LayerDesc(l, n)   == [id |-> l, url |-> URLOf(n)]

RunRequest == [services : Seq([id : Services, url : {"local", "remote"}]),
               layers   : Seq([id : UNION {ToSet(SvcLayers[s]) : s \in Services},
                               url : {"local", "remote"}]),
               instances : Seq(Instances)]

EmptyRunRequest == [services |-> <<>>, layers |-> <<>>, instances |-> <<>>]

Stages   == <<"runners", "labels", "resources", "devices">>
NoResult == [inst |-> None, node |-> None, err |-> "none"]
Result   == [inst : Instances \cup {None}, node : Nodes \cup {None},
             err : {"none", "allocate"} \cup ToSet(Stages)]

\* The device entries of node n with name d.
DevicesNamed(n, d) == {j \in DOMAIN NodeDevices[n] : NodeDevices[n][j].name = d}

\* Mutant: the counter slice is made with the length of the resource list,
\* as the make() of availableResources just above it.
ZeroCountersResourceLength == [n \in Nodes |-> [j \in DOMAIN NodeResources[n] |-> 0]]

\* initNodeConfig: every device starts with allocatedCount 0.
ZeroCounters == [n \in Nodes |-> [j \in DOMAIN NodeDevices[n] |-> 0]]

-----------------------------------------------------------------------------
(* Filters: each maps a node sequence to the subsequence that survives.    *)

\* getNodeByRunners: runners outside, nodes inside, so a node matching two
\* runners appears twice; a node whose runners cannot be read is skipped; a
\* node without runners matches the default runners.
GetNodeByRunners(allNodes, runners) ==
  LET rs == IF runners = <<>> THEN DefaultRunners ELSE runners
      Matches(n, r) ==
        /\ NodeRunners[n] # BadRunners
        /\ \/ NodeRunners[n] = <<>> /\ Contains(DefaultRunners, r)
           \/ Contains(NodeRunners[n], r)
  IN  FlattenSeq([k \in DOMAIN rs |->
                    SelectSeq(allNodes, LAMBDA n : Matches(n, rs[k]))])

\* getNodesByLabels and getNodesByResources: all-of semantics; a node with an
\* empty list never matches a non-empty request.  have[n] is the node's list.
GetNodesByAllOf(nodes, desired, have) ==
  IF desired = <<>> THEN nodes
  ELSE SelectSeq(nodes, LAMBDA n : /\ have[n] # <<>>
                                   /\ \A k \in DOMAIN desired : Contains(have[n], desired[k]))

\* Mutant: a node without labels is not skipped but tested like any other.
GetNodesByLabelsEmptyMatches(nodes, desired, have) ==
  IF desired = <<>> THEN nodes
  ELSE SelectSeq(nodes, LAMBDA n : \A k \in DOMAIN desired :
                                     have[n] = <<>> \/ Contains(have[n], desired[k]))

GetNodesByLabels(nodes, desired, have) == GetNodesByAllOf(nodes, desired, have)

GetNodesByResources(nodes, desired) == GetNodesByAllOf(nodes, desired, NodeResources)

\* Mutant: a device counts as free while allocatedCount <= sharedCount.
NodeHasDesiredDevicesAtMost(n, desired, alloc) ==
  \A k \in DOMAIN desired :
    \E j \in DevicesNamed(n, desired[k]) :
      NodeDevices[n][j].shared = 0 \/ alloc[n][j] <= NodeDevices[n][j].shared

\* nodeHasDesiredDevices: every desired device has an entry of its name with
\* sharedCount 0 or a free share.
NodeHasDesiredDevices(n, desired, alloc) ==
  \A k \in DOMAIN desired :
    \E j \in DevicesNamed(n, desired[k]) :
      NodeDevices[n][j].shared = 0 \/ alloc[n][j] # NodeDevices[n][j].shared

GetNodesByDevices(nodes, desired, alloc) ==
  IF desired = <<>> THEN nodes
  ELSE SelectSeq(nodes, LAMBDA n : NodeHasDesiredDevices(n, desired, alloc))

\* getNodesByStaticResources followed by getNodesByDevices: the survivors of
\* every stage, and the first stage that left none (its NoNode error).
Candidates(i, labels, alloc) ==
  LET s      == InstService[i]
      byRun  == GetNodeByRunners(NodeOrder, SvcRunners[s])
      byLab  == GetNodesByLabels(byRun, InstLabels[i], labels)
      byRes  == GetNodesByResources(byLab, SvcResources[s])
      byDev  == GetNodesByDevices(byRes, SvcDevices[s], alloc)
      stages == <<byRun, byLab, byRes, byDev>>
      empty  == {k \in DOMAIN stages : stages[k] = <<>>}
  IN  [nodes |-> byDev,
       err   |-> IF empty = {} THEN "none"
                 ELSE Stages[CHOOSE k \in empty : \A m \in empty : k <= m]]

\* getMostPriorityNode: the first node of highest priority (a later node
\* replaces the current one only with a strictly higher priority).
GetMostPriorityNode(nodes) ==
  nodes[CHOOSE k \in DOMAIN nodes :
          /\ \A m \in DOMAIN nodes : NodePriority[nodes[m]] <= NodePriority[nodes[k]]
          /\ \A m \in 1..(k - 1) : NodePriority[nodes[m]] < NodePriority[nodes[k]]]

-----------------------------------------------------------------------------
(* Device allocation and run-request accumulation                          *)

\* Mutant: the exhaustion check is dropped.
AllocateDeviceNoCheck(n, st, d) ==
  LET J == {j \in DevicesNamed(n, d) : NodeDevices[n][j].shared # 0}
      j == CHOOSE j \in J : \A m \in J : j <= m
  IN  IF ~st.ok \/ J = {} THEN [st EXCEPT !.ok = FALSE]
      ELSE [st EXCEPT !.alloc[j] = @ + 1]

\* One iteration of allocateDevices' serviceDeviceLoop: the first entry of
\* name d that is shareable; exhausted, or no such entry, is an error.  An
\* error ends the loop and keeps the counters already incremented.
AllocateDevice(n, st, d) ==
  LET J == {j \in DevicesNamed(n, d) : NodeDevices[n][j].shared # 0}
      j == CHOOSE j \in J : \A m \in J : j <= m
  IN  IF ~st.ok \/ J = {} THEN [st EXCEPT !.ok = FALSE]
      ELSE IF st.alloc[j] = NodeDevices[n][j].shared THEN [st EXCEPT !.ok = FALSE]
      ELSE [st EXCEPT !.alloc[j] = @ + 1]

\* allocateDevices on node n: [ok, alloc] after the loop.
AllocateDevices(n, counters, desired) ==
  FoldLeft(LAMBDA st, d : AllocateDevice(n, st, d), [ok |-> TRUE, alloc |-> counters], desired)

\* Append e to seq unless an equal element is there (reflect.DeepEqual).
AppendNew(seq, e) == IF Contains(seq, e) THEN seq ELSE Append(seq, e)

\* Mutant: the instance is appended only together with a new service.
AddRunRequestOnlyNewService(rr, n, i) ==
  LET s == InstService[i]
      new == ~Contains(rr.services, ServiceDesc(s, n))
  IN  [instances |-> IF new THEN Append(rr.instances, i) ELSE rr.instances,
       services  |-> AppendNew(rr.services, ServiceDesc(s, n)),
       layers    |-> FoldLeft(LAMBDA acc, l : AppendNew(acc, LayerDesc(l, n)),
                              rr.layers, SvcLayers[s])]

\* addRunRequest: the instance is appended; the service and each layer only
\* when no equal descriptor is there yet.
AddRunRequest(rr, n, i) ==
  LET s == InstService[i]
  IN  [instances |-> Append(rr.instances, i),
       services  |-> AppendNew(rr.services, ServiceDesc(s, n)),
       layers    |-> FoldLeft(LAMBDA acc, l : AppendNew(acc, LayerDesc(l, n)),
                              rr.layers, SvcLayers[s])]

-----------------------------------------------------------------------------
(* Start, restart and persistence                                          *)

\* GetNodeState succeeds, or fails with an error other than ErrNotExist.
LoadFailures == IF StorageFaults THEN SUBSET Nodes ELSE {{}}

\* Mutant: the persisted request is read but never restored.
LoadNodeRunRequestDropped(n, failed) == EmptyRunRequest

\* loadNodeRunRequest: the persisted request; ErrNotExist or any other error
\* leaves the empty request newNodeHandler set.
LoadNodeRunRequest(n, failed) ==
  IF n \in failed \/ nodeState[n] = NotExist THEN EmptyRunRequest ELSE nodeState[n]

\* newNodeHandler for every node: empty request, load, initNodeConfig.
NewNodeHandlers(failed) ==
  /\ runRequest' = [n \in Nodes |-> LoadNodeRunRequest(n, failed)]
  /\ allocated'  = ZeroCounters

Init ==
  /\ nodeState = [n \in Nodes |-> NotExist]
  /\ runRequest = [n \in Nodes |-> EmptyRunRequest]
  /\ allocated = ZeroCounters
  /\ result = NoResult
  /\ restarts = 0

\* The launcher restarts and re-creates its node handlers.
Restart ==
  /\ restarts < MaxRestarts
  /\ \E failed \in LoadFailures : NewNodeHandlers(failed)
  /\ result' = NoResult
  /\ restarts' = restarts + 1
  /\ UNCHANGED nodeState

\* saveNodeRunRequest: SetNodeState stores the request, or fails.
SaveNodeRunRequest(n) ==
  /\ \E fail \in IF StorageFaults THEN BOOLEAN ELSE {FALSE} :
       nodeState' = IF fail THEN nodeState ELSE [nodeState EXCEPT ![n] = runRequest[n]]
  /\ UNCHANGED <<allocated, runRequest, result, restarts>>

-----------------------------------------------------------------------------
(* Select-node requests                                                    *)

Scheduled(i) == \E n \in Nodes : Contains(runRequest[n].instances, i)

\* A filter stage leaves no node: NoNode, nothing changes.
PlaceNoNode(i) ==
  /\ ~Scheduled(i)
  /\ Candidates(i, NodeLabels, allocated).err # "none"
  /\ result' = [inst |-> i, node |-> None, err |-> Candidates(i, NodeLabels, allocated).err]
  /\ UNCHANGED <<allocated, runRequest, nodeState, restarts>>

\* The filters leave nodes: the most priority one allocates the service's
\* devices and, if that succeeds, takes the instance into its run request.
PlaceOnNode(i) ==
  /\ ~Scheduled(i)
  /\ Candidates(i, NodeLabels, allocated).err = "none"
  /\ LET n == GetMostPriorityNode(Candidates(i, NodeLabels, allocated).nodes)
         a == AllocateDevices(n, allocated[n], SvcDevices[InstService[i]])
     IN  /\ allocated' = [allocated EXCEPT ![n] = a.alloc]
         /\ runRequest' = IF a.ok THEN [runRequest EXCEPT ![n] = AddRunRequest(@, n, i)]
                          ELSE runRequest
         /\ result' = [inst |-> i, node |-> n, err |-> IF a.ok THEN "none" ELSE "allocate"]
  /\ UNCHANGED <<nodeState, restarts>>

Next ==
  \/ \E i \in Instances : PlaceNoNode(i) \/ PlaceOnNode(i)
  \/ \E n \in Nodes : SaveNodeRunRequest(n)
  \/ Restart

Spec == Init /\ [][Next]_vars

-----------------------------------------------------------------------------
(* Properties                                                              *)

TypeOK ==
  /\ DOMAIN allocated = Nodes
  /\ \A n \in Nodes : /\ DOMAIN allocated[n] = DOMAIN NodeDevices[n]
                     /\ \A j \in DOMAIN allocated[n] : allocated[n][j] \in Nat
  /\ runRequest \in [Nodes -> RunRequest]
  /\ nodeState \in [Nodes -> RunRequest \cup {NotExist}]
  /\ result \in Result
  /\ restarts \in 0..MaxRestarts

\* Shares of device d requested by the instances in n's run request.
Demand(n, d) ==
  FoldLeft(LAMBDA acc, i : acc + Cardinality({k \in DOMAIN SvcDevices[InstService[i]] :
                                                SvcDevices[InstService[i]][k] = d}),
           0, runRequest[n].instances)

AllocatedOf(n, d) == SumFunctionOnSet(allocated[n], DevicesNamed(n, d))

SharesOf(n, d) ==
  SumFunctionOnSet([j \in DOMAIN NodeDevices[n] |-> NodeDevices[n][j].shared], DevicesNamed(n, d))

DeviceNames == UNION {ToSet(SvcDevices[s]) : s \in Services}

\* Device accounting: the counters allocateDevices keeps on a node equal the
\* shares its scheduled instances requested, so a placement increments
\* exactly the devices of the instance addRunRequest records and a failed
\* one increments nothing.  This holds only for services that list each
\* device once and without restarts: the code breaks it when a later device
\* of a service fails after earlier increments (line 947) and when a
\* restart zeroes the counters of restored instances (line 908).  pl_serial
\* checks the first-placement bookkeeping, pl_overshare the restart.
DeviceAccounting ==
  \A n \in Nodes, d \in DeviceNames : AllocatedOf(n, d) = Demand(n, d)

\* Device conservation (spec sections 3 and 8): the instances scheduled on a
\* node never use more shares of a device than the node's devices of that
\* name offer, across placements, saves and restarts.
ShareConservation ==
  \A n \in Nodes, d \in DeviceNames : Demand(n, d) <= SharesOf(n, d)

\* Spec section 4.5.1 as sets: node n can host instance i given counters.
RunnerOK(n, s) ==
  LET rs == IF SvcRunners[s] = <<>> THEN ToSet(DefaultRunners) ELSE ToSet(SvcRunners[s])
  IN  /\ NodeRunners[n] # BadRunners
      /\ IF NodeRunners[n] = <<>> THEN rs \cap ToSet(DefaultRunners) # {}
         ELSE rs \cap ToSet(NodeRunners[n]) # {}

Fits(i, alloc) ==
  LET s == InstService[i]
  IN  {n \in Nodes :
         /\ RunnerOK(n, s)
         /\ ToSet(InstLabels[i]) \subseteq ToSet(NodeLabels[n])
         /\ ToSet(SvcResources[s]) \subseteq ToSet(NodeResources[n])
         /\ \A d \in ToSet(SvcDevices[s]) :
              \E j \in DevicesNamed(n, d) :
                0 < NodeDevices[n][j].shared /\ alloc[n][j] < NodeDevices[n][j].shared}

\* A select-node request answers as spec sections 4.5.1 and 4.5.2 say: it
\* fails (NoNode or a failed allocateDevices) only when no node can host the
\* instance, and otherwise schedules it on a node of highest priority among
\* those that can.
PlaceMatchesReference ==
  [][result' # result /\ result'.inst # None =>
       LET i == result'.inst
           F == Fits(i, allocated)
       IN  IF result'.err = "none"
           THEN /\ result'.node \in F
                /\ \A m \in F : NodePriority[m] <= NodePriority[result'.node]
           ELSE F = {}]_vars

\* Filter monotonicity (spec section 8): taking a label from a node, or
\* allocating one more free share of a device of it, never adds a candidate
\* to any request.
FilterMonotone ==
  \A i \in Instances, n \in Nodes :
    LET base == ToSet(Candidates(i, NodeLabels, allocated).nodes)
    IN  /\ \A k \in DOMAIN NodeLabels[n] :
             ToSet(Candidates(i, [NodeLabels EXCEPT ![n] = RemoveAt(@, k)], allocated).nodes)
               \subseteq base
        /\ \A j \in {j \in DOMAIN NodeDevices[n] : allocated[n][j] < NodeDevices[n][j].shared} :
             ToSet(Candidates(i, NodeLabels, [allocated EXCEPT ![n][j] = @ + 1]).nodes)
               \subseteq base

\* What is persisted for a node is never ahead of, nor apart from, what the
\* node handler holds: its instances are a prefix of the run request's, so
\* a restart followed by placements and a save loses no scheduled instance.
SavedIsPrefix ==
  \A n \in Nodes : nodeState[n] # NotExist =>
    IsPrefix(nodeState[n].instances, runRequest[n].instances)
=============================================================================
