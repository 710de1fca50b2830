# TLA+ models of the network manager and placement core

This directory models `src/networkmanager/networkmanager.go` with TLA+ and checks it with TLC.
That file joins three Go sources, and line numbers below refer to it:

| lines | package | what |
|---|---|---|
| 1-673 | `networkmanager` | the network coordinator (`NetworkManager`) |
| 674-802 | `unitstatushandler` | the timetable evaluator |
| 803-1162 | `launcher` | the per-node placement state (`nodeHandler`) and node filters |

## 1. Inventory

### Components and their state

**Network coordinator** (`NetworkManager`, lines 73-82). It keeps this state:
- `instancesData`: network id -> instance identity -> instance network info (address, subnet, exposed-port rules).
- `providerNetworks`: network id -> the bindings of that network, one per node. Each binding holds a gateway address, a subnet and a VLAN.
- `ipamSubnet`: the subnet allocator.
- `dns`: the DNS host map, address -> host names.
- Two collaborators: `storage` and `nodeManager`.
- A `sync.RWMutex`.

It has these operations:
- `New` (123-181). It rebuilds both maps from storage and marks every persisted address as used in IPAM.
- `UpdateProviderNetwork(providers, nodeID)` (215-228), under the lock:
  - `removeProviderNetworks` (458-523) drops legacy `NodeID ""` rows and drops the node's binding from every network it no longer names. A network left with no binding has its instances removed and its pool released.
  - `addProviderNetworks` (581-614) reuses, joins (`updateProviderNetworkForNode`, which keeps the VLAN) or creates (`createProviderNetwork`, which draws a VLAN) one binding per provider, and stops at the first error.
  - `nodeManager.UpdateNetwork` publishes the result.
- `PrepareInstanceNetworkParameters` (242-293), **without the lock**:
  - It generates host names.
  - It looks the identity up (`getNetworkParametersToCache`, a map iteration).
  - If the identity is on another network, it removes it from there (`removeInstanceNetworkParameters`).
  - Otherwise `createNetwork` (311-354) runs `GetIPSubnet`, parses the exposed ports, persists, and inserts into the cache. That insert takes the lock (435-444). On any error a deferred cleanup releases the address.
  - Then `dns.addHosts`, then the firewall rules (356-424), which only read the cache.
- `RemoveInstanceNetworkParameters` (184-197), under the lock: cache, DNS and IPAM delete, then storage delete.
- `GetInstances` (read-only), `RestartDNSServer` (file rewrite and resolver restart).

**Subnet allocator (IPAM).** `ipam.go` is not among the sources. Spec section 4.1 describes it:
- A pool of subnets. Each network owns at most one subnet and a set of used hosts.
- `prepareSubnet` returns the lowest free host of the network's subnet, carving a new subnet if it has none.
- `releaseIPToSubnet`, `releaseIPNetPool`, `removeAllocatedSubnets`.

**VLAN picker** (`getVlanID`, 616-623): `rand.Int(4096) + 1`.

**DNS registry.** `dns.go` is not among the sources. It is a map from address to host names: `addHosts` overwrites an entry and the deletes remove one.

**Placement engine** (`nodeHandler`, 840-1162). Per node it keeps:
- priority, labels, resources;
- devices with `sharedCount` and `allocatedCount`;
- the pending `runRequestInfo` (services, layers, instances), which is persisted per node.

Its operations:
- `newNodeHandler`, `initNodeConfig`;
- `loadNodeRunRequest`, `saveNodeRunRequest`;
- `allocateDevices`, `nodeHasDesiredDevices`, `addRunRequest`;
- the filters `getNodeByRunners`, `getNodesByLabels`, `getNodesByResources`, `getNodesByDevices`;
- `getMostPriorityNode`.

**Timetable evaluator** (`validateTimetable`, `getAvailableTimetableTime`, 713-802). These are pure functions of a start time and weekly slots.

**External interfaces.** `Storage`, `NodeManager` and `ResourceManager` appear only as interfaces.

### How they interact

- The coordinator calls IPAM, the DNS registry and storage synchronously, inside or outside its lock as listed above. It publishes through `NodeManager`.
- IPAM and the instance cache are tied together: every cached address must be marked used in IPAM, and `New` re-marks them after a restart.
- The placement engine shares no state with the coordinator. Its callers (the launcher) are not among the sources.

### What is hard

- Prepare runs unlocked, so its steps interleave with locked reconciles and removals. Spec section 5 says the coordinator is called from several threads.
- A crash can happen between persisting and caching. `New` must rebuild a consistent pool.
- Storage failures on removal are only logged, so storage keeps rows that memory dropped.
- Multi-step calls stop at the first error and leave earlier steps in place (`addProviderNetworks`, `allocateDevices`).
- Results depend on map iteration order (lookup of an identity, firewall peer choice) and on list order (runner filter, priority ties).

### What makes each component correct

- **Coordinator.** Addresses are unique. Every held address is allocated, and none leaks. One network per instance. VLANs are stable per network. DNS entries never outlive their instance. Memory equals storage between calls. A repeated reconcile is a no-op.
- **Placement.** `0 <= allocatedCount <= sharedCount`. Shares are conserved: the counters equal the placements made. The filters agree with the allocation. The highest priority wins, and removing a capability never adds a candidate.
- **Timetable.** The result is 0 inside a slot, and otherwise the distance to the nearest slot start within a week.

## 2. Plan

Modules, in order of importance, with their status:

1. `IPAM.tla` (done). The allocator as operators on a pool value, modelled from the spec.
2. `NetworkManager.tla` + `MCNetworkManager.tla` (done). The coordinator with storage, DNS map, restarts, concurrent Prepare callers and storage faults as switches.
3. `FirewallRules.tla` + `MCFirewallRules.tla` (done). A serialised Prepare with the port parsers and the firewall synthesis, against a set-based reference of spec section 4.4.5.
4. `Placement.tla` + `MCPlacement.tla` (done). Node handlers with devices, the filter pipeline, `getMostPriorityNode`, `allocateDevices`, `addRunRequest`, save/load and restarts.
5. `Timetable.tla` + `MCTimetable.tla` (done). `getAvailableTimetableTime` over ticks of a small week, against a reference "nearest slot start".
6. `AddressRegistry.tla` (done). The abstract promise about addresses. `NetworkManager` is shown to implement it under serialised calls: an `INSTANCE ... WITH` refinement mapping, with the abstract `Spec` checked as a PROPERTY.
7. Open:
   - The `NodeManager` publication as a variable, with a liveness property: a node eventually receives its bindings once reconciles stop failing.
   - The concurrent Go map access of the unlocked Prepare (a data race) as a nondeterministic outcome.

## 3. What is modelled now

### `IPAM.tla`
It models the allocator from the spec. A pool is `[sub: Nets -> subnet or 0, used: Nets -> SUBSET Hosts]` and an address is `<<subnet, host>>`. The operators are:
- `Allocate` and `Exhausted` for `prepareSubnet`;
- `ReleaseIP`, which frees only an address of the network's own subnet;
- `ReleaseNets`;
- `PoolOf` for `removeAllocatedSubnets`.

### `NetworkManager.tla`

| variable | code |
|---|---|
| `providerNetworks` | `manager.providerNetworks` (set of bindings per network) |
| `instancesData` | `manager.instancesData` (address per network and identity) |
| `ipam` | `manager.ipamSubnet` |
| `dnsHosts` | `manager.dns.hosts` (address -> instance whose names were registered) |
| `stNetworks`, `stInstances` | the storage rows |
| `caller` | each Prepare thread's program counter and locals |
| `restarts` | restart bound |

| action | code |
|---|---|
| `UpdateProviderNetwork(node, P)` | the whole locked call, as the pure operator `Reconciled`: removal, then a `FoldLeft` of `AddProviderNetwork` over the provider list |
| `PrepareLookup` | lookup and move-out (with the code's networkID argument) |
| `CreateNetwork` | `GetIPSubnet`, port parse, persist, deferred cleanup on error |
| `AddNetworkParametersToCache` | locked cache insert |
| `RegisterHosts` | `dns.addHosts` |
| `RemoveInstance` | `RemoveInstanceNetworkParameters` |
| (operator) `GetInstances` | `GetInstances`: the identities of every network's map as a bag, so an identity cached twice is listed twice; `OneNetworkPerInstance` is stated over it |
| `Restart` | a crash and `New` |

Three call sites hand `removeInstanceNetworkParameters` the address as `net.IP(text)`:
- `RemoveInstanceNetworkParameters` (line 193);
- the move-out (line 264);
- the teardown loop (line 514).

`net.IP(text)` is the 7-15 bytes of the dotted string, which is neither a 4- nor a 16-byte address. The model has `TextBytesAsIP` for this conversion: the DNS delete and `releaseIPToSubnet` find nothing, and only the cache entry and the storage row go.

The model abstracts these data:
- Host names become the instance identity.
- Exposed ports become valid or malformed.
- The VLAN is drawn from `1..VlanCapacity`.
- A map iteration becomes a nondeterministic choice.

Switches:
- `Serialised` allows a new call only when no Prepare is in flight. This is spec section 5's "one reconcile or prepare outstanding at a time".
- `StorageFaults` lets each storage call fail.
- `InstNets` bounds which networks an instance is prepared on.

### `AddressRegistry.tla`
This is the abstract specification of what the coordinator promises about addresses: spec invariant 1 and section 8 "Uniqueness".
- Its one variable, `owner`, maps each address to its holder or `Free`. A holder is a gateway (network, node) or an instance (network, identity).
- One step is a locked call. Some addresses are released, then addresses that are free by then go to holders that held none when the call began.
- So no address changes hands without being released, no holder holds two, and a holder's address never changes while it holds one.

`NetworkManager` maps its state onto `owner` (`RegistryOwner`):
- Every gateway binding and cached instance holds its address.
- A Prepare call between its persist and its cache insert holds the address for its instance.
- An address with no holder is free, even when the pool still counts it as used (a leak).
- An address with two holders maps to `Conflict`, which is not a holder.

`RefinesRegistry == Registry!Spec` is checked by `nm_serial`.

### `FirewallRules.tla`
This module covers the whole `PrepareInstanceNetworkParameters` of a serialised caller, for an instance that stays on one network. Moves and races are `NetworkManager`'s subject. It also has `RemoveInstance`.

Its state:
- `instancesData` (identity -> address and exposed-port rules);
- `ipam` (an `IPAM` instance);
- `dnsHosts`;
- a ghost `result`: the last answer, with the policy given and the cache the rules were computed from;

A policy string is its `/`-separated fields (`strings.Split`), so an entry is a sequence of fields:
- `ParseAllowConnection` and `ParseExposedPorts` check the field counts (`allowedConnectionsExpectedLen`, `exposePortConfigExpectedLen`) and default the protocol to `"tcp"`.
- `RuleExists` and `CheckIPInSubnet` are the two predicates.
- `InstanceRules` is `getInstanceRule`. Go map order is random, so it is the *set* of rules the iteration may return, one per eligible peer; `{}` is `errRuleNotFound`.
- `PrepareFirewallRules` is RECURSIVE over the connection list. It yields every outcome the code may produce: a malformed entry aborts, and a not-found entry is skipped.

`Prepare` has four disjuncts:
- found in the cache;
- `GetIPSubnet` exhausted;
- a malformed `ExposePorts`, where the deferred cleanup releases the address and deletes its DNS key;
- created.

The last two share `RegisterAndSynthesise`: `dns.addHosts`, then the rules.

### `Placement.tla`
This module models the launcher's `nodeHandler`s.

Constants give each node's static data:
- order, runners, priority, labels, resources, devices (`[name, shared]`), and whether it is local;
- each service's runners, resources, devices and layers;
- each instance's service and labels.

Variables:
- `allocated` (node -> `allocatedCount` per device entry);
- `runRequest` (node -> the pending services, layers and instances);
- `nodeState` (the persisted run request per node, or `NotExist`);
- `restarts`;
- a ghost `result` (the last select-node answer).

The filters are operators over node sequences:
- `GetNodeByRunners` is a `FlattenSeq` over runners of a `SelectSeq` over nodes, which keeps the code's duplicates and order.
- `GetNodesByLabels`, `GetNodesByResources` and `GetNodesByDevices` filter the sequence.
- `GetMostPriorityNode` takes the first node of maximal priority.

Allocation:
- `AllocateDevices` is a `FoldLeft` of `AllocateDevice`, which takes the first shareable entry of the name and keeps earlier increments on error.
- `AddRunRequest` appends services and layers without duplicates, then the instance.

Actions:
- `SaveNodeRunRequest(n)`.
- `Restart`: `newNodeHandler` for every node, which loads the run request and then zeroes the counters (`initNodeConfig`).
- `Scheduled`, `PlaceNoNode` and `PlaceOnNode`. The select-node request that composes the filters is not in the sources, so these three are modelled from spec section 4.5 (`spec_modelled` in `PROJECT.json`).

### `Timetable.tla`
`ValidateTimetable` and `GetAvailableTimetableTime` are operators over a clock of `DayLen` ticks per day.

State and step:
- The state is `now` (Go weekday, tick) and a `timetable` chosen at start.
- `Tick` advances time around the week, so every instant is asked about every timetable.

Code operators and their reference:
- `WeekdayOf` maps `DayOfWeek` 7 to Go's Sunday 0.
- `Visits` lists the slots in the order the code's two loops visit them, over day offsets `0..7`.
- The reference `NearestWait` is built from the set of all slot occurrences, independent of list order.

## 4. Runs

Bounds and why they are enough:

- **`NetworkManager`.**
  - 2 nodes, 2 networks, 2 instances.
  - 2 subnets of 2 hosts, so the gateways of both nodes exhaust a subnet and an instance competes with one gateway.
  - 2 VLANs, so a re-created network can draw a different one.
  - One restart.
  - Provider lists `<<>>`, `<<n1>>`, `<<n1, n2>>` in `nm_serial`; the violation runs add `<<n2>>`. Joining, leaving, teardown and re-creation of `n1` need only the smaller set.
  - A legacy `NodeID ""` row for `n1` in storage at start.
  - Three hosts per subnet are used by the violation runs that need a gateway and an instance side by side. Since removals keep their addresses (line 193), three hosts multiply the serialised state space beyond a few minutes.
- **`FirewallRules`.**
  - Three instances: `a1` (service `sa`) on `n1`, and `b2`, `b3` (`sb`) on `n2`. So `b2` has a same-subnet peer `b3`, and `a1` has two eligible `sb` peers to choose between. `b2` and `b3` are symmetric.
  - Exposed-port lists: none, `80`, `80/udp`, and a malformed one.
  - Connection lists: none, `sb/80/udp` then `sa/80`, and a malformed one.
  - Two hosts per subnet, so a second instance on `n2` exhausts it (the `noSubnet` answer).
- **`Placement`.**
  - Four nodes: one local node with no runners, one matching both runners, one matching one, and one with a runner the default list lacks.
  - Priorities 5-30.
  - Gpu shares 1, 2 and 4, so a request can exhaust a node and fall through to the next.
  - Two services, one of which needs a gpu and one needs runners, a resource and (for one instance) a label.
  - Seven instances: three needing a gpu share (`i1`, `i2`, `i6` in `pl_serial`; `i3` as well in `pl_overshare`), two needing runners (`i4`, `i5`), and `i7`, whose labels no eligible node has (the no-node answer). `pl_serial` uses five of them and `pl_restart` five with one restart.
- **`Timetable`.**
  - 3 ticks per day.
  - Days `{1, 2, 7}`, to cover Sunday's mapping, and `0`, which is invalid.
  - Up to two slots per entry and two entries.

Symmetry is used only where instances or nodes are interchangeable, and only in runs that check safety alone. `nm_serial` checks the refinement, a temporal property, and runs without it.

| run | cfg | expect | shows |
|---|---|---|---|
| `nm_serial` | `MCNetworkManager.cfg` | pass | With serialised calls and a restart, these hold: `IPUnique`, `HeldIPsAllocated`, `VLANStable`, `StorageMirror` (memory = what `New` rebuilds, between calls) and `ReconcileIdempotent` (a reconcile with the node's current list is a fixpoint). `RefinesRegistry` holds too: the coordinator implements `AddressRegistry`. About 16k distinct states. |
| `nm_move` | `MCNetworkManagerMove.cfg` | violation | `OneNetworkPerInstance` fails. Re-preparing an identity on another network removes it from the *new* network (line 264), so it stays cached in both. |
| `nm_race` | `MCNetworkManagerRace.cfg` | violation | `IPUnique` fails with two concurrent callers. An unlocked Prepare has persisted an address of n1 and not yet cached it when a reconcile tears n1 down (line 521), so IPAM hands the same subnet to n2 and the address to n2's gateway. |
| `nm_leak` | `MCNetworkManagerLeak.cfg` | violation | `NoLeakedIP` fails. A node leaving a network that other nodes keep never releases its gateway address (line 497). |
| `nm_stale_dns` | `MCNetworkManagerStaleDNS.cfg` | violation | `DNSNoStale` fails. `RemoveInstanceNetworkParameters` deletes by `net.IP(text)` (line 193), so the host entry and the address survive the removal. |
| `nm_faults` | `MCNetworkManagerFaults.cfg` | violation | `VLANStable` fails with storage faults. A departed node's row survives a failed `RemoveNetworkInfo`, the network is re-created with a new VLAN, and after a restart it has two. |
| `fw_rules` | `MCFirewallRules.cfg` | pass | `RulesMatchPolicy`: whichever peer the map iteration picks, the rules follow the `AllowConnections` order, with one rule per entry that has an eligible peer. Each rule goes from the source's address to a peer of the service outside the source's subnet (spec invariant 7) that exposes the port and protocol, and a policy error means a malformed entry. About 18k distinct states. |
| `pl_serial` | `MCPlacement.cfg` | pass | Without restarts, `DeviceAccounting` holds (counters = shares of scheduled instances). It holds only because each service lists a device once; the code breaks it on a failure after earlier increments (line 947) and after a restart (line 908, see `pl_overshare`). `FilterMonotone` holds too and `FilterMonotone` (removing a label or using a free share never adds a candidate) hold. So does `PlaceMatchesReference`, an action property: each answer is the highest-priority node that the set-based spec 4.5.1 filters accept, or the first empty stage. |
| `pl_restart` | `MCPlacementRestart.cfg` | pass | With a restart, `SavedIsPrefix` holds: the persisted run request is always a prefix of the live one. |
| `pl_overshare` | `MCPlacementOvershare.cfg` | violation | `ShareConservation` fails. After a restart the counters are zero while the restored run request still holds its instances (line 891), so a share is handed out twice. |
| `tt_sorted` | `MCTimetable.cfg` | pass | When each day's slots are listed in start order, the answer is the wait for the nearest slot, 0 inside one, and never "no available time". |
| `tt_unsorted` | `MCTimetableUnsorted.cfg` | violation | `AvailableTimeIsNearest` fails. The code returns at the first open slot in list order (line 797), so with unsorted slots it returns a later slot. |

Each property of a passing run has a mutant in `PROJECT.json`: a plausible bug in a mapped definition that TLC catches. Examples:
- the `+ 1` dropped from `getVlanID`;
- the instances of a torn-down network kept in the cache;
- the instance rows left out of the pool rebuild;
- a joining node's VLAN left zero;
- the storage delete dropped;
- the reuse check of `addProviderNetworks` dropped (caught by `ReconcileIdempotent` and by `RefinesRegistry`: the node's gateway would hold two addresses);
- the protocol comparison of `ruleExists` dropped;
- `checkIPInSubnet` inverted;
- the exposed-port protocol default dropped;
- `nodeHasDesiredDevices` with `<=`;
- the device-counter slice made with the length of the resource list (caught by `TypeOK`);
- a weekday off by one;
- the eighth day of the timetable loop dropped.

Behaviours seen while modelling that no run keeps (the project keeps one run per question):
- Two identical Prepares over one cache may name different peers, because the map order is random.
- A device with `sharedCount` 0 passes `nodeHasDesiredDevices` and fails `allocateDevices`, so a higher-priority node takes a request it cannot serve.
- `allocateDevices` stops at the first exhausted entry of a name and never tries a later one.
- A service listing one device twice leaks the first increment when the second fails.

The hazards in `PROJECT.json` record each of these.

### Fairness
All modules check safety only, so no fairness is assumed.
- In `NetworkManager` a Prepare call is straight-line code whose only wait, for the manager's mutex, is not modelled as a wait. A property that every started call returns would hold by the shape of the model.
- `NodeManager.UpdateNetwork` runs under the lock (line 227), and whether it can block is outside the sources (see the deadlock hazard in `PROJECT.json`).
- In the other modules nothing in the code schedules the steps. Callers outside the sources decide who calls select-node or `saveNodeRunRequest`, and when.

## 5. Not modelled, and why
- Host-name formatting, the hosts file, the resolver restart, logging: I/O and text with no bearing on the properties.
- The NodeManager publication: it changes no coordinator state. `NodeManager` is an interface whose implementation is not among the sources.
- `RestartDNSServer` (231-239): it rewrites the hosts file, cleans the resolver cache and restarts the resolver. Spec section 4.3 calls these forced reloads, so the address -> names map the model keeps is unchanged. `dns.go` is not among the sources, so whether the DNS registry has its own lock is unknown. Prepare calls `dns.addHosts` without the manager's lock, and this call does too.
- Stale firewall rules (line 395). Nothing in the sources recomputes a returned rule when its peer goes away. `FirewallRules` has no path that frees a removed peer's address: removal never frees it (line 193). The paths that do free it, the teardown (line 521) and the rebuild after a restart (line 178), are in `NetworkManager`, which synthesises no rules. So no run checks that a held rule keeps its target. In the code it need not.
- Time zones and daylight saving (line 778): `time.Date(..., time.Local)` plus `i*24h` shifts a slot by the zone offset across a change. TLC has no calendar to enumerate, and the model's days are equal ticks.
- Calendar dates, time zones and daylight-saving shifts in `getAvailableTimetableTime`: abstracted to ticks of equal days.
- The launcher's callers of the placement engine, beyond the select-node composition of spec section 4.5.
