--------------------------- MODULE NetworkManager ---------------------------
(***************************************************************************)
(* The network coordinator of networkmanager.go: provider networks bound   *)
(* to nodes (UpdateProviderNetwork), per-instance addresses                *)
(* (PrepareInstanceNetworkParameters, RemoveInstanceNetworkParameters),    *)
(* the DNS host map, the storage both persist to, and the restart that     *)
(* rebuilds memory from storage (New).                                     *)
(*                                                                         *)
(* UpdateProviderNetwork and RemoveInstanceNetworkParameters hold the      *)
(* manager's lock for their whole body and are one step each.              *)
(* PrepareInstanceNetworkParameters takes no lock: it is split into the    *)
(* steps between which another caller can run (lookup and move-out,        *)
(* address allocation and persist, cache insert, DNS registration).        *)
(*                                                                         *)
(* Data is abstracted: an address is <<subnet, host>>, a VLAN a small      *)
(* number, the DNS entry of an address names the instance whose host names *)
(* were registered for it.                                                 *)
(***************************************************************************)
EXTENDS Integers, FiniteSets, Sequences
LOCAL INSTANCE SequencesExt
LOCAL INSTANCE Bags

CONSTANTS
  Nodes,            \* node ids
  Nets,             \* provider network ids
  Insts,            \* instance idents
  Callers,          \* threads calling PrepareInstanceNetworkParameters
  SubnetCount,      \* IPAM aggregate size
  HostCount,        \* hosts per subnet
  VlanCapacity,     \* vlanIDCapacity (4096 in the code)
  StaleNode,        \* the NodeID "" of legacy provider rows
  None,             \* absent map entry
  InstNets,         \* [Insts -> SUBSET Nets]: networks an instance is prepared on
  ProviderLists,    \* provider lists passed to UpdateProviderNetwork
  InitNetworkRows,  \* provider rows in storage when the process first starts
  Serialised,       \* TRUE: callers issue one call at a time (spec section 5)
  StorageFaults,    \* TRUE: any storage call may fail
  MaxRestarts       \* bound on process restarts

Pools == INSTANCE IPAM

IP      == Pools!IP
NoIP    == Pools!NoIP
NodeIDs == Nodes \cup {StaleNode}

ASSUME StaleNode \notin Nodes /\ None \notin Insts \cup IP

VARIABLES
  providerNetworks,  \* manager.providerNetworks: [Nets -> SUBSET Binding]
  instancesData,     \* manager.instancesData: [Nets -> [Insts -> IP or None]]
  ipam,              \* manager.ipamSubnet: an IPAM pool
  dnsHosts,          \* manager.dns.hosts: [IP -> instance or None]
  stNetworks,        \* storage: provider network rows
  stInstances,       \* storage: instance rows by identity
  caller,            \* per Prepare caller: program counter and locals
  restarts           \* processes started after the first

vars == <<providerNetworks, instancesData, ipam, dnsHosts, stNetworks,
          stInstances, caller, restarts>>

-----------------------------------------------------------------------------
(* Types *)

\* The VLAN ids a binding may carry (spec section 3).
VlanIDs == 1..VlanCapacity

\* Mutant: rand.Int(vlanIDCapacity) without the + 1.
GetVlanIDNoOffset == 0..VlanCapacity - 1

\* getVlanID: the values rand.Int(vlanIDCapacity) + 1 can return.
GetVlanID == 1..VlanCapacity

Binding     == [node : NodeIDs, ip : IP, vlan : VlanIDs]
NetworkRow  == [net : Nets, node : NodeIDs, ip : IP, vlan : VlanIDs]
InstanceRow == [net : Nets, ip : IP]
PCs         == {"idle", "create", "cache", "dns"}
Call        == [pc : PCs, inst : Insts \cup {None}, net : Nets \cup {None},
                ip : IP \cup {NoIP}, exposeOK : BOOLEAN]

IdleCall    == [pc |-> "idle", inst |-> None, net |-> None, ip |-> NoIP, exposeOK |-> TRUE]
NoInstances == [i \in Insts |-> None]

\* Outcomes of one storage call: it fails only when faults are modelled.
StoreFails     == IF StorageFaults THEN BOOLEAN ELSE {FALSE}
FailureSets(S) == IF StorageFaults THEN SUBSET S ELSE {{}}

-----------------------------------------------------------------------------
(* Storage (spec section 6): rows keyed by (network, node) and by identity *)

\* AddNetworkInfo: the row of (net, node) is written.
StoreRow(rows, net, b) ==
  {r \in rows : r.net # net \/ r.node # b.node}
    \cup {[net |-> net, node |-> b.node, ip |-> b.ip, vlan |-> b.vlan]}

\* RemoveNetworkInfo for each <<net, node>> of keys.
RemoveRows(rows, keys) == {r \in rows : <<r.net, r.node>> \notin keys}

\* New: the maps rebuilt from storage.
ProviderNetworksOf(rows) ==
  [n \in Nets |-> {[node |-> r.node, ip |-> r.ip, vlan |-> r.vlan] : r \in {r \in rows : r.net = n}}]

InstancesDataOf(insts) ==
  [n \in Nets |-> [i \in Insts |->
      IF insts[i] # None /\ insts[i].net = n THEN insts[i].ip ELSE None]]

\* Mutant: removeAllocatedSubnets given only the provider rows.
PoolOfStorageBindingsOnly(rows, insts) ==
  Pools!PoolOf({<<r.net, r.ip>> : r \in rows})

PoolOfStorage(rows, insts) ==
  Pools!PoolOf({<<r.net, r.ip>> : r \in rows}
                 \cup {<<insts[i].net, insts[i].ip>> : i \in {i \in Insts : insts[i] # None}})

-----------------------------------------------------------------------------
(* New: start (or restart) from what storage holds; DNS starts empty.      *)

StartFromStorage(rows, insts) ==
  /\ providerNetworks' = ProviderNetworksOf(rows)
  /\ instancesData'    = InstancesDataOf(insts)
  /\ ipam'             = PoolOfStorage(rows, insts)
  /\ dnsHosts'         = [ip \in IP |-> None]
  /\ caller'           = [c \in Callers |-> IdleCall]

Init ==
  /\ stNetworks  = InitNetworkRows
  /\ stInstances = NoInstances
  /\ providerNetworks = ProviderNetworksOf(InitNetworkRows)
  /\ instancesData    = InstancesDataOf(NoInstances)
  /\ ipam             = PoolOfStorage(InitNetworkRows, NoInstances)
  /\ dnsHosts         = [ip \in IP |-> None]
  /\ caller           = [c \in Callers |-> IdleCall]
  /\ restarts = 0

\* A crash at any point, then New over the persisted rows.
Restart ==
  /\ restarts < MaxRestarts
  /\ restarts' = restarts + 1
  /\ StartFromStorage(stNetworks, stInstances)
  /\ UNCHANGED <<stNetworks, stInstances>>

-----------------------------------------------------------------------------
(* Instance cache helpers *)

\* getNetworkParametersToCache: the networks holding the identity; the code
\* returns the first one of a map iteration, so any of them.
NetworksOf(i) == {n \in Nets : instancesData[n][i] # None}

\* deleteNetworkParametersFromCache(n, i, ip) applied to pool p.
DeleteNetworkParametersFromCache(p, n, i, ip) ==
  /\ instancesData' = [instancesData EXCEPT ![n][i] = None]
  /\ dnsHosts'      = IF ip \in IP THEN [dnsHosts EXCEPT ![ip] = None] ELSE dnsHosts
  /\ ipam'          = Pools!ReleaseIP(p, n, ip)

\* Mutant: the storage row is left behind.
RemoveInstanceNetworkParametersCacheOnly(n, i, ip) ==
  /\ DeleteNetworkParametersFromCache(ipam, n, i, ip)
  /\ UNCHANGED stInstances

\* removeInstanceNetworkParameters: cache delete, then storage delete by
\* identity; a storage failure is only logged.
RemoveInstanceNetworkParameters(n, i, ip) ==
  /\ DeleteNetworkParametersFromCache(ipam, n, i, ip)
  /\ \E fail \in StoreFails :
       stInstances' = IF fail THEN stInstances ELSE [stInstances EXCEPT ![i] = None]

\* No Prepare call is in flight (all that a Serialised caller may start on).
Quiescent == \A c \in Callers : caller[c].pc = "idle"
CanStartCall == Serialised => Quiescent

-----------------------------------------------------------------------------
(* GetInstances (public, under the lock, read-only) *)

\* Every identity of every network's map, appended network by network: an
\* identity cached in k networks is listed k times, so the list is a bag.
GetInstances == [i \in {i \in Insts : NetworksOf(i) # {}} |-> Cardinality(NetworksOf(i))]

-----------------------------------------------------------------------------
(* RemoveInstanceNetworkParameters (public, under the lock) *)

\* net.IP(networkParameters.IP): the 7 to 15 bytes of the dotted text taken
\* as an address.  It is neither a 4- nor a 16-byte address, so its String()
\* names no host entry and releaseIPToSubnet finds nothing to free.
TextBytesAsIP(ip) == NoIP

RemoveInstance(i) ==
  /\ CanStartCall
  /\ \E n \in NetworksOf(i) :
       RemoveInstanceNetworkParameters(n, i, TextBytesAsIP(instancesData[n][i]))
  /\ UNCHANGED <<providerNetworks, stNetworks, caller, restarts>>

-----------------------------------------------------------------------------
(* PrepareInstanceNetworkParameters, one action per unlocked step *)

\* The lookup of the identity and, when it is held in another network, the
\* release of the old allocation.  The code passes the NEW networkID to
\* removeInstanceNetworkParameters, so the old entry is deleted from
\* instancesData[networkID], where it is not.

PrepareLookup(c, i, n, exposeOK) ==
  /\ CanStartCall
  /\ caller[c].pc = "idle"
  /\ n \in InstNets[i]
  /\ IF NetworksOf(i) = {}
     THEN /\ caller' = [caller EXCEPT ![c] =
                 [pc |-> "create", inst |-> i, net |-> n, ip |-> NoIP, exposeOK |-> exposeOK]]
          /\ UNCHANGED <<instancesData, ipam, dnsHosts, stInstances>>
     ELSE \E cur \in NetworksOf(i) :
            IF cur = n
            THEN /\ caller' = [caller EXCEPT ![c] =
                      [pc |-> "dns", inst |-> i, net |-> n, ip |-> instancesData[n][i],
                       exposeOK |-> exposeOK]]
                 /\ UNCHANGED <<instancesData, ipam, dnsHosts, stInstances>>
            ELSE /\ RemoveInstanceNetworkParameters(n, i, TextBytesAsIP(instancesData[cur][i]))
                 /\ caller' = [caller EXCEPT ![c] =
                      [pc |-> "create", inst |-> i, net |-> n, ip |-> NoIP, exposeOK |-> exposeOK]]
  /\ UNCHANGED <<providerNetworks, stNetworks, restarts>>

\* createNetwork up to the persist: GetIPSubnet, parseExposedPorts,
\* AddNetworkInstanceInfo.  On any error the deferred
\* deleteNetworkParametersFromCache releases the address and the call ends.
CreateNetwork(c) ==
  LET r == caller[c] IN
  /\ r.pc = "create"
  /\ IF Pools!Exhausted(ipam, r.net)
     THEN /\ DeleteNetworkParametersFromCache(ipam, r.net, r.inst, NoIP)
          /\ caller' = [caller EXCEPT ![c] = IdleCall]
          /\ UNCHANGED stInstances
     ELSE LET a == Pools!Allocate(ipam, r.net) IN
          \E fail \in StoreFails :
            IF ~r.exposeOK \/ fail
            THEN /\ DeleteNetworkParametersFromCache(a.pool, r.net, r.inst, a.ip)
                 /\ caller' = [caller EXCEPT ![c] = IdleCall]
                 /\ UNCHANGED stInstances
            ELSE /\ ipam' = a.pool
                 /\ stInstances' = [stInstances EXCEPT ![r.inst] = [net |-> r.net, ip |-> a.ip]]
                 /\ caller' = [caller EXCEPT ![c].pc = "cache", ![c].ip = a.ip]
                 /\ UNCHANGED <<instancesData, dnsHosts>>
  /\ UNCHANGED <<providerNetworks, stNetworks, restarts>>

\* addNetworkParametersToCache (takes the lock).
AddNetworkParametersToCache(c) ==
  LET r == caller[c] IN
  /\ r.pc = "cache"
  /\ instancesData' = [instancesData EXCEPT ![r.net][r.inst] = r.ip]
  /\ caller' = [caller EXCEPT ![c].pc = "dns"]
  /\ UNCHANGED <<providerNetworks, ipam, dnsHosts, stNetworks, stInstances, restarts>>

\* dns.addHosts(params.Hosts, IP), then the firewall rules, which only read.
RegisterHosts(c) ==
  LET r == caller[c] IN
  /\ r.pc = "dns"
  /\ dnsHosts' = [dnsHosts EXCEPT ![r.ip] = r.inst]
  /\ caller' = [caller EXCEPT ![c] = IdleCall]
  /\ UNCHANGED <<providerNetworks, instancesData, ipam, stNetworks, stInstances, restarts>>

-----------------------------------------------------------------------------
(* UpdateProviderNetwork(providers, nodeID), one step under the lock *)

\* removeProviderNetworks, per tracked network n: legacy rows go; n keeps
\* all its node bindings if requested and some remain, else loses nodeID's.
ValidBindings(n) == {b \in providerNetworks[n] : b.node # StaleNode}

ProviderKept(n, P) == n \in ToSet(P) /\ ValidBindings(n) # {}

RemainingBindings(n, node, P) ==
  IF ProviderKept(n, P) THEN ValidBindings(n)
  ELSE {b \in ValidBindings(n) : b.node # node}

\* Tracked networks left without bindings: their instances are removed and
\* their pool released.
TornDown(node, P) ==
  {n \in Nets : providerNetworks[n] # {} /\ RemainingBindings(n, node, P) = {}}

\* The RemoveNetworkInfo calls removeProviderNetworks makes.
RemoveNetworkCalls(node, P) ==
  {<<n, StaleNode>> : n \in {n \in Nets : \E b \in providerNetworks[n] : b.node = StaleNode}}
    \cup {<<n, node>> : n \in {n \in Nets : /\ ~ProviderKept(n, P)
                                            /\ \E b \in ValidBindings(n) : b.node = node}}

\* The RemoveNetworkInstanceInfo calls of the teardown.
RemoveInstanceCalls(node, P) ==
  {i \in Insts : \E n \in TornDown(node, P) : instancesData[n][i] # None}

\* setupNetworkParameters: GetIPSubnet, AddNetworkInfo, then the append.  A
\* failed persist returns the error with the address still allocated.
SetupNetworkParameters(node, p, vlan, addFail, a) ==
  IF Pools!Exhausted(a.pool, p) THEN [a EXCEPT !.err = TRUE]
  ELSE LET r == Pools!Allocate(a.pool, p)
           b == [node |-> node, ip |-> r.ip, vlan |-> vlan]
       IN  IF p \in addFail
           THEN [a EXCEPT !.pool = r.pool, !.err = TRUE]
           ELSE [a EXCEPT !.pool = r.pool, !.rows = StoreRow(@, p, b), !.pn[p] = @ \cup {b}]

\* createProviderNetwork: a fresh VLAN (GetVlanID, drawn as vl[p]).
CreateProviderNetwork(node, p, vl, addFail, a) ==
  SetupNetworkParameters(node, p, vl[p], addFail, a)

\* Mutant: the binding is built without existingNetwork, VlanID zero.
UpdateProviderNetworkForNodeNoVlan(node, p, addFail, a) ==
  SetupNetworkParameters(node, p, 0, addFail, a)

\* updateProviderNetworkForNode: the VLAN of networks[0] is kept.
UpdateProviderNetworkForNode(node, p, addFail, a) ==
  SetupNetworkParameters(node, p, (CHOOSE b \in a.pn[p] : TRUE).vlan, addFail, a)

\* Mutant: nodeID's existing binding is not looked for.
AddProviderNetworkNoReuse(node, vl, addFail, a, p) ==
  IF a.err THEN a
  ELSE IF a.pn[p] # {} THEN UpdateProviderNetworkForNode(node, p, addFail, a)
  ELSE CreateProviderNetwork(node, p, vl, addFail, a)

\* addProviderNetworks, one provider of the list: reuse nodeID's binding,
\* else join the existing network, else create it; stop at the first error.
AddProviderNetwork(node, vl, addFail, a, p) ==
  IF a.err \/ \E b \in a.pn[p] : b.node = node THEN a
  ELSE IF a.pn[p] # {} THEN UpdateProviderNetworkForNode(node, p, addFail, a)
  ELSE CreateProviderNetwork(node, p, vl, addFail, a)

\* Mutant: the instances of a torn-down network stay cached.
RemoveTornInstancesKept(torn) == instancesData

\* The loop of removeProviderNetworks over a network left without bindings:
\* every instance of it leaves the cache.
RemoveTornInstances(torn) ==
  [n \in Nets |-> IF n \in torn THEN NoInstances ELSE instancesData[n]]

\* The whole call: removeProviderNetworks then addProviderNetworks, given
\* the storage calls that fail and the VLANs drawn.  NodeManager.UpdateNetwork
\* only reports to the node and changes nothing here.
Reconciled(node, P, rmFail, addFail, vl) ==
  LET torn  == TornDown(node, P)
      start == [pn   |-> [n \in Nets |-> IF providerNetworks[n] = {} THEN {}
                                          ELSE RemainingBindings(n, node, P)],
                pool |-> Pools!ReleaseNets(ipam, torn),
                rows |-> RemoveRows(stNetworks, RemoveNetworkCalls(node, P) \ rmFail),
                err  |-> FALSE]
      done  == FoldLeft(LAMBDA a, p : AddProviderNetwork(node, vl, addFail, a, p), start, P)
  IN  [providerNetworks |-> done.pn,
       ipam             |-> done.pool,
       stNetworks       |-> done.rows,
       instancesData    |-> RemoveTornInstances(torn),
       \* each torn-down instance is removed with TextBytesAsIP of its
       \* address, so no host entry is deleted
       dnsHosts         |-> dnsHosts,
       stInstances      |-> [i \in Insts |->
                               IF i \in RemoveInstanceCalls(node, P) \ rmFail THEN None
                               ELSE stInstances[i]]]

UpdateProviderNetwork(node, P) ==
  /\ CanStartCall
  /\ \E rmFail  \in FailureSets(RemoveNetworkCalls(node, P) \cup RemoveInstanceCalls(node, P)),
        addFail \in FailureSets(ToSet(P)),
        vl      \in [Nets -> GetVlanID] :
       LET s == Reconciled(node, P, rmFail, addFail, vl) IN
       /\ providerNetworks' = s.providerNetworks
       /\ ipam'             = s.ipam
       /\ stNetworks'       = s.stNetworks
       /\ instancesData'    = s.instancesData
       /\ dnsHosts'         = s.dnsHosts
       /\ stInstances'      = s.stInstances
  /\ UNCHANGED <<caller, restarts>>

-----------------------------------------------------------------------------
Next ==
  \/ \E node \in Nodes, P \in ProviderLists : UpdateProviderNetwork(node, P)
  \/ \E i \in Insts : RemoveInstance(i)
  \/ \E c \in Callers, i \in Insts, n \in Nets, ok \in BOOLEAN : PrepareLookup(c, i, n, ok)
  \/ \E c \in Callers : CreateNetwork(c)
  \/ \E c \in Callers : AddNetworkParametersToCache(c)
  \/ \E c \in Callers : RegisterHosts(c)
  \/ Restart

Spec == Init /\ [][Next]_vars

-----------------------------------------------------------------------------
(* Properties *)

TypeOK ==
  /\ providerNetworks \in [Nets -> SUBSET Binding]
  /\ instancesData \in [Nets -> [Insts -> IP \cup {None}]]
  /\ ipam \in Pools!Pool
  /\ dnsHosts \in [IP -> Insts \cup {None}]
  /\ stNetworks \subseteq NetworkRow
  /\ stInstances \in [Insts -> InstanceRow \cup {None}]
  /\ caller \in [Callers -> Call]
  /\ restarts \in 0..MaxRestarts

\* Everything that holds an address of network n: the gateway of each node
\* binding, each cached instance, and each Prepare call that has allocated
\* its address but not yet cached it.
Holders ==
  UNION {{[who |-> <<"gateway", n, b.node>>, net |-> n, ip |-> b.ip] : b \in providerNetworks[n]}
           : n \in Nets}
    \cup {[who |-> <<"instance", ni[1], ni[2]>>, net |-> ni[1], ip |-> instancesData[ni[1]][ni[2]]] :
            ni \in {ni \in Nets \X Insts : instancesData[ni[1]][ni[2]] # None}}
    \cup {[who |-> <<"call", c>>, net |-> caller[c].net, ip |-> caller[c].ip] :
            c \in {c \in Callers : caller[c].pc = "cache"}}

\* Spec invariant 1 and section 8 "Uniqueness": no two holders, of any
\* networks and nodes, share an address, across provider reconciles,
\* teardown, re-creation and restarts.
IPUnique ==
  \A h1, h2 \in Holders : h1.ip = h2.ip => h1.who = h2.who

\* The addresses network n's holders hold.
HeldIPs(n) == {h.ip : h \in {h \in Holders : h.net = n}}

\* Every held address is one the IPAM pool counts as in use in the holder's
\* network, so IPAM can never hand it out again: across error paths,
\* teardown, pool release and the pool rebuilt from storage after a restart.
HeldIPsAllocated ==
  \A n \in Nets : HeldIPs(n) \subseteq Pools!UsedIPs(ipam, n)

\* Every address the pool counts as in use has a holder: nothing is leaked
\* by a node leaving a network, an error path or a teardown.
NoLeakedIP ==
  \A n \in Nets : Pools!UsedIPs(ipam, n) \subseteq HeldIPs(n)

\* Spec invariant 3: all node bindings of a provider network carry the VLAN
\* chosen when its first binding was created (updateProviderNetworkForNode).
VLANStable ==
  \A n \in Nets : \A b1, b2 \in ValidBindings(n) : b1.vlan = b2.vlan

\* Spec invariant 2, as the launcher sees it: the list GetInstances returns
\* names each identity once, so an identity is cached in one network at most
\* (PrepareInstanceNetworkParameters moving it releases the old binding).
OneNetworkPerInstance ==
  \A i \in BagToSet(GetInstances) : CopiesIn(i, GetInstances) = 1

\* A DNS entry never names an instance that does not hold the address:
\* removal, teardown and a move delete the entry with the cache entry.
DNSNoStale ==
  \A ip \in IP : dnsHosts[ip] # None =>
    \E n \in Nets : instancesData[n][dnsHosts[ip]] = ip

\* Between calls, memory is what New would rebuild from storage: a crash
\* at that point loses nothing and resurrects nothing.
StorageMirror ==
  Quiescent =>
    /\ providerNetworks = ProviderNetworksOf(stNetworks)
    /\ instancesData = InstancesDataOf(stInstances)

\* Section 8 "Idempotent reconcile": once nodeID's bindings are exactly the
\* requested providers (and no legacy row is left), UpdateProviderNetwork
\* with that list changes nothing, in memory, in the pool or in storage.
ReconcileIdempotent ==
  \A node \in Nodes, P \in ProviderLists :
    ( /\ \A n \in Nets : (\E b \in providerNetworks[n] : b.node = node) <=> n \in ToSet(P)
      /\ \A n \in Nets : ValidBindings(n) = providerNetworks[n] )
    => Reconciled(node, P, {}, {}, [n \in Nets |-> 1])
         = [providerNetworks |-> providerNetworks, ipam |-> ipam, stNetworks |-> stNetworks,
            instancesData |-> instancesData, dnsHosts |-> dnsHosts, stInstances |-> stInstances]

-----------------------------------------------------------------------------
(* Refinement *)

\* The registry's holders: a gateway per network and node, an instance per
\* network and identity.  A call that has persisted its address and not
\* yet cached it holds the address for its instance.
RegistryHolders ==
  {<<"gateway", n, d>> : n \in Nets, d \in NodeIDs} \cup {<<"instance", n, i>> : n \in Nets, i \in Insts}
HolderOf(h) == IF h.who[1] = "call" THEN <<"instance", h.net, caller[h.who[2]].inst>> ELSE h.who
FreeAddr == <<"free">>
Conflict == <<"conflict">>

\* The owner of each address: its one holder, FreeAddr when it has none (an
\* address leaked by the pool is free here), Conflict when it has two.
RegistryOwner ==
  LET H == {<<h.ip, HolderOf(h)>> : h \in Holders}
      W(ip) == {p[2] : p \in {p \in H : p[1] = ip}}
  IN  [ip \in IP |-> IF W(ip) = {} THEN FreeAddr
                     ELSE IF Cardinality(W(ip)) = 1 THEN CHOOSE w \in W(ip) : TRUE
                     ELSE Conflict]

Registry == INSTANCE AddressRegistry
              WITH Addrs <- IP, Holders <- RegistryHolders, Free <- FreeAddr,
                   owner <- RegistryOwner

\* The coordinator implements the address registry: across reconciles,
\* teardowns, Prepare steps, removals and restarts (New rebuilding holders
\* from storage), no address ever has two holders, none changes hands
\* without first being released, and a gateway or instance keeps its
\* address for as long as it holds one.
RefinesRegistry == Registry!Spec

=============================================================================
