-------------------------------- MODULE IPAM --------------------------------
(***************************************************************************)
(* The subnet allocator behind GetIPSubnet (ipamSubnet.prepareSubnet),     *)
(* releaseIPToSubnet, releaseIPNetPool and removeAllocatedSubnets.  Its    *)
(* code (ipam.go) is not part of the sources at hand, so it is modelled    *)
(* from spec section 4.1: a network that has a subnet gets the lowest      *)
(* unused host of it; a network without one carves the lowest subnet no   *)
(* other network holds and gets its first host.  A pool is a value, so the *)
(* coordinator can apply several allocations inside one locked step.       *)
(***************************************************************************)
LOCAL INSTANCE FiniteSetsExt

CONSTANTS
  Nets,         \* provider network ids
  SubnetCount,  \* subnets in the configured aggregate, numbered 1..SubnetCount
  HostCount     \* usable hosts per subnet, numbered 1..HostCount

ASSUME SubnetCount \in Nat \ {0} /\ HostCount \in Nat \ {0}

NoSubnet == 0
Subnets  == 1..SubnetCount
Hosts    == 1..HostCount

\* An address is a host of a subnet; NoIP is the nil net.IP of a failed call.
IP   == Subnets \X Hosts
NoIP == <<0, 0>>

Pool == [sub : [Nets -> Subnets \cup {NoSubnet}], used : [Nets -> SUBSET Hosts]]

EmptyPool == [sub |-> [n \in Nets |-> NoSubnet], used |-> [n \in Nets |-> {}]]

FreeSubnets(p) == Subnets \ {p.sub[n] : n \in Nets}

\* prepareSubnet fails with Exhausted: no subnet left to carve, or none free
\* in the network's own subnet.
Exhausted(p, n) ==
  IF p.sub[n] = NoSubnet THEN FreeSubnets(p) = {} ELSE p.used[n] = Hosts

\* prepareSubnet(n) on a pool that is not exhausted for n: the address handed
\* out and the pool after it.
Allocate(p, n) ==
  LET s == IF p.sub[n] = NoSubnet THEN Min(FreeSubnets(p)) ELSE p.sub[n]
      h == Min(Hosts \ p.used[n])
  IN  [ip   |-> <<s, h>>,
       pool |-> [sub  |-> [p.sub EXCEPT ![n] = s],
                 used |-> [p.used EXCEPT ![n] = @ \cup {h}]]]

\* releaseIPToSubnet(n, ip): frees ip if it is an address of n's subnet;
\* nil and foreign addresses leave the pool as it is.
ReleaseIP(p, n, ip) ==
  IF ip \in IP /\ p.sub[n] = ip[1]
  THEN [p EXCEPT !.used[n] = @ \ {ip[2]}]
  ELSE p

\* releaseIPNetPool for every network of S at once: each subnet goes back to
\* the aggregate.
ReleaseNets(p, S) ==
  [sub  |-> [n \in Nets |-> IF n \in S THEN NoSubnet ELSE p.sub[n]],
   used |-> [n \in Nets |-> IF n \in S THEN {} ELSE p.used[n]]]

\* One persisted address marked in use (removeAllocatedSubnets).
MarkUsed(p, n, ip) ==
  IF p.sub[n] \in {NoSubnet, ip[1]}
  THEN [sub |-> [p.sub EXCEPT ![n] = ip[1]], used |-> [p.used EXCEPT ![n] = @ \cup {ip[2]}]]
  ELSE p

\* removeAllocatedSubnets over a set of <<network, address>> pairs.
PoolOf(allocated) ==
  FoldSet(LAMBDA a, p : MarkUsed(p, a[1], a[2]), EmptyPool, allocated)

\* The addresses the pool counts as in use for n.
UsedIPs(p, n) == {<<p.sub[n], h>> : h \in p.used[n]}
=============================================================================
