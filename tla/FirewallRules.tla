---------------------------- MODULE FirewallRules ----------------------------
(***************************************************************************)
(* Egress firewall synthesis of PrepareInstanceNetworkParameters          *)
(* (networkmanager.go, lines 242-293, 356-424 and 623-673), with the       *)
(* instance cache it reads.  Calls are serialised and every instance is    *)
(* prepared on one network of its own (moves, races and restarts are the   *)
(* subject of NetworkManager), so a Prepare is one step.                   *)
(*                                                                         *)
(* A policy string is taken as its '/'-separated fields (strings.Split):   *)
(* an AllowConnections entry or an ExposePorts entry is a sequence of      *)
(* fields, and a policy a sequence of entries.  Go map iteration order is  *)
(* random, so the "first" matching peer of getInstanceRule is any of them. *)
(***************************************************************************)
EXTENDS Integers, Sequences, FiniteSets
LOCAL INSTANCE SequencesExt

CONSTANTS
  Nets,           \* provider network ids
  SubnetCount,    \* subnets of the aggregate
  HostCount,      \* hosts per subnet
  Insts,          \* instance identities
  InstNet,        \* Insts -> Nets: the network an instance is prepared on
  ServiceOf,      \* Insts -> service id of the identity
  Fields,         \* the strings a policy field may be
  AllowPolicies,  \* the AllowConnections lists callers send
  ExposePolicies, \* the ExposePorts lists callers send
  None

Pools == INSTANCE IPAM
IP == Pools!IP

allowedConnectionsExpectedLen == 3
exposePortConfigExpectedLen   == 2

\* An exposed port (ingress), a derived egress rule, and a cache entry.
ExposedRule == [port : Fields, proto : Fields]
EgressRule  == [src : IP, dst : IP, proto : Fields, port : Fields]
Info        == [ip : IP, rules : Seq(ExposedRule)]

VARIABLES
  instancesData,  \* identity -> [ip, rules] or None (one network each)
  ipam,           \* ipamSubnet
  dnsHosts,       \* dns.hosts: address -> identity whose names it holds
  result          \* ghost: the answer of the last Prepare

vars == <<instancesData, ipam, dnsHosts, result>>

-----------------------------------------------------------------------------
(* Parsing                                                                 *)

\* parseAllowConnection: two or three fields, protocol "tcp" by default.
ParseAllowConnection(conn) ==
  IF Len(conn) > allowedConnectionsExpectedLen \/ Len(conn) < 2
  THEN [ok |-> FALSE, svc |-> None, port |-> None, proto |-> None]
  ELSE [ok |-> TRUE, svc |-> conn[1], port |-> conn[2],
        proto |-> IF Len(conn) = allowedConnectionsExpectedLen THEN conn[3] ELSE "tcp"]

\* Mutant: the protocol is left empty when the port names none.
ParseExposedPortsNoDefault(ports) ==
  IF \E k \in DOMAIN ports : Len(ports[k]) > exposePortConfigExpectedLen \/ Len(ports[k]) = 0
  THEN [ok |-> FALSE, rules |-> <<>>]
  ELSE [ok |-> TRUE,
        rules |-> [k \in DOMAIN ports |->
                     [port  |-> ports[k][1],
                      proto |-> IF Len(ports[k]) = exposePortConfigExpectedLen
                                THEN ports[k][2] ELSE ""]]]

\* parseExposedPorts: one or two fields each, protocol "tcp" by default; any
\* other count fails the whole list.
ParseExposedPorts(ports) ==
  IF \E k \in DOMAIN ports : Len(ports[k]) > exposePortConfigExpectedLen \/ Len(ports[k]) = 0
  THEN [ok |-> FALSE, rules |-> <<>>]
  ELSE [ok |-> TRUE,
        rules |-> [k \in DOMAIN ports |->
                     [port  |-> ports[k][1],
                      proto |-> IF Len(ports[k]) = exposePortConfigExpectedLen
                                THEN ports[k][2] ELSE "tcp"]]]

-----------------------------------------------------------------------------
(* Rule synthesis over a cache                                             *)

\* Mutant: the protocol of the exposed port is not compared.
RuleExistsAnyProto(info, port, proto) ==
  \E k \in DOMAIN info.rules : info.rules[k].port = port

\* ruleExists: the peer exposes port with exactly that protocol.
RuleExists(info, port, proto) ==
  \E k \in DOMAIN info.rules : info.rules[k].port = port /\ proto = info.rules[k].proto

\* Mutant: the containment test is taken the wrong way round.
CheckIPInSubnetInverted(subnet, ip) == ip[1] # subnet

\* checkIPInSubnet: the subnet is a CIDR the code built with subnet.String()
\* and the address one built with ip.String(), so neither parse fails.
CheckIPInSubnet(subnet, ip) == ip[1] = subnet

\* getInstanceRule: the rules it may return, one per eligible peer, as any
\* eligible peer may come first in the map iteration; {} is errRuleNotFound.
InstanceRules(cache, svc, subnet, port, proto, ip) ==
  {[src |-> ip, dst |-> cache[t].ip, proto |-> proto, port |-> port] :
     t \in {t \in Insts : /\ cache[t] # None
                          /\ ServiceOf[t] = svc
                          /\ ~CheckIPInSubnet(subnet, cache[t].ip)
                          /\ RuleExists(cache[t], port, proto)}}

\* prepareFirewallRules from the connection list's remaining entries on,
\* with the rules so far: the outcomes the code may produce.  A malformed
\* entry aborts; errRuleNotFound skips the entry.
RECURSIVE PrepareFirewallRules(_, _, _, _, _)
PrepareFirewallRules(cache, subnet, ip, allow, acc) ==
  IF allow = <<>> THEN {[ok |-> TRUE, rules |-> acc]}
  ELSE LET c == ParseAllowConnection(Head(allow))
           R == InstanceRules(cache, c.svc, subnet, c.port, c.proto, ip)
       IN  IF ~c.ok THEN {[ok |-> FALSE, rules |-> <<>>]}
           ELSE IF R = {} THEN PrepareFirewallRules(cache, subnet, ip, Tail(allow), acc)
           ELSE UNION {PrepareFirewallRules(cache, subnet, ip, Tail(allow), Append(acc, r)) : r \in R}

-----------------------------------------------------------------------------
(* PrepareInstanceNetworkParameters and RemoveInstanceNetworkParameters    *)

Errors == {"ok", "noSubnet", "malformedPorts", "malformedAllow"}

\* What a Prepare of identity inst answered: its error, its rules, the
\* AllowConnections it was given and the cache its rules were computed from.
NoCall == [inst |-> None, err |-> "none", rules |-> <<>>, allow |-> <<>>, seen |-> None]

Answer(inst, err, rules, allow, seen) ==
  [inst |-> inst, err |-> err, rules |-> rules, allow |-> allow, seen |-> seen]

Init ==
  /\ instancesData = [i \in Insts |-> None]
  /\ ipam          = Pools!EmptyPool
  /\ dnsHosts      = [ip \in IP |-> None]
  /\ result        = NoCall

\* The tail of Prepare once the instance is cached: dns.addHosts, then the
\* firewall rules from the cache (an empty AllowConnections gives none).
RegisterAndSynthesise(i, info, cache, pool, allow) ==
  /\ instancesData' = cache
  /\ ipam'          = pool
  /\ dnsHosts'      = [dnsHosts EXCEPT ![info.ip] = i]
  /\ \E o \in PrepareFirewallRules(cache, info.ip[1], info.ip, allow, <<>>) :
       result' = Answer(i, IF o.ok THEN "ok" ELSE "malformedAllow", o.rules, allow, cache)

\* The whole call for identity i: the lookup, createNetwork when it is not
\* cached (GetIPSubnet, parseExposedPorts, the persist, the cache insert;
\* on an error the deferred delete releases the address), then the tail.
Prepare(i, allow, expose) ==
  LET n == InstNet[i]
      a == Pools!Allocate(ipam, n)
      e == ParseExposedPorts(expose)
  IN
  \/ /\ instancesData[i] # None
     /\ RegisterAndSynthesise(i, instancesData[i], instancesData, ipam, allow)
  \/ /\ instancesData[i] = None
     /\ Pools!Exhausted(ipam, n)
     /\ result' = Answer(i, "noSubnet", <<>>, allow, instancesData)
     /\ UNCHANGED <<instancesData, ipam, dnsHosts>>
  \/ /\ instancesData[i] = None
     /\ ~Pools!Exhausted(ipam, n)
     /\ ~e.ok
     /\ ipam'     = Pools!ReleaseIP(a.pool, n, a.ip)
     /\ dnsHosts' = [dnsHosts EXCEPT ![a.ip] = None]
     /\ result'   = Answer(i, "malformedPorts", <<>>, allow, instancesData)
     /\ UNCHANGED instancesData
  \/ /\ instancesData[i] = None
     /\ ~Pools!Exhausted(ipam, n)
     /\ e.ok
     /\ LET info == [ip |-> a.ip, rules |-> e.rules]
        IN  RegisterAndSynthesise(i, info, [instancesData EXCEPT ![i] = info], a.pool, allow)

\* RemoveInstanceNetworkParameters: the address is passed as net.IP of its
\* text, so only the cache entry goes (see NetworkManager!TextBytesAsIP).
RemoveInstance(i) ==
  /\ instancesData[i] # None
  /\ instancesData' = [instancesData EXCEPT ![i] = None]
  /\ UNCHANGED <<ipam, dnsHosts, result>>

Next ==
  \/ \E i \in Insts, allow \in AllowPolicies, expose \in ExposePolicies : Prepare(i, allow, expose)
  \/ \E i \in Insts : RemoveInstance(i)

Spec == Init /\ [][Next]_vars

-----------------------------------------------------------------------------
(* Properties                                                              *)

TypeOK ==
  /\ instancesData \in [Insts -> Info \cup {None}]
  /\ ipam \in Pools!Pool
  /\ dnsHosts \in [IP -> Insts \cup {None}]
  /\ result.err \in Errors => /\ result.inst \in Insts
                              /\ result.rules \in Seq(EgressRule)
                              /\ result.allow \in AllowPolicies

\* Reference for spec section 4.4.3 and 4.4.5, over the cache a call saw:
\* the peers an entry "service/port[/proto]" of source src may reach.
WellFormed(entry) == Len(entry) \in {2, 3}
ProtoOf(entry) == IF Len(entry) = 3 THEN entry[3] ELSE "tcp"
Reachable(seen, src, entry) ==
  {t \in Insts : /\ seen[t] # None
                 /\ ServiceOf[t] = entry[1]
                 /\ seen[t].ip[1] # seen[src].ip[1]
                 /\ [port |-> entry[2], proto |-> ProtoOf(entry)] \in ToSet(seen[t].rules)}

\* The firewall rules Prepare returns for source i are, in AllowConnections
\* order, one rule per entry that some peer outside i's subnet exposes, to
\* such a peer, from i's address, with the entry's port and protocol (so no
\* rule targets i's own subnet, spec invariant 7); and Prepare fails on the
\* policy only when an entry is malformed.  This is about getInstanceRule,
\* ruleExists, checkIPInSubnet, parseAllowConnection and the skip of
\* errRuleNotFound in prepareFirewallRules.
RulesMatchPolicy ==
  LET r == result
      i == result.inst
      M == SelectSeq(r.allow, LAMBDA entry : Reachable(r.seen, i, entry) # {})
  IN  /\ r.err = "ok" =>
           /\ \A k \in DOMAIN r.allow : WellFormed(r.allow[k])
           /\ Len(r.rules) = Len(M)
           /\ \A k \in DOMAIN M :
                r.rules[k] \in {[src |-> r.seen[i].ip, dst |-> r.seen[t].ip,
                                 proto |-> ProtoOf(M[k]), port |-> M[k][2]] :
                                  t \in Reachable(r.seen, i, M[k])}
      /\ r.err = "malformedAllow" => \E k \in DOMAIN r.allow : ~WellFormed(r.allow[k])

=============================================================================
