-------------------------- MODULE MCNetworkManager --------------------------
(* Model values and small bounds for NetworkManager. *)
EXTENDS NetworkManager, TLC

CONSTANTS n1, n2, i1, i2

\* i1 and i2 are prepared on n1 only: they compete for n1's hosts with the
\* gateways of both nodes, and n1 is the network torn down and re-created.
MCInstNets == [i \in Insts |-> {n1}]

\* Every instance may also be prepared on n2: the move path.
MCInstNetsMove == [i \in Insts |-> {n1, n2}]

MCProviderLists == {<<>>, <<n1>>, <<n2>>, <<n1, n2>>}

MCProviderListsSmall == {<<>>, <<n1>>, <<n1, n2>>}

\* A legacy row (NodeID "") for n1, as an older release persisted it.
MCInitNetworkRows == {[net |-> n1, node |-> StaleNode, ip |-> <<1, 1>>, vlan |-> 1]}

\* Nodes are interchangeable, and so are instances where InstNets treats
\* them alike; the runs using it check safety only.
MCSymmetry == Permutations(Nodes) \cup Permutations(Insts)
=============================================================================
