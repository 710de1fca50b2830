--------------------------- MODULE AddressRegistry ---------------------------
(***************************************************************************)
(* What the network coordinator promises about addresses (spec section 8,  *)
(* "Uniqueness", and invariant 1), stated without networks, storage or     *)
(* callers: every address has at most one holder, a holder has at most    *)
(* one address, and a holder keeps its address for as long as it holds    *)
(* one.  A locked call of the coordinator releases some addresses and then *)
(* hands out free ones, so one step of this specification is such a batch. *)
(***************************************************************************)
EXTENDS Naturals, FiniteSets

CONSTANTS
  Addrs,    \* the addresses
  Holders,  \* who may hold one: gateways and instances
  Free      \* the owner of an address nobody holds

ASSUME Free \notin Holders

VARIABLE owner  \* Addrs -> Holders \cup {Free}

AddrsOf(o, w) == {a \in Addrs : o[a] = w}

\* Every holder holds at most one address: the held addresses have as many
\* owners as there are of them.
OneEach(o) ==
  Cardinality({a \in Addrs : o[a] # Free}) = Cardinality({o[a] : a \in Addrs} \ {Free})

Init ==
  /\ owner \in [Addrs -> Holders \cup {Free}]
  /\ OneEach(owner)

\* One locked call: some addresses are released, then addresses that are
\* free by then are handed to holders that held none when the call began.
\* So an address keeps its owner, becomes free, or goes to such a holder:
\* none changes hands without being released, and no holder's address
\* changes while it holds one.
Next ==
  LET o == owner
      n == owner'
  IN  /\ n \in [Addrs -> Holders \cup {Free}]
      /\ \A a \in Addrs : \/ n[a] \in {o[a], Free}
                         \/ AddrsOf(o, n[a]) = {}
      /\ OneEach(n)

Spec == Init /\ [][Next]_owner
=============================================================================
