--------------------------- MODULE MCFirewallRules ---------------------------
(* Model values and small policies for FirewallRules. *)
EXTENDS FirewallRules, TLC

CONSTANTS n1, n2, a1, b2, b3

\* a1 runs service "sa" on n1; b2 and b3 run "sb" on n2, outside a1's
\* subnet, so a1 has two candidate peers and "sa/80" names only a1 itself.
MCInstNet   == (a1 :> n1) @@ (b2 :> n2) @@ (b3 :> n2)
MCServiceOf == (a1 :> "sa") @@ (b2 :> "sb") @@ (b3 :> "sb")

MCFields == {"sa", "sb", "80", "tcp", "udp", "x"}

\* No ports, port 80 (tcp by default), port 80/udp, and a malformed entry.
MCExposePolicies ==
  {<<>>, <<<<"80">>>>, <<<<"80", "udp">>>>, <<<<"80", "tcp", "x">>>>}

\* No connections; sb/80/udp then sa/80; and a malformed entry.
MCAllowPolicies ==
  {<<>>, <<<<"sb", "80", "udp">>, <<"sa", "80">>>>, <<<<"sb">>>>}

\* b2 and b3 are interchangeable; the runs using it check safety only.
MCSymmetry == Permutations({b2, b3})
=============================================================================
