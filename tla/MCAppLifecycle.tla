----------------------------- MODULE MCAppLifecycle -----------------------------
(* Small instances of AppLifecycle: one application, two agents.            *)
EXTENDS AppLifecycle, TLC

CONSTANTS a1, g1, g2, h1, h2

OneApp == {a1}
TwoAgents == {g1, g2}
TwoHosts == {h1, h2}

Distinct == [g \in TwoAgents |-> IF g = g1 THEN h1 ELSE h2]

(* Two agents on one host, or one that was restarted and is another agent *)
Shared == [g \in TwoAgents |-> h1]

(* On one host, and equally reliable, the two may do the same *)
SwapAgents == Permutations(TwoAgents)

NoApps == {}
NoAgents == {}
OnlyA1 == {a1}
OnlyG2 == {g2}

=============================================================================
