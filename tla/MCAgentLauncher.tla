---------------------------- MODULE MCAgentLauncher ----------------------------
(* A small instance of AgentLauncher: one agent, three applications.        *)
EXTENDS AgentLauncher

CONSTANTS a1, a2, a3, g1

ThreeApps == {a1, a2, a3}
OneAgent == {g1}
OnlyA1 == {a1}

=============================================================================
