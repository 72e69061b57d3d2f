----------------------------- MODULE MCAgentMonitor -----------------------------
(* A small instance of AgentMonitor: two applications.                      *)
EXTENDS AgentMonitor

CONSTANTS a1, a2

TwoApps == {a1, a2}
NoApps == {}

(* a1 has up to two processes on this node, a2 up to one *)
TwoAndOne == [a \in TwoApps |-> IF a = a1 THEN 2 ELSE 1]

Monitors == {Proc, Sys}

=============================================================================
