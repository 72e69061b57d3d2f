------------------------------ MODULE MCAgentQuery ------------------------------
(* A small instance of AgentQuery: one application with up to two processes. *)
EXTENDS AgentQuery

CONSTANT a1

OneApp == {a1}
NoApps == {}
TwoEach == [a \in OneApp |-> 2]

Monitors == {Proc, Sys}

=============================================================================
