---------------------------- MODULE MCAgentDirectory ----------------------------
(* Small instances of AgentDirectory: an agent that calls on time and one   *)
(* whose calls may fail.                                                    *)
EXTENDS AgentDirectory

CONSTANTS g1, g2

OneAgent == {g1}
TwoAgents == {g1, g2}

=============================================================================
