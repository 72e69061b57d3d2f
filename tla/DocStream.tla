------------------------------- MODULE DocStream -------------------------------
(***************************************************************************)
(* What the path from an agent's monitors to the document store promises:  *)
(* the documents of each monitor are stored in the order it sent them,     *)
(* none is lost and none is stored twice, and no more than Window of them  *)
(* are under way at once, however slow the store is.                       *)
(***************************************************************************)
EXTENDS Naturals

CONSTANTS
  Source,   \* the monitors
  Wrap,     \* documents are numbered modulo Wrap
  Window    \* how many of a monitor's documents may be under way

VARIABLES
  sent,     \* the number of the last document each monitor has sent
  stored    \* the number of its last document that was stored

vars == <<sent, stored>>

Init ==
  /\ sent = [s \in Source |-> 0]
  /\ stored = [s \in Source |-> 0]

UnderWay(s) == (Wrap + sent[s] - stored[s]) % Wrap

Send(s) ==
  /\ UnderWay(s) < Window
  /\ sent' = [sent EXCEPT ![s] = (@ + 1) % Wrap]
  /\ UNCHANGED stored

Store(s) ==
  /\ UnderWay(s) > 0
  /\ stored' = [stored EXCEPT ![s] = (@ + 1) % Wrap]
  /\ UNCHANGED sent

Next == \E s \in Source : Send(s) \/ Store(s)

Spec == Init /\ [][Next]_vars

=============================================================================
