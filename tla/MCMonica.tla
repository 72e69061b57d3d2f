------------------------------- MODULE MCMonica -------------------------------
(* A small instance of Monica: two agents on one host or on two, with       *)
(* clocks that are two units apart.                                         *)
EXTENDS Monica

CONSTANTS g1, g2, h1, h2, j1, j2

Agents == {g1, g2}
Hosts == {h1, h2}
Jobs == {j1, j2}

(* Both agents on one host, as an agent that has ended and the one that was *)
(* started after it until the directory drops the first; or one on each     *)
TwoPlacements == {[g \in Agents |-> h1], [g \in Agents |-> IF g = g1 THEN h1 ELSE h2]}

Offsets == [g \in Agents |-> IF g = g1 THEN 2 ELSE 4]

Pids == 0 .. 4
Names == {"DataNode", "YarnChild", "CoarseGrainedExecutorBackend", "Main"}

LineOf(pid, sn, names, jobs) ==
  [pid |-> pid, split |-> TRUE, number |-> TRUE, sn |-> sn, names |-> names, jobs |-> jobs]

Blank == [LineOf(0, "Main", {}, {}) EXCEPT !.split = FALSE, !.number = FALSE]

(* A daemon, a process of the application's job and one of another job, and *)
(* the entry process, which names both frameworks; a line without a blank   *)
Busy == <<LineOf(1, "DataNode", {Hadoop}, {}), LineOf(2, "YarnChild", {Hadoop}, {j1}),
          LineOf(4, "YarnChild", {Hadoop}, {j2}), LineOf(3, "Main", {Hadoop, Spark}, {}),
          Blank>>

(* Output that is spoilt by a line that begins with no number *)
Spoilt == <<LineOf(2, "CoarseGrainedExecutorBackend", {Spark}, {j1}),
            [LineOf(1, "Main", {Hadoop}, {}) EXCEPT !.number = FALSE]>>

TwoListings == {[ok |-> TRUE, lines |-> Busy], [ok |-> TRUE, lines |-> Spoilt]}

HadoopAndSpark == <<Hadoop, Spark>>

=============================================================================
