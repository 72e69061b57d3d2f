------------------------------- MODULE AgentQuery -------------------------------
(***************************************************************************)
(* GetProcesses of agent/server.go, asked while the monitors of            *)
(* AgentMonitor run: the handler reads App.Procs, which appMonitor sets,   *)
(* without a lock.  Per application one handler at a time is modelled; the *)
(* handler changes nothing, so that two do not meet.                       *)
(***************************************************************************)
EXTENDS AgentMonitor

VARIABLES
  query,       \* where GetProcesses is, per application
  size         \* the length it has made its list of

queryVars == <<query, size>>

QueryTypeOK ==
  /\ TypeOK
  /\ query \in [App -> {"none", "found", "sized"}]
  /\ size \in [App -> Nat]

QueryInit ==
  /\ Init
  /\ query = [a \in App |-> "none"]
  /\ size = [a \in App |-> 0]

-----------------------------------------------------------------------------
(* GetProcesses: the entry is found under the lock; its Procs are then read *)
(* twice without it.                                                        *)

GetFinds(a) ==
  /\ up
  /\ query[a] = "none"
  /\ moni[a] = "in"
  /\ query' = [query EXCEPT ![a] = "found"]
  /\ UNCHANGED <<vars, size>>

(* make([]*pb.Process, len(a.Procs)) *)
GetSizes(a) ==
  /\ up
  /\ query[a] = "found"
  /\ query' = [query EXCEPT ![a] = "sized"]
  /\ size' = [size EXCEPT ![a] = procs[a]]
  /\ UNCHANGED vars

(* for i, p := range a.Procs: with more of them now, list.Procs[i] panics *)
GetFills(a) ==
  /\ up
  /\ query[a] = "sized"
  /\ procs[a] <= size[a]
  /\ query' = [query EXCEPT ![a] = "none"]
  /\ UNCHANGED <<vars, size>>

GetPanics(a) ==
  /\ up
  /\ query[a] = "sized"
  /\ procs[a] > size[a]
  /\ AgentEnds
  /\ UNCHANGED queryVars

-----------------------------------------------------------------------------
QueryNext ==
  \/ Next /\ UNCHANGED queryVars
  \/ \E a \in App : GetFinds(a) \/ GetSizes(a) \/ GetFills(a) \/ GetPanics(a)

QuerySpec == QueryInit /\ [][QueryNext]_<<vars, queryVars>>

-----------------------------------------------------------------------------
(* "Manager sends application info, and agent responds with the app's       *)
(* processes' info on the node" (agent.proto:21-22): asking for processes   *)
(* does not end the agent.                                                  *)
AgentSurvives == up

=============================================================================
