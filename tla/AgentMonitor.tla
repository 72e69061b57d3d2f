------------------------------ MODULE AgentMonitor ------------------------------
(***************************************************************************)
(* The monitoring side of one DMoni agent (agent/agent.go, agent/server.go *)
(* and the scripts of snapshot/ it runs): the table of monitored           *)
(* applications that Register and Deregister change, the goroutine of      *)
(* appMonitor that measures their processes round by round, and that of    *)
(* sysMonitor.  Documents leave through DocPipeline; AgentQuery adds the   *)
(* RPC GetProcesses, which reads what appMonitor has detected.             *)
(*                                                                         *)
(* The manager registers an application at most once with an agent: ids    *)
(* are fresh and Submit calls each agent once.                             *)
(***************************************************************************)
EXTENDS DocPipeline

CONSTANTS
  App,         \* application ids
  NoApp,       \* "measuring none"
  MaxProcs,    \* per application, a bound on the processes one detection finds
  Undetected,  \* applications with a framework that has no detector
  Launches,    \* whether launcher, waiters and kill may change lchApps.m meanwhile
  StoreDown,   \* whether ElasticSearch may be unreachable when store starts
  NilFatal,    \* whether answering with a nil message ends the agent
  MaxCuts      \* bound on how often sysusage.py is cut off after it has printed

Proc == "proc"
Sys == "sys"

ASSUME MonitorAssumption ==
  /\ Source = {Proc, Sys}
  /\ NoApp \notin App
  /\ MaxProcs \in [App -> Nat \ {0}]
  /\ Undetected \subseteq App
  /\ NilFatal \in BOOLEAN
  /\ MaxCuts \in Nat

VARIABLES
  up,          \* the agent runs
  moni,        \* where each application is: "new", "in" Agent.apps, "out" of it
  procs,       \* the length of App.Procs
  todo,        \* the rest of appMonitor's round: what getMoniList returned
  cur,         \* the application moniOne measures
  next,        \* which of its processes is next
  gone,        \* those of its processes that have exited
  shot,        \* its current process was measured, the document is not sent yet
  late,        \* documents sent about each application after its Deregister
  sysStep,     \* where sysMonitor is
  sysBuf,      \* its buffer: "empty" or "left", with output of an earlier run
  cuts         \* how often sysusage.py was cut off

roundVars == <<procs, todo, cur, next, gone, shot, late>>
sysVars == <<sysStep, sysBuf, cuts>>
monitorVars == <<up, moni, roundVars, sysVars>>
vars == <<pipelineVars, monitorVars>>

(* Positions in App.Procs *)
Process == UNION {1 .. MaxProcs[a] : a \in App}

TypeOK ==
  /\ PipelineTypeOK
  /\ up \in BOOLEAN
  /\ moni \in [App -> {"new", "in", "out"}]
  /\ procs \in [App -> Nat]
  /\ \A a \in App : procs[a] <= MaxProcs[a]
  /\ todo \subseteq App
  /\ cur \in App \cup {NoApp}
  /\ next \in Nat \ {0}
  /\ gone \subseteq Process
  /\ shot \in BOOLEAN
  /\ late \in [App -> Nat]
  /\ sysStep \in {"shooting", "sending", "asleep"}
  /\ sysBuf \in {"empty", "left"}
  /\ cuts \in 0 .. MaxCuts

Init ==
  /\ PipelineInit
  /\ up = TRUE
  /\ moni = [a \in App |-> "new"]
  /\ procs = [a \in App |-> 0]
  /\ todo = {}
  /\ cur = NoApp
  /\ next = 1
  /\ gone = {}
  /\ shot = FALSE
  /\ late = [a \in App |-> 0]
  /\ sysStep = "shooting"
  /\ sysBuf = "empty"
  /\ cuts = 0

(* A goroutine panics, or log.Fatalf is called: the daemon is gone with its *)
(* memory.  What is in the channels is not taken out any more.              *)
AgentEnds ==
  /\ up' = FALSE
  /\ procs' = [a \in App |-> 0]
  /\ todo' = {}
  /\ cur' = NoApp
  /\ next' = 1
  /\ gone' = {}
  /\ shot' = FALSE
  /\ sysStep' = "shooting"
  /\ sysBuf' = "empty"
  /\ UNCHANGED <<pipelineVars, moni, late, cuts>>

-----------------------------------------------------------------------------
(* The table of monitored applications.                                     *)

Register(a) ==
  /\ up
  /\ moni[a] = "new"
  /\ moni' = [moni EXCEPT ![a] = "in"]
  /\ UNCHANGED <<pipelineVars, up, roundVars, sysVars>>

(* The request's Save is not looked at *)
Deregister(a) ==
  /\ up
  /\ moni[a] = "in"
  /\ moni' = [moni EXCEPT ![a] = "out"]
  /\ UNCHANGED <<pipelineVars, up, roundVars, sysVars>>

(* Without an entry, on an agent that joined after the Submit or whose      *)
(* Register call was lost, the answer is nil, nil: gRPC cannot encode it.   *)
(* A release of gRPC that does not return that to the caller as an error,   *)
(* which changes nothing here, ends the program.                            *)
NilDeregister(a) ==
  /\ up
  /\ NilFatal
  /\ moni[a] # "in"
  /\ AgentEnds

-----------------------------------------------------------------------------
(* appMonitor: rounds over a copy of the table.                             *)

(* Mutated Round: applications that have left are measured on *)
RoundOfAll ==
  /\ up
  /\ cur = NoApp
  /\ todo = {}
  /\ todo' = {a \in App : moni[a] # "new"}
  /\ UNCHANGED <<pipelineVars, up, moni, procs, cur, next, gone, shot, late, sysVars>>

(* getMoniList, after the sleep *)
Round ==
  /\ up
  /\ cur = NoApp
  /\ todo = {}
  /\ todo' = {a \in App : moni[a] = "in"}
  /\ UNCHANGED <<pipelineVars, up, moni, procs, cur, next, gone, shot, late, sysVars>>

(* Mutated Detect: the application stays in the rest of the round *)
DetectKeeps(a) ==
  /\ up
  /\ cur = NoApp
  /\ a \in todo \ Undetected
  /\ cur' = a
  /\ \E n \in 0 .. MaxProcs[a] : procs' = [procs EXCEPT ![a] = n]
  /\ UNCHANGED <<pipelineVars, up, moni, todo, next, gone, shot, late, sysVars>>

(* detectProcs, and app.Procs is set: no lock is held *)
Detect(a) ==
  /\ up
  /\ cur = NoApp
  /\ a \in todo \ Undetected
  /\ todo' = todo \ {a}
  /\ cur' = a
  /\ \E n \in 0 .. MaxProcs[a] : procs' = [procs EXCEPT ![a] = n]
  /\ UNCHANGED <<pipelineVars, up, moni, next, gone, shot, late, sysVars>>

(* ag.detectors[fw] is nil, and Detect is called on it; or lchApps.m is     *)
(* read without its lock while it is written, which the Go runtime may      *)
(* notice and end the program for                                           *)
DetectPanics(a) ==
  /\ up
  /\ cur = NoApp
  /\ a \in todo
  /\ a \in Undetected \/ Launches
  /\ AgentEnds

(* moniOne returns; next and gone go with it *)
Return ==
  /\ cur' = NoApp
  /\ next' = 1
  /\ gone' = {}

(* Mutated Snapshot: a measurement that fails is tried again *)
SnapshotRetries ==
  /\ up
  /\ cur # NoApp
  /\ ~shot
  /\ next \in (1 .. procs[cur]) \ gone
  /\ shot' = TRUE
  /\ UNCHANGED <<pipelineVars, up, moni, procs, todo, cur, next, gone, late, sysVars>>

(* monitor.py measures a process that runs; for one that has exited it      *)
(* prints nothing, and moniOne returns, whatever processes are left         *)
Snapshot ==
  /\ up
  /\ cur # NoApp
  /\ ~shot
  /\ next <= procs[cur]
  /\ IF next \in gone THEN Return /\ UNCHANGED shot
                      ELSE shot' = TRUE /\ UNCHANGED <<cur, next, gone>>
  /\ UNCHANGED <<pipelineVars, up, moni, procs, todo, late, sysVars>>

SendUsage ==
  /\ up
  /\ shot
  /\ Send(Proc)
  /\ shot' = FALSE
  /\ next' = next + 1
  /\ late' = IF moni[cur] = "out" /\ late[cur] <= MaxProcs[cur]
               THEN [late EXCEPT ![cur] = @ + 1] ELSE late
  /\ UNCHANGED <<up, moni, procs, todo, cur, gone, sysVars>>

(* Every process was measured: on to the next application *)
MoniOneReturns ==
  /\ up
  /\ cur # NoApp
  /\ ~shot
  /\ next > procs[cur]
  /\ Return
  /\ UNCHANGED <<pipelineVars, up, moni, procs, todo, shot, late, sysVars>>

(* A process that was detected exits before it is measured *)
ProcessExits(i) ==
  /\ up
  /\ cur # NoApp
  /\ ~shot
  /\ i \in (next .. procs[cur]) \ gone
  /\ gone' = gone \cup {i}
  /\ UNCHANGED <<pipelineVars, up, moni, procs, todo, cur, next, shot, late, sysVars>>

-----------------------------------------------------------------------------
(* sysMonitor: the buffer is reset after a document was read from it, and   *)
(* on no other way through the loop.                                        *)


(* sysusage.py prints one document; with anything left in the buffer it     *)
(* does not parse and the loop goes on at once, which changes nothing       *)
SysShot ==
  /\ up
  /\ sysStep = "shooting"
  /\ sysBuf = "empty"
  /\ sysStep' = "sending"
  /\ UNCHANGED <<pipelineVars, up, moni, roundVars, sysBuf, cuts>>

(* The script is cut off after it has printed; the loop goes on.  (Cut off  *)
(* before, it leaves nothing, and nothing has changed.)                     *)
SysCutOff ==
  /\ up
  /\ sysStep = "shooting"
  /\ cuts < MaxCuts
  /\ cuts' = cuts + 1
  /\ sysBuf' = "left"
  /\ UNCHANGED <<pipelineVars, up, moni, roundVars, sysStep>>

SendSys ==
  /\ up
  /\ sysStep = "sending"
  /\ Send(Sys)
  /\ sysStep' = "asleep"
  /\ UNCHANGED <<up, moni, roundVars, sysBuf, cuts>>

SysWakes ==
  /\ up
  /\ sysStep = "asleep"
  /\ sysStep' = "shooting"
  /\ UNCHANGED <<pipelineVars, up, moni, roundVars, sysBuf, cuts>>

-----------------------------------------------------------------------------
Pipe == up /\ PipelineStep /\ UNCHANGED monitorVars

(* store cannot connect to ElasticSearch: log.Fatalf *)
StoreFatal == up /\ StoreDown /\ ~ready /\ AgentEnds

AppMonitorStep ==
  \/ Round
  \/ \E a \in App : Detect(a)
  \/ Snapshot
  \/ SendUsage
  \/ MoniOneReturns

SysMonitorStep == SysShot \/ SendSys \/ SysWakes

Next ==
  \/ \E a \in App : Register(a) \/ Deregister(a) \/ NilDeregister(a)
  \/ \E a \in App : DetectPanics(a)
  \/ \E i \in Process : ProcessExits(i)
  \/ AppMonitorStep
  \/ SysMonitorStep
  \/ SysCutOff
  \/ Pipe
  \/ StoreFatal

Spec == Init /\ [][Next]_vars

(* The goroutines of an agent that runs are scheduled, the scripts and      *)
(* bulk.Add return, and senders blocked on one channel take turns           *)
Fairness ==
  /\ WF_vars(AppMonitorStep)
  /\ WF_vars(SysMonitorStep)
  /\ \A s \in Source :
       /\ WF_vars(up /\ MergeTake(s) /\ UNCHANGED monitorVars)
       /\ SF_vars(up /\ MergePut(s) /\ UNCHANGED monitorVars)
  /\ WF_vars(up /\ StoreConnects /\ UNCHANGED monitorVars)
  /\ WF_vars(up /\ StoreTake /\ UNCHANGED monitorVars)
  /\ WF_vars(up /\ StoreAdd /\ UNCHANGED monitorVars)

FairSpec == Spec /\ Fairness

-----------------------------------------------------------------------------
(* What is still measured of an application once its Deregister has been    *)
(* answered is at most the round that appMonitor has begun: one document    *)
(* for each process.                                                        *)
LateDocsBounded == \A a \in App : late[a] <= MaxProcs[a]

(* An application that has left the table is some day no longer measured:   *)
(* the stale pointer appMonitor holds to it is dropped with the round, which *)
(* neither exited processes nor full channels keep from ending.             *)
DeregisteredQuiesces ==
  \A a \in App : <>[](moni[a] = "out" => (a \notin todo /\ cur # a) \/ ~up)

(* Every registered application is measured in turn, again and again: a     *)
(* round that stops at a process that has exited, a full channel or an      *)
(* application that is deregistered never stop the rounds.                  *)
RegisteredIsMeasured ==
  \A a \in App : []<>(moni[a] = "in" => cur = a \/ ~up)


=============================================================================
