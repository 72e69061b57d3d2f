------------------------------ MODULE AppLifecycle ------------------------------
(***************************************************************************)
(* The life of applications across a DMoni cluster: the manager's handlers *)
(* Submit, Kill, Deregister and NotifyDone (manager/server_app.go,         *)
(* manager/server_master.go, manager/manager.go) composed with the agents' *)
(* launchers (AgentLauncher) and their tables of monitored applications    *)
(* (agent/server.go Register and Deregister).                              *)
(*                                                                         *)
(* A handler is a goroutine of its own; between taking one lock or calling *)
(* one RPC and the next, any other handler may run.  Calls to agents are   *)
(* records in net; a caller whose call fails or times out goes on, and the *)
(* call may still be executed later.                                       *)
(***************************************************************************)
EXTENDS AgentLauncher, FiniteSets

CONSTANTS
  Host,           \* addresses; Submit names its entry node by one
  HostOf,         \* the address of each agent; several agents may share it
  Flaky,          \* agents whose heartbeats may be missed while they run
  CallsFail,      \* whether calls between live daemons may fail or time out
  ManagerStops,   \* whether the manager may be stopped by its operator
  ManagerStarts   \* whether a manager that is down is started again

ASSUME LifecycleAssumption ==
  /\ Host # {}
  /\ HostOf \in [Agent -> Host]
  /\ Flaky \subseteq Agent
  /\ CallsFail \in BOOLEAN
  /\ ManagerStops \in BOOLEAN
  /\ ManagerStarts \in BOOLEAN

VARIABLES
  mgrUp,       \* the manager runs
  agents,      \* Manager.agents
  apps,        \* Manager.apps
  entryNode,   \* App.EntryNode of each submission
  monitored,   \* the applications submitted with App.monitored set
  pc,          \* where each handler is for each application, or how it ended
  await,       \* per handler: the agents whose answer it waits for
  net,         \* calls to agents in flight
  moniApps,    \* per agent: Agent.apps, the monitored applications
  known        \* the applications whose id a client has received

directory == <<mgrUp, agents>>
submission == <<entryNode, monitored>>
calls == <<await, net>>
managerVars == <<directory, apps, submission, pc, calls, moniApps, known>>
vars == <<launcherVars, managerVars>>

Ended == {"idle", "ok", "err"}

(* The steps of each handler; "fanout": in m.deregister, "placing": in      *)
(* m.monitor, until wg.Wait returns                                         *)
Steps == [Submit     |-> Ended \cup {"launching", "placing"},
          Kill       |-> Ended \cup {"fanout", "locating", "killing"},
          Deregister |-> Ended \cup {"fanout"},
          NotifyDone |-> Ended \cup {"called", "fanout", "deleting"}]

Handler == DOMAIN Steps

Request == [op : {"Launch", "Kill", "Register", "Deregister"},
            app : App, to : Agent, by : Handler]

TypeOK ==
  /\ LauncherTypeOK
  /\ mgrUp \in BOOLEAN
  /\ agents \subseteq Agent
  /\ apps \subseteq App
  /\ entryNode \in [App -> Host]
  /\ monitored \subseteq App
  /\ pc \in [Handler -> [App -> UNION {Steps[h] : h \in Handler}]]
  /\ \A h \in Handler, a \in App : pc[h][a] \in Steps[h]
  /\ await \in [Handler -> [App -> SUBSET Agent]]
  /\ net \subseteq Request
  /\ moniApps \in [Agent -> SUBSET App]
  /\ known \subseteq App

Init ==
  /\ LauncherInit
  /\ mgrUp = TRUE
  /\ agents = {}
  /\ apps = {}
  /\ entryNode = [a \in App |-> CHOOSE h \in Host : TRUE]  \* Submit sets it
  /\ monitored = {}
  /\ pc = [h \in Handler |-> [a \in App |-> "idle"]]
  /\ await = [h \in Handler |-> [a \in App |-> {}]]
  /\ net = {}
  /\ moniApps = [g \in Agent |-> {}]
  /\ known = {}

-----------------------------------------------------------------------------
(* Calls to agents, and what handlers share.                                *)

Call(op, a, g, h) == [op |-> op, app |-> a, to |-> g, by |-> h]

(* Handler h calls op for application a on each agent of G and waits *)
CallAll(op, a, G, h) ==
  /\ net' = net \cup {Call(op, a, g, h) : g \in G}
  /\ await' = [await EXCEPT ![h][a] = G]

Goto(h, a, step) == pc' = [pc EXCEPT ![h][a] = step]

(* Where a handler is while it waits for the answers to a call *)
WaitsAt == [Launch |-> "launching", Register |-> "placing",
            Deregister |-> "fanout", Kill |-> "killing"]

(* The caller of request r still waits for it, not for a later call *)
Awaited(r) == r.to \in await[r.by][r.app] /\ pc[r.by][r.app] = WaitsAt[r.op]

(* Request r is executed; its answer, if still awaited, reaches the caller *)
Answer(r) ==
  /\ r.to \in agentUp
  /\ net' = net \ {r}
  /\ await' = IF Awaited(r) THEN [await EXCEPT ![r.by][r.app] = @ \ {r.to}] ELSE await

(* findNode: the map is ranged over in any order *)
findNode(h) == {g \in agents : HostOf[g] = h}

(* m.deregister first calls Deregister on every agent there is now ... *)
StartDeregister(h, a) ==
  /\ Goto(h, a, "fanout")
  /\ CallAll("Deregister", a, agents, h)

(* Mutated EndDeregister: Deregister goes on as Kill does *)
EndDeregisterKills(h, a) ==
  /\ pc[h][a] = "fanout"
  /\ await[h][a] = {}
  /\ apps' = apps \ {a}
  /\ Goto(h, a, IF h = "NotifyDone" THEN "deleting" ELSE "locating")
  /\ UNCHANGED <<launcherVars, directory, submission, calls, moniApps, known>>

(* ... and when each call was answered or has failed, deletes the entry *)
EndDeregister(h, a) ==
  /\ pc[h][a] = "fanout"
  /\ await[h][a] = {}
  /\ apps' = apps \ {a}
  /\ Goto(h, a, CASE h = "Kill" -> "locating"
                  [] h = "NotifyDone" -> "deleting"
                  [] OTHER -> "ok")
  /\ UNCHANGED <<launcherVars, directory, submission, calls, moniApps, known>>

(* The manager's process is gone, with every handler and both maps *)
ManagerDown ==
  /\ mgrUp' = FALSE
  /\ agents' = {}
  /\ apps' = {}
  /\ pc' = [h \in Handler |-> [a \in App |->
       IF pc[h][a] \in Ended THEN pc[h][a] ELSE "err"]]
  /\ await' = [h \in Handler |-> [a \in App |-> {}]]
  /\ UNCHANGED <<launcherVars, submission, net, moniApps, known>>

-----------------------------------------------------------------------------
(* Submit.                                                                  *)

(* findNode(in.EntryNode), a fresh uuid, and the Launch call.  Without an    *)
(* agent on the host nothing happens: "Node does not exist".                *)
Submit(a, h, moni) ==
  /\ mgrUp
  /\ pc["Submit"][a] = "idle"
  /\ entryNode' = [entryNode EXCEPT ![a] = h]
  /\ monitored' = IF moni THEN monitored \cup {a} ELSE monitored
  /\ Goto("Submit", a, "launching")
  /\ \E g \in findNode(h) : CallAll("Launch", a, {g}, "Submit")
  /\ UNCHANGED <<launcherVars, directory, apps, moniApps, known>>

HandleLaunch(r) ==
  /\ r.op = "Launch"
  /\ RecvLaunch(r.to, r.app)
  /\ net' = net \ {r}
  /\ UNCHANGED <<directory, apps, submission, pc, await, moniApps, known>>

(* Mutated Launched: the error of Launch is not looked at *)
LaunchedAnyway(a) ==
  /\ pc["Submit"][a] = "launching"
  /\ launch[a] \in {"ok", "failed"}
  /\ Goto("Submit", a, "placing")
  /\ CallAll("Register", a, IF a \in monitored THEN agents ELSE {}, "Submit")
  /\ UNCHANGED <<launcherVars, directory, apps, submission, moniApps, known>>

(* The Launch call returns without error: with the monitoring flag set,     *)
(* m.monitor calls Register on every agent there is now.                    *)
Launched(a) ==
  /\ pc["Submit"][a] = "launching"
  /\ launch[a] = "ok"
  /\ Goto("Submit", a, "placing")
  /\ CallAll("Register", a, IF a \in monitored THEN agents ELSE {}, "Submit")
  /\ UNCHANGED <<launcherVars, directory, apps, submission, moniApps, known>>

(* The Launch call returns an error: the agent's, or the deadline's while   *)
(* the agent goes on with the request, or the agent is gone.                *)
LaunchFailed(a) ==
  /\ pc["Submit"][a] = "launching"
  /\ \/ launch[a] = "failed"
     \/ CallsFail
     \/ await["Submit"][a] \cap agentUp = {}
  /\ Goto("Submit", a, "err")
  /\ await' = [await EXCEPT !["Submit"][a] = {}]
  /\ UNCHANGED <<launcherVars, directory, apps, submission, net, moniApps, known>>

(* Mutated Store: m.monitor without wg.Wait *)
StoreEarly(a) ==
  /\ pc["Submit"][a] = "placing"
  /\ apps' = apps \cup {a}
  /\ Goto("Submit", a, "ok")
  /\ known' = known \cup {a}
  /\ UNCHANGED <<launcherVars, directory, submission, calls, moniApps>>

(* The client prints the id, if its second is not over yet *)
LearnsId(a) ==
  \/ known' = known \cup {a}
  \/ CallsFail /\ UNCHANGED known

(* Every Register call has been answered or has failed (the errors are      *)
(* dropped): the application enters the map and its id goes to the client.  *)
Store(a) ==
  /\ pc["Submit"][a] = "placing"
  /\ await["Submit"][a] = {}
  /\ apps' = apps \cup {a}
  /\ Goto("Submit", a, "ok")
  /\ LearnsId(a)
  /\ UNCHANGED <<launcherVars, directory, submission, calls, moniApps>>

-----------------------------------------------------------------------------
(* Kill: deregister with all agents, then kill on the entry node.           *)

(* The bound on how often a client's repeated request overlaps the calls    *)
(* its earlier one has left behind, in flight or in an agent's handler: not *)
(* at all                                                                   *)
NoLeftover(h, a) ==
  /\ \A r \in net : ~(r.by = h /\ r.app = a)
  /\ h = "Kill" => kill[a] = "none"

(* A client who knows the id asks for handler h *)
Asks(h, a) ==
  /\ mgrUp
  /\ a \in known
  /\ pc[h][a] \in Ended
  /\ NoLeftover(h, a)
  /\ UNCHANGED <<launcherVars, directory, apps, submission, moniApps, known>>

(* "App does not exist" *)
NoSuchApp(h, a) == a \notin apps /\ Goto(h, a, "err") /\ UNCHANGED calls

Kill(a) ==
  /\ Asks("Kill", a)
  /\ \/ NoSuchApp("Kill", a)
     \/ a \in apps \cap monitored /\ StartDeregister("Kill", a)
     \/ a \in apps \ monitored /\ Goto("Kill", a, "locating") /\ UNCHANGED calls

(* ag := m.findNode(app.EntryNode); ag.Host panics when there is none *)
KillCall(a) ==
  /\ pc["Kill"][a] = "locating"
  /\ \E g \in findNode(entryNode[a]) : CallAll("Kill", a, {g}, "Kill")
  /\ Goto("Kill", a, "killing")
  /\ UNCHANGED <<launcherVars, directory, apps, submission, moniApps, known>>

KillPanics(a) ==
  /\ pc["Kill"][a] = "locating"
  /\ findNode(entryNode[a]) = {}
  /\ ManagerDown

(* Deregister, called by a client *)
Deregister(a) ==
  /\ Asks("Deregister", a)
  /\ \/ NoSuchApp("Deregister", a)
     \/ a \in apps /\ StartDeregister("Deregister", a)

-----------------------------------------------------------------------------
(* NotifyDone: from the waiter of the agent to the manager and back.        *)

(* The waiter stores the end and calls NotifyDone; no manager, no call *)
CallNotifyDone(a) ==
  /\ StoreEnd(a)
  /\ Goto("NotifyDone", a, IF mgrUp THEN "called" ELSE "err")
  /\ UNCHANGED <<directory, apps, submission, calls, moniApps, known>>

(* Mutated NotifyDone: an unknown application is tolerated *)
NotifyDoneTolerant(a) ==
  /\ pc["NotifyDone"][a] = "called"
  /\ \/ a \in apps \cap monitored /\ StartDeregister("NotifyDone", a)
     \/ a \notin apps \cap monitored /\ Goto("NotifyDone", a, "deleting") /\ UNCHANGED calls
  /\ UNCHANGED <<launcherVars, directory, apps, submission, moniApps, known>>

NotifyDone(a) ==
  /\ pc["NotifyDone"][a] = "called"
  /\ a \in apps
  /\ \/ a \in monitored /\ StartDeregister("NotifyDone", a)
     \/ a \notin monitored /\ Goto("NotifyDone", a, "deleting") /\ UNCHANGED calls
  /\ UNCHANGED <<launcherVars, directory, apps, submission, moniApps, known>>

(* app := getApp(in.AppId) is nil and app.monitored panics *)
NotifyPanics(a) ==
  /\ pc["NotifyDone"][a] = "called"
  /\ a \notin apps
  /\ ManagerDown

(* Mutated NotifyDelete: it relies on m.deregister having deleted *)
NotifyDeleteNot(a) ==
  /\ pc["NotifyDone"][a] = "deleting"
  /\ Goto("NotifyDone", a, "ok")
  /\ UNCHANGED <<launcherVars, directory, apps, submission, calls, moniApps, known>>

NotifyDelete(a) ==
  /\ pc["NotifyDone"][a] = "deleting"
  /\ apps' = apps \ {a}
  /\ Goto("NotifyDone", a, "ok")
  /\ UNCHANGED <<launcherVars, directory, submission, calls, moniApps, known>>

(* notifyDone returns: answered, or the call failed, or its second is over; *)
(* a call that has not reached the manager yet may be lost.                 *)
NotifyAnswered(a) ==
  /\ NotifyReturn(a)
  /\ CallsFail \/ pc["NotifyDone"][a] \in {"ok", "err"}
  /\ \/ UNCHANGED pc
     \/ pc["NotifyDone"][a] = "called" /\ Goto("NotifyDone", a, "err")
  /\ UNCHANGED <<directory, apps, submission, calls, moniApps, known>>

-----------------------------------------------------------------------------
(* Agents: Register, Deregister and Kill.                                   *)

(* A second Register is answered with an error and leaves the same table *)
HandleRegister(r) ==
  /\ r.op = "Register"
  /\ Answer(r)
  /\ moniApps' = [moniApps EXCEPT ![r.to] = @ \cup {r.app}]
  /\ UNCHANGED <<launcherVars, directory, apps, submission, pc, known>>

(* Without an entry the answer is nil, nil: an error to the caller, or, in  *)
(* NilFatal, the end of the agent.  m.deregister counts both as answers.    *)
HandleDeregister(r) ==
  /\ r.op = "Deregister"
  /\ r.app \in moniApps[r.to] \/ r.to \notin NilFatal
  /\ Answer(r)
  /\ moniApps' = [moniApps EXCEPT ![r.to] = @ \ {r.app}]
  /\ UNCHANGED <<launcherVars, directory, apps, submission, pc, known>>

(* With agent g go its monitored table and what was sent to it *)
AgentGone(g) ==
  /\ moniApps' = [moniApps EXCEPT ![g] = {}]
  /\ net' = {r \in net : r.to # g}
  /\ UNCHANGED <<directory, apps, submission, pc, await, known>>

NilDeregister(r) ==
  /\ r.op = "Deregister"
  /\ r.app \notin moniApps[r.to]
  /\ NilReply(r.to)
  /\ AgentGone(r.to)

(* The caller of application a's Kill handler on agent g still waits for it *)
KillerWaits(g, a) == pc["Kill"][a] = "killing" /\ g \in await["Kill"][a]

(* Mutated HandleKill: the agent answers, then kills *)
HandleKillAsync(r) ==
  /\ r.op = "Kill"
  /\ Answer(r)
  /\ \/ RecvKill(r.to, r.app)
     \/ r.app \notin lchApps[r.to] /\ UNCHANGED launcherVars
  /\ IF Awaited(r)
       THEN Goto("Kill", r.app, IF r.app \in lchApps[r.to] THEN "ok" ELSE "err")
       ELSE UNCHANGED pc
  /\ UNCHANGED <<directory, apps, submission, moniApps, known>>

(* getLchApp: an application that is not listed is answered at once with an *)
(* error, which the manager's Kill returns                                  *)
HandleKill(r) ==
  /\ r.op = "Kill"
  /\ \/ /\ RecvKill(r.to, r.app)
        /\ net' = net \ {r}
        /\ UNCHANGED <<pc, await>>
     \/ /\ r.app \notin lchApps[r.to]
        /\ Answer(r)
        /\ IF Awaited(r) THEN Goto("Kill", r.app, "err") ELSE UNCHANGED pc
        /\ UNCHANGED launcherVars
  /\ UNCHANGED <<directory, apps, submission, moniApps, known>>

(* The agent's handler cancels and answers, and so does the manager's *)
KillDone(g, a) ==
  /\ home[a] = g
  /\ KillCancel(a)
  /\ \/ /\ KillerWaits(g, a)
        /\ Goto("Kill", a, "ok")
        /\ await' = [await EXCEPT !["Kill"][a] = @ \ {g}]
     \/ ~KillerWaits(g, a) /\ UNCHANGED <<pc, await>>
  /\ UNCHANGED <<directory, apps, submission, net, moniApps, known>>

(* The request of handler h for a that agent g has still to execute *)
Requests(h, a, g) ==
  {r \in net : r.by = h /\ r.app = a /\ r.to = g /\ pc[h][a] = WaitsAt[r.op]}

(* Mutated CallFailed: no wg.Done on the error path *)
CallFailedForever(h, a, g) ==
  /\ g \in await[h][a]
  /\ pc[h][a] # "launching"
  /\ CallsFail \/ g \notin agentUp
  /\ net' = net \ Requests(h, a, g)
  /\ IF pc[h][a] = "killing" THEN Goto(h, a, "err") ELSE UNCHANGED pc
  /\ UNCHANGED <<launcherVars, directory, apps, submission, await, moniApps, known>>

(* A call of handler h to agent g fails for its caller: g is unreachable or *)
(* the deadline passed.  The request is lost or still on its way.           *)
CallFailed(h, a, g) ==
  /\ g \in await[h][a]
  /\ pc[h][a] # "launching"
  /\ CallsFail \/ g \notin agentUp
  /\ await' = [await EXCEPT ![h][a] = @ \ {g}]
  /\ \/ UNCHANGED net
     \/ net' = net \ Requests(h, a, g)
  /\ IF pc[h][a] = "killing" THEN Goto(h, a, "err") ELSE UNCHANGED pc
  /\ UNCHANGED <<launcherVars, directory, apps, submission, moniApps, known>>

(* Steps of an agent's launcher that touch nothing of the manager's *)
AgentStep(g, a) ==
  /\ \/ SendExec(g, a)
     \/ AnswerLaunch(a)
     \/ ListApp(g, a)
     \/ StoreStart(a)
     \/ Reap(a)
     \/ Forget(g, a)
     \/ KillDelete(g, a)
  /\ UNCHANGED managerVars

AgentStartsApp(g) == StartApp(g) /\ UNCHANGED managerVars

ProcessExit(a) == ProcExit(a) /\ UNCHANGED managerVars

OutputEnds(a) == PipesClose(a) /\ UNCHANGED managerVars

(* The deadline of Submit's client passes while Launch waits for room *)
LaunchExpires(a) == CallsFail /\ GiveUpLaunch(a) /\ UNCHANGED managerVars

AgentDown(g) == (PanicOnStart(g) \/ StopAgent(g)) /\ AgentGone(g)

-----------------------------------------------------------------------------
(* The manager's directory, abstractly (AgentDirectory has the detail):     *)
(* SayHi adds an agent that runs; checkAgents removes one that does not run *)
(* or whose heartbeats were late.                                           *)

Join(g) ==
  /\ mgrUp
  /\ g \in agentUp \ agents
  /\ agents' = agents \cup {g}
  /\ UNCHANGED <<launcherVars, mgrUp, apps, submission, pc, calls, moniApps, known>>

Expire(g) ==
  /\ g \in agents
  /\ g \in Flaky \/ g \notin agentUp
  /\ agents' = agents \ {g}
  /\ UNCHANGED <<launcherVars, mgrUp, apps, submission, pc, calls, moniApps, known>>

StopManager == mgrUp /\ ManagerStops /\ ManagerDown

StartManager ==
  /\ ~mgrUp
  /\ ManagerStarts
  /\ mgrUp' = TRUE
  /\ UNCHANGED <<launcherVars, agents, apps, submission, pc, calls, moniApps, known>>

-----------------------------------------------------------------------------
SubmitStep(a) == Launched(a) \/ LaunchFailed(a) \/ Store(a)

KillStep(a) == KillCall(a) \/ KillPanics(a)

NotifyStep(a) == NotifyDone(a) \/ NotifyPanics(a) \/ NotifyDelete(a)

AgentHandles(r) ==
  \/ HandleLaunch(r)
  \/ HandleRegister(r)
  \/ HandleDeregister(r)
  \/ NilDeregister(r)
  \/ HandleKill(r)

Next ==
  \/ \E a \in App, h \in Host, moni \in BOOLEAN : Submit(a, h, moni)
  \/ \E a \in App : Kill(a) \/ Deregister(a)
  \/ \E a \in App : SubmitStep(a) \/ KillStep(a) \/ NotifyStep(a)
  \/ \E h \in Handler, a \in App : EndDeregister(h, a)
  \/ \E r \in net : AgentHandles(r)
  \/ \E h \in Handler, a \in App, g \in Agent : CallFailed(h, a, g)
  \/ \E g \in Agent, a \in App : AgentStep(g, a) \/ KillDone(g, a)
  \/ \E a \in App : CallNotifyDone(a) \/ NotifyAnswered(a)
  \/ \E a \in App : ProcessExit(a) \/ OutputEnds(a) \/ LaunchExpires(a)
  \/ \E g \in Agent : AgentStartsApp(g) \/ AgentDown(g) \/ Join(g) \/ Expire(g)
  \/ StopManager
  \/ StartManager

Spec == Init /\ [][Next]_vars

(* Goroutines that can run do run.  An agent that runs serves what it is    *)
(* sent; a call to one that is gone fails.  SIGKILL kills.  Clients,        *)
(* operators and the natural end of a process owe nothing, nor does the     *)
(* directory.                                                               *)
Fairness ==
  /\ \A a \in App :
       /\ WF_vars(SubmitStep(a)) /\ WF_vars(KillStep(a)) /\ WF_vars(NotifyStep(a))
       /\ WF_vars(CallNotifyDone(a)) /\ WF_vars(NotifyAnswered(a))
       /\ WF_vars(a \in cancelled /\ home[a] \in agentUp /\ ProcessExit(a))
  /\ \A h \in Handler, a \in App :
       /\ WF_vars(EndDeregister(h, a))
       /\ \A g \in Agent :
            /\ WF_vars(\E r \in net : r.by = h /\ r.app = a /\ r.to = g /\ AgentHandles(r))
            /\ WF_vars(g \notin agentUp /\ CallFailed(h, a, g))
  /\ \A g \in Agent :
       /\ WF_vars(AgentStartsApp(g))
       /\ \A a \in App : WF_vars(AgentStep(g, a)) /\ WF_vars(KillDone(g, a))

FairSpec == Spec /\ Fairness

-----------------------------------------------------------------------------
(* Safety, under every fault the constants allow.                           *)

(* Once NotifyDone has returned, its application is not in the table again: *)
(* no later step of a slow Submit or Kill brings back what has ended.       *)
DoneStaysForgotten ==
  \A a \in App : pc["NotifyDone"][a] = "ok" => a \notin apps

(* Agents monitor only applications whose process was started and whose     *)
(* client asked for monitoring, however late a Register call is executed:   *)
(* Submit registers only after a successful Launch.                         *)
MonitoredWasStarted ==
  \A g \in Agent : \A a \in moniApps[g] : proc[a] # "none" /\ a \in monitored

(* A Kill that returns success has taken effect, on the agent that launched *)
(* the application, and no agent offers the application any more: whichever *)
(* agent of its host findNode has taken, whatever joined or left since the  *)
(* Submit, and whatever answers of an earlier, given-up Kill are still      *)
(* under way.                                                               *)
KillIsTrue ==
  \A a \in App : pc["Kill"][a] = "ok" =>
    a \in cancelled /\ \A g \in Agent : a \notin lchApps[g]

(* What AppRegistry's variables are here *)
StartedApps == {a \in App : proc[a] # "none"}
EndedApps == {a \in App : proc[a] = "exited"}
AskedApps == {a \in App : pc["Kill"][a] # "idle" \/ pc["Deregister"][a] # "idle"}
EntryOf == [a \in App |-> IF a \in apps THEN "live"
                          ELSE IF pc["Submit"][a] = "ok" THEN "gone" ELSE "new"]

Registry == INSTANCE AppRegistry WITH
  up <- mgrUp,
  started <- StartedApps,
  ended <- EndedApps,
  asked <- AskedApps,
  entry <- EntryOf

(* The manager's table implements AppRegistry: entered once and after the   *)
(* start, left for a reason, never entered again.                           *)
ImplementsRegistry == Registry!Spec

(* While the same manager runs, no call between live daemons fails and no   *)
(* agent that runs is taken out of the directory, an application that has   *)
(* left the table is monitored nowhere: Register calls never overtake the   *)
(* Deregister calls of Kill, Deregister or NotifyDone, whichever of the     *)
(* three gets there first.                                                  *)
NoMonitorLeak ==
  \A a \in App : (mgrUp /\ pc["Submit"][a] = "ok" /\ a \notin apps)
                   => \A g \in Agent : a \notin moniApps[g]

(* The Launch or Kill handler of an agent has the request that handler h    *)
(* of the manager waits for                                                 *)
InAgent(h, a) ==
  \/ pc[h][a] = "launching" /\ launch[a] # "none"
  \/ pc[h][a] = "killing" /\ kill[a] # "none"

(* A handler that waits can go on: every agent it waits for is gone, or has *)
(* the request still to execute, or the launch or kill in hand; and one     *)
(* that waits for a single answer has somebody to wait for.  No lost or     *)
(* late call, no agent or manager that ends and no answer to an earlier     *)
(* call leaves wg.Wait or an RPC of the manager without an answer to come.  *)
WaitingIsAnswerable ==
  \A h \in Handler, a \in App :
    /\ pc[h][a] \in {"launching", "killing"} => await[h][a] # {}
    /\ \A g \in await[h][a] \cap agentUp :
         \/ Requests(h, a, g) # {}
         \/ InAgent(h, a) /\ home[a] = g

-----------------------------------------------------------------------------
(* Liveness, under FairSpec, with calls that fail only when an agent is gone. *)

(* Every handler of the manager returns, and so does notifyDone's call: no  *)
(* agent that dies during a fan-out leaves wg.Wait waiting.                 *)
HandlersReturn ==
  \A h \in Handler, a \in App : pc[h][a] \notin Ended ~> pc[h][a] \in Ended

(* An application that ended by itself leaves the table and every agent's   *)
(* monitoring, unless its agent or the manager ends before that.            *)
EndedIsForgotten ==
  \A a \in App :
    (proc[a] = "exited" /\ a \notin cancelled) ~>
      \/ a \notin apps /\ \A g \in Agent : a \notin moniApps[g]
      \/ a \in cancelled \/ home[a] \notin agentUp \/ ~mgrUp

(* A Kill that was answered with success kills, if the agent lives on *)
KilledDies ==
  \A a \in App :
    pc["Kill"][a] = "ok" ~> proc[a] # "running" \/ home[a] \notin agentUp

-----------------------------------------------------------------------------
(* What the documentation says and the code does not do.                    *)

(* "NotifyDone signifies the finish of an applicaiton and triggers          *)
(* application deregistration" (server_master.go:80): it does not end the   *)
(* manager, which nobody stops here.                                        *)
ManagerSurvives == mgrUp

(* The id that Submit returns "can be used to obtain info of and kill the   *)
(* application afterwards" (getting_started.md:107): while no handler is    *)
(* busy with it, a running application whose client knows the id, has not   *)
(* deregistered it and has not killed it is one the manager can kill.       *)
RunningStaysKillable ==
  \A a \in App :
    (/\ mgrUp
     /\ a \in known
     /\ pc["Kill"][a] \in Ended
     /\ pc["Deregister"][a] = "idle"
     /\ proc[a] = "running"
     /\ home[a] \in agentUp
     /\ a \notin cancelled)
      => a \in apps

=============================================================================
