------------------------------ MODULE AppCalls_proofs ------------------------------
(***************************************************************************)
(* What the answers to the manager's calls mean, in which order the calls  *)
(* are executed, and who waits for them: that a Kill is answered with      *)
(* success only when it has taken effect, that no Register is executed     *)
(* after the Deregister calls of the same application, and that no handler *)
(* waits for an answer that cannot come.  The second holds under a         *)
(* hypothesis about the cluster that its theorem names, the others in      *)
(* every cluster.                                                          *)
(***************************************************************************)
EXTENDS AppLifecycle_proofs

-----------------------------------------------------------------------------
(* Kill.  The manager does not keep the agent that launched an application, *)
(* and may ask another one on the same host, that knows nothing of it.      *)

CancelledInv == \A a \in App : pc["Kill"][a] = "ok" => a \in cancelled

(* A cancelled context stays cancelled *)
LEMMA CancelledStays ==
  ASSUME LauncherInv, TypeOK, [Next]_vars
  PROVE  cancelled \subseteq cancelled'
<1>1. [LauncherNext]_launcherVars
  BY StepOfLaunchers
<1>2. ASSUME NEW g \in Agent, NEW a \in App, AppStep(g, a) PROVE cancelled \subseteq cancelled'
  BY <1>2
  DEF AppStep, SendExec, AnswerLaunch, ListApp, StoreStart, Reap, StoreEnd, NotifyReturn,
      Forget, KillDelete, KillCancel
<1> QED
  BY <1>1, <1>2
  DEF LauncherNext, launcherVars, RecvLaunch, RecvKill, GiveUpLaunch, ProcExit, PipesClose,
      StartApp, PanicOnStart, StopAgent, NilReply, Down

LEMMA CancelledStep == LifecycleInv /\ CancelledInv /\ [Next]_vars => CancelledInv'
<1> SUFFICES ASSUME LifecycleInv, CancelledInv, [Next]_vars, NEW a \in App,
                    pc'["Kill"][a] = "ok"
             PROVE  a \in cancelled'
  BY DEF CancelledInv
<1> USE DEF directory, submission, calls
<1>0. TypeOK /\ {"Submit", "Kill", "Deregister", "NotifyDone"} = Handler
  BY Handlers DEF LifecycleInv
<1>1. pc["Kill"][a] = "ok" => a \in cancelled'
  BY CancelledStays DEF CancelledInv, LifecycleInv
<1>u. UNCHANGED pc => a \in cancelled'
  BY <1>1
<1>g. ASSUME NEW h \in Handler, NEW b \in App, NEW step, Goto(h, b, step),
             h = "Kill" => step # "ok"
      PROVE  a \in cancelled'
  BY <1>0, <1>1, <1>g, GotoFrame
<1>d. ManagerDown => a \in cancelled'
  BY <1>0, <1>1 DEF ManagerDown
<1>2. ASSUME NEW g \in Agent, NEW b \in App, KillDone(g, b) PROVE a \in cancelled'
  <2>1. CASE Goto("Kill", b, "ok") /\ a = b
    BY <1>2, <2>1 DEF KillDone, KillCancel
  <2>2. CASE Goto("Kill", b, "ok") /\ a # b
    BY <1>0, <1>1, <2>2, GotoFrame
  <2> QED
    BY <1>2, <1>u, <2>1, <2>2 DEF KillDone
<1>3. ASSUME NEW b \in App,
             \/ \E h \in Host, moni \in BOOLEAN : Submit(b, h, moni)
             \/ SubmitStep(b) \/ Kill(b) \/ KillStep(b) \/ Deregister(b) \/ NotifyStep(b)
             \/ CallNotifyDone(b) \/ NotifyAnswered(b)
      PROVE  a \in cancelled'
  <2>1. \/ UNCHANGED pc \/ ManagerDown
        \/ \E h \in {"Submit", "Deregister", "NotifyDone"} : \E step : Goto(h, b, step)
        \/ \E step \in {"err", "fanout", "locating", "killing"} : Goto("Kill", b, step)
    BY <1>3
    DEF Submit, SubmitStep, Launched, LaunchFailed, Store, Kill, Deregister, NoSuchApp,
        StartDeregister, KillStep, KillCall, KillPanics, NotifyStep, NotifyDone,
        NotifyPanics, NotifyDelete, CallNotifyDone, NotifyAnswered
  <2> QED
    BY <1>0, <1>u, <1>g, <1>d, <2>1
<1>4. ASSUME NEW h \in Handler, NEW b \in App, EndDeregister(h, b) PROVE a \in cancelled'
  <2>1. CASE h = "Kill"
    <3>1. Goto(h, b, "locating")
      BY <1>4, <2>1 DEF EndDeregister
    <3> QED
      BY <1>g, <3>1
  <2>2. CASE h # "Kill"
    BY <1>4, <1>g, <2>2 DEF EndDeregister
  <2> QED
    BY <2>1, <2>2
<1>5. ASSUME NEW r \in net, AgentHandles(r) PROVE a \in cancelled'
  <2>1. r.app \in App /\ (UNCHANGED pc \/ Goto("Kill", r.app, "err"))
    BY <1>0, <1>5
    DEF AgentHandles, HandleLaunch, HandleRegister, HandleDeregister, NilDeregister,
        AgentGone, HandleKill, TypeOK, Request
  <2> QED
    BY <1>0, <1>u, <1>g, <2>1
<1>6. ASSUME NEW h \in Handler, NEW b \in App, NEW g \in Agent, CallFailed(h, b, g)
      PROVE  a \in cancelled'
  BY <1>6, <1>u, <1>g DEF CallFailed
<1>7. ASSUME NEW g \in Agent, AgentDown(g) \/ Join(g) \/ Expire(g) PROVE a \in cancelled'
  BY <1>7, <1>u DEF AgentDown, AgentGone, Join, Expire
<1>8. UNCHANGED managerVars \/ StartManager \/ UNCHANGED vars => a \in cancelled'
  BY <1>u DEF managerVars, vars, StartManager
<1> QED
  BY <1>d, <1>2, <1>3, <1>4, <1>5, <1>6, <1>7, <1>8
  DEF Next, AgentStep, AgentStartsApp, ProcessExit, OutputEnds, LaunchExpires, StopManager

(* A Kill that the manager answers with success has cancelled the           *)
(* application's context, in every cluster: with several agents on a host,  *)
(* with agents that come back as others, and with calls that are lost or    *)
(* late.  What findNode finds wrong ends in an error.                       *)
THEOREM KillTrue == Spec => []KillIsTrue
<1>1. LifecycleInv /\ CancelledInv => KillIsTrue
  BY DEF LifecycleInv, LauncherInv, NoStaleEntry, CancelledInv, KillIsTrue
<1>2. Init => CancelledInv
  BY Handlers DEF Init, CancelledInv
<1>3. Spec => []CancelledInv
  BY <1>2, CancelledStep, LifecycleInvariance, PTL DEF Spec
<1> QED
  BY <1>1, <1>3, LifecycleInvariance, PTL

-----------------------------------------------------------------------------
(* Register and Deregister.  The order of the two is kept by the manager    *)
(* alone: Submit enters the application in the table when its Register      *)
(* calls are answered, and only what is in the table is deregistered.       *)

(* What the cluster must be for that: the answer to a call is lost only     *)
(* with the agent, one manager runs, and the directory holds every agent    *)
(* that has joined and lives.                                               *)
ReliableCluster == ~ CallsFail /\ ~ ManagerStarts /\ Flaky = {}

(* Which handler makes which calls; Kill's second call comes after its      *)
(* fan-out                                                                  *)
CallerInv ==
  \A r \in net :
    /\ r.op = "Register" => r.by = "Submit"
    /\ r.op = "Kill" => r.by = "Kill" /\ pc["Kill"][r.app] # "fanout"
    /\ r.op = "Deregister" => r.by # "Submit"

(* A Register that can still be executed is awaited by its Submit, and goes *)
(* to an agent that a Deregister would go to                                *)
RegisterInv ==
  \A r \in net :
    r.op = "Register" /\ r.to \in agentUp =>
      /\ r.to \in agents
      /\ pc["Submit"][r.app] = "placing"
      /\ r.to \in await["Submit"][r.app]

(* Agents that monitor anything live and are in the directory *)
ReachInv ==
  \A g \in Agent, a \in App : a \in moniApps[g] => g \in agentUp /\ g \in agents

(* A fan-out waits for every agent that still monitors the application *)
FanoutInv ==
  \A h \in Handler, a \in App : pc[h][a] = "fanout" =>
    \A g \in Agent : a \in moniApps[g] => g \in await[h][a]

Unmonitored(a) == \A g \in Agent : a \notin moniApps[g]

(* What has left the table, or is about to, is monitored nowhere *)
MustBeClear(a) ==
  \/ pc["Submit"][a] = "ok" /\ a \notin apps
  \/ pc["NotifyDone"][a] = "deleting"

ClearInv == \A a \in App : MustBeClear(a) => Unmonitored(a)

OrderInv == CallerInv /\ RegisterInv /\ ReachInv /\ FanoutInv /\ ClearInv

LEMMA OrderInit == Init => OrderInv
  BY Handlers
  DEF Init, OrderInv, CallerInv, RegisterInv, ReachInv, FanoutInv, ClearInv, MustBeClear

(* When nothing that OrderInv speaks of changes but launched applications   *)
LEMMA OrderUntouched ==
  ASSUME OrderInv, UNCHANGED <<agentUp, agents, apps, pc, await, moniApps>>, net' \subseteq net
  PROVE  OrderInv'
  BY DEF OrderInv, CallerInv, RegisterInv, ReachInv, FanoutInv, ClearInv, MustBeClear,
         Unmonitored

(* When a handler of the manager moves, with or without calls *)
LEMMA HandlerMoves ==
  ASSUME TypeOK, OrderInv, UNCHANGED <<agentUp, agents, moniApps>>,
         NEW h \in Handler, NEW a \in App, NEW step, Goto(h, a, step),
         \A k \in Handler, b \in App : k # h \/ b # a => await'[k][b] = await[k][b],
         \A r \in net' :
           \/ r \in net
           \/ /\ r.by = h /\ r.app = a /\ r.to \in agents
              /\ r.op = "Register" =>
                   h = "Submit" /\ step = "placing" /\ r.to \in await'[h][a]
              /\ r.op = "Kill" => h = "Kill" /\ step # "fanout"
              /\ r.op = "Deregister" => h # "Submit",
         h = "Submit" => pc[h][a] # "placing" \/ await[h][a] = {},
         step = "fanout" => \A g \in Agent : a \in moniApps[g] => g \in await'[h][a],
         h = "Kill" /\ step = "fanout" => NoLeftover(h, a),
         \A b \in App : MustBeClear(b)' => MustBeClear(b) \/ Unmonitored(b)
  PROVE  OrderInv'
<1>1. /\ pc'[h][a] = step
      /\ \A k \in Handler, b \in App : k # h \/ b # a => pc'[k][b] = pc[k][b]
      /\ \A r \in net : r.app \in App /\ r.by \in Handler
  <2>1. \A r \in net : r.app \in App /\ r.by \in Handler
    BY DEF TypeOK, Request
  <2> QED
    BY <2>1, GotoFrame
<1>2. CallerInv'
  <2> SUFFICES ASSUME NEW r \in net'
               PROVE  /\ r.op = "Register" => r.by = "Submit"
                      /\ r.op = "Kill" => r.by = "Kill" /\ pc'["Kill"][r.app] # "fanout"
                      /\ r.op = "Deregister" => r.by # "Submit"
    BY DEF CallerInv
  <2>1. CASE r \in net
    <3>1. ASSUME r.op = "Kill", h = "Kill", r.app = a PROVE step # "fanout"
      BY <2>1, <3>1 DEF NoLeftover, OrderInv, CallerInv
    <3> QED
      BY <1>1, <2>1, <3>1, Handlers DEF OrderInv, CallerInv
  <2>2. CASE r \notin net
    BY <1>1, <2>2
  <2> QED
    BY <2>1, <2>2
<1>3. RegisterInv'
  <2> SUFFICES ASSUME NEW r \in net', r.op = "Register", r.to \in agentUp
               PROVE  /\ r.to \in agents
                      /\ pc'["Submit"][r.app] = "placing"
                      /\ r.to \in await'["Submit"][r.app]
    BY DEF RegisterInv
  <2>1. CASE r \in net
    <3>1. /\ r.to \in agents /\ pc["Submit"][r.app] = "placing"
          /\ r.to \in await["Submit"][r.app] /\ r.app \in App
      BY <1>1, <2>1 DEF OrderInv, RegisterInv
    <3>2. h # "Submit" \/ r.app # a
      BY <3>1
    <3> QED
      BY <1>1, <3>1, <3>2, Handlers
  <2>2. CASE r \notin net
    BY <1>1, <2>2
  <2> QED
    BY <2>1, <2>2
<1>4. ReachInv'
  BY DEF OrderInv, ReachInv
<1>5. FanoutInv'
  <2> SUFFICES ASSUME NEW k \in Handler, NEW b \in App, pc'[k][b] = "fanout",
                      NEW g \in Agent, b \in moniApps[g]
               PROVE  g \in await'[k][b]
    BY DEF FanoutInv
  <2>1. CASE k = h /\ b = a
    BY <1>1, <2>1
  <2>2. CASE k # h \/ b # a
    BY <1>1, <2>2 DEF OrderInv, FanoutInv
  <2> QED
    BY <2>1, <2>2
<1>6. ClearInv'
  BY DEF OrderInv, ClearInv, Unmonitored
<1> QED
  BY <1>2, <1>3, <1>4, <1>5, <1>6 DEF OrderInv

(* What CallAll changes and what it leaves alone *)
LEMMA CallAllFrame ==
  ASSUME TypeOK, NEW op, NEW a \in App, NEW G, NEW h \in Handler, CallAll(op, a, G, h)
  PROVE  /\ await'[h][a] = G
         /\ \A k \in Handler, b \in App : k # h \/ b # a => await'[k][b] = await[k][b]
         /\ \A r \in net' : r \in net \/ (r.op = op /\ r.app = a /\ r.to \in G /\ r.by = h)
<1>1. await'[h][a] = G
  BY DEF TypeOK, CallAll
<1>2. \A k \in Handler, b \in App : k # h \/ b # a => await'[k][b] = await[k][b]
  BY DEF TypeOK, CallAll
<1>3. \A r \in net' : r \in net \/ (r.op = op /\ r.app = a /\ r.to \in G /\ r.by = h)
  BY DEF CallAll, Call
<1> QED
  BY <1>1, <1>2, <1>3

(* Starting a fan-out reaches every agent that monitors the application *)
LEMMA FanoutMoves ==
  ASSUME LifecycleInv, OrderInv, UNCHANGED <<agentUp, agents, apps, moniApps>>,
         NEW h \in {"Kill", "Deregister", "NotifyDone"}, NEW a \in App,
         StartDeregister(h, a), h = "Kill" => NoLeftover(h, a)
  PROVE  OrderInv'
<1>1. TypeOK /\ h \in Handler
  BY Handlers DEF LifecycleInv
<1>2. Goto(h, a, "fanout") /\ CallAll("Deregister", a, agents, h)
  BY DEF StartDeregister
<1>3. /\ await'[h][a] = agents
      /\ \A k \in Handler, b \in App : k # h \/ b # a => await'[k][b] = await[k][b]
      /\ \A r \in net' :
           r \in net \/ (r.op = "Deregister" /\ r.app = a /\ r.to \in agents /\ r.by = h)
  BY <1>1, <1>2, CallAllFrame
<1>4. \A b \in App : MustBeClear(b)' => MustBeClear(b)
  <2> SUFFICES ASSUME NEW b \in App, MustBeClear(b)' PROVE MustBeClear(b)
    OBVIOUS
  <2>1. pc'["Submit"][b] = pc["Submit"][b]
    BY <1>1, <1>2, GotoFrame, Handlers
  <2>2. pc'["NotifyDone"][b] = "deleting" => pc["NotifyDone"][b] = "deleting"
    BY <1>1, <1>2, GotoFrame, Handlers
  <2> QED
    BY <2>1, <2>2 DEF MustBeClear
<1>5. \A g \in Agent : a \in moniApps[g] => g \in await'[h][a]
  BY <1>3 DEF OrderInv, ReachInv
<1> QED
  BY <1>1, <1>2, <1>3, <1>4, <1>5, HandlerMoves

(* When a handler moves without a call and does not end a fan-out *)
LEMMA SilentMove ==
  ASSUME TypeOK, OrderInv, UNCHANGED <<agentUp, agents, moniApps, await>>, net' \subseteq net,
         NEW h \in Handler, NEW a \in App, NEW step, Goto(h, a, step), step # "fanout",
         h = "Submit" => pc[h][a] # "placing" \/ await[h][a] = {},
         \A b \in App : MustBeClear(b)' => MustBeClear(b) \/ Unmonitored(b)
  PROVE  OrderInv'
  BY HandlerMoves

(* Submit *)
LEMMA SubmitOrder ==
  ASSUME LifecycleInv, OrderInv, NEW a \in App,
         SubmitStep(a) \/ \E h \in Host, moni \in BOOLEAN : Submit(a, h, moni)
  PROVE  OrderInv'
<1>1. TypeOK
  BY DEF LifecycleInv
<1>0. "Submit" \in Handler /\ "NotifyDone" \in Handler
  BY Handlers
<1> USE DEF launcherVars, directory, submission, calls
<1>2. ASSUME NEW h \in Host, NEW moni \in BOOLEAN, Submit(a, h, moni) PROVE OrderInv'
  <2>1. PICK g \in agents : CallAll("Launch", a, {g}, "Submit")
    BY <1>2 DEF Submit, findNode
  <2>2. /\ UNCHANGED <<agentUp, agents, apps, moniApps>>
        /\ Goto("Submit", a, "launching") /\ pc["Submit"][a] = "idle"
    BY <1>2 DEF Submit
  <2>3. \A b \in App : MustBeClear(b)' => MustBeClear(b)
    BY <1>0, <1>1, <2>2, GotoFrame DEF MustBeClear
  <2>4. \A k \in Handler, b \in App : k # "Submit" \/ b # a => await'[k][b] = await[k][b]
    BY <1>0, <1>1, <2>1 DEF CallAll, TypeOK
  <2>5. \A r \in net' :
          r \in net \/ (r.op = "Launch" /\ r.app = a /\ r.to = g /\ r.by = "Submit")
    BY <2>1 DEF CallAll, Call
  <2> QED
    BY <1>0, <1>1, <2>2, <2>3, <2>4, <2>5, HandlerMoves
<1>3. CASE Launched(a)
  <2>1. PICK G \in SUBSET agents : CallAll("Register", a, G, "Submit")
    BY <1>3 DEF Launched
  <2>2. /\ UNCHANGED <<agentUp, agents, apps, moniApps>>
        /\ Goto("Submit", a, "placing") /\ pc["Submit"][a] = "launching"
    BY <1>3 DEF Launched
  <2>3. \A b \in App : MustBeClear(b)' => MustBeClear(b)
    BY <1>0, <1>1, <2>2, GotoFrame DEF MustBeClear
  <2>4. /\ await'["Submit"][a] = G
        /\ \A k \in Handler, b \in App : k # "Submit" \/ b # a => await'[k][b] = await[k][b]
        /\ \A r \in net' :
             r \in net \/ (r.op = "Register" /\ r.app = a /\ r.to \in G /\ r.by = "Submit")
    BY <1>0, <1>1, <2>1, CallAllFrame
  <2> QED
    BY <1>0, <1>1, <2>2, <2>3, <2>4, HandlerMoves
<1>4. CASE LaunchFailed(a)
  <2>1. /\ UNCHANGED <<agentUp, agents, apps, moniApps, net>>
        /\ Goto("Submit", a, "err") /\ pc["Submit"][a] = "launching"
        /\ \A k \in Handler, b \in App : k # "Submit" \/ b # a => await'[k][b] = await[k][b]
    BY <1>1, <1>4 DEF LaunchFailed, TypeOK
  <2>2. \A b \in App : MustBeClear(b)' => MustBeClear(b)
    BY <1>0, <1>1, <2>1, GotoFrame DEF MustBeClear
  <2> QED
    BY <1>0, <1>1, <2>1, <2>2, HandlerMoves
<1>5. CASE Store(a)
  <2>1. /\ UNCHANGED <<agentUp, agents, moniApps, net, await>>
        /\ apps' = apps \cup {a}
        /\ Goto("Submit", a, "ok") /\ await["Submit"][a] = {}
    BY <1>5 DEF Store
  <2>2. \A b \in App : MustBeClear(b)' => MustBeClear(b)
    BY <1>0, <1>1, <2>1, GotoFrame DEF MustBeClear
  <2> QED
    BY <1>0, <1>1, <2>1, <2>2, SilentMove
<1> QED
  BY <1>2, <1>3, <1>4, <1>5 DEF SubmitStep

(* Kill, Deregister and NotifyDone *)
LEMMA DeregisterOrder ==
  ASSUME LifecycleInv, OrderInv, NEW a \in App,
         Kill(a) \/ KillCall(a) \/ Deregister(a) \/ NotifyDone(a) \/ NotifyDelete(a)
  PROVE  OrderInv'
<1>1. TypeOK /\ MonitorInv
  BY DEF LifecycleInv
<1>0. {"Submit", "Kill", "Deregister", "NotifyDone"} \subseteq Handler
  BY Handlers
<1> USE DEF launcherVars, directory, submission, calls
<1>2. ASSUME NEW h \in {"Kill", "Deregister"}, NEW step \in {"err", "locating"},
             Asks(h, a), Goto(h, a, step), UNCHANGED calls
      PROVE  OrderInv'
  <2>1. UNCHANGED <<agentUp, agents, moniApps, apps, await, net>>
    BY <1>2 DEF Asks
  <2>2. \A b \in App : MustBeClear(b)' => MustBeClear(b)
    BY <1>0, <1>1, <1>2, <2>1, GotoFrame DEF MustBeClear
  <2> QED
    BY <1>0, <1>1, <1>2, <2>1, <2>2, SilentMove
<1>3. ASSUME NEW h \in {"Kill", "Deregister"}, Asks(h, a), StartDeregister(h, a)
      PROVE  OrderInv'
  <2>1. UNCHANGED <<agentUp, agents, apps, moniApps>> /\ NoLeftover(h, a)
    BY <1>3 DEF Asks
  <2> QED
    BY <1>3, <2>1, FanoutMoves
<1>4. CASE Kill(a)
  BY <1>2, <1>3, <1>4 DEF Kill, NoSuchApp
<1>5. CASE Deregister(a)
  BY <1>2, <1>3, <1>5 DEF Deregister, NoSuchApp
<1>6. CASE KillCall(a)
  <2>1. PICK g \in agents : CallAll("Kill", a, {g}, "Kill")
    BY <1>6 DEF KillCall, findNode
  <2>2. /\ UNCHANGED <<agentUp, agents, apps, moniApps>>
        /\ Goto("Kill", a, "killing")
    BY <1>6 DEF KillCall
  <2>3. \A b \in App : MustBeClear(b)' => MustBeClear(b)
    BY <1>0, <1>1, <2>2, GotoFrame DEF MustBeClear
  <2>4. \A k \in Handler, b \in App : k # "Kill" \/ b # a => await'[k][b] = await[k][b]
    BY <1>0, <1>1, <2>1 DEF CallAll, TypeOK
  <2>5. \A r \in net' :
          r \in net \/ (r.op = "Kill" /\ r.app = a /\ r.to = g /\ r.by = "Kill")
    BY <2>1 DEF CallAll, Call
  <2> QED
    BY <1>0, <1>1, <2>2, <2>3, <2>4, <2>5, HandlerMoves
<1>7. CASE NotifyDone(a)
  <2>1. UNCHANGED <<agentUp, agents, apps, moniApps>>
    BY <1>7 DEF NotifyDone
  <2>2. CASE StartDeregister("NotifyDone", a)
    BY <2>1, <2>2, FanoutMoves
  <2>3. CASE a \notin monitored /\ Goto("NotifyDone", a, "deleting") /\ UNCHANGED calls
    <3>1. Unmonitored(a)
      BY <1>1, <2>3 DEF MonitorInv, Unmonitored
    <3>2. \A b \in App : MustBeClear(b)' => MustBeClear(b) \/ Unmonitored(b)
      BY <1>0, <1>1, <2>1, <2>3, <3>1, GotoFrame DEF MustBeClear
    <3> QED
      BY <1>0, <1>1, <2>1, <2>3, <3>2, SilentMove
  <2> QED
    BY <1>7, <2>2, <2>3 DEF NotifyDone
<1>8. CASE NotifyDelete(a)
  <2>1. /\ UNCHANGED <<agentUp, agents, moniApps, await, net>>
        /\ apps' = apps \ {a}
        /\ pc["NotifyDone"][a] = "deleting" /\ Goto("NotifyDone", a, "ok")
    BY <1>8 DEF NotifyDelete
  <2>2. \A b \in App : MustBeClear(b)' => MustBeClear(b)
    BY <1>0, <1>1, <2>1, GotoFrame DEF MustBeClear
  <2> QED
    BY <1>0, <1>1, <2>1, <2>2, SilentMove
<1> QED
  BY <1>4, <1>5, <1>6, <1>7, <1>8

(* A fan-out whose calls are all answered leaves no agent monitoring *)
LEMMA EndOrder ==
  ASSUME LifecycleInv, OrderInv, NEW h \in Handler, NEW a \in App, EndDeregister(h, a)
  PROVE  OrderInv'
<1>1. TypeOK
  BY DEF LifecycleInv
<1>0. "Submit" \in Handler /\ "NotifyDone" \in Handler
  BY Handlers
<1>2. /\ UNCHANGED <<agentUp, agents, moniApps, await, net>>
      /\ apps' = apps \ {a} /\ pc[h][a] = "fanout" /\ await[h][a] = {}
  BY DEF EndDeregister, launcherVars, directory, calls
<1>3. PICK step : Goto(h, a, step) /\ step # "fanout"
  BY DEF EndDeregister
<1>4. Unmonitored(a)
  BY <1>2 DEF OrderInv, FanoutInv, Unmonitored
<1>5. \A b \in App : MustBeClear(b)' => MustBeClear(b) \/ Unmonitored(b)
  BY <1>0, <1>1, <1>2, <1>3, <1>4, GotoFrame DEF MustBeClear
<1> QED
  BY <1>1, <1>2, <1>3, <1>5, SilentMove

(* With reliable calls, only those to agents that are gone fail *)
LEMMA FailureOrder ==
  ASSUME LifecycleInv, OrderInv, ReliableCluster,
         NEW h \in Handler, NEW a \in App, NEW g \in Agent, CallFailed(h, a, g)
  PROVE  OrderInv'
<1>1. TypeOK
  BY DEF LifecycleInv
<1>2. /\ UNCHANGED <<agentUp, agents, moniApps, apps>>
      /\ net' \subseteq net /\ g \notin agentUp
  BY DEF CallFailed, ReliableCluster, launcherVars, directory
<1>3. \A k \in Handler, b \in App :
        await'[k][b] = IF k = h /\ b = a THEN await[k][b] \ {g} ELSE await[k][b]
  BY <1>1 DEF CallFailed, TypeOK
<1>4. \A k \in Handler, b \in App :
        pc'[k][b] = pc[k][b] \/ (k = "Kill" /\ pc[k][b] = "killing" /\ pc'[k][b] = "err")
  <2>1. pc[h][a] = "killing" => h = "Kill"
    BY <1>1, Handlers DEF TypeOK
  <2> QED
    BY <1>1, <2>1, GotoFrame DEF CallFailed
<1>5. \A r \in net : r.app \in App /\ r.to \in Agent
  BY <1>1 DEF TypeOK, Request
<1>6. CallerInv'
  BY <1>2, <1>4, <1>5, Handlers DEF OrderInv, CallerInv
<1>7. RegisterInv'
  <2> SUFFICES ASSUME NEW q \in net', q.op = "Register", q.to \in agentUp
               PROVE  /\ q.to \in agents
                      /\ pc'["Submit"][q.app] = "placing"
                      /\ q.to \in await'["Submit"][q.app]
    BY <1>2 DEF RegisterInv
  <2>1. /\ q \in net /\ q.app \in App /\ q.to # g
        /\ q.to \in agents /\ pc["Submit"][q.app] = "placing"
        /\ q.to \in await["Submit"][q.app]
    BY <1>2, <1>5 DEF OrderInv, RegisterInv
  <2>2. "Submit" \in Handler /\ "Submit" # "Kill"
    BY Handlers
  <2>3. pc'["Submit"][q.app] = "placing"
    BY <1>4, <2>1, <2>2
  <2>4. q.to \in await'["Submit"][q.app]
    BY <1>3, <2>1, <2>2
  <2> QED
    BY <2>1, <2>3, <2>4
<1>8. ReachInv'
  BY <1>2 DEF OrderInv, ReachInv
<1>9. FanoutInv'
  <2> SUFFICES ASSUME NEW k \in Handler, NEW b \in App, pc'[k][b] = "fanout",
                      NEW f \in Agent, b \in moniApps[f]
               PROVE  f \in await'[k][b]
    BY <1>2 DEF FanoutInv
  <2>1. f # g /\ pc[k][b] = "fanout"
    BY <1>2, <1>4 DEF OrderInv, ReachInv
  <2>2. f \in await[k][b]
    BY <2>1 DEF OrderInv, FanoutInv
  <2> QED
    BY <1>3, <2>1, <2>2
<1>10. ClearInv'
  BY <1>2, <1>4, Handlers DEF OrderInv, ClearInv, MustBeClear, Unmonitored
<1> QED
  BY <1>6, <1>7, <1>8, <1>9, <1>10 DEF OrderInv

(* What an agent's answer to request r changes *)
LEMMA AnswerFrame ==
  ASSUME TypeOK, NEW r \in net, Answer(r)
  PROVE  /\ r.to \in agentUp /\ net' = net \ {r}
         /\ r.app \in App /\ r.to \in Agent /\ r.by \in Handler
         /\ \A k \in Handler, b \in App :
              await'[k][b] = IF k = r.by /\ b = r.app /\ Awaited(r) THEN await[k][b] \ {r.to}
                                                      ELSE await[k][b]
  BY DEF Answer, TypeOK, Request

(* An agent ends *)
LEMMA GoneOrder ==
  ASSUME TypeOK, OrderInv, NEW g \in Agent, AgentGone(g), agentUp' = agentUp \ {g}
  PROVE  OrderInv'
<1>1. /\ UNCHANGED <<agents, apps, pc, await>>
      /\ net' = {r \in net : r.to # g}
      /\ moniApps' = [moniApps EXCEPT ![g] = {}]
  BY DEF AgentGone, directory
<1>2. \A f \in Agent, b \in App : b \in moniApps'[f] => b \in moniApps[f] /\ f # g
  BY <1>1 DEF TypeOK
<1>3. CallerInv' /\ RegisterInv'
  BY <1>1 DEF OrderInv, CallerInv, RegisterInv
<1>4. ReachInv'
  BY <1>1, <1>2 DEF OrderInv, ReachInv
<1>5. FanoutInv' /\ ClearInv'
  BY <1>1, <1>2 DEF OrderInv, FanoutInv, ClearInv, MustBeClear, Unmonitored
<1> QED
  BY <1>3, <1>4, <1>5 DEF OrderInv

(* Agents execute calls *)
LEMMA AgentOrder ==
  ASSUME LifecycleInv, OrderInv, NEW r \in net, AgentHandles(r)
  PROVE  OrderInv'
<1>1. TypeOK /\ SubmitInv
  BY DEF LifecycleInv
<1>0. {"Submit", "Kill", "Deregister", "NotifyDone"} = Handler
  BY Handlers
<1> USE DEF launcherVars, directory, submission, calls
<1>5. \A q \in net : q.app \in App /\ q.to \in Agent /\ q \in Request
  BY <1>1 DEF TypeOK, Request
<1>2. CASE HandleLaunch(r)
  <2>1. /\ UNCHANGED <<agentUp, agents, apps, pc, await, moniApps>> /\ net' \subseteq net
    BY <1>2 DEF HandleLaunch, RecvLaunch
  <2> QED
    BY <2>1, OrderUntouched
<1>3. CASE HandleRegister(r)
  <2>1. /\ UNCHANGED <<agentUp, agents, apps, pc>> /\ Answer(r) /\ r.op = "Register"
        /\ moniApps' = [moniApps EXCEPT ![r.to] = @ \cup {r.app}]
    BY <1>3 DEF HandleRegister
  <2>2. /\ r.to \in agentUp /\ net' = net \ {r}
        /\ r.app \in App /\ r.to \in Agent /\ r.by \in Handler
        /\ \A k \in Handler, b \in App :
              await'[k][b] = IF k = r.by /\ b = r.app /\ Awaited(r) THEN await[k][b] \ {r.to}
                                                      ELSE await[k][b]
    BY <1>1, <2>1, AnswerFrame
  <2>3. /\ r.by = "Submit" /\ r.to \in agents /\ pc["Submit"][r.app] = "placing"
    BY <2>1, <2>2 DEF OrderInv, CallerInv, RegisterInv
  <2>4. \A g \in Agent, b \in App :
          b \in moniApps'[g] => b \in moniApps[g] \/ (g = r.to /\ b = r.app)
    BY <1>1, <2>1 DEF TypeOK
  <2>5. /\ pc["NotifyDone"][r.app] # "deleting"
        /\ \A k \in Handler : pc[k][r.app] # "fanout"
    <3>1. pc["Submit"][r.app] # "ok" /\ pc["Submit"][r.app] # "fanout"
      BY <2>3
    <3> QED
      BY <1>0, <1>1, <2>2, <3>1 DEF SubmitInv
  <2>6. CallerInv'
    BY <2>1, <2>2 DEF OrderInv, CallerInv
  <2>7. RegisterInv'
    <3> SUFFICES ASSUME NEW q \in net', q.op = "Register", q.to \in agentUp
                 PROVE  /\ q.to \in agents
                        /\ pc["Submit"][q.app] = "placing"
                        /\ q.to \in await'["Submit"][q.app]
      BY <2>1 DEF RegisterInv
    <3>1. /\ q \in net /\ q # r /\ q.app \in App /\ q.by = "Submit"
          /\ q.to \in agents /\ pc["Submit"][q.app] = "placing"
          /\ q.to \in await["Submit"][q.app]
      BY <1>5, <2>2 DEF OrderInv, RegisterInv, CallerInv
    <3>2. q.app # r.app \/ q.to # r.to
      <4>1. q \in Request /\ r \in Request
        BY <1>5, <3>1
      <4> QED
        BY <2>1, <2>3, <3>1, <4>1 DEF Request
    <3> QED
      BY <1>0, <2>2, <3>1, <3>2
  <2>8. ReachInv'
    BY <2>1, <2>2, <2>3, <2>4 DEF OrderInv, ReachInv
  <2>9. FanoutInv'
    BY <2>1, <2>2, <2>3, <2>4, <2>5 DEF OrderInv, FanoutInv
  <2>10. ClearInv'
    BY <2>1, <2>3, <2>4, <2>5 DEF OrderInv, ClearInv, MustBeClear, Unmonitored
  <2> QED
    BY <2>6, <2>7, <2>8, <2>9, <2>10 DEF OrderInv
<1>4. CASE HandleDeregister(r)
  <2>1. /\ UNCHANGED <<agentUp, agents, apps, pc>> /\ Answer(r) /\ r.op = "Deregister"
        /\ moniApps' = [moniApps EXCEPT ![r.to] = @ \ {r.app}]
    BY <1>4 DEF HandleDeregister
  <2>2. /\ net' = net \ {r} /\ r.by # "Submit"
        /\ r.app \in App /\ r.to \in Agent /\ r.by \in Handler
        /\ \A k \in Handler, b \in App :
              await'[k][b] = IF k = r.by /\ b = r.app /\ Awaited(r) THEN await[k][b] \ {r.to}
                                                      ELSE await[k][b]
    <3>1. r.by # "Submit"
      BY <2>1 DEF OrderInv, CallerInv
    <3> QED
      BY <1>1, <2>1, <3>1, AnswerFrame
  <2>3. \A g \in Agent, b \in App :
          b \in moniApps'[g] => b \in moniApps[g] /\ ~(g = r.to /\ b = r.app)
    BY <1>1, <2>1 DEF TypeOK
  <2>4. CallerInv'
    BY <2>1, <2>2 DEF OrderInv, CallerInv
  <2>5. RegisterInv'
    BY <1>0, <1>5, <2>1, <2>2 DEF OrderInv, RegisterInv
  <2>6. ReachInv'
    BY <2>1, <2>3 DEF OrderInv, ReachInv
  <2>7. FanoutInv'
    <3> SUFFICES ASSUME NEW k \in Handler, NEW b \in App, pc[k][b] = "fanout",
                        NEW g \in Agent, b \in moniApps'[g]
                 PROVE  g \in await'[k][b]
      BY <2>1 DEF FanoutInv
    <3>1. g \in await[k][b] /\ ~(g = r.to /\ b = r.app)
      BY <2>3 DEF OrderInv, FanoutInv
    <3> QED
      BY <2>2, <3>1
  <2>8. ClearInv'
    BY <2>1, <2>3 DEF OrderInv, ClearInv, MustBeClear, Unmonitored
  <2> QED
    BY <2>4, <2>5, <2>6, <2>7, <2>8 DEF OrderInv
<1>6. CASE HandleKill(r)
  <2>0. /\ UNCHANGED <<agentUp, agents, apps, moniApps>> /\ net' \subseteq net
        /\ r.op = "Kill" /\ r.by = "Kill" /\ r.app \in App
    BY <1>5, <1>6 DEF HandleKill, RecvKill, Answer, OrderInv, CallerInv
  <2>1. CASE UNCHANGED pc /\ UNCHANGED await
    BY <2>0, <2>1, OrderUntouched
  <2>2. CASE Answer(r)
    <3>2. \A k \in Handler, b \in App :
            k # "Kill" \/ b # r.app => await'[k][b] = await[k][b]
      <4>1. \A k \in Handler, b \in App :
              await'[k][b] = IF k = r.by /\ b = r.app /\ Awaited(r) THEN await[k][b] \ {r.to}
                                                      ELSE await[k][b]
        BY <1>1, <2>2, AnswerFrame
      <4> QED
        BY <2>0, <4>1
    <3>3. CASE Goto("Kill", r.app, "err")
      <4>1. \A b \in App : MustBeClear(b)' => MustBeClear(b)
        BY <1>0, <1>1, <2>0, <3>3, GotoFrame DEF MustBeClear
      <4>2. \A q \in net' : q \in net
        BY <2>0
      <4> QED
        BY <1>0, <1>1, <2>0, <3>2, <3>3, <4>1, <4>2, HandlerMoves
    <3>4. CASE UNCHANGED pc /\ ~Awaited(r)
      <4>1. UNCHANGED await
        BY <2>2, <3>4 DEF Answer
      <4> QED
        BY <2>1, <3>4, <4>1
    <3> QED
      BY <1>6, <2>1, <3>3, <3>4 DEF HandleKill
  <2> QED
    BY <1>6, <2>1, <2>2 DEF HandleKill
<1>7. CASE NilDeregister(r)
  BY <1>1, <1>5, <1>7, GoneOrder DEF NilDeregister, NilReply, Down
<1> QED
  BY <1>2, <1>3, <1>4, <1>6, <1>7 DEF AgentHandles

(* A Kill handler of an agent is through *)
LEMMA KillOrder ==
  ASSUME LifecycleInv, OrderInv, NEW g \in Agent, NEW a \in App, KillDone(g, a)
  PROVE  OrderInv'
<1>1. TypeOK /\ {"Submit", "Kill", "NotifyDone"} \subseteq Handler
  BY Handlers DEF LifecycleInv
<1>2. UNCHANGED <<agentUp, agents, apps, net, moniApps>>
  BY DEF KillDone, KillCancel, directory
<1>3. CASE Goto("Kill", a, "ok") /\ await' = [await EXCEPT !["Kill"][a] = @ \ {g}]
  <2>1. \A b \in App : MustBeClear(b)' => MustBeClear(b)
    BY <1>1, <1>2, <1>3, GotoFrame DEF MustBeClear
  <2>2. \A k \in Handler, b \in App : k # "Kill" \/ b # a => await'[k][b] = await[k][b]
    BY <1>1, <1>3 DEF TypeOK
  <2> QED
    BY <1>1, <1>2, <1>3, <2>1, <2>2, HandlerMoves
<1>4. CASE UNCHANGED <<pc, await>>
  BY <1>2, <1>4, OrderUntouched
<1> QED
  BY <1>3, <1>4 DEF KillDone

(* While the manager runs, the order is kept.  When it ends, its table and  *)
(* its handlers are gone and nothing is promised any more.                  *)
LEMMA OrderStep ==
  ReliableCluster /\ LifecycleInv /\ (mgrUp => OrderInv) /\ [Next]_vars
    => (mgrUp => OrderInv)'
<1> SUFFICES ASSUME ReliableCluster, LifecycleInv, mgrUp => OrderInv, [Next]_vars, mgrUp'
             PROVE  OrderInv'
  OBVIOUS
<1> USE DEF launcherVars, directory, submission, calls
<1>0. ~ManagerDown /\ ~StartManager
  BY DEF ReliableCluster, ManagerDown, StartManager
<1>1. TypeOK
  BY DEF LifecycleInv
<1>2. mgrUp
  BY <1>0
  DEF Next, Submit, Kill, Deregister, Asks, SubmitStep, Launched, LaunchFailed, Store,
      KillStep, KillCall, KillPanics, NotifyStep, NotifyDone, NotifyPanics, NotifyDelete,
      EndDeregister, AgentHandles, HandleLaunch, HandleRegister, HandleDeregister,
      NilDeregister, HandleKill, KillDone, CallFailed, AgentStep, CallNotifyDone,
      NotifyAnswered, ProcessExit, OutputEnds, LaunchExpires, AgentStartsApp, AgentDown,
      AgentGone, Join, Expire, StopManager, vars, managerVars
<1>3. OrderInv
  BY <1>2
<1>u. ASSUME UNCHANGED managerVars, UNCHANGED agentUp PROVE OrderInv'
  BY <1>3, <1>u, OrderUntouched DEF managerVars
<1>4. ASSUME NEW a \in App, CallNotifyDone(a) \/ NotifyAnswered(a) PROVE OrderInv'
  <2>1. UNCHANGED <<agentUp, agents, apps, await, net, moniApps>>
    BY <1>4 DEF CallNotifyDone, NotifyAnswered, StoreEnd, NotifyReturn
  <2>2. CASE UNCHANGED pc
    BY <1>3, <2>1, <2>2, OrderUntouched
  <2>3. ASSUME NEW step \in {"called", "err"}, Goto("NotifyDone", a, step)
        PROVE  OrderInv'
    <3>1. \A b \in App : MustBeClear(b)' => MustBeClear(b)
      BY <1>1, <2>1, <2>3, GotoFrame, Handlers DEF MustBeClear
    <3> QED
      BY <1>1, <1>3, <2>1, <2>3, <3>1, SilentMove, Handlers
  <2> QED
    BY <1>4, <2>2, <2>3 DEF CallNotifyDone, NotifyAnswered
<1>5. ASSUME NEW g \in Agent, AgentDown(g) PROVE OrderInv'
  BY <1>1, <1>3, <1>5, GoneOrder DEF AgentDown, PanicOnStart, StopAgent, Down
<1>6. ASSUME NEW g \in Agent, Join(g) \/ Expire(g) PROVE OrderInv'
  <2>1. /\ UNCHANGED <<agentUp, apps, pc, await, net, moniApps>>
        /\ \A f \in agents : f \in agentUp => f \in agents'
    BY <1>6 DEF Join, Expire, ReliableCluster
  <2>2. CallerInv' /\ RegisterInv' /\ ReachInv'
    BY <1>3, <2>1 DEF OrderInv, CallerInv, RegisterInv, ReachInv
  <2>3. FanoutInv' /\ ClearInv'
    BY <1>3, <2>1 DEF OrderInv, FanoutInv, ClearInv, MustBeClear, Unmonitored
  <2> QED
    BY <2>2, <2>3 DEF OrderInv
<1>7. ASSUME NEW g \in Agent, NEW a \in App, AgentStep(g, a) PROVE OrderInv'
  <2>1. UNCHANGED agentUp
    BY <1>7 DEF AgentStep, SendExec, AnswerLaunch, ListApp, StoreStart, Reap, Forget,
                KillDelete
  <2> QED
    BY <1>7, <1>u, <2>1 DEF AgentStep
<1>8. ASSUME NEW a \in App, ProcessExit(a) \/ OutputEnds(a) \/ LaunchExpires(a)
      PROVE  OrderInv'
  <2>1. UNCHANGED agentUp /\ UNCHANGED managerVars
    BY <1>8 DEF ProcessExit, ProcExit, OutputEnds, PipesClose, LaunchExpires, GiveUpLaunch
  <2> QED
    BY <1>u, <2>1
<1>9. ASSUME NEW g \in Agent, AgentStartsApp(g) PROVE OrderInv'
  BY <1>9, <1>u DEF AgentStartsApp, StartApp
<1>10. CASE UNCHANGED vars
  BY <1>10, <1>u DEF vars
<1> QED
  BY <1>0, <1>3, <1>4, <1>5, <1>6, <1>7, <1>8, <1>9, <1>10, SubmitOrder,
     DeregisterOrder, EndOrder, FailureOrder, AgentOrder, KillOrder
  DEF Next, KillStep, KillPanics, NotifyStep, NotifyPanics, StopManager

(* In a cluster whose calls fail only with the agent they go to, no agent   *)
(* monitors an application that has left the manager's table, whichever of  *)
(* Kill, Deregister and NotifyDone took it out and however they overlap:    *)
(* m.monitor waits for its Register calls before Submit enters the          *)
(* application, and m.deregister waits for its Deregister calls before it   *)
(* deletes the entry.                                                       *)
THEOREM NoLeak ==
  ASSUME ReliableCluster
  PROVE  Spec => []NoMonitorLeak
<1>1. LifecycleInv /\ (mgrUp => OrderInv) => NoMonitorLeak
  BY DEF OrderInv, ClearInv, MustBeClear, Unmonitored, NoMonitorLeak
<1>2. Init => (mgrUp => OrderInv)
  BY OrderInit
<1>3. LifecycleInv /\ (mgrUp => OrderInv) /\ [Next]_vars => (mgrUp => OrderInv)'
  BY OrderStep
<1>4. Spec => [](mgrUp => OrderInv)
  BY <1>2, <1>3, LifecycleInvariance, PTL DEF Spec
<1> QED
  BY <1>1, <1>4, LifecycleInvariance, PTL

-----------------------------------------------------------------------------
(* Answers.  Whoever waits is answered, fails, or is gone itself: a call is *)
(* in flight as long as its answer is awaited and the agent runs.           *)

SingleCall == {"launching", "killing"}

(* WaitingIsAnswerable for one handler, with the calls that go to one agent *)
Waits(h, a) ==
  /\ pc[h][a] \in SingleCall => \E g \in Agent : await[h][a] = {g}
  /\ \A g \in await[h][a] \cap agentUp :
       \/ Requests(h, a, g) # {}
       \/ InAgent(h, a) /\ home[a] = g

WaitInv == \A h \in Handler, a \in App : Waits(h, a)

(* What an agent that runs has in hand stays in hand *)
StaysInHand(a) ==
  /\ launch[a] # "none" => launch'[a] # "none" /\ home'[a] = home[a]
  /\ kill[a] # "none" /\ home[a] \in agentUp' => kill'[a] # "none" /\ home'[a] = home[a]

LEMMA InHandKept ==
  ASSUME LauncherInv, [LauncherNext]_launcherVars, NEW a \in App, ~KillCancel(a)
  PROVE  StaysInHand(a)
<1> USE DEF LauncherInv, LauncherTypeOK
<1>1. kill[a] # "none" => launch[a] # "none"
  BY DEF KillInv, HandlerInv
<1>2. launch[a] # "none" => launch'[a] # "none" /\ home'[a] = home[a]
  BY LauncherStable
<1>3. kill[a] # "none" /\ home[a] \in agentUp' => kill'[a] # "none"
  <2>1. ASSUME NEW g \in Agent, NEW b \in App, AppStep(g, b)
        PROVE  kill[a] # "none" => kill'[a] # "none"
    BY <2>1
    DEF AppStep, SendExec, AnswerLaunch, ListApp, StoreStart, Reap, StoreEnd, NotifyReturn,
        Forget, KillDelete, KillCancel
  <2>2. ASSUME NEW g \in Agent, Down(g), home[a] \in agentUp' PROVE kill'[a] = kill[a]
    BY <2>2 DEF Down
  <2>3. ASSUME NEW g \in Agent, NEW b \in App, RecvKill(g, b)
        PROVE  kill[a] # "none" => kill'[a] # "none"
    BY <2>3 DEF RecvKill
  <2> QED
    BY <2>1, <2>2, <2>3
    DEF LauncherNext, launcherVars, RecvLaunch, GiveUpLaunch, ProcExit, PipesClose,
        StartApp, PanicOnStart, StopAgent, NilReply
<1> QED
  BY <1>1, <1>2, <1>3 DEF StaysInHand

LEMMA WaitInit == Init => WaitInv
<1> SUFFICES ASSUME Init, NEW h \in Handler, NEW a \in App PROVE Waits(h, a)
  BY DEF WaitInv
<1>1. pc[h][a] = "idle" /\ await[h][a] = {}
  BY DEF Init
<1> QED
  BY <1>1 DEF Waits, SingleCall

(* A handler that does not move, and whose requests are still in flight *)
LEMMA StillWaits ==
  ASSUME NEW h \in Handler, NEW a \in App, Waits(h, a), agentUp' \subseteq agentUp,
         pc'[h][a] = pc[h][a], await'[h][a] = await[h][a],
         StaysInHand(a),
         \A g \in agentUp' : Requests(h, a, g) \subseteq net'
  PROVE  Waits(h, a)'
<1>1. pc'[h][a] \in SingleCall => \E g \in Agent : await'[h][a] = {g}
  BY DEF Waits
<1>2. ASSUME NEW g \in await'[h][a] \cap agentUp'
      PROVE  \/ Requests(h, a, g)' # {}
             \/ InAgent(h, a)' /\ home'[a] = g
  <2>1. CASE Requests(h, a, g) # {}
    <3>1. PICK r \in Requests(h, a, g) : TRUE
      BY <2>1
    <3>2. r \in Requests(h, a, g)'
      BY <1>2, <3>1 DEF Requests
    <3> QED
      BY <3>2
  <2>2. CASE InAgent(h, a) /\ home[a] = g
    BY <1>2, <2>2 DEF InAgent, StaysInHand
  <2> QED
    BY <1>2, <2>1, <2>2 DEF Waits
<1> QED
  BY <1>1, <1>2 DEF Waits

(* A handler that waits for nobody who lives *)
LEMMA NoWait ==
  ASSUME NEW h \in Handler, NEW a \in App,
         pc'[h][a] \notin SingleCall, await'[h][a] \cap agentUp' = {}
  PROVE  Waits(h, a)'
  BY DEF Waits

LEMMA NobodyAwaited ==
  ASSUME NEW h \in Handler, NEW a \in App, Waits(h, a),
         pc[h][a] \notin {"launching", "placing", "fanout", "killing"}, net \subseteq Request
  PROVE  await[h][a] \cap agentUp = {}
<1>1. \A r \in net : WaitsAt[r.op] \in {"launching", "placing", "fanout", "killing"}
  BY DEF WaitsAt, Request
<1>2. \A g : Requests(h, a, g) = {}
  BY <1>1 DEF Requests
<1> QED
  BY <1>2 DEF Waits, InAgent

(* A handler that has just made its calls *)
LEMMA CallWaits ==
  ASSUME TypeOK, NEW op, NEW a \in App, NEW G, NEW h \in Handler, CallAll(op, a, G, h),
         pc'[h][a] = WaitsAt[op], pc'[h][a] \in SingleCall => \E g \in Agent : G = {g}
  PROVE  Waits(h, a)'
<1>1. await'[h][a] = G
  BY DEF TypeOK, CallAll
<1>2. ASSUME NEW g \in G PROVE Requests(h, a, g)' # {}
  <2>1. Call(op, a, g, h) \in net'
    BY DEF CallAll
  <2>2. Call(op, a, g, h) \in Requests(h, a, g)'
    BY <2>1 DEF Call, Requests
  <2> QED
    BY <2>2
<1> QED
  BY <1>1, <1>2 DEF Waits

(* When one handler of the manager moves *)
LEMMA MoverWaits ==
  ASSUME TypeOK, WaitInv, UNCHANGED <<agentUp, launch, home, kill>>, net \subseteq net',
         NEW h \in Handler, NEW a \in App, NEW step, Goto(h, a, step),
         \A k \in Handler, b \in App : k # h \/ b # a => await'[k][b] = await[k][b],
         Waits(h, a)'
  PROVE  WaitInv'
<1> SUFFICES ASSUME NEW k \in Handler, NEW b \in App, k # h \/ b # a
             PROVE  Waits(k, b)'
  BY DEF WaitInv
<1>1. pc'[k][b] = pc[k][b] /\ await'[k][b] = await[k][b]
  BY GotoFrame
<1>2. \A g : Requests(k, b, g) \subseteq net'
  BY DEF Requests
<1> QED
  BY <1>1, <1>2, StillWaits DEF WaitInv, StaysInHand

(* When it moves without a call, as it waits for nobody *)
LEMMA SilentWaits ==
  ASSUME TypeOK, WaitInv, UNCHANGED <<agentUp, launch, home, kill, await, net>>,
         NEW h \in Handler, NEW a \in App, NEW step, Goto(h, a, step),
         step \notin SingleCall,
         \/ await[h][a] = {}
         \/ pc[h][a] \notin {"launching", "placing", "fanout", "killing"}
  PROVE  WaitInv'
<1>1. await[h][a] \cap agentUp = {}
  BY NobodyAwaited DEF WaitInv, TypeOK
<1>2. pc'[h][a] = step
  BY GotoFrame
<1>3. Waits(h, a)'
  BY <1>1, <1>2, NoWait
<1> QED
  BY <1>3, MoverWaits

(* When it moves and calls *)
LEMMA CallerWaits ==
  ASSUME TypeOK, WaitInv, UNCHANGED <<agentUp, launch, home, kill>>,
         NEW op, NEW h \in Handler, NEW a \in App, NEW G,
         Goto(h, a, WaitsAt[op]), CallAll(op, a, G, h),
         WaitsAt[op] \in SingleCall => \E g \in Agent : G = {g}
  PROVE  WaitInv'
<1>1. pc'[h][a] = WaitsAt[op]
  BY GotoFrame
<1>2. Waits(h, a)'
  BY <1>1, CallWaits
<1>3. /\ net \subseteq net'
      /\ \A k \in Handler, b \in App : k # h \/ b # a => await'[k][b] = await[k][b]
  BY DEF CallAll, TypeOK
<1> QED
  BY <1>2, <1>3, MoverWaits

(* Handlers of the manager *)
LEMMA ManagerWaits ==
  ASSUME TypeOK, WaitInv, NEW a \in App,
         \/ \E h \in Host, moni \in BOOLEAN : Submit(a, h, moni)
         \/ SubmitStep(a) \/ Kill(a) \/ KillCall(a) \/ Deregister(a)
         \/ NotifyDone(a) \/ NotifyDelete(a)
         \/ \E h \in Handler : EndDeregister(h, a)
  PROVE  WaitInv'
<1> USE DEF launcherVars, directory, submission, calls
<1>0. {"Submit", "Kill", "Deregister", "NotifyDone"} \subseteq Handler
  BY Handlers
<1>w. /\ WaitsAt["Launch"] = "launching" /\ WaitsAt["Register"] = "placing"
      /\ WaitsAt["Deregister"] = "fanout" /\ WaitsAt["Kill"] = "killing"
  BY DEF WaitsAt
<1>s. SingleCall = {"launching", "killing"}
  BY DEF SingleCall
<1>1. ASSUME NEW h \in Host, NEW moni \in BOOLEAN, Submit(a, h, moni) PROVE WaitInv'
  <2>1. PICK g \in Agent : CallAll("Launch", a, {g}, "Submit")
    BY <1>1 DEF Submit, findNode, TypeOK
  <2>2. Goto("Submit", a, WaitsAt["Launch"]) /\ UNCHANGED <<agentUp, launch, home, kill>>
    BY <1>1, <1>w DEF Submit
  <2> DEFINE G == {g}
  <2>3. CallAll("Launch", a, G, "Submit") /\ \E f \in Agent : G = {f}
    BY <2>1
  <2> HIDE DEF G
  <2> QED
    BY <1>0, <2>2, <2>3, CallerWaits
<1>2. CASE Launched(a)
  <2>1. PICK G : CallAll("Register", a, G, "Submit")
    BY <1>2 DEF Launched
  <2>2. Goto("Submit", a, WaitsAt["Register"]) /\ UNCHANGED <<agentUp, launch, home, kill>>
    BY <1>2, <1>w DEF Launched
  <2>3. WaitsAt["Register"] \notin SingleCall
    BY <1>w, <1>s
  <2> QED
    BY <1>0, <2>1, <2>2, <2>3, CallerWaits
<1>3. CASE LaunchFailed(a)
  <2>1. /\ Goto("Submit", a, "err") /\ UNCHANGED <<agentUp, launch, home, kill, net>>
        /\ await' = [await EXCEPT !["Submit"][a] = {}]
    BY <1>3 DEF LaunchFailed
  <2>2. /\ await'["Submit"][a] = {}
        /\ \A k \in Handler, b \in App : k # "Submit" \/ b # a => await'[k][b] = await[k][b]
    BY <1>0, <2>1 DEF TypeOK
  <2>3. pc'["Submit"][a] = "err"
    BY <1>0, <2>1, GotoFrame
  <2>4. Waits("Submit", a)'
    BY <1>0, <1>s, <2>2, <2>3, NoWait
  <2> QED
    BY <1>0, <2>1, <2>2, <2>4, MoverWaits
<1>4. CASE Store(a)
  <2>1. /\ Goto("Submit", a, "ok") /\ await["Submit"][a] = {}
        /\ UNCHANGED <<agentUp, launch, home, kill, await, net>>
    BY <1>4 DEF Store
  <2> QED
    BY <1>0, <1>s, <2>1, SilentWaits
<1>5. ASSUME NEW h \in {"Kill", "Deregister", "NotifyDone"}, StartDeregister(h, a),
             UNCHANGED <<agentUp, launch, home, kill>>
      PROVE  WaitInv'
  <2>1. Goto(h, a, WaitsAt["Deregister"]) /\ CallAll("Deregister", a, agents, h)
    BY <1>5, <1>w DEF StartDeregister
  <2>2. WaitsAt["Deregister"] \notin SingleCall
    BY <1>w, <1>s
  <2> QED
    BY <1>0, <1>5, <2>1, <2>2, CallerWaits
<1>6. ASSUME NEW h \in {"Kill", "Deregister", "NotifyDone"}, NEW step,
             step \notin SingleCall, Goto(h, a, step),
             UNCHANGED <<agentUp, launch, home, kill, await, net>>,
             pc[h][a] \notin {"launching", "placing", "fanout", "killing"}
      PROVE  WaitInv'
  BY <1>0, <1>6, SilentWaits
<1>7. CASE Kill(a)
  <2>1. /\ pc["Kill"][a] \in {"idle", "ok", "err"} /\ UNCHANGED <<agentUp, launch, home, kill>>
        /\ \/ StartDeregister("Kill", a)
           \/ Goto("Kill", a, "err") /\ UNCHANGED <<await, net>>
           \/ Goto("Kill", a, "locating") /\ UNCHANGED <<await, net>>
    BY <1>7 DEF Kill, Asks, NoSuchApp, Ended
  <2> QED
    BY <1>5, <1>6, <1>s, <2>1
<1>8. CASE Deregister(a)
  <2>1. /\ pc["Deregister"][a] \in {"idle", "ok", "err"}
        /\ UNCHANGED <<agentUp, launch, home, kill>>
        /\ \/ StartDeregister("Deregister", a)
           \/ Goto("Deregister", a, "err") /\ UNCHANGED <<await, net>>
    BY <1>8 DEF Deregister, Asks, NoSuchApp, Ended
  <2> QED
    BY <1>5, <1>6, <1>s, <2>1
<1>9. CASE KillCall(a)
  <2>1. PICK g \in Agent : CallAll("Kill", a, {g}, "Kill")
    BY <1>9 DEF KillCall, findNode, TypeOK
  <2>2. Goto("Kill", a, WaitsAt["Kill"]) /\ UNCHANGED <<agentUp, launch, home, kill>>
    BY <1>9, <1>w DEF KillCall
  <2> DEFINE G == {g}
  <2>3. CallAll("Kill", a, G, "Kill") /\ \E f \in Agent : G = {f}
    BY <2>1
  <2> HIDE DEF G
  <2> QED
    BY <1>0, <2>2, <2>3, CallerWaits
<1>10. CASE NotifyDone(a)
  <2>1. /\ pc["NotifyDone"][a] = "called" /\ UNCHANGED <<agentUp, launch, home, kill>>
        /\ \/ StartDeregister("NotifyDone", a)
           \/ Goto("NotifyDone", a, "deleting") /\ UNCHANGED <<await, net>>
    BY <1>10 DEF NotifyDone
  <2> QED
    BY <1>5, <1>6, <1>s, <2>1
<1>11. CASE NotifyDelete(a)
  <2>1. /\ pc["NotifyDone"][a] = "deleting" /\ Goto("NotifyDone", a, "ok")
        /\ UNCHANGED <<agentUp, launch, home, kill, await, net>>
    BY <1>11 DEF NotifyDelete
  <2> QED
    BY <1>6, <1>s, <2>1
<1>12. ASSUME NEW h \in Handler, EndDeregister(h, a) PROVE WaitInv'
  <2>1. /\ await[h][a] = {} /\ UNCHANGED <<agentUp, launch, home, kill, await, net>>
        /\ \E step \in {"locating", "deleting", "ok"} : Goto(h, a, step)
    BY <1>12 DEF EndDeregister
  <2> QED
    BY <1>s, <2>1, SilentWaits
<1> QED
  BY <1>1, <1>2, <1>3, <1>4, <1>7, <1>8, <1>9, <1>10, <1>11, <1>12 DEF SubmitStep

(* When an agent executes r, for each handler that does not move *)
LEMMA AnsweredWaits ==
  ASSUME NEW h \in Handler, NEW a \in App, Waits(h, a), NEW r \in net, net' = net \ {r},
         agentUp' = agentUp, pc'[h][a] = pc[h][a],
         StaysInHand(a),
         await'[h][a] = IF h = r.by /\ a = r.app /\ Awaited(r) THEN await[h][a] \ {r.to}
                                                               ELSE await[h][a],
         h = r.by /\ a = r.app /\ Awaited(r) => pc[h][a] \notin SingleCall
  PROVE  Waits(h, a)'
<1>1. pc'[h][a] \in SingleCall => \E g \in Agent : await'[h][a] = {g}
  BY DEF Waits
<1>2. ASSUME NEW g \in await'[h][a] \cap agentUp'
      PROVE  \/ Requests(h, a, g)' # {}
             \/ InAgent(h, a)' /\ home'[a] = g
  <2>1. g \in await[h][a] \cap agentUp
    BY <1>2
  <2>2. CASE Requests(h, a, g) # {}
    <3>1. PICK q \in Requests(h, a, g) : TRUE
      BY <2>2
    <3>2. q # r
      BY <1>2, <3>1 DEF Requests, Awaited
    <3>3. q \in Requests(h, a, g)'
      BY <3>1, <3>2 DEF Requests
    <3> QED
      BY <3>3
  <2>3. CASE InAgent(h, a) /\ home[a] = g
    BY <2>1, <2>3 DEF InAgent, StaysInHand
  <2> QED
    BY <2>1, <2>2, <2>3 DEF Waits
<1> QED
  BY <1>1, <1>2 DEF Waits

(* A Launch or Kill request that its agent takes up is in hand there *)
LEMMA TakenWaits ==
  ASSUME TypeOK, WaitInv, NEW r \in net, net' = net \ {r}, UNCHANGED <<agentUp, pc, await>>,
         \A a \in App : StaysInHand(a), home'[r.app] = r.to,
         \/ r.op = "Launch" /\ launch'[r.app] # "none"
         \/ r.op = "Kill" /\ kill'[r.app] # "none"
  PROVE  WaitInv'
<1> SUFFICES ASSUME NEW h \in Handler, NEW a \in App PROVE Waits(h, a)'
  BY DEF WaitInv
<1>1. Waits(h, a)
  BY DEF WaitInv
<1>2. pc'[h][a] \in SingleCall => \E g \in Agent : await'[h][a] = {g}
  BY <1>1 DEF Waits
<1>3. ASSUME NEW g \in await'[h][a] \cap agentUp'
      PROVE  \/ Requests(h, a, g)' # {}
             \/ InAgent(h, a)' /\ home'[a] = g
  <2>1. CASE r \in Requests(h, a, g)
    BY <2>1 DEF Requests, WaitsAt, InAgent
  <2>2. CASE r \notin Requests(h, a, g) /\ Requests(h, a, g) # {}
    <3>1. PICK q \in Requests(h, a, g) : q # r
      BY <2>2
    <3>2. q \in Requests(h, a, g)'
      BY <3>1 DEF Requests
    <3> QED
      BY <3>2
  <2>3. CASE InAgent(h, a) /\ home[a] = g
    BY <1>3, <2>3 DEF InAgent, StaysInHand
  <2> QED
    BY <1>1, <1>3, <2>1, <2>2, <2>3 DEF Waits
<1> QED
  BY <1>2, <1>3 DEF Waits

(* The Kill handler of the manager is answered, by one agent and at once *)
LEMMA KillAnswered ==
  ASSUME TypeOK, WaitInv, NEW a \in App, NEW g \in await["Kill"][a], NEW step \in Ended,
         pc["Kill"][a] = "killing", Goto("Kill", a, step),
         await'["Kill"][a] = await["Kill"][a] \ {g}
  PROVE  Waits("Kill", a)'
<1>1. "Kill" \in Handler
  BY Handlers
<1>2. \E f \in Agent : await["Kill"][a] = {f}
  BY <1>1 DEF WaitInv, Waits, SingleCall
<1>3. await'["Kill"][a] = {} /\ pc'["Kill"][a] = step
  BY <1>1, <1>2, GotoFrame
<1> QED
  BY <1>1, <1>3, NoWait DEF SingleCall, Ended

(* Agents execute calls *)
LEMMA AgentWaits ==
  ASSUME TypeOK, WaitInv, NoStaleEntry, NEW r \in net, AgentHandles(r), ~NilDeregister(r),
         \A a \in App : StaysInHand(a)
  PROVE  WaitInv'
<1> USE DEF launcherVars
<1>0. {"Submit", "Kill", "Deregister", "NotifyDone"} = Handler
  BY Handlers
<1>s. SingleCall = {"launching", "killing"}
  BY DEF SingleCall
<1>t. r.app \in App /\ r.to \in Agent /\ r.by \in Handler
  BY DEF TypeOK, Request
<1>1. CASE HandleLaunch(r)
  <2>1. net' = net \ {r} /\ UNCHANGED <<agentUp, pc, await>> /\ r.op = "Launch"
    BY <1>1 DEF HandleLaunch, RecvLaunch
  <2>2. launch'[r.app] # "none" /\ home'[r.app] = r.to
    BY <1>t, <1>1 DEF HandleLaunch, RecvLaunch, TypeOK, LauncherTypeOK
  <2> QED
    BY <2>1, <2>2, TakenWaits
<1>2. CASE HandleRegister(r) \/ HandleDeregister(r)
  <2>1. Answer(r) /\ UNCHANGED <<agentUp, pc>> /\ r.op \in {"Register", "Deregister"}
    BY <1>2 DEF HandleRegister, HandleDeregister
  <2>2. /\ net' = net \ {r}
        /\ \A k \in Handler, b \in App :
             await'[k][b] = IF k = r.by /\ b = r.app /\ Awaited(r) THEN await[k][b] \ {r.to}
                                                     ELSE await[k][b]
    BY <2>1, AnswerFrame
  <2>3. Awaited(r) => pc[r.by][r.app] \notin SingleCall
    BY <1>s, <2>1 DEF Awaited, WaitsAt
  <2>4. ASSUME NEW h \in Handler, NEW a \in App PROVE Waits(h, a)'
    BY <2>1, <2>2, <2>3, AnsweredWaits DEF WaitInv
  <2> QED
    BY <2>4 DEF WaitInv
<1>3. CASE HandleKill(r) /\ RecvKill(r.to, r.app) /\ net' = net \ {r} /\ UNCHANGED <<pc, await>>
  <2>1. UNCHANGED agentUp /\ r.op = "Kill"
    BY <1>3 DEF HandleKill, RecvKill
  <2>2. kill'[r.app] # "none" /\ home'[r.app] = r.to
    BY <1>t, <1>3 DEF RecvKill, NoStaleEntry, TypeOK, LauncherTypeOK
  <2> QED
    BY <1>3, <2>1, <2>2, TakenWaits
<1>4. CASE /\ HandleKill(r) /\ Answer(r) /\ UNCHANGED launcherVars
           /\ IF Awaited(r) THEN Goto("Kill", r.app, "err") ELSE UNCHANGED pc
  <2>1. UNCHANGED agentUp /\ r.op = "Kill"
    BY <1>4 DEF HandleKill
  <2>2. /\ net' = net \ {r}
        /\ \A k \in Handler, b \in App :
             await'[k][b] = IF k = r.by /\ b = r.app /\ Awaited(r) THEN await[k][b] \ {r.to}
                                                     ELSE await[k][b]
    BY <1>4, AnswerFrame
  <2>3. CASE Awaited(r)
    <3>1. r.by = "Kill" /\ pc["Kill"][r.app] = "killing" /\ r.to \in await["Kill"][r.app]
      BY <2>1, <2>3, KillAwaited DEF Awaited
    <3>2. Goto("Kill", r.app, "err")
      BY <1>4, <2>3
    <3>3. \A k \in Handler, b \in App : k # "Kill" \/ b # r.app => pc'[k][b] = pc[k][b]
      BY <1>0, <1>t, <3>2, GotoFrame
    <3>4. Waits("Kill", r.app)'
      BY <1>0, <1>t, <2>2, <2>3, <3>1, <3>2, KillAnswered DEF Ended
    <3>5. ASSUME NEW h \in Handler, NEW a \in App, h # "Kill" \/ a # r.app
          PROVE  Waits(h, a)'
      <4>1. pc'[h][a] = pc[h][a] /\ ~(h = r.by /\ a = r.app)
        BY <3>1, <3>3, <3>5
      <4> QED
        BY <2>1, <2>2, <4>1, AnsweredWaits DEF WaitInv
    <3> QED
      BY <3>4, <3>5 DEF WaitInv
  <2>4. CASE ~Awaited(r)
    <3>1. ASSUME NEW h \in Handler, NEW a \in App PROVE Waits(h, a)'
      BY <1>4, <2>1, <2>2, <2>4, AnsweredWaits DEF WaitInv
    <3> QED
      BY <3>1 DEF WaitInv
  <2> QED
    BY <2>3, <2>4
<1> QED
  BY <1>1, <1>2, <1>3, <1>4 DEF AgentHandles, HandleKill

(* The Kill handler of an agent is through, and so is the one that waits *)
LEMMA KillWaits ==
  ASSUME LifecycleInv, WaitInv, NEW g \in Agent, NEW b \in App, KillDone(g, b)
  PROVE  WaitInv'
<1>0. TypeOK /\ LauncherInv /\ {"Submit", "Kill", "Deregister", "NotifyDone"} = Handler
  BY Handlers DEF LifecycleInv
<1>1. /\ home[b] = g /\ UNCHANGED <<agentUp, net, home, launch>>
      /\ \A a \in App \ {b} : kill'[a] = kill[a]
  BY DEF KillDone, KillCancel
<1>2. \A k \in Handler, a \in App :
        k # "Kill" \/ a # b => pc'[k][a] = pc[k][a] /\ await'[k][a] = await[k][a]
  <2>1. CASE UNCHANGED <<pc, await>>
    BY <2>1
  <2>2. CASE Goto("Kill", b, "ok") /\ await' = [await EXCEPT !["Kill"][b] = @ \ {g}]
    <3>1. \A k \in Handler, a \in App : k # "Kill" \/ a # b => pc'[k][a] = pc[k][a]
      BY <1>0, <2>2, GotoFrame
    <3>2. \A k \in Handler, a \in App : k # "Kill" \/ a # b => await'[k][a] = await[k][a]
      BY <1>0, <2>2 DEF TypeOK
    <3> QED
      BY <3>1, <3>2
  <2> QED
    BY <2>1, <2>2 DEF KillDone
<1>3. ASSUME NEW k \in Handler, NEW a \in App, k # "Kill" \/ a # b PROVE Waits(k, a)'
  <2>1. /\ pc'[k][a] \in SingleCall => \E f \in Agent : await'[k][a] = {f}
        /\ \A f : Requests(k, a, f)' = Requests(k, a, f)
    BY <1>1, <1>2, <1>3 DEF WaitInv, Waits, Requests
  <2>2. InAgent(k, a) => InAgent(k, a)'
    <3>1. pc[k][a] = "killing" => k = "Kill"
      BY <1>0, Handlers DEF TypeOK
    <3> QED
      BY <1>1, <1>2, <1>3, <3>1 DEF InAgent
  <2> QED
    BY <1>1, <1>2, <1>3, <2>1, <2>2 DEF WaitInv, Waits
<1>4. CASE KillerWaits(g, b)
  <2>1. Goto("Kill", b, "ok") /\ await' = [await EXCEPT !["Kill"][b] = @ \ {g}]
    BY <1>4 DEF KillDone
  <2>2. await'["Kill"][b] = await["Kill"][b] \ {g}
    BY <1>0, <2>1 DEF TypeOK
  <2>3. Waits("Kill", b)'
    BY <1>0, <1>4, <2>1, <2>2, KillAnswered DEF KillerWaits, Ended
  <2> QED
    BY <1>3, <2>3 DEF WaitInv
<1>5. CASE ~KillerWaits(g, b)
  <2>1. UNCHANGED <<pc, await>>
    BY <1>5 DEF KillDone
  <2>2. \A f : Requests("Kill", b, f)' = Requests("Kill", b, f)
    BY <1>1, <2>1 DEF Requests
  <2>3. \A f \in await["Kill"][b] : f = home[b] => pc["Kill"][b] # "killing"
    BY <1>1, <1>5 DEF KillerWaits
  <2>4. pc["Kill"][b] = pc'["Kill"][b] /\ (pc["Kill"][b] = "launching" => InAgent("Kill", b) = InAgent("Kill", b)')
    BY <1>1, <2>1 DEF InAgent
  <2>5. Waits("Kill", b)
    BY <1>0 DEF WaitInv
  <2>6. Waits("Kill", b)'
    BY <1>1, <2>1, <2>2, <2>3, <2>4, <2>5 DEF Waits, InAgent
  <2> QED
    BY <1>3, <2>6 DEF WaitInv
<1> QED
  BY <1>4, <1>5

(* Calls fail *)
LEMMA FailureWaits ==
  ASSUME TypeOK, WaitInv, NEW h \in Handler, NEW a \in App, NEW g \in Agent,
         CallFailed(h, a, g)
  PROVE  WaitInv'
<1>1. /\ UNCHANGED <<agentUp, launch, home, kill>> /\ net \ Requests(h, a, g) \subseteq net'
      /\ g \in await[h][a] /\ pc[h][a] # "launching"
  BY DEF CallFailed, launcherVars
<1>2. \A k \in Handler, b \in App :
        await'[k][b] = IF k = h /\ b = a THEN await[k][b] \ {g} ELSE await[k][b]
  BY DEF CallFailed, TypeOK
<1>3. \A k \in Handler, b \in App : k # h \/ b # a => pc'[k][b] = pc[k][b]
  BY GotoFrame DEF CallFailed
<1>4. ASSUME pc[h][a] = "killing" PROVE Waits(h, a)'
  <2>1. pc'[h][a] = "err"
    BY <1>4, GotoFrame DEF CallFailed
  <2>2. \E f \in Agent : await[h][a] = {f}
    BY <1>4 DEF WaitInv, Waits, SingleCall
  <2>3. await'[h][a] = {}
    BY <1>1, <1>2, <2>2
  <2> QED
    BY <2>1, <2>3, NoWait DEF SingleCall
<1>5. ASSUME pc[h][a] # "killing" PROVE Waits(h, a)'
  <2>1. pc'[h][a] = pc[h][a]
    BY <1>5 DEF CallFailed
  <2>2. pc'[h][a] \notin SingleCall /\ pc'[h][a] # "launching"
    BY <1>1, <1>5, <2>1 DEF SingleCall
  <2>3. ASSUME NEW f \in await'[h][a] \cap agentUp' PROVE Requests(h, a, f)' # {}
    <3>1. f \in await[h][a] \cap agentUp /\ f # g
      BY <1>1, <1>2, <2>3
    <3>2. PICK q \in Requests(h, a, f) : TRUE
      BY <1>1, <1>5, <3>1 DEF WaitInv, Waits, InAgent
    <3>3. q \in net'
      BY <1>1, <3>1, <3>2 DEF Requests
    <3>4. q \in Requests(h, a, f)'
      BY <2>1, <3>2, <3>3 DEF Requests
    <3> QED
      BY <3>4
  <2> QED
    BY <2>2, <2>3 DEF Waits
<1>6. ASSUME NEW k \in Handler, NEW b \in App, k # h \/ b # a PROVE Waits(k, b)'
  <2>1. pc'[k][b] = pc[k][b] /\ await'[k][b] = await[k][b]
    BY <1>2, <1>3, <1>6
  <2>2. \A f : Requests(k, b, f) \subseteq net'
    BY <1>1, <1>6 DEF Requests
  <2> QED
    BY <1>1, <2>1, <2>2, StillWaits DEF WaitInv, StaysInHand
<1> QED
  BY <1>4, <1>5, <1>6 DEF WaitInv

(* The waiter of an agent calls NotifyDone once *)
Reported == {"notifying", "notified", "done", "dropped", "lost"}

ReportInv == \A a \in App : pc["NotifyDone"][a] # "idle" => phase[a] \in Reported

LEMMA ReportStep == LifecycleInv /\ ReportInv /\ [Next]_vars => ReportInv'
<1> SUFFICES ASSUME LifecycleInv, ReportInv, [Next]_vars, NEW a \in App
             PROVE  pc'["NotifyDone"][a] # "idle" => phase'[a] \in Reported
  BY DEF ReportInv
<1> USE DEF launcherVars, managerVars
<1>1. TypeOK /\ LauncherInv
  BY DEF LifecycleInv
<1>0. {"Submit", "Kill", "Deregister", "NotifyDone"} = Handler
  BY Handlers
<1>2. phase[a] \in Reported => phase'[a] \in Reported
  <2>1. [LauncherNext]_launcherVars
    BY <1>1, StepOfLaunchers
  <2>2. ASSUME NEW g \in Agent, StartApp(g), phase[a] \in Reported PROVE phase'[a] = phase[a]
    <3>1. Head(lch[g]) \in App /\ phase[Head(lch[g])] = "queued"
      BY <1>1, <2>2 DEF StartApp, LauncherInv, LauncherTypeOK, QueueInv
    <3> QED
      BY <1>1, <2>2, <3>1 DEF StartApp, LauncherInv, LauncherTypeOK, Reported
  <2>3. ASSUME NEW g \in Agent, Down(g), phase[a] \in Reported PROVE phase'[a] \in Reported
    BY <2>3 DEF Down, Reported
  <2>4. ASSUME NEW g \in Agent, NEW b \in App, AppStep(g, b), phase[a] \in Reported
        PROVE  phase'[a] \in Reported
    BY <1>1, <2>4
    DEF AppStep, SendExec, AnswerLaunch, ListApp, StoreStart, Reap, StoreEnd, NotifyReturn,
        Forget, KillDelete, KillCancel, LauncherInv, LauncherTypeOK, HandlerInv, Reported
  <2> QED
    BY <2>1, <2>2, <2>3, <2>4
    DEF LauncherNext, RecvLaunch, RecvKill, GiveUpLaunch, ProcExit, PipesClose,
        PanicOnStart, StopAgent, NilReply
<1>3. pc'["NotifyDone"][a] # "idle" => pc["NotifyDone"][a] # "idle" \/ phase'[a] \in Reported
  <2>1. ASSUME NEW h \in Handler, NEW b \in App, NEW step, Goto(h, b, step),
               h = "NotifyDone" => pc[h][b] # "idle" \/ phase'[b] \in Reported
        PROVE  pc'["NotifyDone"][a] # "idle"
                 => pc["NotifyDone"][a] # "idle" \/ phase'[a] \in Reported
    BY <1>0, <1>1, <2>1, GotoFrame
  <2>2. ASSUME NEW b \in App,
               \/ \E h \in Host, moni \in BOOLEAN : Submit(b, h, moni)
               \/ SubmitStep(b) \/ Kill(b) \/ KillCall(b) \/ Deregister(b)
        PROVE  pc'["NotifyDone"][a] # "idle" => pc["NotifyDone"][a] # "idle"
    <3>1. PICK h \in {"Submit", "Kill", "Deregister"} : \E step : Goto(h, b, step)
      BY <2>2 DEF Submit, SubmitStep, Launched, LaunchFailed, Store, Kill, KillCall,
                  Deregister, NoSuchApp, StartDeregister
    <3>2. PICK step : Goto(h, b, step)
      BY <3>1
    <3> QED
      BY <1>0, <1>1, <3>2, GotoFrame
  <2>3. ASSUME NEW b \in App, NotifyDone(b) \/ NotifyDelete(b) \/ NotifyAnswered(b)
        PROVE  pc'["NotifyDone"][a] # "idle" => pc["NotifyDone"][a] # "idle"
    <3>1. UNCHANGED pc \/ (pc["NotifyDone"][b] # "idle" /\ \E step : Goto("NotifyDone", b, step))
      BY <2>3 DEF NotifyDone, NotifyDelete, NotifyAnswered, StartDeregister
    <3> QED
      BY <1>0, <1>1, <3>1, GotoFrame
  <2>4. ASSUME NEW b \in App, CallNotifyDone(b)
        PROVE  pc'["NotifyDone"][a] # "idle"
                 => pc["NotifyDone"][a] # "idle" \/ phase'[a] \in Reported
    <3>1. phase'[b] \in Reported /\ \E step : Goto("NotifyDone", b, step)
      BY <1>1, <2>4 DEF CallNotifyDone, StoreEnd, TypeOK, LauncherTypeOK, Reported
    <3> QED
      BY <1>0, <3>1, <2>1
  <2>5. ASSUME NEW h \in Handler, NEW b \in App, EndDeregister(h, b)
        PROVE  pc'["NotifyDone"][a] # "idle" => pc["NotifyDone"][a] # "idle"
    <3>1. pc[h][b] # "idle" /\ \E step : Goto(h, b, step)
      BY <2>5 DEF EndDeregister
    <3> QED
      BY <1>0, <1>1, <3>1, GotoFrame
  <2>6. ASSUME NEW h \in Handler, NEW b \in App, NEW g \in Agent, CallFailed(h, b, g)
        PROVE  pc'["NotifyDone"][a] # "idle" => pc["NotifyDone"][a] # "idle"
    <3>1. UNCHANGED pc \/ (pc[h][b] # "idle" /\ \E step : Goto(h, b, step))
      BY <2>6 DEF CallFailed
    <3> QED
      BY <1>0, <1>1, <3>1, GotoFrame
  <2>7. ASSUME NEW r \in net, AgentHandles(r)
        PROVE  UNCHANGED pc["NotifyDone"][a]
    <3>1. CASE HandleKill(r)
      <4>1. r.app \in App
        BY <1>1 DEF TypeOK, Request
      <4>2. UNCHANGED pc \/ Goto("Kill", r.app, "err")
        BY <3>1 DEF HandleKill
      <4> QED
        BY <1>0, <1>1, <4>1, <4>2, GotoFrame
    <3> QED
      BY <2>7, <3>1 DEF AgentHandles, HandleLaunch, HandleRegister, HandleDeregister,
                        NilDeregister, AgentGone
  <2>8. CASE ManagerDown
    BY <1>0, <2>8 DEF ManagerDown, Ended
  <2>9. ASSUME NEW g \in Agent, NEW b \in App, KillDone(g, b)
        PROVE  UNCHANGED pc["NotifyDone"][a]
    <3>1. UNCHANGED pc \/ Goto("Kill", b, "ok")
      BY <2>9 DEF KillDone
    <3> QED
      BY <1>0, <1>1, <3>1, GotoFrame
  <2> QED
    BY <2>2, <2>3, <2>4, <2>5, <2>6, <2>7, <2>8, <2>9
    DEF Next, KillStep, KillPanics, NotifyStep, NotifyPanics, StopManager, StartManager,
        AgentStep, ProcessExit, OutputEnds, LaunchExpires, AgentStartsApp, AgentDown,
        AgentGone, Join, Expire, vars
<1> QED
  BY <1>2, <1>3 DEF ReportInv

LEMMA WaitStep == LifecycleInv /\ ReportInv /\ WaitInv /\ [Next]_vars => WaitInv'
<1> SUFFICES ASSUME LifecycleInv, ReportInv, WaitInv, [Next]_vars PROVE WaitInv'
  OBVIOUS
<1> USE DEF directory, submission, calls
<1>1. TypeOK /\ LauncherInv
  BY DEF LifecycleInv
<1>0. "NotifyDone" \in Handler
  BY Handlers
<1>2. ASSUME agentUp' # agentUp \/ \A a \in App : kill'[a] = kill[a] \/ kill'[a] # "none"
      PROVE  \A a \in App : StaysInHand(a)
  <2>1. \A a \in App : ~KillCancel(a)
    BY <1>1, <1>2 DEF KillCancel, TypeOK, LauncherTypeOK
  <2> QED
    BY <1>1, <2>1, StepOfLaunchers, InHandKept
<1>u. ASSUME UNCHANGED <<pc, await>>, agentUp' \subseteq agentUp,
             \A a \in App : StaysInHand(a),
             \A r \in net : r.to \in agentUp' => r \in net'
      PROVE  WaitInv'
  <2> SUFFICES ASSUME NEW h \in Handler, NEW a \in App PROVE Waits(h, a)'
    BY DEF WaitInv
  <2>1. \A g \in agentUp' : Requests(h, a, g) \subseteq net'
    BY <1>u DEF Requests
  <2> QED
    BY <1>u, <2>1, StillWaits DEF WaitInv
<1>d. ASSUME ManagerDown PROVE WaitInv'
  <2>1. \A h \in Handler, a \in App : pc'[h][a] \notin SingleCall /\ await'[h][a] = {}
    BY <1>d DEF ManagerDown, SingleCall, Ended
  <2> QED
    BY <2>1, NoWait DEF WaitInv
<1>3. ASSUME NEW a \in App, CallNotifyDone(a) \/ NotifyAnswered(a) PROVE WaitInv'
  <2>1. UNCHANGED <<agentUp, launch, home, kill, await, net>>
    BY <1>3 DEF CallNotifyDone, NotifyAnswered, StoreEnd, NotifyReturn
  <2>2. CASE UNCHANGED pc
    BY <1>2, <1>u, <2>1, <2>2
  <2>3. ASSUME NEW step \in {"called", "err"}, Goto("NotifyDone", a, step),
               pc["NotifyDone"][a] \in {"idle", "called"}
        PROVE  WaitInv'
    BY <1>0, <1>1, <2>1, <2>3, SilentWaits DEF SingleCall
  <2>4. CallNotifyDone(a) => pc["NotifyDone"][a] = "idle"
    BY DEF CallNotifyDone, StoreEnd, ReportInv, Reported
  <2> QED
    BY <1>3, <2>2, <2>3, <2>4 DEF CallNotifyDone, NotifyAnswered
<1>4. ASSUME NEW g \in Agent, AgentGone(g), g \in agentUp, agentUp' = agentUp \ {g}
      PROVE  WaitInv'
  <2>1. UNCHANGED <<pc, await>> /\ net' = {r \in net : r.to # g}
    BY <1>4 DEF AgentGone
  <2> QED
    BY <1>2, <1>4, <1>u, <2>1
<1>5. ASSUME NEW g \in Agent, Join(g) \/ Expire(g) PROVE WaitInv'
  BY <1>5, <1>2, <1>u DEF Join, Expire, launcherVars
<1>6. ASSUME NEW g \in Agent, NEW a \in App, AgentStep(g, a) PROVE WaitInv'
  <2>1. UNCHANGED agentUp /\ \A b \in App : kill'[b] = kill[b] \/ kill'[b] # "none"
    BY <1>1, <1>6
    DEF TypeOK, LauncherTypeOK, AgentStep, SendExec, AnswerLaunch, ListApp, StoreStart, Reap, Forget, KillDelete
  <2> QED
    BY <1>6, <1>2, <1>u, <2>1 DEF AgentStep, managerVars
<1>7. ASSUME NEW a \in App, ProcessExit(a) \/ OutputEnds(a) \/ LaunchExpires(a)
      PROVE  WaitInv'
  <2>1. UNCHANGED <<agentUp, kill>> /\ UNCHANGED managerVars
    BY <1>7 DEF ProcessExit, ProcExit, OutputEnds, PipesClose, LaunchExpires, GiveUpLaunch
  <2> QED
    BY <1>2, <1>u, <2>1 DEF managerVars
<1>8. ASSUME NEW g \in Agent, AgentStartsApp(g) PROVE WaitInv'
  BY <1>8, <1>2, <1>u DEF AgentStartsApp, StartApp, managerVars
<1>9. CASE StartManager \/ UNCHANGED vars
  BY <1>9, <1>2, <1>u DEF StartManager, vars, launcherVars, managerVars
<1>10. ASSUME NEW a \in App,
              \/ \E h \in Host, moni \in BOOLEAN : Submit(a, h, moni)
              \/ SubmitStep(a) \/ Kill(a) \/ KillCall(a) \/ Deregister(a)
              \/ NotifyDone(a) \/ NotifyDelete(a)
              \/ \E h \in Handler : EndDeregister(h, a)
       PROVE  WaitInv'
  BY <1>1, <1>10, ManagerWaits
<1>11. ASSUME NEW r \in net, AgentHandles(r) PROVE WaitInv'
  <2>1. CASE NilDeregister(r)
    BY <1>1, <1>4, <2>1 DEF NilDeregister, NilReply, Down, TypeOK, Request
  <2>2. CASE ~NilDeregister(r)
    <3>1. \A a \in App : kill'[a] = kill[a] \/ kill'[a] # "none"
      BY <1>1, <1>11, <2>2
      DEF AgentHandles, HandleLaunch, HandleRegister, HandleDeregister, HandleKill,
          RecvLaunch, RecvKill, launcherVars, TypeOK, LauncherTypeOK
    <3> QED
      BY <1>1, <1>2, <1>11, <2>2, <3>1, AgentWaits DEF LauncherInv
  <2> QED
    BY <2>1, <2>2
<1>12. ASSUME NEW h \in Handler, NEW a \in App, NEW g \in Agent, CallFailed(h, a, g)
       PROVE  WaitInv'
  BY <1>1, <1>12, FailureWaits
<1>13. ASSUME NEW g \in Agent, NEW a \in App, KillDone(g, a) PROVE WaitInv'
  BY <1>13, KillWaits
<1>14. ASSUME NEW g \in Agent, AgentDown(g) PROVE WaitInv'
  BY <1>4, <1>14 DEF AgentDown, PanicOnStart, StopAgent, Down
<1> QED
  BY <1>d, <1>3, <1>5, <1>6, <1>7, <1>8, <1>9, <1>10, <1>11, <1>12, <1>13, <1>14
  DEF Next, KillStep, KillPanics, NotifyStep, NotifyPanics, StopManager

(* No handler of the manager waits for nothing, under any fault: as long as *)
(* wg.Wait or a call to an agent has not returned, the agents it waits for  *)
(* are gone, have the request still to execute, or have the launch or kill  *)
(* in hand.                                                                 *)
THEOREM NobodyWaitsInVain == Spec => []WaitingIsAnswerable
<1>1. WaitInv => WaitingIsAnswerable
  <2> SUFFICES ASSUME WaitInv, NEW h \in Handler, NEW a \in App
               PROVE  /\ pc[h][a] \in {"launching", "killing"} => await[h][a] # {}
                      /\ \A g \in await[h][a] \cap agentUp :
                           \/ Requests(h, a, g) # {}
                           \/ InAgent(h, a) /\ home[a] = g
    BY DEF WaitingIsAnswerable
  <2>1. Waits(h, a)
    BY DEF WaitInv
  <2> QED
    BY <2>1 DEF Waits, SingleCall
<1>2. Init => ReportInv
  BY DEF Init, ReportInv, Handler, Steps
<1>3. Spec => []ReportInv
  BY <1>2, ReportStep, LifecycleInvariance, PTL DEF Spec
<1>4. Spec => []WaitInv
  BY <1>3, WaitInit, WaitStep, LifecycleInvariance, PTL DEF Spec
<1> QED
  BY <1>1, <1>4, PTL

=============================================================================
