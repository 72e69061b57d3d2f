--------------------------- MODULE AppLifecycle_proofs ---------------------------
(***************************************************************************)
(* Proofs of the safety of the applications' life, for every set of        *)
(* applications, agents and hosts and under every fault: lost, late and    *)
(* failing calls, agents and managers that end and start.                  *)
(***************************************************************************)
EXTENDS AppLifecycle, AgentLauncher_proofs

(* What Submit's progress says of the launcher and of the other handlers *)
SubmitInv ==
  \A a \in App :
    /\ pc["Submit"][a] \in {"placing", "ok"} => launch[a] = "ok"
    /\ a \in apps \cup known => pc["Submit"][a] = "ok"
    /\ pc["Kill"][a] # "idle" => pc["Submit"][a] = "ok"
    /\ pc["Deregister"][a] # "idle" => pc["Submit"][a] = "ok"
    /\ pc["NotifyDone"][a] \in {"fanout", "deleting", "ok"} => pc["Submit"][a] = "ok"

(* NotifyDone is called for what has ended, and leaves no entry behind *)
NotifyInv ==
  \A a \in App :
    /\ pc["NotifyDone"][a] # "idle" => proc[a] = "exited"
    /\ pc["NotifyDone"][a] = "ok" => a \notin apps

(* A manager that is down has no entries and runs no handler *)
DownInv ==
  ~mgrUp => apps = {} /\ \A h \in Handler, a \in App : pc[h][a] \in Ended

(* Agents are asked to monitor, and monitor, what was launched *)
MonitorInv ==
  /\ \A r \in net : r.op = "Register" => launch[r.app] = "ok" /\ r.app \in monitored
  /\ \A g \in Agent : \A a \in moniApps[g] : launch[a] = "ok" /\ a \in monitored

LifecycleInv ==
  /\ LauncherInv
  /\ TypeOK
  /\ SubmitInv
  /\ NotifyInv
  /\ DownInv
  /\ MonitorInv

USE LifecycleAssumption

-----------------------------------------------------------------------------
(* The types.                                                               *)

LEMMA Handlers ==
  /\ Handler = {"Submit", "Kill", "Deregister", "NotifyDone"}
  /\ Steps["Submit"] = {"idle", "ok", "err", "launching", "placing"}
  /\ Steps["Kill"] = {"idle", "ok", "err", "fanout", "locating", "killing"}
  /\ Steps["Deregister"] = {"idle", "ok", "err", "fanout"}
  /\ Steps["NotifyDone"] = {"idle", "ok", "err", "called", "fanout", "deleting"}
  BY DEF Handler, Steps, Ended

(* The types of what Goto and the calls change *)
PcOK ==
  /\ pc \in [Handler -> [App -> UNION {Steps[h] : h \in Handler}]]
  /\ \A h \in Handler, a \in App : pc[h][a] \in Steps[h]

CallsOK ==
  /\ await \in [Handler -> [App -> SUBSET Agent]]
  /\ net \subseteq Request

LEMMA GotoType ==
  ASSUME PcOK, NEW h \in Handler, NEW a \in App, NEW step \in Steps[h],
         Goto(h, a, step)
  PROVE  PcOK'
<1>1. step \in UNION {Steps[k] : k \in Handler}
  OBVIOUS
<1>2. pc' \in [Handler -> [App -> UNION {Steps[k] : k \in Handler}]]
  BY <1>1 DEF PcOK, Goto
<1>3. ASSUME NEW k \in Handler, NEW b \in App PROVE pc'[k][b] \in Steps[k]
  BY <1>1 DEF PcOK, Goto
<1> QED
  BY <1>2, <1>3 DEF PcOK

LEMMA CallAllType ==
  ASSUME CallsOK, NEW op \in {"Launch", "Kill", "Register", "Deregister"},
         NEW a \in App, NEW G \in SUBSET Agent, NEW h \in Handler,
         CallAll(op, a, G, h)
  PROVE  CallsOK'
  BY DEF CallsOK, CallAll, Call, Request

LEMMA AnswerType ==
  ASSUME CallsOK, NEW r \in net, Answer(r)
  PROVE  CallsOK'
  BY DEF CallsOK, Answer, Request

(* Every step is a step of the launchers or leaves them alone *)
LEMMA StepOfLaunchers ==
  LauncherInv /\ TypeOK /\ [Next]_vars => [LauncherNext]_launcherVars
<1> SUFFICES ASSUME LauncherInv, TypeOK, Next PROVE [LauncherNext]_launcherVars
  BY DEF vars
<1> USE DEF launcherVars
<1>1. ASSUME NEW r \in net, AgentHandles(r) PROVE [LauncherNext]_launcherVars
  <2>1. r.to \in Agent /\ r.app \in App
    BY DEF TypeOK, Request
  <2>2. CASE HandleLaunch(r)
    BY <2>1, <2>2 DEF HandleLaunch, LauncherNext
  <2>3. CASE HandleRegister(r)
    BY <2>3 DEF HandleRegister
  <2>4. CASE HandleDeregister(r)
    BY <2>4 DEF HandleDeregister
  <2>5. CASE HandleKill(r)
    BY <2>1, <2>5 DEF HandleKill, LauncherNext
  <2>6. CASE NilDeregister(r)
    BY <2>1, <2>6 DEF NilDeregister, LauncherNext
  <2> QED
    BY <1>1, <2>2, <2>3, <2>4, <2>5, <2>6 DEF AgentHandles
<1>2. ASSUME NEW g \in Agent, NEW a \in App, AgentStep(g, a) \/ KillDone(g, a)
      PROVE  [LauncherNext]_launcherVars
  BY <1>2 DEF AgentStep, KillDone, LauncherNext, AppStep
<1>3. ASSUME NEW a \in App, CallNotifyDone(a) \/ NotifyAnswered(a)
      PROVE  [LauncherNext]_launcherVars
  <2>1. home[a] \in Agent
    BY <1>3 DEF CallNotifyDone, NotifyAnswered, StoreEnd, NotifyReturn, LauncherInv, ProcInv
  <2> QED
    BY <1>3, <2>1 DEF CallNotifyDone, NotifyAnswered, LauncherNext, AppStep
<1>4. ASSUME NEW a \in App, ProcessExit(a) \/ OutputEnds(a) \/ LaunchExpires(a)
      PROVE  [LauncherNext]_launcherVars
  BY <1>4 DEF ProcessExit, OutputEnds, LaunchExpires, LauncherNext
<1>5. ASSUME NEW g \in Agent, AgentStartsApp(g) \/ AgentDown(g)
      PROVE  [LauncherNext]_launcherVars
  BY <1>5 DEF AgentStartsApp, AgentDown, LauncherNext
<1>6. ASSUME NEW g \in Agent, Join(g) \/ Expire(g)
      PROVE  [LauncherNext]_launcherVars
  BY <1>6 DEF Join, Expire
<1>7. ASSUME NEW a \in App,
             Kill(a) \/ Deregister(a) \/ SubmitStep(a) \/ KillStep(a) \/ NotifyStep(a)
      PROVE  [LauncherNext]_launcherVars
  BY <1>7
  DEF Kill, Deregister, Asks, SubmitStep, Launched, LaunchFailed, Store, LearnsId,
      KillStep, KillCall, KillPanics, NotifyStep, NotifyDone, NotifyPanics, NotifyDelete,
      ManagerDown
<1>8. ASSUME NEW a \in App, NEW h \in Host, NEW moni \in BOOLEAN, Submit(a, h, moni)
      PROVE  [LauncherNext]_launcherVars
  BY <1>8 DEF Submit
<1>9. ASSUME NEW h \in Handler, NEW a \in App, EndDeregister(h, a)
      PROVE  [LauncherNext]_launcherVars
  BY <1>9 DEF EndDeregister
<1>10. ASSUME NEW h \in Handler, NEW a \in App, NEW g \in Agent, CallFailed(h, a, g)
       PROVE  [LauncherNext]_launcherVars
  BY <1>10 DEF CallFailed
<1>11. CASE StopManager \/ StartManager
  BY <1>11 DEF StopManager, ManagerDown, StartManager
<1> QED
  BY <1>1, <1>2, <1>3, <1>4, <1>5, <1>6, <1>7, <1>8, <1>9, <1>10, <1>11
  DEF Next

(* Every step keeps the types of the manager's variables *)
LEMMA ManagerTypeStep ==
  TypeOK /\ LauncherTypeOK' /\ [Next]_vars => TypeOK'
<1> SUFFICES ASSUME TypeOK, LauncherTypeOK', [Next]_vars PROVE TypeOK'
  OBVIOUS
<1> DEFINE TablesOK ==
             /\ mgrUp \in BOOLEAN /\ agents \subseteq Agent /\ apps \subseteq App
             /\ entryNode \in [App -> Host] /\ monitored \subseteq App
             /\ moniApps \in [Agent -> SUBSET App] /\ known \subseteq App
<1> USE DEF directory, submission, calls
<1>a. TypeOK <=> LauncherTypeOK /\ TablesOK /\ PcOK /\ CallsOK
  BY DEF TypeOK, PcOK, CallsOK
<1>b. TypeOK' <=> LauncherTypeOK' /\ TablesOK' /\ PcOK' /\ CallsOK'
  BY DEF TypeOK, PcOK, CallsOK
<1> HIDE DEF TablesOK
<1>u. UNCHANGED pc => PcOK'
  BY <1>a DEF PcOK
<1>v. UNCHANGED <<await, net>> => CallsOK'
  BY <1>a DEF CallsOK
<1>w. UNCHANGED <<directory, apps, submission, moniApps, known>> => TablesOK'
  BY <1>a DEF TablesOK
<1>d. ASSUME ManagerDown PROVE TypeOK'
  <2>1. PcOK'
    BY <1>a, <1>d, Handlers DEF ManagerDown, PcOK
  <2>2. CallsOK'
    BY <1>a, <1>d DEF ManagerDown, CallsOK
  <2>3. TablesOK'
    BY <1>a, <1>d DEF ManagerDown, TablesOK
  <2> QED
    BY <1>b, <2>1, <2>2, <2>3
<1>g. ASSUME NEW g \in Agent, AgentGone(g) PROVE TypeOK'
  BY <1>g, <1>a, <1>b, <1>u DEF AgentGone, CallsOK, TablesOK
<1>1. ASSUME NEW a \in App, NEW h \in Host, NEW moni \in BOOLEAN, Submit(a, h, moni)
      PROVE  TypeOK'
  <2>1. PcOK'
    BY <1>1, <1>a, GotoType, Handlers DEF Submit
  <2>2. CallsOK'
    <3>1. PICK g \in findNode(h) : CallAll("Launch", a, {g}, "Submit")
      BY <1>1 DEF Submit
    <3>2. {g} \in SUBSET Agent
      BY <1>a DEF findNode, TablesOK
    <3> QED
      BY <3>1, <3>2, <1>a, CallAllType, Handlers
  <2>3. TablesOK'
    BY <1>1, <1>a DEF Submit, TablesOK
  <2> QED
    BY <1>b, <2>1, <2>2, <2>3
<1>2. ASSUME NEW a \in App, Kill(a) \/ Deregister(a) PROVE TypeOK'
  <2>1. TablesOK'
    BY <1>2, <1>w DEF Kill, Deregister, Asks
  <2>2. agents \in SUBSET Agent
    BY <1>a DEF TablesOK
  <2>3. PcOK' /\ CallsOK'
    <3>1. CASE Kill(a)
      BY <3>1, <2>2, <1>a, <1>v, GotoType, CallAllType, Handlers
      DEF Kill, NoSuchApp, StartDeregister
    <3>2. CASE Deregister(a)
      BY <3>2, <2>2, <1>a, <1>v, GotoType, CallAllType, Handlers
      DEF Deregister, NoSuchApp, StartDeregister
    <3> QED
      BY <1>2, <3>1, <3>2
  <2> QED
    BY <1>b, <2>1, <2>3
<1>3. ASSUME NEW a \in App, SubmitStep(a) PROVE TypeOK'
  <2>1. CASE Launched(a)
    <3>1. (IF a \in monitored THEN agents ELSE {}) \in SUBSET Agent
      BY <1>a DEF TablesOK
    <3>2. PcOK' /\ CallsOK'
      BY <2>1, <3>1, <1>a, GotoType, CallAllType, Handlers DEF Launched
    <3> QED
      BY <2>1, <3>2, <1>b, <1>w DEF Launched
  <2>2. CASE LaunchFailed(a)
    <3>1. PcOK'
      BY <2>2, <1>a, GotoType, Handlers DEF LaunchFailed
    <3>2. CallsOK'
      BY <2>2, <1>a, Handlers DEF LaunchFailed, CallsOK
    <3> QED
      BY <2>2, <3>1, <3>2, <1>b, <1>w DEF LaunchFailed
  <2>3. CASE Store(a)
    <3>1. PcOK'
      BY <2>3, <1>a, GotoType, Handlers DEF Store
    <3>2. TablesOK'
      BY <2>3, <1>a DEF Store, LearnsId, TablesOK
    <3> QED
      BY <2>3, <3>1, <3>2, <1>b, <1>v DEF Store
  <2> QED
    BY <1>3, <2>1, <2>2, <2>3 DEF SubmitStep
<1>4. ASSUME NEW a \in App, KillStep(a) PROVE TypeOK'
  <2>1. CASE KillCall(a)
    <3>1. PICK g \in findNode(entryNode[a]) : CallAll("Kill", a, {g}, "Kill")
      BY <2>1 DEF KillCall
    <3>2. {g} \in SUBSET Agent
      BY <1>a DEF findNode, TablesOK
    <3>3. CallsOK'
      BY <3>1, <3>2, <1>a, CallAllType, Handlers
    <3>4. PcOK'
      BY <2>1, <1>a, GotoType, Handlers DEF KillCall
    <3> QED
      BY <2>1, <3>3, <3>4, <1>b, <1>w DEF KillCall
  <2> QED
    BY <1>4, <1>d, <2>1 DEF KillStep, KillPanics
<1>5. ASSUME NEW a \in App, NotifyStep(a) PROVE TypeOK'
  <2>1. CASE NotifyDone(a)
    <3>1. agents \in SUBSET Agent
      BY <1>a DEF TablesOK
    <3>2. PcOK' /\ CallsOK'
      BY <2>1, <3>1, <1>a, <1>v, GotoType, CallAllType, Handlers
      DEF NotifyDone, StartDeregister
    <3> QED
      BY <2>1, <3>2, <1>b, <1>w DEF NotifyDone
  <2>2. CASE NotifyDelete(a)
    <3>1. PcOK'
      BY <2>2, <1>a, GotoType, Handlers DEF NotifyDelete
    <3>2. TablesOK'
      BY <2>2, <1>a DEF NotifyDelete, TablesOK
    <3> QED
      BY <2>2, <3>1, <3>2, <1>b, <1>v DEF NotifyDelete
  <2> QED
    BY <1>5, <1>d, <2>1, <2>2 DEF NotifyStep, NotifyPanics
<1>6. ASSUME NEW h \in Handler, NEW a \in App, EndDeregister(h, a) PROVE TypeOK'
  <2>1. h # "Submit"
    BY <1>6, <1>a, Handlers DEF EndDeregister, PcOK
  <2>2. (CASE h = "Kill" -> "locating" [] h = "NotifyDone" -> "deleting"
           [] OTHER -> "ok") \in Steps[h]
    BY <2>1, Handlers
  <2>3. PcOK'
    BY <1>6, <2>2, <1>a, GotoType DEF EndDeregister
  <2>4. TablesOK'
    BY <1>6, <1>a DEF EndDeregister, TablesOK
  <2> QED
    BY <1>6, <2>3, <2>4, <1>b, <1>v DEF EndDeregister
<1>7. ASSUME NEW r \in net, AgentHandles(r) PROVE TypeOK'
  <2>1. /\ r.to \in Agent /\ r.app \in App
        /\ net \ {r} \subseteq Request
    BY <1>a DEF CallsOK, Request
  <2>2. CASE HandleLaunch(r)
    BY <2>1, <2>2, <1>a, <1>b, <1>u, <1>w DEF HandleLaunch, CallsOK
  <2>3. CASE HandleRegister(r)
    <3>1. TablesOK'
      BY <2>1, <2>3, <1>a DEF HandleRegister, TablesOK
    <3> QED
      BY <2>3, <3>1, <1>a, <1>b, <1>u, AnswerType DEF HandleRegister
  <2>4. CASE HandleDeregister(r)
    <3>1. TablesOK'
      BY <2>1, <2>4, <1>a DEF HandleDeregister, TablesOK
    <3> QED
      BY <2>4, <3>1, <1>a, <1>b, <1>u, AnswerType DEF HandleDeregister
  <2>5. CASE HandleKill(r)
    <3>1. PcOK'
      BY <2>1, <2>5, <1>a, <1>u, GotoType, Handlers DEF HandleKill
    <3>2. CallsOK'
      BY <2>1, <2>5, <1>a, AnswerType DEF HandleKill, CallsOK
    <3> QED
      BY <2>5, <3>1, <3>2, <1>b, <1>w DEF HandleKill
  <2>6. CASE NilDeregister(r)
    BY <2>1, <2>6, <1>g DEF NilDeregister
  <2> QED
    BY <1>7, <2>2, <2>3, <2>4, <2>5, <2>6 DEF AgentHandles
<1>8. ASSUME NEW h \in Handler, NEW a \in App, NEW g \in Agent, CallFailed(h, a, g)
      PROVE  TypeOK'
  <2>1. PcOK'
    <3>1. pc[h][a] = "killing" => h = "Kill"
      BY <1>a, Handlers DEF PcOK
    <3> QED
      BY <3>1, <1>8, <1>a, <1>u, GotoType, Handlers DEF CallFailed
  <2>2. CallsOK'
    BY <1>8, <1>a DEF CallFailed, CallsOK
  <2> QED
    BY <1>8, <2>1, <2>2, <1>b, <1>w DEF CallFailed
<1>9. ASSUME NEW g \in Agent, NEW a \in App, AgentStep(g, a) PROVE TypeOK'
  BY <1>9, <1>b, <1>u, <1>v, <1>w DEF AgentStep, managerVars
<1>10. ASSUME NEW a \in App, CallNotifyDone(a) \/ NotifyAnswered(a) PROVE TypeOK'
  <2>1. PcOK'
    BY <1>10, <1>a, <1>u, GotoType, Handlers DEF CallNotifyDone, NotifyAnswered
  <2> QED
    BY <1>10, <2>1, <1>b, <1>v, <1>w DEF CallNotifyDone, NotifyAnswered
<1>11. ASSUME NEW a \in App, ProcessExit(a) \/ OutputEnds(a) \/ LaunchExpires(a)
       PROVE  TypeOK'
  BY <1>11, <1>b, <1>u, <1>v, <1>w DEF ProcessExit, OutputEnds, LaunchExpires, managerVars
<1>12. ASSUME NEW g \in Agent,
              AgentStartsApp(g) \/ AgentDown(g) \/ Join(g) \/ Expire(g)
       PROVE  TypeOK'
  <2>1. CASE AgentStartsApp(g)
    BY <2>1, <1>b, <1>u, <1>v, <1>w DEF AgentStartsApp, managerVars
  <2>2. CASE AgentDown(g)
    BY <2>2, <1>g DEF AgentDown
  <2>3. CASE Join(g) \/ Expire(g)
    BY <2>3, <1>a, <1>b, <1>u, <1>v DEF Join, Expire, TablesOK
  <2> QED
    BY <1>12, <2>1, <2>2, <2>3
<1>13. ASSUME NEW g \in Agent, NEW a \in App, KillDone(g, a) PROVE TypeOK'
  <2>1. PcOK'
    BY <1>13, <1>a, <1>u, GotoType, Handlers DEF KillDone
  <2>2. CallsOK'
    BY <1>13, <1>a, Handlers DEF KillDone, CallsOK
  <2> QED
    BY <1>13, <2>1, <2>2, <1>b, <1>w DEF KillDone
<1>14. CASE StopManager \/ StartManager
  BY <1>14, <1>a, <1>b, <1>d, <1>u, <1>v DEF StopManager, StartManager, TablesOK
<1>15. CASE UNCHANGED vars
  BY <1>15, <1>b, <1>u, <1>v, <1>w DEF vars, managerVars
<1> QED
  BY <1>1, <1>2, <1>3, <1>4, <1>5, <1>6, <1>7, <1>8, <1>9, <1>10, <1>11, <1>12,
     <1>13, <1>14, <1>15
  DEF Next

-----------------------------------------------------------------------------
(* The inductive invariant.                                                 *)

LEMMA LifecycleInvInit == Init => LifecycleInv
<1> SUFFICES ASSUME Init PROVE LifecycleInv
  OBVIOUS
<1>1. LauncherInv
  BY LauncherInvInit DEF Init
<1>2. TypeOK
  BY <1>1, Handlers DEF Init, TypeOK, LauncherInv
<1>3. SubmitInv /\ NotifyInv /\ DownInv /\ MonitorInv
  BY Handlers DEF Init, SubmitInv, NotifyInv, DownInv, MonitorInv
<1> QED
  BY <1>1, <1>2, <1>3 DEF LifecycleInv

(* What Goto changes and what it leaves alone *)
LEMMA GotoFrame ==
  ASSUME TypeOK, NEW h \in Handler, NEW a \in App, NEW step, Goto(h, a, step)
  PROVE  /\ pc'[h][a] = step
         /\ \A b \in App : b # a => pc'[h][b] = pc[h][b]
         /\ \A k \in Handler : k # h => pc'[k] = pc[k]
  BY DEF TypeOK, Goto

(* Nothing is taken back of a launch that succeeded or a process that ended *)
Stable ==
  \A a \in App : /\ launch[a] = "ok" => launch'[a] = "ok"
                 /\ proc[a] = "exited" => proc'[a] = "exited"

(* When one handler's step keeps SubmitInv *)
LEMMA SubmitKept ==
  ASSUME TypeOK, SubmitInv, Stable, NEW h \in Handler, NEW a \in App, NEW step,
         Goto(h, a, step),
         h = "Submit" => /\ step \in {"placing", "ok"} => launch[a] = "ok"
                         /\ pc["Submit"][a] = "ok" => step = "ok",
         h # "Submit" => \/ pc["Submit"][a] = "ok"
                         \/ h = "NotifyDone" /\ step \notin {"fanout", "deleting", "ok"},
         \A b \in apps' \cup known' :
           b \in apps \cup known \/ (b = a /\ h = "Submit" /\ step = "ok")
  PROVE  SubmitInv'
<1> SUFFICES ASSUME NEW b \in App
             PROVE  /\ pc'["Submit"][b] \in {"placing", "ok"} => launch'[b] = "ok"
                    /\ b \in apps' \cup known' => pc'["Submit"][b] = "ok"
                    /\ pc'["Kill"][b] # "idle" => pc'["Submit"][b] = "ok"
                    /\ pc'["Deregister"][b] # "idle" => pc'["Submit"][b] = "ok"
                    /\ pc'["NotifyDone"][b] \in {"fanout", "deleting", "ok"}
                         => pc'["Submit"][b] = "ok"
  BY DEF SubmitInv
<1>1. CASE b = a
  BY <1>1, GotoFrame, Handlers DEF SubmitInv, Stable
<1>2. CASE b # a
  BY <1>2, GotoFrame, Handlers DEF SubmitInv, Stable
<1> QED
  BY <1>1, <1>2

(* When it keeps NotifyInv *)
LEMMA NotifyKept ==
  ASSUME TypeOK, NotifyInv, Stable, NEW h \in Handler, NEW a \in App, NEW step,
         Goto(h, a, step),
         h = "NotifyDone" => proc'[a] = "exited" /\ (step = "ok" => a \notin apps'),
         \A b \in apps' : b \in apps \/ (b = a /\ pc'["NotifyDone"][a] # "ok")
  PROVE  NotifyInv'
<1> SUFFICES ASSUME NEW b \in App
             PROVE  /\ pc'["NotifyDone"][b] # "idle" => proc'[b] = "exited"
                    /\ pc'["NotifyDone"][b] = "ok" => b \notin apps'
  BY DEF NotifyInv
<1>1. CASE b = a
  BY <1>1, GotoFrame, Handlers DEF NotifyInv, Stable
<1>2. CASE b # a
  BY <1>2, GotoFrame, Handlers DEF NotifyInv, Stable
<1> QED
  BY <1>1, <1>2

(* When it keeps DownInv *)
LEMMA DownKept ==
  ASSUME TypeOK, DownInv, NEW h \in Handler, NEW a \in App, NEW step,
         Goto(h, a, step), mgrUp' = mgrUp,
         mgrUp \/ (step \in Ended /\ apps' \subseteq apps)
  PROVE  DownInv'
  BY GotoFrame DEF DownInv

(* When a step keeps MonitorInv *)
LEMMA MonitorKept ==
  ASSUME TypeOK, MonitorInv, Stable, monitored \subseteq monitored',
         \A r \in net' : r \in net \/ r.op # "Register"
                         \/ (r.app \in monitored /\ launch[r.app] = "ok" /\ r.app \in App),
         \A g \in Agent : \A a \in moniApps'[g] :
           a \in moniApps[g] \/ (\E r \in net : r.op = "Register" /\ r.app = a)
  PROVE  MonitorInv'
<1>1. ASSUME NEW r \in net', r.op = "Register"
      PROVE  launch'[r.app] = "ok" /\ r.app \in monitored'
  BY <1>1 DEF MonitorInv, Stable, TypeOK, Request
<1>2. ASSUME NEW g \in Agent, NEW a \in moniApps'[g]
      PROVE  launch'[a] = "ok" /\ a \in monitored'
  <2>1. CASE a \in moniApps[g]
    <3>1. a \in App
      BY <2>1 DEF TypeOK
    <3> QED
      BY <2>1, <3>1 DEF MonitorInv, Stable
  <2>2. CASE \E r \in net : r.op = "Register" /\ r.app = a
    <3>1. PICK r \in net : r.op = "Register" /\ r.app = a
      BY <2>2
    <3>2. r.app \in App
      BY DEF TypeOK, Request
    <3> QED
      BY <3>1, <3>2 DEF MonitorInv, Stable
  <2> QED
    BY <2>1, <2>2
<1> QED
  BY <1>1, <1>2 DEF MonitorInv

(* When no handler of the manager moves *)
LEMMA PcKept ==
  ASSUME SubmitInv, NotifyInv, DownInv, Stable, UNCHANGED <<mgrUp, apps, pc, known>>
  PROVE  SubmitInv' /\ NotifyInv' /\ DownInv'
  BY DEF SubmitInv, NotifyInv, DownInv, Stable

(* Only a handler that runs is answered *)
LEMMA KillAwaited ==
  ASSUME TypeOK, NEW r \in net, r.op = "Kill", Awaited(r)
  PROVE  r.by = "Kill" /\ pc["Kill"][r.app] = "killing"
<1>1. pc[r.by][r.app] = "killing" /\ r.by \in Handler /\ r.app \in App
  BY DEF Awaited, WaitsAt, TypeOK, Request
<1>2. pc[r.by][r.app] \in Steps[r.by]
  BY <1>1 DEF TypeOK
<1>3. r.by = "Kill"
  BY <1>1, <1>2, Handlers
<1> QED
  BY <1>1, <1>3

(* Every step keeps the invariant *)
LEMMA LifecycleInvStep == LifecycleInv /\ [Next]_vars => LifecycleInv'
<1> SUFFICES ASSUME LifecycleInv, [Next]_vars PROVE LifecycleInv'
  OBVIOUS
<1>1. LauncherInv /\ TypeOK /\ SubmitInv /\ NotifyInv /\ DownInv /\ MonitorInv
  BY DEF LifecycleInv
<1>2. LauncherInv' /\ TypeOK' /\ Stable
  <2>1. [LauncherNext]_launcherVars
    BY <1>1, StepOfLaunchers
  <2>2. LauncherInv'
    BY <1>1, <2>1, LauncherInvStep
  <2>3. LauncherTypeOK'
    BY <2>2 DEF LauncherInv
  <2>4. TypeOK'
    BY <1>1, <2>3, ManagerTypeStep
  <2>5. Stable
    BY <1>1, <2>1, LauncherStable DEF Stable
  <2> QED
    BY <2>2, <2>4, <2>5
<1> DEFINE J == SubmitInv /\ NotifyInv /\ DownInv /\ MonitorInv
<1> USE DEF directory, submission, calls
<1>d. ASSUME ManagerDown PROVE J'
  <2>1. /\ \A h \in Handler, a \in App :
             pc'[h][a] = IF pc[h][a] \in Ended THEN pc[h][a] ELSE "err"
        /\ apps' = {} /\ UNCHANGED <<launch, proc, known>>
    BY <1>d DEF ManagerDown, launcherVars
  <2>2. SubmitInv'
    BY <1>1, <2>1, Handlers DEF SubmitInv, Ended
  <2>3. NotifyInv' /\ DownInv'
    BY <1>1, <2>1, Handlers DEF NotifyInv, DownInv, Ended
  <2>4. MonitorInv'
    BY <1>1, <1>2, <1>d, MonitorKept DEF ManagerDown
  <2> QED
    BY <2>2, <2>3, <2>4
<1>l. ASSUME UNCHANGED managerVars PROVE J'
  BY <1>l, <1>1, <1>2, PcKept, MonitorKept DEF managerVars
<1>4. ASSUME NEW a \in App, NEW h \in Host, NEW moni \in BOOLEAN, Submit(a, h, moni)
      PROVE  J'
  <2>1. SubmitInv' /\ NotifyInv' /\ DownInv'
    BY <1>1, <1>2, <1>4, SubmitKept, NotifyKept, DownKept, Handlers DEF Submit
  <2>2. MonitorInv'
    BY <1>1, <1>2, <1>4, MonitorKept DEF Submit, CallAll, Call
  <2> QED
    BY <2>1, <2>2
<1>5. ASSUME NEW a \in App, NEW h \in {"Kill", "Deregister"}, NEW step,
             Asks(h, a), Goto(h, a, step),
             UNCHANGED calls \/ CallAll("Deregister", a, agents, h)
      PROVE  J'
  <2>1. SubmitInv' /\ NotifyInv' /\ DownInv'
    BY <1>1, <1>2, <1>5, SubmitKept, NotifyKept, DownKept, Handlers DEF Asks, SubmitInv
  <2>2. MonitorInv'
    BY <1>1, <1>2, <1>5, MonitorKept DEF Asks, CallAll, Call
  <2> QED
    BY <2>1, <2>2
<1>6. ASSUME NEW a \in App, SubmitStep(a) PROVE J'
  <2>1. mgrUp
    BY <1>1, <1>6, Handlers
    DEF SubmitStep, Launched, LaunchFailed, Store, DownInv, Ended
  <2>2. SubmitInv'
    BY <1>1, <1>2, <1>6, SubmitKept, Handlers
    DEF SubmitStep, Launched, LaunchFailed, Store, LearnsId, SubmitInv
  <2>3. NotifyInv'
    <3>1. pc["NotifyDone"][a] # "ok" \/ pc["Submit"][a] = "ok"
      BY <1>1 DEF SubmitInv
    <3>2. pc'["NotifyDone"][a] = pc["NotifyDone"][a]
      BY <1>1, <1>6, GotoFrame, Handlers DEF SubmitStep, Launched, LaunchFailed, Store
    <3> QED
      BY <1>1, <1>2, <1>6, <3>1, <3>2, NotifyKept, Handlers
      DEF SubmitStep, Launched, LaunchFailed, Store
  <2>4. DownInv'
    BY <1>1, <1>6, <2>1, DownKept, Handlers DEF SubmitStep, Launched, LaunchFailed, Store
  <2>5. MonitorInv'
    <3>1. \A r \in net' : r \in net \/ r.op # "Register"
                          \/ (r.app \in monitored /\ launch[r.app] = "ok" /\ r.app \in App)
      BY <1>6 DEF SubmitStep, Launched, LaunchFailed, Store, CallAll, Call
    <3> QED
      BY <1>1, <1>2, <1>6, <3>1, MonitorKept DEF SubmitStep, Launched, LaunchFailed, Store
  <2> QED
    BY <2>2, <2>3, <2>4, <2>5
<1>7. ASSUME NEW a \in App, KillStep(a) PROVE J'
  <2>1. CASE KillCall(a)
    <3>1. mgrUp /\ pc["Submit"][a] = "ok"
      BY <1>1, <2>1, Handlers DEF KillCall, DownInv, SubmitInv, Ended
    <3>2. SubmitInv' /\ NotifyInv' /\ DownInv'
      BY <1>1, <1>2, <2>1, <3>1, SubmitKept, NotifyKept, DownKept, Handlers DEF KillCall
    <3>3. MonitorInv'
      BY <1>1, <1>2, <2>1, MonitorKept DEF KillCall, CallAll, Call
    <3> QED
      BY <3>2, <3>3
  <2> QED
    BY <1>7, <1>d, <2>1 DEF KillStep, KillPanics
<1>8. ASSUME NEW a \in App, NotifyStep(a) PROVE J'
  <2>1. CASE NotifyDone(a) \/ NotifyDelete(a)
    <3>1. mgrUp /\ pc["Submit"][a] = "ok" /\ proc'[a] = "exited"
      BY <1>1, <1>2, <2>1, Handlers
      DEF NotifyDone, NotifyDelete, DownInv, SubmitInv, NotifyInv, Stable, Ended
    <3>2. SubmitInv'
      BY <1>1, <1>2, <2>1, <3>1, SubmitKept, Handlers
      DEF NotifyDone, NotifyDelete, StartDeregister
    <3>3. NotifyInv' /\ DownInv'
      BY <1>1, <1>2, <2>1, <3>1, NotifyKept, DownKept, Handlers
      DEF NotifyDone, NotifyDelete, StartDeregister
    <3>4. MonitorInv'
      BY <1>1, <1>2, <2>1, MonitorKept
      DEF NotifyDone, NotifyDelete, StartDeregister, CallAll, Call
    <3> QED
      BY <3>2, <3>3, <3>4
  <2> QED
    BY <1>8, <1>d, <2>1 DEF NotifyStep, NotifyPanics
<1>9. ASSUME NEW h \in Handler, NEW a \in App, EndDeregister(h, a) PROVE J'
  <2>1. mgrUp /\ h # "Submit" /\ pc["Submit"][a] = "ok"
    BY <1>1, <1>9, Handlers DEF EndDeregister, DownInv, SubmitInv, TypeOK, Ended
  <2>2. h = "NotifyDone" => proc'[a] = "exited"
    BY <1>1, <1>2, <1>9 DEF EndDeregister, NotifyInv, Stable
  <2>3. SubmitInv' /\ NotifyInv' /\ DownInv'
    BY <1>1, <1>2, <1>9, <2>1, <2>2, SubmitKept, NotifyKept, DownKept DEF EndDeregister
  <2>4. MonitorInv'
    BY <1>1, <1>2, <1>9, MonitorKept DEF EndDeregister
  <2> QED
    BY <2>3, <2>4
<1>10. ASSUME NEW r \in net, AgentHandles(r) PROVE J'
  <2>1. r.to \in Agent /\ r.app \in App
    BY <1>1 DEF TypeOK, Request
  <2>2. SubmitInv' /\ NotifyInv' /\ DownInv'
    <3>1. CASE UNCHANGED pc
      BY <1>1, <1>2, <1>10, <3>1, PcKept
      DEF AgentHandles, HandleLaunch, HandleRegister, HandleDeregister, HandleKill,
          NilDeregister, AgentGone
    <3>2. ASSUME Goto("Kill", r.app, "err"), Awaited(r), HandleKill(r)
          PROVE  SubmitInv' /\ NotifyInv' /\ DownInv'
      <4>1. pc["Submit"][r.app] = "ok"
        BY <1>1, <2>1, <3>2, KillAwaited DEF HandleKill, SubmitInv
      <4> QED
        BY <1>1, <1>2, <2>1, <3>2, <4>1, SubmitKept, NotifyKept, DownKept, Handlers
        DEF HandleKill, Ended
    <3> QED
      BY <1>10, <3>1, <3>2
      DEF AgentHandles, HandleLaunch, HandleRegister, HandleDeregister, HandleKill,
          NilDeregister, AgentGone
  <2>3. MonitorInv'
    <3>1. net' \subseteq net /\ monitored' = monitored
      BY <1>10
      DEF AgentHandles, HandleLaunch, HandleRegister, HandleDeregister, HandleKill, Answer,
          NilDeregister, AgentGone
    <3>2. \A g \in Agent : \A a \in moniApps'[g] :
            a \in moniApps[g] \/ (\E q \in net : q.op = "Register" /\ q.app = a)
      <4>1. CASE HandleRegister(r)
        BY <1>1, <2>1, <4>1 DEF HandleRegister, TypeOK
      <4>2. CASE HandleDeregister(r)
        BY <1>1, <2>1, <4>2 DEF HandleDeregister, TypeOK
      <4>3. CASE NilDeregister(r)
        BY <1>1, <2>1, <4>3 DEF NilDeregister, AgentGone, TypeOK
      <4>4. CASE UNCHANGED moniApps
        BY <4>4
      <4> QED
        BY <1>10, <4>1, <4>2, <4>3, <4>4 DEF AgentHandles, HandleLaunch, HandleKill
    <3> QED
      BY <1>1, <1>2, <3>1, <3>2, MonitorKept
  <2> QED
    BY <2>2, <2>3
<1>11. ASSUME NEW h \in Handler, NEW a \in App, NEW g \in Agent, CallFailed(h, a, g)
       PROVE  J'
  <2>1. MonitorInv'
    BY <1>1, <1>2, <1>11, MonitorKept DEF CallFailed
  <2>2. CASE UNCHANGED pc
    BY <1>1, <1>2, <1>11, <2>1, <2>2, PcKept DEF CallFailed
  <2>3. CASE pc[h][a] = "killing" /\ Goto(h, a, "err")
    <3>1. h = "Kill" /\ pc["Submit"][a] = "ok"
      BY <1>1, <2>3, Handlers DEF TypeOK, SubmitInv
    <3> QED
      BY <1>1, <1>2, <1>11, <2>1, <2>3, <3>1, SubmitKept, NotifyKept, DownKept, Handlers
      DEF CallFailed, Ended
  <2> QED
    BY <1>11, <2>2, <2>3 DEF CallFailed
<1>12. ASSUME NEW a \in App, CallNotifyDone(a) \/ NotifyAnswered(a) PROVE J'
  <2>1. MonitorInv'
    BY <1>1, <1>2, <1>12, MonitorKept DEF CallNotifyDone, NotifyAnswered
  <2>2. CASE UNCHANGED pc
    BY <1>1, <1>2, <1>12, <2>1, <2>2, PcKept DEF CallNotifyDone, NotifyAnswered
  <2>3. ASSUME NEW step \in {"called", "err"}, step = "called" => mgrUp,
               Goto("NotifyDone", a, step), proc[a] = "exited"
        PROVE  J'
    <3>1. proc'[a] = "exited"
      BY <1>2, <2>3 DEF Stable
    <3> QED
      BY <1>1, <1>2, <1>12, <2>1, <2>3, <3>1, SubmitKept, NotifyKept, DownKept, Handlers
      DEF CallNotifyDone, NotifyAnswered, Ended
  <2>4. proc[a] = "exited"
    BY <1>1, <1>12
    DEF CallNotifyDone, NotifyAnswered, StoreEnd, NotifyReturn, LauncherInv, ProcInv
  <2> QED
    BY <1>12, <2>2, <2>3, <2>4 DEF CallNotifyDone, NotifyAnswered
<1>13. ASSUME NEW g \in Agent, AgentDown(g) \/ Join(g) \/ Expire(g) PROVE J'
  <2>1. SubmitInv' /\ NotifyInv' /\ DownInv'
    BY <1>1, <1>2, <1>13, PcKept DEF AgentDown, AgentGone, Join, Expire
  <2>2. MonitorInv'
    BY <1>1, <1>2, <1>13, MonitorKept DEF AgentDown, AgentGone, Join, Expire, TypeOK
  <2> QED
    BY <2>1, <2>2
<1>14. ASSUME StartManager PROVE J'
  <2>1. SubmitInv' /\ NotifyInv'
    BY <1>1, <1>2, <1>14 DEF StartManager, SubmitInv, NotifyInv, Stable
  <2>2. DownInv'
    BY <1>14 DEF StartManager, DownInv
  <2>3. MonitorInv'
    BY <1>1, <1>2, <1>14, MonitorKept DEF StartManager
  <2> QED
    BY <2>1, <2>2, <2>3
<1>15. ASSUME NEW a \in App, Kill(a) \/ Deregister(a) PROVE J'
  <2>1. CASE Kill(a)
    <3>1. PICK step : /\ Goto("Kill", a, step)
                      /\ UNCHANGED calls \/ CallAll("Deregister", a, agents, "Kill")
      BY <2>1 DEF Kill, NoSuchApp, StartDeregister
    <3>2. Asks("Kill", a)
      BY <2>1 DEF Kill
    <3> QED
      BY <1>5, <3>1, <3>2
  <2>2. CASE Deregister(a)
    <3>1. PICK step :
            /\ Goto("Deregister", a, step)
            /\ UNCHANGED calls \/ CallAll("Deregister", a, agents, "Deregister")
      BY <2>2 DEF Deregister, NoSuchApp, StartDeregister
    <3>2. Asks("Deregister", a)
      BY <2>2 DEF Deregister
    <3> QED
      BY <1>5, <3>1, <3>2
  <2> QED
    BY <1>15, <2>1, <2>2
<1>16. ASSUME NEW g \in Agent, NEW a \in App, KillDone(g, a) PROVE J'
  <2>1. MonitorInv'
    BY <1>1, <1>2, <1>16, MonitorKept DEF KillDone
  <2>2. CASE UNCHANGED pc
    BY <1>1, <1>2, <1>16, <2>1, <2>2, PcKept DEF KillDone
  <2>3. CASE pc["Kill"][a] = "killing" /\ Goto("Kill", a, "ok")
    <3>1. pc["Submit"][a] = "ok"
      BY <1>1, <2>3 DEF SubmitInv
    <3> QED
      BY <1>1, <1>2, <1>16, <2>1, <2>3, <3>1, SubmitKept, NotifyKept, DownKept, Handlers
      DEF KillDone, Ended
  <2> QED
    BY <1>16, <2>2, <2>3 DEF KillDone, KillerWaits
<1>17. J'
  <2> HIDE DEF J
  <2> QED
    BY <1>d, <1>l, <1>4, <1>6, <1>7, <1>8, <1>9, <1>10, <1>11, <1>12, <1>13, <1>14,
       <1>15, <1>16
    DEF Next, vars, AgentStep, AgentStartsApp, ProcessExit, OutputEnds, LaunchExpires,
        StopManager
<1> QED
  BY <1>2, <1>17 DEF LifecycleInv

(* The invariant holds in every reachable state *)
THEOREM LifecycleInvariance == Spec => []LifecycleInv
  BY LifecycleInvInit, LifecycleInvStep, PTL DEF Spec

(* Type correctness of the composed system *)
THEOREM LifecycleTypes == Spec => []TypeOK
  BY LifecycleInvariance, PTL DEF LifecycleInv

(* An application whose NotifyDone has returned is not in the manager's     *)
(* table again, whatever slow handlers still do                             *)
THEOREM DoneForgotten == Spec => []DoneStaysForgotten
<1>1. LifecycleInv => DoneStaysForgotten
  BY DEF LifecycleInv, NotifyInv, DoneStaysForgotten
<1> QED
  BY <1>1, LifecycleInvariance, PTL

(* Agents monitor only what was started and submitted with monitoring *)
THEOREM MonitoredStarted == Spec => []MonitoredWasStarted
<1>1. LifecycleInv => MonitoredWasStarted
  BY DEF LifecycleInv, MonitorInv, TypeOK, LauncherInv, HandlerInv, MonitoredWasStarted
<1> QED
  BY <1>1, LifecycleInvariance, PTL

(* The manager's handlers do with the agents' launchers nothing that        *)
(* AgentLauncher does not allow: what holds of an agent whose Launch and    *)
(* Kill handlers are called at will holds of one that this manager calls.   *)
THEOREM LauncherComposed == Spec => LauncherInit /\ [][LauncherNext]_launcherVars
<1>1. Init => LauncherInit
  BY DEF Init
<1>2. LifecycleInv /\ [Next]_vars => [LauncherNext]_launcherVars
  BY StepOfLaunchers DEF LifecycleInv
<1> QED
  BY <1>1, <1>2, LifecycleInvariance, PTL DEF Spec

(* So the documents of applications, which updateDoc and storeOne write     *)
(* while Kill and NotifyDone are under way, follow AppRecord in the cluster *)
THEOREM RecordComposed == Spec => ImplementsAppRecord
  BY LauncherComposed, RecordKept

=============================================================================
