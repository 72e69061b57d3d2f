--------------------------- MODULE AppRegistry_proofs ---------------------------
(***************************************************************************)
(* Proof that the manager's handlers, composed with the agents and under   *)
(* every fault of AppLifecycle, implement the table AppRegistry promises.  *)
(***************************************************************************)
EXTENDS AppLifecycle_proofs

(* A step that moves no handler across the borders AppRegistry knows, and   *)
(* neither starts nor ends a process, is invisible in the registry.         *)
LEMMA RegistryStutter ==
  ASSUME UNCHANGED <<mgrUp, apps, proc>>,
         \A a \in App : /\ pc'["Submit"][a] = "ok" <=> pc["Submit"][a] = "ok"
                        /\ pc'["Kill"][a] = "idle" <=> pc["Kill"][a] = "idle"
                        /\ pc'["Deregister"][a] = "idle" <=> pc["Deregister"][a] = "idle"
  PROVE  UNCHANGED Registry!vars
  BY DEF Registry!vars, Registry!processes, StartedApps, EndedApps, AskedApps, EntryOf

(* The same for the step of one handler *)
LEMMA GotoStutter ==
  ASSUME TypeOK, UNCHANGED <<mgrUp, apps, proc>>,
         NEW h \in Handler, NEW a \in App, NEW step, Goto(h, a, step),
         h = "Submit" => step # "ok" /\ pc[h][a] # "ok",
         h \in {"Kill", "Deregister"} => step # "idle" /\ pc[h][a] # "idle"
  PROVE  UNCHANGED Registry!vars
<1>1. \A b \in App : /\ pc'["Submit"][b] = "ok" <=> pc["Submit"][b] = "ok"
                     /\ pc'["Kill"][b] = "idle" <=> pc["Kill"][b] = "idle"
                     /\ pc'["Deregister"][b] = "idle" <=> pc["Deregister"][b] = "idle"
  BY GotoFrame, Handlers
<1> QED
  BY <1>1, RegistryStutter

(* An entry that is deleted leaves for a reason, or was not there *)
LEMMA DeleteDrops ==
  ASSUME LifecycleInv, NEW h \in {"Kill", "Deregister", "NotifyDone"}, NEW a \in App,
         NEW step, step # "idle", Goto(h, a, step), apps' = apps \ {a},
         pc[h][a] \in {"fanout", "deleting"}, UNCHANGED <<mgrUp, proc>>
  PROVE  [Registry!Next]_(Registry!vars)
<1>1. TypeOK /\ SubmitInv /\ NotifyInv /\ DownInv
  BY DEF LifecycleInv
<1>2. pc["Submit"][a] = "ok" /\ mgrUp
  BY <1>1, Handlers DEF SubmitInv, DownInv, Ended
<1>3. h \in Handler /\ (h \in {"Kill", "Deregister"} => pc[h][a] # "idle")
  BY Handlers
<1>4. CASE a \notin apps
  <2>1. apps' = apps
    BY <1>4
  <2> QED
    BY <1>1, <1>3, <2>1, GotoStutter
<1>5. CASE a \in apps
  <2>1. pc'["Submit"] = pc["Submit"]
    BY <1>1, <1>3, GotoFrame, Handlers
  <2>2. AskedApps' = AskedApps
    BY <1>1, <1>3, GotoFrame, Handlers DEF AskedApps
  <2>3. EntryOf' = [EntryOf EXCEPT ![a] = "gone"]
    BY <1>2, <2>1 DEF EntryOf
  <2>4. a \in AskedApps \cup EndedApps
    BY <1>1, <1>3 DEF AskedApps, EndedApps, NotifyInv
  <2>5. EntryOf[a] = "live"
    BY <1>5 DEF EntryOf
  <2>6. UNCHANGED <<StartedApps, EndedApps>>
    BY DEF StartedApps, EndedApps
  <2>7. Registry!Drop(a)
    BY <1>2, <2>2, <2>3, <2>4, <2>5, <2>6 DEF Registry!Drop, Registry!processes
  <2> QED
    BY <2>7 DEF Registry!Next
<1> QED
  BY <1>4, <1>5

(* The end of the manager is the registry's *)
LEMMA DownCrashes ==
  ASSUME LifecycleInv, mgrUp, ManagerDown
  PROVE  Registry!Next
<1>1. \A h \in Handler, a \in App :
        pc'[h][a] = IF pc[h][a] \in Ended THEN pc[h][a] ELSE "err"
  BY DEF ManagerDown
<1>2. mgrUp' = FALSE /\ apps' = {} /\ UNCHANGED proc
  BY DEF ManagerDown, launcherVars
<1>3. UNCHANGED <<StartedApps, EndedApps, AskedApps>>
  BY <1>1, <1>2, Handlers DEF StartedApps, EndedApps, AskedApps, Ended
<1>4. EntryOf' = [a \in App |-> IF EntryOf[a] = "live" THEN "gone" ELSE EntryOf[a]]
  BY <1>1, <1>2, Handlers DEF EntryOf, Ended, LifecycleInv, SubmitInv
<1> QED
  BY <1>2, <1>3, <1>4 DEF Registry!Next, Registry!Crash, Registry!processes

(* Every step of the system is a step of the registry, or invisible in it *)
LEMMA RegistryStep ==
  LifecycleInv /\ [Next]_vars => [Registry!Next]_(Registry!vars)
<1> SUFFICES ASSUME LifecycleInv, [Next]_vars
             PROVE  [Registry!Next]_(Registry!vars)
  OBVIOUS
<1>0. TypeOK /\ SubmitInv /\ DownInv /\ LauncherInv
  BY DEF LifecycleInv
<1> USE DEF directory, submission, calls, launcherVars
<1>1. ASSUME UNCHANGED <<mgrUp, apps, pc, proc>> PROVE UNCHANGED Registry!vars
  BY <1>1, RegistryStutter
<1>2. ASSUME NEW a \in App, NEW h \in Host, NEW moni \in BOOLEAN, Submit(a, h, moni)
      PROVE  UNCHANGED Registry!vars
  BY <1>0, <1>2, GotoStutter, Handlers DEF Submit
<1>3. ASSUME NEW a \in App, NEW h \in {"Kill", "Deregister"}, NEW step,
             step # "idle", Asks(h, a), Goto(h, a, step)
      PROVE  Registry!Next
  <2>1. /\ UNCHANGED <<StartedApps, EndedApps>>
        /\ AskedApps' = AskedApps \cup {a}
        /\ pc'["Submit"] = pc["Submit"]
    BY <1>0, <1>3, GotoFrame, Handlers DEF Asks, StartedApps, EndedApps, AskedApps
  <2>2. EntryOf' = EntryOf /\ EntryOf[a] # "new" /\ mgrUp /\ mgrUp' = mgrUp
    BY <1>0, <1>3, <2>1 DEF Asks, SubmitInv, EntryOf
  <2>3. Registry!Ask(a)
    BY <2>1, <2>2 DEF Registry!Ask, Registry!processes
  <2> QED
    BY <2>3 DEF Registry!Next
<1>4. ASSUME NEW a \in App, Kill(a) \/ Deregister(a) PROVE Registry!Next
  <2>1. CASE Kill(a)
    <3>1. PICK step : step # "idle" /\ Goto("Kill", a, step)
      BY <2>1 DEF Kill, NoSuchApp, StartDeregister
    <3>2. Asks("Kill", a)
      BY <2>1 DEF Kill
    <3> QED
      BY <1>3, <3>1, <3>2
  <2>2. CASE Deregister(a)
    <3>1. PICK step : step # "idle" /\ Goto("Deregister", a, step)
      BY <2>2 DEF Deregister, NoSuchApp, StartDeregister
    <3>2. Asks("Deregister", a)
      BY <2>2 DEF Deregister
    <3> QED
      BY <1>3, <3>1, <3>2
  <2> QED
    BY <1>4, <2>1, <2>2
<1>5. ASSUME NEW a \in App, SubmitStep(a) PROVE [Registry!Next]_(Registry!vars)
  <2>1. CASE Launched(a) \/ LaunchFailed(a)
    BY <1>0, <2>1, GotoStutter, Handlers DEF Launched, LaunchFailed
  <2>2. CASE Store(a)
    <3>1. pc["Submit"][a] = "placing" /\ a \notin apps /\ mgrUp /\ mgrUp' = mgrUp
      BY <1>0, <2>2, Handlers DEF Store, SubmitInv, DownInv, Ended
    <3>2. a \in StartedApps
      BY <1>0, <3>1 DEF SubmitInv, LauncherInv, HandlerInv, StartedApps
    <3>3. UNCHANGED <<StartedApps, EndedApps, AskedApps>>
      BY <1>0, <2>2, GotoFrame, Handlers DEF Store, StartedApps, EndedApps, AskedApps
    <3>4. EntryOf[a] = "new" /\ EntryOf' = [EntryOf EXCEPT ![a] = "live"]
      <4>1. /\ pc'["Submit"][a] = "ok"
            /\ \A b \in App : b # a => pc'["Submit"][b] = pc["Submit"][b]
        BY <1>0, <2>2, GotoFrame, Handlers DEF Store
      <4>2. apps' = apps \cup {a}
        BY <2>2 DEF Store
      <4> QED
        BY <3>1, <4>1, <4>2 DEF EntryOf
    <3>5. Registry!Admit(a)
      BY <3>1, <3>2, <3>3, <3>4 DEF Registry!Admit, Registry!processes
    <3> QED
      BY <3>5 DEF Registry!Next
  <2> QED
    BY <1>5, <2>1, <2>2 DEF SubmitStep
<1>6. ASSUME NEW a \in App, KillStep(a) PROVE [Registry!Next]_(Registry!vars)
  <2>1. CASE KillCall(a)
    BY <1>0, <2>1, GotoStutter, Handlers DEF KillCall
  <2>2. CASE KillPanics(a)
    <3>1. mgrUp
      BY <1>0, <2>2, Handlers DEF KillPanics, DownInv, Ended
    <3> QED
      BY <2>2, <3>1, DownCrashes DEF KillPanics
  <2> QED
    BY <1>6, <2>1, <2>2 DEF KillStep
<1>7. ASSUME NEW a \in App, NotifyStep(a) PROVE [Registry!Next]_(Registry!vars)
  <2>1. CASE NotifyDone(a)
    BY <1>0, <2>1, GotoStutter, Handlers DEF NotifyDone, StartDeregister
  <2>2. CASE NotifyPanics(a)
    <3>1. mgrUp
      BY <1>0, <2>2, Handlers DEF NotifyPanics, DownInv, Ended
    <3> QED
      BY <2>2, <3>1, DownCrashes DEF NotifyPanics
  <2>3. CASE NotifyDelete(a)
    BY <2>3, DeleteDrops DEF NotifyDelete
  <2> QED
    BY <1>7, <2>1, <2>2, <2>3 DEF NotifyStep
<1>8. ASSUME NEW h \in Handler, NEW a \in App, EndDeregister(h, a)
      PROVE  [Registry!Next]_(Registry!vars)
  <2>1. h \in {"Kill", "Deregister", "NotifyDone"}
    BY <1>0, <1>8, Handlers DEF EndDeregister, TypeOK
  <2>2. PICK step : step # "idle" /\ Goto(h, a, step)
    BY <1>8 DEF EndDeregister
  <2> QED
    BY <1>8, <2>1, <2>2, DeleteDrops DEF EndDeregister
<1>9. ASSUME NEW r \in net, AgentHandles(r) PROVE UNCHANGED Registry!vars
  <2>1. r.app \in App /\ r.to \in Agent
    BY <1>0 DEF TypeOK, Request
  <2>2. UNCHANGED <<mgrUp, apps, proc>>
    BY <1>9
    DEF AgentHandles, HandleLaunch, HandleRegister, HandleDeregister, HandleKill,
        NilDeregister, AgentGone, NilReply, Down, RecvLaunch, RecvKill
  <2>3. CASE UNCHANGED pc
    BY <1>1, <2>2, <2>3
  <2>4. ASSUME Goto("Kill", r.app, "err"), r.op = "Kill", Awaited(r)
        PROVE  UNCHANGED Registry!vars
    <3>1. pc["Kill"][r.app] # "idle"
      BY <1>0, <2>4, KillAwaited
    <3> QED
      BY <1>0, <2>1, <2>2, <2>4, <3>1, GotoStutter, Handlers
  <2> QED
    BY <1>9, <2>3, <2>4
    DEF AgentHandles, HandleLaunch, HandleRegister, HandleDeregister, HandleKill,
        NilDeregister, AgentGone
<1>10. ASSUME NEW h \in Handler, NEW a \in App, NEW g \in Agent, CallFailed(h, a, g)
       PROVE  UNCHANGED Registry!vars
  <2>1. UNCHANGED <<mgrUp, apps, proc>>
    BY <1>10 DEF CallFailed
  <2>2. CASE UNCHANGED pc
    BY <1>1, <2>1, <2>2
  <2>3. CASE pc[h][a] = "killing" /\ Goto(h, a, "err")
    BY <1>0, <2>1, <2>3, GotoStutter, Handlers
  <2> QED
    BY <1>10, <2>2, <2>3 DEF CallFailed
<1>11. ASSUME NEW g \in Agent, NEW a \in App, AgentStep(g, a)
       PROVE  UNCHANGED Registry!vars
  BY <1>1, <1>11
  DEF AgentStep, managerVars, SendExec, AnswerLaunch, ListApp, StoreStart, Reap, Forget,
      KillDelete
<1>12. ASSUME NEW a \in App, CallNotifyDone(a) \/ NotifyAnswered(a)
       PROVE  UNCHANGED Registry!vars
  <2>1. UNCHANGED <<mgrUp, apps, proc>>
    BY <1>12 DEF CallNotifyDone, NotifyAnswered, StoreEnd, NotifyReturn
  <2>2. UNCHANGED pc \/ \E step : Goto("NotifyDone", a, step)
    BY <1>12 DEF CallNotifyDone, NotifyAnswered
  <2> QED
    BY <1>0, <1>1, <2>1, <2>2, GotoStutter, Handlers
<1>13. ASSUME NEW a \in App, ProcessExit(a) \/ OutputEnds(a)
       PROVE  [Registry!Next]_(Registry!vars)
  <2>1. /\ UNCHANGED <<mgrUp, StartedApps, AskedApps, EntryOf>>
        /\ a \in StartedApps
        /\ proc' = [proc EXCEPT ![a] = "exited"] \/ proc' = [proc EXCEPT ![a] = "draining"]
    BY <1>0, <1>13
    DEF ProcessExit, OutputEnds, ProcExit, PipesClose, managerVars, StartedApps,
        AskedApps, EntryOf, TypeOK, LauncherTypeOK
  <2>2. CASE proc' = [proc EXCEPT ![a] = "exited"]
    <3>1. EndedApps' = EndedApps \cup {a}
      BY <1>0, <2>2 DEF EndedApps, TypeOK, LauncherTypeOK
    <3>2. Registry!End(a)
      BY <2>1, <3>1 DEF Registry!End
    <3> QED
      BY <3>2 DEF Registry!Next
  <2>3. CASE proc' = [proc EXCEPT ![a] = "draining"]
    <3>1. proc[a] \in {"running", "draining"}
      BY <1>13 DEF ProcessExit, OutputEnds, ProcExit, PipesClose
    <3>2. EndedApps' = EndedApps
      BY <1>0, <2>3, <3>1 DEF EndedApps, TypeOK, LauncherTypeOK
    <3> QED
      BY <2>1, <3>2 DEF Registry!vars, Registry!processes
  <2> QED
    BY <2>1, <2>2, <2>3
<1>14. ASSUME NEW a \in App, LaunchExpires(a) PROVE UNCHANGED Registry!vars
  BY <1>1, <1>14 DEF LaunchExpires, GiveUpLaunch, managerVars
<1>15. ASSUME NEW g \in Agent, AgentStartsApp(g) PROVE [Registry!Next]_(Registry!vars)
  <2>1. UNCHANGED <<mgrUp, apps, pc>>
    BY <1>15 DEF AgentStartsApp, managerVars
  <2>2. CASE UNCHANGED proc
    BY <1>1, <2>1, <2>2
  <2>3. CASE proc' = [proc EXCEPT ![Head(lch[g])] = "running"]
    <3>1. Head(lch[g]) \in App /\ proc[Head(lch[g])] = "none"
      BY <1>0, <1>15 DEF AgentStartsApp, StartApp, LauncherInv, LauncherTypeOK, QueueInv, ProcInv
    <3>2. /\ UNCHANGED <<EndedApps, AskedApps, EntryOf>>
          /\ StartedApps' = StartedApps \cup {Head(lch[g])}
      BY <1>0, <2>1, <2>3, <3>1
      DEF StartedApps, EndedApps, AskedApps, EntryOf, TypeOK, LauncherTypeOK
    <3>3. Registry!Start(Head(lch[g]))
      BY <2>1, <3>2 DEF Registry!Start
    <3> QED
      BY <3>1, <3>3 DEF Registry!Next
  <2> QED
    BY <1>15, <2>2, <2>3 DEF AgentStartsApp, StartApp
<1>16. ASSUME NEW g \in Agent, AgentDown(g) \/ Join(g) \/ Expire(g)
       PROVE  UNCHANGED Registry!vars
  BY <1>1, <1>16 DEF AgentDown, AgentGone, PanicOnStart, StopAgent, Down, Join, Expire
<1>17. ASSUME StopManager PROVE Registry!Next
  BY <1>17, DownCrashes DEF StopManager
<1>18. ASSUME StartManager PROVE Registry!Next
  BY <1>18
  DEF StartManager, Registry!Next, Registry!Restart, Registry!processes, StartedApps,
      EndedApps, AskedApps, EntryOf
<1>19. ASSUME NEW g \in Agent, NEW a \in App, KillDone(g, a)
       PROVE  UNCHANGED Registry!vars
  <2>1. UNCHANGED <<mgrUp, apps, proc>>
    BY <1>19 DEF KillDone, KillCancel
  <2>2. CASE UNCHANGED pc
    BY <1>1, <2>1, <2>2
  <2>3. CASE pc["Kill"][a] = "killing" /\ Goto("Kill", a, "ok")
    BY <1>0, <2>1, <2>3, GotoStutter, Handlers
  <2> QED
    BY <1>19, <2>2, <2>3 DEF KillDone, KillerWaits
<1>20. ASSUME UNCHANGED vars PROVE UNCHANGED Registry!vars
  BY <1>1, <1>20 DEF vars, managerVars
<1> QED
  BY <1>2, <1>4, <1>5, <1>6, <1>7, <1>8, <1>9, <1>10, <1>11, <1>12, <1>13, <1>14,
     <1>15, <1>16, <1>17, <1>18, <1>19, <1>20
  DEF Next

(* The registry begins empty, as the system does *)
LEMMA RegistryInit == Init => Registry!Init
  BY Handlers
  DEF Init, LauncherInit, Registry!Init, StartedApps, EndedApps, AskedApps, EntryOf

(* The manager's table keeps the promises of AppRegistry under every fault: *)
(* ids are admitted once and only after the process was started, and leave  *)
(* for a reason, for good.                                                  *)
THEOREM RegistryImplemented == Spec => ImplementsRegistry
  BY RegistryInit, RegistryStep, LifecycleInvariance, PTL
  DEF Spec, ImplementsRegistry, Registry!Spec

=============================================================================
