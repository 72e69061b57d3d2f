--------------------------- MODULE AgentLauncher_proofs ---------------------------
(***************************************************************************)
(* Proofs of the safety of an agent's launcher, for every set of agents    *)
(* and applications and every capacity of the launch channel.              *)
(***************************************************************************)
EXTENDS AgentLauncher, TLAPS

(* The channel holds each request once, on its own agent, until it is taken *)
QueueInv ==
  \A g \in Agent :
    /\ \A i \in 1 .. Len(lch[g]) :
         home[lch[g][i]] = g /\ phase[lch[g][i]] = "queued"
    /\ \A i, j \in 1 .. Len(lch[g]) : lch[g][i] = lch[g][j] => i = j

(* The Launch handler and the launcher agree on how far an application is *)
HandlerInv ==
  \A a \in App :
    /\ launch[a] \in {"none", "sending"} => phase[a] = "none"
    /\ launch[a] = "waiting" => phase[a] \notin {"none", "lost"}
    /\ launch[a] = "ok" => proc[a] # "none"
    /\ launch[a] # "none" => home[a] \in Agent

(* The process is what its launcher's and waiter's step says it is *)
ProcInv ==
  \A a \in App :
    /\ phase[a] # "none" => home[a] \in Agent
    /\ phase[a] \in {"none", "queued", "unstarted"} => proc[a] = "none"
    /\ phase[a] \in {"started", "listed", "waiting"} => proc[a] # "none"
    /\ phase[a] \in {"reporting", "notifying", "notified", "done", "dropped"}
         => proc[a] = "exited"

(* Nothing is killed before it was listed *)
KillInv ==
  \A a \in App : a \in cancelled \/ kill[a] # "none" =>
    phase[a] \notin {"none", "queued", "unstarted", "started"}

LauncherInv ==
  /\ LauncherTypeOK
  /\ QueueInv
  /\ HandlerInv
  /\ ProcInv
  /\ KillInv
  /\ NoStaleEntry
  /\ RunningIsKillable

USE LauncherAssumption

LEMMA LauncherInvInit == LauncherInit => LauncherInv
  BY DEF LauncherInit, LauncherInv, LauncherTypeOK, HandlerStep, Phase, Process, KillStage,
         QueueInv, HandlerInv, ProcInv, KillInv, NoStaleEntry, RunningIsKillable

(* Every step of the launcher keeps the types *)
LEMMA LauncherTypeStep ==
  LauncherTypeOK /\ [LauncherNext]_launcherVars => LauncherTypeOK'
<1> SUFFICES ASSUME LauncherTypeOK, [LauncherNext]_launcherVars
             PROVE  LauncherTypeOK'
  OBVIOUS
<1> USE DEF LauncherTypeOK, HandlerStep, Phase, Process, KillStage
<1>1. ASSUME NEW g \in Agent, NEW a \in App, RecvLaunch(g, a)
      PROVE  LauncherTypeOK'
  BY <1>1 DEF RecvLaunch
<1>2. ASSUME NEW g \in Agent, NEW a \in App, SendExec(g, a)
      PROVE  LauncherTypeOK'
  <2>1. /\ Append(lch[g], a) \in Seq(App)
        /\ Len(Append(lch[g], a)) <= LchCap
    BY <1>2 DEF SendExec
  <2>2. lch' \in [Agent -> Seq(App)] /\ \A h \in Agent : Len(lch'[h]) <= LchCap
    BY <1>2, <2>1 DEF SendExec
  <2> QED
    BY <1>2, <2>2 DEF SendExec
<1>3. ASSUME NEW a \in App, GiveUpLaunch(a) PROVE LauncherTypeOK'
  BY <1>3 DEF GiveUpLaunch
<1>4. ASSUME NEW a \in App, AnswerLaunch(a) PROVE LauncherTypeOK'
  BY <1>4 DEF AnswerLaunch
<1>5. ASSUME NEW g \in Agent, StartApp(g) PROVE LauncherTypeOK'
  <2>1. /\ Head(lch[g]) \in App
        /\ Tail(lch[g]) \in Seq(App)
        /\ Len(Tail(lch[g])) <= LchCap
    BY <1>5 DEF StartApp
  <2>2. lch' \in [Agent -> Seq(App)] /\ \A h \in Agent : Len(lch'[h]) <= LchCap
    BY <1>5, <2>1 DEF StartApp
  <2>3. phase' \in [App -> Phase]
    BY <1>5, <2>1 DEF StartApp
  <2>4. proc' \in [App -> Process]
    BY <1>5, <2>1 DEF StartApp
  <2> QED
    BY <1>5, <2>2, <2>3, <2>4 DEF StartApp
<1>6. ASSUME NEW g \in Agent, NEW a \in App, ListApp(g, a)
      PROVE  LauncherTypeOK'
  BY <1>6 DEF ListApp
<1>7. ASSUME NEW a \in App, StoreStart(a) PROVE LauncherTypeOK'
  BY <1>7 DEF StoreStart
<1>8. ASSUME NEW a \in App, Reap(a) PROVE LauncherTypeOK'
  BY <1>8 DEF Reap
<1>9. ASSUME NEW a \in App, StoreEnd(a) PROVE LauncherTypeOK'
  BY <1>9 DEF StoreEnd
<1>10. ASSUME NEW a \in App, NotifyReturn(a) PROVE LauncherTypeOK'
  BY <1>10 DEF NotifyReturn
<1>11. ASSUME NEW g \in Agent, NEW a \in App, Forget(g, a)
       PROVE  LauncherTypeOK'
  BY <1>11 DEF Forget
<1>12. ASSUME NEW g \in Agent, NEW a \in App, RecvKill(g, a)
       PROVE  LauncherTypeOK'
  BY <1>12 DEF RecvKill
<1>13. ASSUME NEW a \in App, ProcExit(a) PROVE LauncherTypeOK'
  <2>1. proc' \in [App -> Process]
    BY <1>13 DEF ProcExit
  <2> QED
    BY <1>13, <2>1 DEF ProcExit
<1>14. ASSUME NEW g \in Agent, Down(g) PROVE LauncherTypeOK'
  <2>1. lch' \in [Agent -> Seq(App)] /\ \A h \in Agent : Len(lch'[h]) <= LchCap
    BY <1>14 DEF Down
  <2> QED
    BY <1>14, <2>1 DEF Down
<1>15. ASSUME NEW g \in Agent, NEW a \in App, KillDelete(g, a) \/ KillCancel(a)
       PROVE  LauncherTypeOK'
  <2>1. CASE KillDelete(g, a)
    BY <2>1 DEF KillDelete
  <2>2. CASE KillCancel(a)
    BY <2>2 DEF KillCancel
  <2> QED
    BY <1>15, <2>1, <2>2
<1>16. ASSUME NEW a \in App, PipesClose(a) PROVE LauncherTypeOK'
  BY <1>16 DEF PipesClose
<1>17. CASE UNCHANGED launcherVars
  BY <1>17 DEF launcherVars
<1> QED
  BY <1>1, <1>2, <1>3, <1>4, <1>5, <1>6, <1>7, <1>8, <1>9, <1>10, <1>11, <1>12,
     <1>13, <1>14, <1>15, <1>16, <1>17
  DEF LauncherNext, AppStep, PanicOnStart, StopAgent, NilReply

(* Every step of the launcher keeps the invariant *)
LEMMA LauncherInvStep == LauncherInv /\ [LauncherNext]_launcherVars => LauncherInv'
<1> SUFFICES ASSUME LauncherInv, [LauncherNext]_launcherVars
             PROVE  LauncherInv'
  OBVIOUS
<1> USE DEF LauncherInv
<1>0. LauncherTypeOK /\ LauncherTypeOK'
  BY LauncherTypeStep
<1> DEFINE Rest == /\ HandlerInv /\ ProcInv /\ KillInv
                   /\ NoStaleEntry /\ RunningIsKillable
<1> USE DEF LauncherTypeOK, HandlerStep, Phase, Process, KillStage
<1>1. ASSUME NEW g \in Agent, NEW a \in App, RecvLaunch(g, a)
      PROVE  QueueInv' /\ Rest'
  <2>1. QueueInv'
    BY <1>1 DEF RecvLaunch, QueueInv, HandlerInv
  <2>2. Rest'
    BY <1>1 DEF RecvLaunch, HandlerInv, ProcInv, KillInv, NoStaleEntry, RunningIsKillable
  <2> QED
    BY <2>1, <2>2
<1>2. ASSUME NEW g \in Agent, NEW a \in App, SendExec(g, a)
      PROVE  QueueInv' /\ Rest'
  <2>1. QueueInv'
    BY <1>2 DEF SendExec, QueueInv, HandlerInv
  <2>2. Rest'
    BY <1>2 DEF SendExec, HandlerInv, ProcInv, KillInv, NoStaleEntry, RunningIsKillable
  <2> QED
    BY <2>1, <2>2
<1>3. ASSUME NEW a \in App, GiveUpLaunch(a) PROVE QueueInv' /\ Rest'
  BY <1>3 DEF GiveUpLaunch, QueueInv, HandlerInv, ProcInv, KillInv, NoStaleEntry, RunningIsKillable
<1>4. ASSUME NEW a \in App, AnswerLaunch(a) PROVE QueueInv' /\ Rest'
  BY <1>4 DEF AnswerLaunch, QueueInv, HandlerInv, ProcInv, KillInv, NoStaleEntry, RunningIsKillable
<1>5. ASSUME NEW g \in Agent, StartApp(g) PROVE QueueInv' /\ Rest'
  <2> DEFINE a == Head(lch[g])
  <2>1. a \in App /\ home[a] = g /\ phase[a] = "queued"
    BY <1>5 DEF StartApp, QueueInv
  <2>2. QueueInv'
    <3>1. \A i \in 1 .. Len(lch'[g]) : lch'[g][i] = lch[g][i + 1] /\ i + 1 \in 2 .. Len(lch[g])
      BY <1>5 DEF StartApp
    <3>2. \A i \in 1 .. Len(lch'[g]) : lch'[g][i] # a
      BY <1>5, <3>1 DEF StartApp, QueueInv
    <3> QED
      BY <1>5, <2>1, <3>1, <3>2 DEF StartApp, QueueInv
  <2>3. /\ \A b \in App \ {a} : phase'[b] = phase[b] /\ proc'[b] = proc[b]
        /\ \/ phase'[a] = "started" /\ proc'[a] = "running"
           \/ phase'[a] = "unstarted" /\ proc'[a] = "none"
        /\ UNCHANGED <<home, launch, lchApps, kill, cancelled>>
    BY <1>5, <2>1 DEF StartApp, ProcInv
  <2>4. HandlerInv' /\ ProcInv'
    BY <2>1, <2>3 DEF HandlerInv, ProcInv
  <2>5. a \notin cancelled /\ kill[a] = "none" /\ \A h \in Agent : a \notin lchApps[h]
    BY <2>1 DEF KillInv, NoStaleEntry
  <2>6. KillInv' /\ NoStaleEntry'
    <3>1. KillInv'
      BY <2>3, <2>5 DEF KillInv
    <3>2. NoStaleEntry'
      BY <2>3, <2>5 DEF NoStaleEntry
    <3> QED
      BY <3>1, <3>2
  <2>7. RunningIsKillable'
    BY <2>3 DEF RunningIsKillable
  <2> QED
    BY <2>2, <2>4, <2>6, <2>7
<1>6. ASSUME NEW g \in Agent, NEW a \in App, ListApp(g, a)
      PROVE  QueueInv' /\ Rest'
  BY <1>6 DEF ListApp, QueueInv, HandlerInv, ProcInv, KillInv, NoStaleEntry, RunningIsKillable
<1>7. ASSUME NEW a \in App, StoreStart(a) PROVE QueueInv' /\ Rest'
  BY <1>7 DEF StoreStart, QueueInv, HandlerInv, ProcInv, KillInv, NoStaleEntry, RunningIsKillable
<1>8. ASSUME NEW a \in App, Reap(a) PROVE QueueInv' /\ Rest'
  BY <1>8 DEF Reap, QueueInv, HandlerInv, ProcInv, KillInv, NoStaleEntry, RunningIsKillable
<1>9. ASSUME NEW a \in App, StoreEnd(a) PROVE QueueInv' /\ Rest'
  BY <1>9 DEF StoreEnd, QueueInv, HandlerInv, ProcInv, KillInv, NoStaleEntry, RunningIsKillable
<1>10. ASSUME NEW a \in App, NotifyReturn(a) PROVE QueueInv' /\ Rest'
  BY <1>10 DEF NotifyReturn, QueueInv, HandlerInv, ProcInv, KillInv, NoStaleEntry, RunningIsKillable
<1>11. ASSUME NEW g \in Agent, NEW a \in App, Forget(g, a)
       PROVE  QueueInv' /\ Rest'
  BY <1>11 DEF Forget, QueueInv, HandlerInv, ProcInv, KillInv, NoStaleEntry, RunningIsKillable
<1>12. ASSUME NEW g \in Agent, NEW a \in App, RecvKill(g, a)
       PROVE  QueueInv' /\ Rest'
  <2>1. QueueInv' /\ HandlerInv' /\ ProcInv'
    BY <1>12 DEF RecvKill, QueueInv, HandlerInv, ProcInv
  <2>2. KillInv' /\ NoStaleEntry'
    <3>1. /\ UNCHANGED <<home, phase, lchApps, cancelled>>
          /\ kill'[a] = "found" /\ \A b \in App \ {a} : kill'[b] = kill[b]
          /\ phase[a] \notin {"none", "queued", "unstarted", "started"}
      <4>1. /\ UNCHANGED <<home, phase, lchApps, cancelled>>
            /\ kill' = [kill EXCEPT ![a] = "found"]
            /\ a \in lchApps[g]
        BY <1>12 DEF RecvKill
      <4>2. kill'[a] = "found" /\ \A b \in App \ {a} : kill'[b] = kill[b]
        BY <4>1
      <4>3. phase[a] \notin {"none", "queued", "unstarted", "started"}
        BY <4>1 DEF NoStaleEntry
      <4> QED
        BY <4>1, <4>2, <4>3
    <3>2. KillInv'
      BY <3>1 DEF KillInv
    <3>3. NoStaleEntry'
      BY <3>1 DEF NoStaleEntry
    <3> QED
      BY <3>2, <3>3
  <2>3. RunningIsKillable'
    BY <1>12 DEF RecvKill, RunningIsKillable
  <2> QED
    BY <2>1, <2>2, <2>3
<1>13. ASSUME NEW a \in App, ProcExit(a) PROVE QueueInv' /\ Rest'
  BY <1>13 DEF ProcExit, QueueInv, HandlerInv, ProcInv, KillInv, NoStaleEntry, RunningIsKillable
<1>14. ASSUME NEW g \in Agent, Down(g) PROVE QueueInv' /\ Rest'
  <2>1. QueueInv'
    BY <1>14 DEF Down, QueueInv
  <2>2. Rest'
    BY <1>14 DEF Down, HandlerInv, ProcInv, KillInv, NoStaleEntry, RunningIsKillable
  <2> QED
    BY <2>1, <2>2
<1>15. ASSUME NEW g \in Agent, NEW a \in App, KillDelete(g, a)
       PROVE  QueueInv' /\ Rest'
  <2>1. QueueInv' /\ HandlerInv' /\ ProcInv' /\ KillInv'
    BY <1>15 DEF KillDelete, QueueInv, HandlerInv, ProcInv, KillInv
  <2>2. NoStaleEntry'
    <3>1. \A h \in Agent : a \notin lchApps'[h] /\ lchApps'[h] \subseteq lchApps[h]
      BY <1>15 DEF KillDelete, NoStaleEntry
    <3> QED
      BY <1>15, <3>1 DEF KillDelete, NoStaleEntry
  <2>3. RunningIsKillable'
    <3> SUFFICES ASSUME NEW b \in App, proc[b] = "running", b # a,
                        phase[b] \notin {"started", "lost"}
                 PROVE  b \in lchApps'[home[b]] \/ b \in cancelled \/ kill'[b] = "removed"
      BY <1>15 DEF KillDelete, RunningIsKillable
    <3>1. home[b] \in Agent
      BY DEF ProcInv
    <3>2. b \in lchApps[home[b]] \/ b \in cancelled \/ kill[b] = "removed"
      BY DEF RunningIsKillable
    <3> QED
      BY <1>15, <3>1, <3>2 DEF KillDelete
  <2> QED
    BY <2>1, <2>2, <2>3
<1>16. ASSUME NEW a \in App, KillCancel(a) PROVE QueueInv' /\ Rest'
  <2>1. QueueInv' /\ HandlerInv' /\ ProcInv' /\ KillInv'
    BY <1>16 DEF KillCancel, QueueInv, HandlerInv, ProcInv, KillInv
  <2>2. NoStaleEntry'
    BY <1>16 DEF KillCancel, NoStaleEntry
  <2>3. RunningIsKillable'
    BY <1>16 DEF KillCancel, RunningIsKillable
  <2> QED
    BY <2>1, <2>2, <2>3
<1>17. ASSUME NEW a \in App, PipesClose(a) PROVE QueueInv' /\ Rest'
  BY <1>17 DEF PipesClose, QueueInv, HandlerInv, ProcInv, KillInv, NoStaleEntry, RunningIsKillable
<1>18. CASE UNCHANGED launcherVars
  BY <1>18 DEF launcherVars, QueueInv, HandlerInv, ProcInv, KillInv, NoStaleEntry, RunningIsKillable
<1> QED
  BY <1>0, <1>1, <1>2, <1>3, <1>4, <1>5, <1>6, <1>7, <1>8, <1>9, <1>10, <1>11,
     <1>12, <1>13, <1>14, <1>15, <1>16, <1>17, <1>18
  DEF LauncherNext, AppStep, PanicOnStart, StopAgent, NilReply

(* What the launcher never takes back: a successful answer to Launch, the   *)
(* agent a request has reached, the start and the end of a process.         *)
LEMMA LauncherStable ==
  ASSUME LauncherInv, [LauncherNext]_launcherVars, NEW a \in App
  PROVE  /\ launch[a] = "ok" => launch'[a] = "ok"
         /\ launch[a] # "none" => launch'[a] # "none" /\ home'[a] = home[a]
         /\ proc[a] # "none" => proc'[a] # "none"
         /\ proc[a] = "exited" => proc'[a] = "exited"
<1> USE DEF LauncherInv, LauncherTypeOK
<1>1. ASSUME NEW g \in Agent, StartApp(g)
      PROVE  /\ proc[a] # "none" => proc'[a] # "none"
             /\ proc[a] = "exited" => proc'[a] = "exited"
             /\ UNCHANGED <<launch, home>>
  <2>1. Head(lch[g]) \in App /\ proc[Head(lch[g])] = "none"
    BY <1>1 DEF StartApp, QueueInv, ProcInv
  <2> QED
    BY <1>1, <2>1 DEF StartApp
<1>2. ASSUME NEW g \in Agent, Down(g)
      PROVE  /\ launch[a] = "ok" => launch'[a] = "ok"
             /\ launch[a] # "none" => launch'[a] # "none"
             /\ UNCHANGED <<home, proc>>
  BY <1>2 DEF Down
<1>3. CASE UNCHANGED launcherVars
  BY <1>3 DEF launcherVars
<1> QED
  BY <1>1, <1>2, <1>3
  DEF LauncherNext, AppStep, PanicOnStart, StopAgent, NilReply, RecvLaunch,
      SendExec, GiveUpLaunch, AnswerLaunch, ListApp, StoreStart, Reap, StoreEnd,
      NotifyReturn, Forget, RecvKill, KillDelete, KillCancel, ProcExit, PipesClose

(* The invariant holds in every reachable state of the launcher *)
THEOREM LauncherInvariance == LauncherSpec => []LauncherInv
  BY LauncherInvInit, LauncherInvStep, PTL DEF LauncherSpec

(* Type correctness, with the bound on channel lch *)
THEOREM LauncherTypes == LauncherSpec => []LauncherTypeOK
  BY LauncherInvariance, PTL DEF LauncherInv

(* No entry of lchApps outlives the goroutines that look after it *)
THEOREM LauncherNoStaleEntry == LauncherSpec => []NoStaleEntry
  BY LauncherInvariance, PTL DEF LauncherInv

(* A running application can be killed through its agent, or is being or     *)
(* has been killed, at every point between the steps of kill                *)
THEOREM LauncherKillable == LauncherSpec => []RunningIsKillable
  BY LauncherInvariance, PTL DEF LauncherInv

-----------------------------------------------------------------------------
(* Requests: none falls out of the channel.                                 *)

InChannel(a) == \E i \in 1 .. Len(lch[home[a]]) : lch[home[a]][i] = a

ServedInv ==
  /\ \A a \in App : launch[a] \in {"sending", "waiting"} => home[a] \in agentUp
  /\ \A a \in App : phase[a] = "queued" => InChannel(a)
  /\ \A a, b \in App : home[a] = home[b] /\ InHand(a) /\ InHand(b) => a = b

LEMMA ServedStep == LauncherInv /\ ServedInv /\ [LauncherNext]_launcherVars => ServedInv'
<1> SUFFICES ASSUME LauncherInv, ServedInv, [LauncherNext]_launcherVars PROVE ServedInv'
  OBVIOUS
<1>0. LauncherTypeOK /\ HandlerInv /\ ProcInv /\ QueueInv
  BY DEF LauncherInv
<1> USE DEF LauncherTypeOK
<1>k. ASSUME UNCHANGED <<agentUp, home, lch>>,
             \A a \in App : launch'[a] \in {"sending", "waiting"} => launch[a] \in {"sending", "waiting"},
             \A a \in App : phase'[a] = "queued" => phase[a] = "queued",
             \A a \in App : InHand(a)' => InHand(a)
      PROVE  ServedInv'
  <2>1. \A a \in App : InChannel(a)' <=> InChannel(a)
    BY <1>k DEF InChannel
  <2> QED
    BY <1>k, <2>1 DEF ServedInv
<1>1. ASSUME NEW g \in Agent, NEW a \in App, RecvLaunch(g, a) PROVE ServedInv'
  <2>1. /\ UNCHANGED <<agentUp, lch, phase>> /\ g \in agentUp /\ phase[a] = "none"
        /\ home'[a] = g /\ \A b \in App \ {a} : home'[b] = home[b] /\ launch'[b] = launch[b]
    BY <1>0, <1>1 DEF RecvLaunch, HandlerInv
  <2>2. \A b \in App \ {a} : InChannel(b)' <=> InChannel(b)
    BY <2>1 DEF InChannel
  <2> QED
    BY <2>1, <2>2 DEF ServedInv, InHand
<1>2. ASSUME NEW g \in Agent, NEW a \in App, SendExec(g, a) PROVE ServedInv'
  <2>1. /\ UNCHANGED <<agentUp, home>> /\ home[a] = g /\ launch[a] = "sending"
        /\ phase'[a] = "queued" /\ lch'[g] = Append(lch[g], a)
        /\ \A f \in Agent \ {g} : lch'[f] = lch[f]
        /\ \A b \in App \ {a} : phase'[b] = phase[b] /\ launch'[b] = launch[b]
    BY <1>0, <1>2 DEF SendExec
  <2>2. /\ Len(lch'[g]) = Len(lch[g]) + 1 /\ lch'[g][Len(lch[g]) + 1] = a
        /\ \A i \in 1 .. Len(lch[g]) : lch'[g][i] = lch[g][i]
    BY <1>0, <2>1
  <2>3. ASSUME NEW b \in App, phase'[b] = "queued" PROVE InChannel(b)'
    <3>1. CASE b = a
      <4>1. Len(lch[g]) + 1 \in 1 .. Len(lch'[g])
        BY <1>0, <2>2
      <4> QED
        BY <2>1, <2>2, <3>1, <4>1 DEF InChannel
    <3>2. CASE b # a
      <4>1. home[b] \in Agent /\ phase[b] = "queued"
        BY <1>0, <2>1, <2>3, <3>2 DEF ProcInv
      <4>2. PICK i \in 1 .. Len(lch[home[b]]) : lch[home[b]][i] = b
        BY <4>1 DEF ServedInv, InChannel
      <4>3. i \in 1 .. Len(lch'[home[b]]) /\ lch'[home[b]][i] = b
        <5>1. CASE home[b] = g
          BY <1>0, <2>2, <4>2, <5>1
        <5>2. CASE home[b] # g
          BY <2>1, <4>1, <4>2, <5>2
        <5> QED
          BY <5>1, <5>2
      <4> QED
        BY <2>1, <4>3 DEF InChannel
    <3> QED
      BY <3>1, <3>2
  <2>4. \A b \in App : InHand(b)' => InHand(b)
    BY <2>1 DEF InHand
  <2>5. \A b \in App : launch'[b] \in {"sending", "waiting"} => launch[b] \in {"sending", "waiting"}
    BY <2>1
  <2> QED
    BY <2>1, <2>3, <2>4, <2>5 DEF ServedInv
<1>3. ASSUME NEW g \in Agent, StartApp(g) PROVE ServedInv'
  <2> DEFINE a == Head(lch[g])
  <2>1. a \in App /\ home[a] = g /\ phase[a] = "queued" /\ lch[g] # <<>>
    BY <1>0, <1>3 DEF StartApp, QueueInv
  <2>2. /\ UNCHANGED <<agentUp, home, launch>> /\ lch'[g] = Tail(lch[g])
        /\ \A f \in Agent \ {g} : lch'[f] = lch[f]
        /\ phase'[a] \in {"started", "unstarted"}
        /\ \A b \in App \ {a} : phase'[b] = phase[b]
    BY <1>0, <1>3, <2>1 DEF StartApp
  <2>3. lch[g][1] = a /\ \A i \in 2 .. Len(lch[g]) : i - 1 \in 1 .. Len(lch'[g]) /\ lch'[g][i - 1] = lch[g][i]
    BY <1>0, <2>1, <2>2
  <2>4. \A b \in App : home[b] = g => ~InHand(b)
    BY <1>3 DEF StartApp, Busy
  <2> HIDE DEF a
  <2>5. ASSUME NEW b \in App, phase'[b] = "queued" PROVE InChannel(b)'
    <3>1. b # a /\ phase[b] = "queued" /\ home[b] \in Agent
      BY <1>0, <2>2, <2>5 DEF ProcInv
    <3>2. PICK i \in 1 .. Len(lch[home[b]]) : lch[home[b]][i] = b
      BY <3>1 DEF ServedInv, InChannel
    <3>3. CASE home[b] = g
      <4>1. i \in 2 .. Len(lch[g])
        BY <1>0, <2>3, <3>1, <3>2, <3>3
      <4>2. i - 1 \in 1 .. Len(lch'[g]) /\ lch'[g][i - 1] = b
        BY <2>3, <3>2, <3>3, <4>1
      <4> QED
        BY <2>2, <3>3, <4>2 DEF InChannel
    <3>4. CASE home[b] # g
      BY <2>2, <3>1, <3>2, <3>4 DEF InChannel
    <3> QED
      BY <3>3, <3>4
  <2>6. ASSUME NEW b \in App, NEW c \in App, home'[b] = home'[c], InHand(b)', InHand(c)'
        PROVE  b = c
    <3>1. \A d \in App : InHand(d)' => d = a \/ InHand(d)
      BY <2>2 DEF InHand
    <3> QED
      BY <2>1, <2>2, <2>4, <2>6, <3>1 DEF ServedInv
  <2> QED
    BY <2>2, <2>5, <2>6 DEF ServedInv
<1>4. ASSUME NEW g \in Agent, Down(g) PROVE ServedInv'
  <2>1. /\ agentUp' = agentUp \ {g} /\ home' = home
        /\ \A f \in Agent \ {g} : lch'[f] = lch[f]
        /\ \A a \in App : /\ launch'[a] = IF home[a] = g /\ launch[a] \in {"sending", "waiting"}
                                            THEN "failed" ELSE launch[a]
                          /\ phase'[a] = IF home[a] = g /\ phase[a] \notin {"none", "done", "dropped"}
                                           THEN "lost" ELSE phase[a]
    BY <1>0, <1>4 DEF Down
  <2>2. ASSUME NEW b \in App, phase'[b] = "queued" PROVE InChannel(b)'
    <3>1. phase[b] = "queued" /\ home[b] \in Agent \ {g}
      BY <1>0, <2>1, <2>2 DEF ProcInv
    <3> QED
      BY <2>1, <3>1 DEF ServedInv, InChannel
  <2>3. \A b \in App : InHand(b)' => InHand(b)
    BY <2>1 DEF InHand
  <2>4. \A b \in App : launch'[b] \in {"sending", "waiting"} => home'[b] \in agentUp'
    BY <2>1 DEF ServedInv
  <2> QED
    BY <2>1, <2>2, <2>3, <2>4 DEF ServedInv
<1>5. ASSUME NEW g \in Agent, NEW a \in App,
             ListApp(g, a) \/ StoreStart(a) \/ Reap(a) \/ StoreEnd(a) \/ NotifyReturn(a) \/ Forget(g, a)
      PROVE  ServedInv'
  <2>1. /\ UNCHANGED <<agentUp, home, lch, launch>>
        /\ \A b \in App \ {a} : phase'[b] = phase[b]
        /\ phase'[a] # "queued"
        /\ phase'[a] \in {"unstarted", "started", "listed"} => phase[a] = "started"
    BY <1>0, <1>5 DEF ListApp, StoreStart, Reap, StoreEnd, NotifyReturn, Forget
  <2> QED
    BY <1>k, <2>1 DEF InHand
<1>6. ASSUME NEW a \in App,
             \/ AnswerLaunch(a) \/ GiveUpLaunch(a) \/ ProcExit(a) \/ PipesClose(a)
             \/ KillCancel(a) \/ \E g \in Agent : RecvKill(g, a) \/ KillDelete(g, a)
      PROVE  ServedInv'
  <2>1. /\ UNCHANGED <<agentUp, home, lch, phase>>
        /\ \A b \in App : launch'[b] \in {"sending", "waiting"} => launch[b] \in {"sending", "waiting"}
    BY <1>0, <1>6 DEF AnswerLaunch, GiveUpLaunch, ProcExit, PipesClose, RecvKill,
                      KillDelete, KillCancel
  <2> QED
    BY <1>k, <2>1 DEF InHand
<1>7. CASE UNCHANGED launcherVars
  BY <1>k, <1>7 DEF launcherVars, InHand
<1> QED
  BY <1>1, <1>2, <1>3, <1>4, <1>5, <1>6, <1>7
  DEF LauncherNext, AppStep, PanicOnStart, StopAgent, NilReply

(* No Launch request is lost between its handler, the channel and the       *)
(* launcher, for any capacity: a handler that waits for errCh has its       *)
(* request in lch of an agent that runs, or with a launcher that has done   *)
(* cmd.Start and nothing else in hand.                                      *)
THEOREM LaunchServed == LauncherSpec => []LaunchIsServed
<1>1. LauncherInit => ServedInv
  BY DEF LauncherInit, ServedInv, InHand
<1>2. ServedInv => LaunchIsServed
  BY DEF ServedInv, LaunchIsServed, InChannel
<1> QED
  BY <1>1, <1>2, ServedStep, LauncherInvariance, PTL DEF LauncherSpec

-----------------------------------------------------------------------------
(* The record of an application: AppRecord is implemented.                  *)

(* What is in ElasticSearch does not get ahead of the launcher and waiter *)
DocInv ==
  \A a \in App :
    /\ phase[a] \in {"none", "queued", "unstarted", "started", "listed"} => doc[a] = "none"
    /\ phase[a] \in {"waiting", "reporting"} => doc[a] # "ended"

LEMMA DocInvStep ==
  LauncherInv /\ DocInv /\ [LauncherNext]_launcherVars => DocInv'
<1> SUFFICES ASSUME LauncherInv, DocInv, [LauncherNext]_launcherVars PROVE DocInv'
  OBVIOUS
<1> USE DEF LauncherInv, LauncherTypeOK, DocInv
<1>1. ASSUME NEW g \in Agent, StartApp(g) PROVE DocInv'
  <2>1. Head(lch[g]) \in App /\ phase[Head(lch[g])] = "queued"
    BY <1>1 DEF StartApp, QueueInv
  <2> QED
    BY <1>1, <2>1 DEF StartApp
<1>2. ASSUME NEW g \in Agent, Down(g) PROVE DocInv'
  BY <1>2 DEF Down
<1>3. CASE UNCHANGED launcherVars
  BY <1>3 DEF launcherVars
<1>4. ASSUME NEW g \in Agent, NEW a \in App, AppStep(g, a) PROVE DocInv'
  <2>1. CASE SendExec(g, a) \/ AnswerLaunch(a) \/ ListApp(g, a)
    BY <2>1 DEF SendExec, AnswerLaunch, ListApp, HandlerInv
  <2>2. CASE StoreStart(a) \/ Reap(a)
    BY <2>2 DEF StoreStart, Reap
  <2>3. CASE StoreEnd(a) \/ NotifyReturn(a) \/ Forget(g, a)
    BY <2>3 DEF StoreEnd, NotifyReturn, Forget
  <2>4. CASE KillDelete(g, a) \/ KillCancel(a)
    BY <2>4 DEF KillDelete, KillCancel
  <2> QED
    BY <1>4, <2>1, <2>2, <2>3, <2>4 DEF AppStep
<1>5. ASSUME NEW g \in Agent, NEW a \in App, RecvLaunch(g, a) \/ RecvKill(g, a)
      PROVE  DocInv'
  BY <1>5 DEF RecvLaunch, RecvKill
<1>6. ASSUME NEW a \in App, GiveUpLaunch(a) \/ ProcExit(a) \/ PipesClose(a)
      PROVE  DocInv'
  BY <1>6 DEF GiveUpLaunch, ProcExit, PipesClose
<1> QED
  BY <1>1, <1>2, <1>3, <1>4, <1>5, <1>6
  DEF LauncherNext, PanicOnStart, StopAgent, NilReply

RecordInv == LauncherInv /\ DocInv

(* The record of an application depends on nothing else *)
LEMMA RecordKeeps ==
  ASSUME NEW a \in App,
         phase'[a] = phase[a], proc'[a] = proc[a], doc'[a] = doc[a],
         a \in cancelled' <=> a \in cancelled
  PROVE  UNCHANGED <<LifeOf(a), AppDocOf(a)>>
  BY DEF LifeOf, AppDocOf

LEMMA RecordStep ==
  ASSUME RecordInv, LauncherNext, NEW a \in App
  PROVE  [Record(a)!RecordNext]_<<LifeOf(a), AppDocOf(a)>>
<1> DEFINE Goal == Record(a)!RecordNext \/ UNCHANGED <<LifeOf(a), AppDocOf(a)>>
<1> SUFFICES Goal
  OBVIOUS
<1> USE DEF RecordInv, LauncherInv, LauncherTypeOK
<1>1. ASSUME NEW g \in Agent, StartApp(g) PROVE Goal
  <2>1. /\ Head(lch[g]) \in App
        /\ phase[Head(lch[g])] = "queued"
        /\ proc[Head(lch[g])] = "none"
        /\ Head(lch[g]) \notin cancelled
    BY <1>1 DEF StartApp, QueueInv, ProcInv, KillInv
  <2>2. CASE a # Head(lch[g])
    BY <1>1, <2>1, <2>2, RecordKeeps DEF StartApp
  <2>3. CASE a = Head(lch[g]) /\ proc'[a] = "running"
    <3>1. /\ LifeOf(a) = "none" /\ AppDocOf(a) = "none"
          /\ LifeOf(a)' = "running" /\ AppDocOf(a)' = "none"
      BY <1>1, <2>1, <2>3 DEF StartApp, LifeOf, AppDocOf, Phase
    <3>2. Record(a)!Starts
      BY <3>1 DEF Record!Starts
    <3> QED
      BY <3>2 DEF Record!RecordNext
  <2>4. CASE a = Head(lch[g]) /\ proc'[a] = "none"
    BY <1>1, <2>1, <2>4 DEF StartApp, LifeOf, AppDocOf
  <2> QED
    BY <1>1, <2>1, <2>2, <2>3, <2>4 DEF StartApp
<1>2. ASSUME NEW g \in Agent, NEW b \in App,
             RecvLaunch(g, b) \/ SendExec(g, b) \/ AnswerLaunch(b)
               \/ NotifyReturn(b) \/ Forget(g, b)
      PROVE  Goal
  BY <1>2 DEF RecvLaunch, SendExec, AnswerLaunch, NotifyReturn, Forget,
              HandlerInv, KillInv, LifeOf, AppDocOf
<1>3. ASSUME NEW g \in Agent, NEW b \in App, ListApp(g, b) PROVE Goal
  BY <1>3 DEF ListApp, KillInv, LifeOf, AppDocOf
<1>4. ASSUME NEW b \in App, StoreStart(b) PROVE Goal
  <2>1. CASE b # a
    BY <1>4, <2>1, RecordKeeps DEF StoreStart
  <2>2. CASE b = a
    <3>1. phase[a] = "listed" /\ doc[a] = "none" /\ proc[a] \in {"running", "draining", "exited"}
      BY <1>4, <2>2 DEF StoreStart, DocInv, ProcInv, Process
    <3>2. LifeOf(a) \in {"running", "exited", "killed"} /\ UNCHANGED LifeOf(a)
      BY <1>4, <2>2, <3>1 DEF StoreStart, LifeOf
    <3>3. AppDocOf(a) = "none" /\ AppDocOf(a)' \in {"started", "lost"}
      BY <1>4, <2>2, <3>1 DEF StoreStart, AppDocOf
    <3> QED
      BY <3>2, <3>3 DEF Record!RecordNext, Record!StartStored
  <2> QED
    BY <2>1, <2>2
<1>5. ASSUME NEW b \in App, Reap(b) PROVE Goal
  <2>1. CASE b # a
    BY <1>5, <2>1, RecordKeeps DEF Reap
  <2>2. CASE b = a /\ a \in cancelled
    BY <1>5, <2>2 DEF Reap, LifeOf, AppDocOf
  <2>3. CASE b = a /\ a \notin cancelled
    <3>1. LifeOf(a) = "exited" /\ LifeOf(a)' = "noted"
      BY <1>5, <2>3 DEF Reap, LifeOf
    <3>2. AppDocOf(a) # "none" /\ UNCHANGED AppDocOf(a)
      BY <1>5, <2>3 DEF Reap, AppDocOf
    <3> QED
      BY <3>1, <3>2 DEF Record!RecordNext, Record!EndNoted
  <2> QED
    BY <2>1, <2>2, <2>3
<1>6. ASSUME NEW b \in App, StoreEnd(b) PROVE Goal
  <2>1. CASE b # a \/ doc' = doc
    BY <1>6, <2>1 DEF StoreEnd, LifeOf, AppDocOf
  <2>2. CASE b = a /\ doc[a] = "started" /\ doc' = [doc EXCEPT ![a] = "ended"]
    <3>1. LifeOf(a) = "noted" /\ UNCHANGED LifeOf(a)
      BY <1>6, <2>2 DEF StoreEnd, LifeOf, ProcInv
    <3>2. AppDocOf(a) = "started" /\ AppDocOf(a)' = "ended"
      BY <1>6, <2>2 DEF StoreEnd, AppDocOf, ProcInv
    <3> QED
      BY <3>1, <3>2 DEF Record!RecordNext, Record!EndStored
  <2> QED
    BY <1>6, <2>1, <2>2 DEF StoreEnd
<1>7. ASSUME NEW b \in App, KillCancel(b) PROVE Goal
  <2>1. CASE b # a \/ a \in cancelled
    BY <1>7, <2>1, RecordKeeps DEF KillCancel
  <2>2. CASE b = a /\ a \notin cancelled
    <3>1. /\ a \in cancelled' /\ UNCHANGED <<phase, proc, doc>>
          /\ phase[a] \notin {"none", "queued", "unstarted", "started"}
      BY <1>7, <2>2 DEF KillCancel, KillInv
    <3>2. UNCHANGED AppDocOf(a)
      BY <3>1 DEF AppDocOf
    <3>3. CASE phase[a] \in {"listed", "waiting", "dropped"}
      <4>1. LifeOf(a) \in {"running", "exited"} /\ LifeOf(a)' = "killed"
        BY <2>2, <3>1, <3>3 DEF LifeOf, ProcInv
      <4> QED
        BY <3>2, <4>1 DEF Record!RecordNext, Record!IsKilled
    <3>4. CASE phase[a] \notin {"listed", "waiting", "dropped"}
      <4>1. UNCHANGED LifeOf(a)
        BY <3>1, <3>4 DEF LifeOf
      <4> QED
        BY <3>2, <4>1
    <3> QED
      BY <3>3, <3>4
  <2> QED
    BY <2>1, <2>2
<1>8. ASSUME NEW b \in App, ProcExit(b) PROVE Goal
  <2>1. CASE b # a
    BY <1>8, <2>1, RecordKeeps DEF ProcExit
  <2>2. CASE b = a
    <3>1. UNCHANGED AppDocOf(a)
      BY <1>8, <2>2 DEF ProcExit, AppDocOf
    <3>2. UNCHANGED LifeOf(a) \/ (LifeOf(a) = "running" /\ LifeOf(a)' = "exited")
      BY <1>8, <2>2 DEF ProcExit, LifeOf
    <3> QED
      BY <3>1, <3>2 DEF Record!RecordNext, Record!Ends
  <2> QED
    BY <2>1, <2>2
<1>9. ASSUME NEW g \in Agent, Down(g) PROVE Goal
  <2>1. UNCHANGED <<proc, cancelled, doc>>
    BY <1>9 DEF Down
  <2>2. CASE phase'[a] = phase[a]
    BY <2>1, <2>2, RecordKeeps
  <2>3. CASE proc[a] = "none"
    BY <2>1, <2>3 DEF LifeOf, AppDocOf
  <2>4. CASE phase'[a] # phase[a] /\ proc[a] # "none"
    <3>1. phase'[a] = "lost" /\ phase[a] # "lost"
      BY <1>9, <2>4 DEF Down
    <3>2. LifeOf(a) \notin {"none", "gone"} /\ LifeOf(a)' = "gone"
      BY <2>1, <2>4, <3>1 DEF LifeOf
    <3>3. AppDocOf(a)' = IF AppDocOf(a) = "none" THEN "lost" ELSE AppDocOf(a)
      BY <2>1, <2>4, <3>1 DEF AppDocOf, DocInv
    <3> QED
      BY <3>2, <3>3 DEF Record!RecordNext, Record!AgentGone
  <2> QED
    BY <2>2, <2>3, <2>4
<1>10. ASSUME NEW g \in Agent, NEW b \in App, RecvKill(g, b) \/ KillDelete(g, b)
       PROVE  Goal
  BY <1>10, RecordKeeps DEF RecvKill, KillDelete
<1>11. ASSUME NEW b \in App, GiveUpLaunch(b) \/ PipesClose(b) PROVE Goal
  BY <1>11 DEF GiveUpLaunch, PipesClose, LifeOf, AppDocOf
<1>12. ASSUME NEW g \in Agent, NEW b \in App, AppStep(g, b) PROVE Goal
  BY <1>2, <1>3, <1>4, <1>5, <1>6, <1>7, <1>10, <1>12 DEF AppStep
<1>13. ASSUME NEW g \in Agent, PanicOnStart(g) \/ StopAgent(g) \/ NilReply(g) PROVE Goal
  BY <1>9, <1>13 DEF PanicOnStart, StopAgent, NilReply
<1> HIDE DEF Goal
<1> QED
  BY <1>1, <1>2, <1>8, <1>10, <1>11, <1>12, <1>13 DEF LauncherNext

(* Of this, nothing depends on the launchers' fairness *)
LEMMA RecordKept ==
  LauncherInit /\ [][LauncherNext]_launcherVars => ImplementsAppRecord
<1>1. LauncherInit => DocInv /\ \A a \in App : Record(a)!RecordInit
  BY DEF LauncherInit, DocInv, Record!RecordInit, LifeOf, AppDocOf
<1>2. DocInv /\ LauncherInv /\ [LauncherNext]_launcherVars => DocInv'
  BY DocInvStep
<1>3. RecordInv /\ [LauncherNext]_launcherVars =>
        [\A a \in App : [Record(a)!RecordNext]_<<LifeOf(a), AppDocOf(a)>>]_launcherVars
  BY RecordStep
<1>4. LauncherInit /\ [][LauncherNext]_launcherVars => []LauncherInv
  BY LauncherInvInit, LauncherInvStep, PTL
<1> QED
  BY <1>1, <1>2, <1>3, <1>4, PTL DEF RecordInv, ImplementsAppRecord

(* The documents of every application follow AppRecord, whatever calls to   *)
(* ElasticSearch fail and whatever agents end                               *)
THEOREM RecordImplemented == LauncherSpec => ImplementsAppRecord
  BY RecordKept DEF LauncherSpec

=============================================================================
