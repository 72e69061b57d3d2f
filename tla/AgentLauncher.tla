----------------------------- MODULE AgentLauncher -----------------------------
(***************************************************************************)
(* The part of a DMoni agent that runs applications as child processes     *)
(* (agent/agent.go, agent/server.go): the Launch RPC handlers, the         *)
(* launcher goroutine that serves the channel lch, one waiter goroutine    *)
(* per started application, and the Kill RPC handler.                      *)
(*                                                                         *)
(* Every step between two points where another goroutine can be scheduled  *)
(* is one action.  An application is launched at most once: the manager    *)
(* draws a fresh uuid for every submission.                                *)
(***************************************************************************)
EXTENDS Naturals, Sequences

CONSTANTS
  App,          \* application ids
  Agent,        \* agent daemons; a restarted daemon has a new uuid: another element
  NoAgent,      \* "launched nowhere yet"
  LchCap,       \* capacity of the channel lch, 1 in Agent.Run
  Unstartable,  \* applications whose cmd.Start may fail (no such executable)
  Stoppable,    \* agents an operator may stop (tools/dmoni_agent.sh stop)
  Forks,        \* applications whose processes may outlive their main process
  StoreFails,   \* whether calls to ElasticSearch may fail
  NilFatal      \* agents built with a gRPC that ends a daemon which answers with a
                \* nil message, as releases of the age of the generated code do
                \* (SupportPackageIsVersion3); later ones return an error

ASSUME LauncherAssumption ==
  /\ LchCap \in Nat \ {0}
  /\ NoAgent \notin Agent
  /\ Unstartable \subseteq App
  /\ Stoppable \subseteq Agent
  /\ Forks \subseteq App
  /\ StoreFails \in BOOLEAN
  /\ NilFatal \subseteq Agent

VARIABLES
  agentUp,    \* the agents whose daemon is running
  home,       \* the agent a Launch call for the application has reached
  launch,     \* where the Launch handler of the application is
  lch,        \* per agent: the buffered AppExec requests of channel lch
  phase,      \* where the launcher, then the waiter, is with the application
  lchApps,    \* per agent: Agent.lchApps, the launched applications
  proc,       \* the operating-system process of the application
  kill,       \* where the agent's Kill handler is with the application
  cancelled,  \* applications whose context was cancelled by kill
  doc         \* the application's document in ElasticSearch

launcherVars ==
  <<agentUp, home, launch, lch, phase, lchApps, proc, kill, cancelled, doc>>

HandlerStep == {"none", "sending", "waiting", "ok", "failed"}

(* "unstarted": cmd.Start failed, its error is in errCh; "started": the     *)
(* process runs and errCh holds nil; "listed": entered in lchApps, the      *)
(* start document being stored; "waiting": the waiter is in cmd.Wait;       *)
(* "dropped": the waiter returned because the application was killed;       *)
(* "lost": the daemon is gone.                                              *)
Phase == {"none", "queued", "unstarted", "started", "listed", "waiting",
          "reporting", "notifying", "notified", "done", "dropped", "lost"}

(* "draining": the main process has exited, but a process it has started    *)
(* holds its standard output or error open, from which cmd.Wait copies      *)
Process == {"none", "running", "draining", "exited"}

(* "found": getLchApp has returned the application; "removed": it is        *)
(* deleted from lchApps, and its context is about to be cancelled           *)
KillStage == {"none", "found", "removed"}

LauncherTypeOK ==
  /\ agentUp \subseteq Agent
  /\ home \in [App -> Agent \cup {NoAgent}]
  /\ launch \in [App -> HandlerStep]
  /\ lch \in [Agent -> Seq(App)]
  /\ \A g \in Agent : Len(lch[g]) <= LchCap
  /\ phase \in [App -> Phase]
  /\ lchApps \in [Agent -> SUBSET App]
  /\ proc \in [App -> Process]
  /\ kill \in [App -> KillStage]
  /\ cancelled \subseteq App
  /\ doc \in [App -> {"none", "started", "ended"}]

LauncherInit ==
  /\ agentUp = Agent
  /\ home = [a \in App |-> NoAgent]
  /\ launch = [a \in App |-> "none"]
  /\ lch = [g \in Agent |-> <<>>]
  /\ phase = [a \in App |-> "none"]
  /\ lchApps = [g \in Agent |-> {}]
  /\ proc = [a \in App |-> "none"]
  /\ kill = [a \in App |-> "none"]
  /\ cancelled = {}
  /\ doc = [a \in App |-> "none"]

-----------------------------------------------------------------------------
(* The Launch handler.                                                      *)

RecvLaunch(g, a) ==
  /\ g \in agentUp
  /\ launch[a] = "none"
  /\ launch' = [launch EXCEPT ![a] = "sending"]
  /\ home' = [home EXCEPT ![a] = g]
  /\ UNCHANGED <<agentUp, lch, phase, lchApps, proc, kill, cancelled, doc>>

(* Mutated SendExec: the channel is taken for an unbounded one *)
SendExecUnbounded(g, a) ==
  /\ launch[a] = "sending"
  /\ home[a] = g
  /\ lch' = [lch EXCEPT ![g] = Append(@, a)]
  /\ launch' = [launch EXCEPT ![a] = "waiting"]
  /\ phase' = [phase EXCEPT ![a] = "queued"]
  /\ UNCHANGED <<agentUp, home, lchApps, proc, kill, cancelled, doc>>

(* Mutated SendExec: the select has a default, by which a request that      *)
(* finds no room is dropped, and its caller waits                           *)
SendExecDrops(g, a) ==
  /\ launch[a] = "sending"
  /\ home[a] = g
  /\ lch' = IF Len(lch[g]) < LchCap THEN [lch EXCEPT ![g] = Append(@, a)] ELSE lch
  /\ launch' = [launch EXCEPT ![a] = "waiting"]
  /\ phase' = [phase EXCEPT ![a] = "queued"]
  /\ UNCHANGED <<agentUp, home, lchApps, proc, kill, cancelled, doc>>

(* case s.ag.lch <- &appExec *)
SendExec(g, a) ==
  /\ launch[a] = "sending"
  /\ home[a] = g
  /\ Len(lch[g]) < LchCap
  /\ lch' = [lch EXCEPT ![g] = Append(@, a)]
  /\ launch' = [launch EXCEPT ![a] = "waiting"]
  /\ phase' = [phase EXCEPT ![a] = "queued"]
  /\ UNCHANGED <<agentUp, home, lchApps, proc, kill, cancelled, doc>>

(* case <-ctx.Done(): the caller's deadline passed before lch had room *)
GiveUpLaunch(a) ==
  /\ launch[a] = "sending"
  /\ launch' = [launch EXCEPT ![a] = "failed"]
  /\ UNCHANGED <<agentUp, home, lch, phase, lchApps, proc, kill, cancelled, doc>>

(* err := <-appExec.errCh; the channel is filled when the launcher has left *)
(* cmd.Start behind.  This wait does not watch ctx.                         *)
AnswerLaunch(a) ==
  /\ launch[a] = "waiting"
  /\ phase[a] # "queued"
  /\ launch' = [launch EXCEPT ![a] =
                  IF phase[a] = "unstarted" THEN "failed" ELSE "ok"]
  /\ UNCHANGED <<agentUp, home, lch, phase, lchApps, proc, kill, cancelled, doc>>

-----------------------------------------------------------------------------
(* The launcher goroutine: one AppExec at a time, from cmd.Start to the end *)
(* of storeOne.                                                             *)

(* Mutated Busy: cmd.Run in place of cmd.Start, so that the launcher itself *)
(* waits for the application to end                                         *)
BusyUntilExit(g) ==
  \E a \in App :
    /\ home[a] = g
    /\ phase[a] \in {"unstarted", "started", "listed", "waiting"}

(* The launcher of application a's agent has it in hand *)
InHand(a) == phase[a] \in {"unstarted", "started", "listed"}

Busy(g) == \E a \in App : home[a] = g /\ InHand(a)

StartApp(g) ==
  /\ g \in agentUp
  /\ lch[g] # <<>>
  /\ ~Busy(g)
  /\ lch' = [lch EXCEPT ![g] = Tail(@)]
  /\ LET a == Head(lch[g]) IN
       \/ /\ phase' = [phase EXCEPT ![a] = "started"]
          /\ proc' = [proc EXCEPT ![a] = "running"]
       \/ /\ a \in Unstartable
          /\ phase' = [phase EXCEPT ![a] = "unstarted"]
          /\ UNCHANGED proc
  /\ UNCHANGED <<agentUp, home, launch, lchApps, kill, cancelled, doc>>

ListApp(g, a) ==
  /\ phase[a] = "started"
  /\ home[a] = g
  /\ phase' = [phase EXCEPT ![a] = "listed"]
  /\ lchApps' = [lchApps EXCEPT ![g] = @ \cup {a}]
  /\ UNCHANGED <<agentUp, home, launch, lch, proc, kill, cancelled, doc>>

(* storeOne may fail: the error is discarded and docId is empty *)
StoreStart(a) ==
  /\ phase[a] = "listed"
  /\ phase' = [phase EXCEPT ![a] = "waiting"]
  /\ \/ doc' = [doc EXCEPT ![a] = "started"]
     \/ StoreFails /\ UNCHANGED doc
  /\ UNCHANGED <<agentUp, home, launch, lch, lchApps, proc, kill, cancelled>>

-----------------------------------------------------------------------------
(* The waiter goroutine.  cmd.Wait and the select on app.ctx are one step:  *)
(* a cancellation between the two is one before the select.  cmd.Wait       *)
(* returns when the process has exited and its output is at an end.         *)

(* Mutated Reap: the waiter of a killed application never returns *)
ReapUnlessKilled(a) ==
  /\ phase[a] = "waiting"
  /\ proc[a] = "exited"
  /\ a \notin cancelled
  /\ phase' = [phase EXCEPT ![a] = "reporting"]
  /\ UNCHANGED <<agentUp, home, launch, lch, lchApps, proc, kill, cancelled, doc>>

(* Mutated Reap: the end of a killed application is reported, too *)
ReapIgnoresKill(a) ==
  /\ phase[a] = "waiting"
  /\ proc[a] = "exited"
  /\ phase' = [phase EXCEPT ![a] = "reporting"]
  /\ UNCHANGED <<agentUp, home, launch, lch, lchApps, proc, kill, cancelled, doc>>

(* Mutated Reap: cmd.Wait is forgotten *)
ReapAtOnce(a) ==
  /\ phase[a] = "waiting"
  /\ phase' = [phase EXCEPT ![a] =
                 IF a \in cancelled THEN "dropped" ELSE "reporting"]
  /\ UNCHANGED <<agentUp, home, launch, lch, lchApps, proc, kill, cancelled, doc>>

Reap(a) ==
  /\ phase[a] = "waiting"
  /\ proc[a] = "exited"
  /\ phase' = [phase EXCEPT ![a] =
                 IF a \in cancelled THEN "dropped" ELSE "reporting"]
  /\ UNCHANGED <<agentUp, home, launch, lch, lchApps, proc, kill, cancelled, doc>>

(* updateDoc changes the document that storeOne created, when both succeed; *)
(* then notifyDone calls the manager.                                       *)
StoreEnd(a) ==
  /\ phase[a] = "reporting"
  /\ phase' = [phase EXCEPT ![a] = "notifying"]
  /\ \/ doc[a] = "started" /\ doc' = [doc EXCEPT ![a] = "ended"]
     \/ StoreFails /\ UNCHANGED doc
  /\ UNCHANGED <<agentUp, home, launch, lch, lchApps, proc, kill, cancelled>>

(* NotifyDone was answered, failed, or its one second is over: notifyDone   *)
(* returns in every case and is not tried again.                            *)
NotifyReturn(a) ==
  /\ phase[a] = "notifying"
  /\ phase' = [phase EXCEPT ![a] = "notified"]
  /\ UNCHANGED <<agentUp, home, launch, lch, lchApps, proc, kill, cancelled, doc>>

Forget(g, a) ==
  /\ phase[a] = "notified"
  /\ home[a] = g
  /\ phase' = [phase EXCEPT ![a] = "done"]
  /\ lchApps' = [lchApps EXCEPT ![g] = @ \ {a}]
  /\ UNCHANGED <<agentUp, home, launch, lch, proc, kill, cancelled, doc>>

-----------------------------------------------------------------------------
(* The Kill handler: getLchApp, then kill, which deletes under the lock and  *)
(* cancels after it.  An application that is not listed is answered with    *)
(* "App does not exist".  The bound: one Kill handler per application at a  *)
(* time.                                                                    *)

RecvKill(g, a) ==
  /\ g \in agentUp
  /\ a \in lchApps[g]
  /\ kill[a] = "none"
  /\ kill' = [kill EXCEPT ![a] = "found"]
  /\ UNCHANGED <<agentUp, home, launch, lch, phase, lchApps, proc, cancelled, doc>>

(* Mutated KillDelete: the entry stays in lchApps *)
KillDeleteNot(g, a) ==
  /\ kill[a] = "found"
  /\ home[a] = g
  /\ kill' = [kill EXCEPT ![a] = "removed"]
  /\ UNCHANGED <<agentUp, home, launch, lch, phase, lchApps, proc, cancelled, doc>>

KillDelete(g, a) ==
  /\ kill[a] = "found"
  /\ home[a] = g
  /\ kill' = [kill EXCEPT ![a] = "removed"]
  /\ lchApps' = [lchApps EXCEPT ![g] = @ \ {a}]
  /\ UNCHANGED <<agentUp, home, launch, lch, phase, proc, cancelled, doc>>

(* Mutated KillCancel: the context is not cancelled *)
KillCancelNot(a) ==
  /\ kill[a] = "removed"
  /\ kill' = [kill EXCEPT ![a] = "none"]
  /\ UNCHANGED <<agentUp, home, launch, lch, phase, lchApps, proc, cancelled, doc>>

(* app.cancel(), and the handler returns *)
KillCancel(a) ==
  /\ kill[a] = "removed"
  /\ kill' = [kill EXCEPT ![a] = "none"]
  /\ cancelled' = cancelled \cup {a}
  /\ UNCHANGED <<agentUp, home, launch, lch, phase, lchApps, proc, doc>>

(* The main process ends, of itself or by the SIGKILL of its cancelled      *)
(* context; processes it has started may outlive it.                        *)
ProcExit(a) ==
  /\ proc[a] = "running"
  /\ \/ proc' = [proc EXCEPT ![a] = "exited"]
     \/ a \in Forks /\ proc' = [proc EXCEPT ![a] = "draining"]
  /\ UNCHANGED <<agentUp, home, launch, lch, phase, lchApps, kill, cancelled, doc>>

(* The last process that holds the output open closes it *)
PipesClose(a) ==
  /\ proc[a] = "draining"
  /\ proc' = [proc EXCEPT ![a] = "exited"]
  /\ UNCHANGED <<agentUp, home, launch, lch, phase, lchApps, kill, cancelled, doc>>

(* The daemon of g is gone with all its tables and goroutines; the          *)
(* processes it started live on.                                            *)
Down(g) ==
  /\ agentUp' = agentUp \ {g}
  /\ lch' = [lch EXCEPT ![g] = <<>>]
  /\ lchApps' = [lchApps EXCEPT ![g] = {}]
  /\ launch' = [a \in App |->
       IF home[a] = g /\ launch[a] \in {"sending", "waiting"}
         THEN "failed" ELSE launch[a]]
  /\ phase' = [a \in App |->
       IF home[a] = g /\ phase[a] \notin {"none", "done", "dropped"}
         THEN "lost" ELSE phase[a]]
  /\ kill' = [a \in App |-> IF home[a] = g THEN "none" ELSE kill[a]]
  /\ UNCHANGED <<home, proc, cancelled, doc>>

(* After a failed cmd.Start the launcher goes on to cmd.Process.Pid, where  *)
(* cmd.Process is nil: a panic that ends the daemon.                        *)
PanicOnStart(g) ==
  /\ g \in agentUp
  /\ \E a \in App : home[a] = g /\ phase[a] = "unstarted"
  /\ Down(g)

StopAgent(g) ==
  /\ g \in agentUp \cap Stoppable
  /\ Down(g)

(* Deregister returns nil, nil for an application that is not registered.   *)
(* Which calls come when is the environment's matter here.                  *)
NilReply(g) ==
  /\ g \in agentUp \cap NilFatal
  /\ Down(g)

-----------------------------------------------------------------------------
(* The agent alone, with an environment that calls Launch and Kill at will. *)

AppStep(g, a) ==
  \/ SendExec(g, a)
  \/ AnswerLaunch(a)
  \/ ListApp(g, a)
  \/ StoreStart(a)
  \/ Reap(a)
  \/ StoreEnd(a)
  \/ NotifyReturn(a)
  \/ Forget(g, a)
  \/ KillDelete(g, a)
  \/ KillCancel(a)

LauncherNext ==
  \/ \E g \in Agent, a \in App :
       AppStep(g, a) \/ RecvLaunch(g, a) \/ RecvKill(g, a)
  \/ \E a \in App : GiveUpLaunch(a) \/ ProcExit(a) \/ PipesClose(a)
  \/ \E g \in Agent : StartApp(g) \/ PanicOnStart(g) \/ StopAgent(g) \/ NilReply(g)

(* Goroutines that can run do run; HTTP calls to ElasticSearch and the call *)
(* to the manager return; a cancelled process dies of SIGKILL.  Calls from  *)
(* outside, operators, the natural end of a process and the processes it    *)
(* leaves behind owe nothing.                                               *)
LauncherFairness ==
  /\ \A g \in Agent, a \in App : WF_launcherVars(AppStep(g, a))
  /\ \A g \in Agent :
       WF_launcherVars(StartApp(g)) /\ WF_launcherVars(PanicOnStart(g))
  /\ \A a \in App :
       WF_launcherVars(a \in cancelled /\ home[a] \in agentUp /\ ProcExit(a))

LauncherSpec ==
  LauncherInit /\ [][LauncherNext]_launcherVars /\ LauncherFairness

-----------------------------------------------------------------------------
(* An entry of lchApps belongs to an application that this agent started,   *)
(* that no Kill has deleted or cancelled, and that a launcher or waiter     *)
(* goroutine still looks after, so that it will be removed: no entry        *)
(* outlives its application's goroutines (kill against the waiter's own     *)
(* delete).                                                                 *)
NoStaleEntry ==
  \A g \in Agent : \A a \in lchApps[g] :
    /\ home[a] = g
    /\ a \notin cancelled
    /\ kill[a] # "removed"
    /\ phase[a] \in {"listed", "waiting", "reporting", "notifying", "notified"}

(* A running process can be killed through its agent: it is listed, or its  *)
(* context is cancelled, or a Kill handler that has deleted it from the     *)
(* list is about to cancel.  The exceptions are the times between cmd.Start *)
(* and the insertion in lchApps ("started"), and after the agent's end      *)
(* ("lost"): kill, Forget and the launcher never drop the only handle of a  *)
(* process that lives.                                                      *)
RunningIsKillable ==
  \A a \in App :
    (proc[a] = "running" /\ phase[a] \notin {"started", "lost"})
      => a \in lchApps[home[a]] \/ a \in cancelled \/ kill[a] = "removed"

(* A Launch call that waits is one the agent can serve: the agent runs, the *)
(* request is in channel lch until the launcher takes it, and the launcher  *)
(* has one application in hand at a time.  So the caller waits for what is  *)
(* before it in the channel and no more, whoever gives up, is stopped or    *)
(* fails to start: no request falls out of the select in Launch.            *)
LaunchIsServed ==
  /\ \A a \in App : launch[a] \in {"sending", "waiting"} => home[a] \in agentUp
  /\ \A a \in App : launch[a] = "waiting" /\ phase[a] = "queued" =>
       \E i \in 1 .. Len(lch[home[a]]) : lch[home[a]][i] = a
  /\ \A a, b \in App : home[a] = home[b] /\ InHand(a) /\ InHand(b) => a = b

(* What AppRecord's variables are here, for application a *)
LifeOf(a) ==
  CASE proc[a] = "none" -> "none"
    [] phase[a] = "lost" -> "gone"
    [] phase[a] \in {"reporting", "notifying", "notified", "done"} -> "noted"
    [] a \in cancelled /\ phase[a] \in {"listed", "waiting", "dropped"} -> "killed"
    [] OTHER -> IF proc[a] = "running" THEN "running" ELSE "exited"

AppDocOf(a) ==
  IF proc[a] = "none" \/ phase[a] \in {"started", "listed"} THEN "none"
  ELSE IF doc[a] = "none" THEN "lost" ELSE doc[a]

Record(a) == INSTANCE AppRecord WITH life <- LifeOf(a), appDoc <- AppDocOf(a)

(* The documents of an application follow AppRecord, in every interleaving  *)
(* of launcher, waiter, Kill and the agent's end: no end without a start,   *)
(* none of an application that runs or was killed in time.                  *)
ImplementsAppRecord ==
  /\ \A a \in App : Record(a)!RecordInit
  /\ [][\A a \in App : [Record(a)!RecordNext]_<<LifeOf(a), AppDocOf(a)>>]_launcherVars

(* Every Launch call is answered: neither a slow ElasticSearch, nor an      *)
(* application that never ends, nor another call blocks the launcher for    *)
(* good.                                                                    *)
LaunchAnswered ==
  \A a \in App :
    launch[a] \in {"sending", "waiting"} ~> launch[a] \in {"ok", "failed"}

(* Every end of a process, and of those that held its output open, is dealt *)
(* with: it is reported and its entry deleted, or the waiter finds the      *)
(* application killed, or the agent is gone.                                *)
ExitHandled ==
  \A a \in App : proc[a] = "exited" ~> phase[a] \in {"done", "dropped", "lost"}

=============================================================================
