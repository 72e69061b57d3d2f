-------------------------------- MODULE Monica --------------------------------
(***************************************************************************)
(* One invocation of the client monica (monica/monica.go, cmd/app.go) that *)
(* reads: the process query (ProcessQuery), or a report from the documents *)
(* that agents have left in ElasticSearch.  Meanwhile the application runs *)
(* and ends and its agent records that (AppRecord, here with the times),   *)
(* and nodes store what they measure, each stamped by its own clock.       *)
(*                                                                         *)
(* ElasticSearch is external: a search sees a document some time after it  *)
(* was stored, and a scroll pages through what its first search has seen.  *)
(***************************************************************************)
EXTENDS ProcessQuery, AppRecord, Integers, FiniteSets

CONSTANTS
  Offset,    \* how far each agent's clock is off
  Second,    \* what RFC 3339 without a fraction cuts time into
  Margin,    \* three minutes in the code
  Lag,       \* bound on the time from the start of the process to time.Now()
  PageSize,  \* hits of one page, 100 in the code
  MaxTime,   \* bound on the clock
  MaxDocs,   \* bound on the documents that are measured
  Never      \* "no such time"

(* Clocks may differ by the margin less what truncation and lag take away *)
ASSUME MonicaAssumption ==
  /\ Offset \in [Agent -> Int]
  /\ Second \in Nat \ {0}
  /\ Margin \in Nat
  /\ Lag \in Nat
  /\ PageSize \in Nat \ {0}
  /\ MaxTime \in Nat
  /\ MaxDocs \in Nat
  /\ Never \notin Nat
  /\ \A g \in Agent : /\ Offset[Entry] - Offset[g] + Lag + Second <= Margin
                      /\ Offset[g] - Offset[Entry] + Second <= Margin

Time == 0 .. MaxTime

(* A measured document: of the application's processes or of a node *)
Doc == [kind : {"proc", "sys"}, node : Agent, at : Time]

VARIABLES
  clock,    \* the true time
  began,    \* when the application's process was started
  stime,    \* when the launcher noted that
  etime,    \* when the waiter noted its end
  docs,     \* the measured documents that a search sees
  cmd,      \* what this monica was called for
  step,     \* "called", "scroll" or "done"
  exit,     \* its exit status, 1 while it runs
  hits,     \* what its scroll will go through
  printed   \* the documents it has printed

timeVars == <<clock, began, stime, etime>>
lifeVars == <<recordVars, timeVars, docs>>
reportVars == <<cmd, step, exit, hits, printed>>
vars == <<queryVars, lifeVars, reportVars>>

Running == 1

(* Format(time.RFC3339) of what the clock of g shows *)
Stamp(t, g) == (t + Offset[g]) - ((t + Offset[g]) % Second)

(* cmd/app.go: --perf prevails, for AppPerf does not return *)
AppCmd(appPerf, sysPerf) ==
  IF appPerf THEN "perf" ELSE IF sysPerf THEN "sys" ELSE "info"

Command == {"procs"} \cup {AppCmd(p, s) : p, s \in BOOLEAN}

TypeOK ==
  /\ QueryTypeOK
  /\ clock \in Time
  /\ life \in {"none", "running", "exited", "noted", "killed", "gone"}
  /\ began \in Time \cup {Never}
  /\ stime \in 0 .. MaxTime + Lag \cup {Never}
  /\ etime \in Time \cup {Never}
  /\ appDoc \in {"none", "lost", "started", "ended"}
  /\ docs \subseteq Doc
  /\ cmd \in Command
  /\ step \in {"called", "scroll", "done"}
  /\ exit \in {Running, 0, -1}
  /\ hits \subseteq docs
  /\ printed \subseteq hits

Init ==
  /\ QueryInit
  /\ RecordInit
  /\ clock = 0
  /\ began = Never
  /\ stime = Never
  /\ etime = Never
  /\ docs = {}
  /\ cmd \in Command
  /\ step = "called"
  /\ exit = Running
  /\ hits = {}
  /\ printed = {}

-----------------------------------------------------------------------------
(* What the agents do meanwhile.  A process query reads none of it: for it, *)
(* nothing of this needs to happen.                                         *)

Meanwhile == cmd # "procs" /\ exit = Running

Tick ==
  /\ Meanwhile
  /\ clock < MaxTime
  /\ clock' = clock + 1
  /\ UNCHANGED <<queryVars, recordVars, began, stime, etime, docs, reportVars>>

(* cmd.Start; the launcher notes the time a little later *)
Start ==
  /\ Meanwhile
  /\ Starts
  /\ began' = clock
  /\ \E lag \in 0 .. Lag : stime' = clock + lag
  /\ UNCHANGED <<queryVars, clock, etime, docs, reportVars>>

(* Mutated NoteEnd: the waiter does not look at app.ctx *)
NoteEndAlways ==
  /\ Meanwhile
  /\ \/ EndNoted
     \/ life = "killed" /\ appDoc = "started" /\ appDoc' = "ended" /\ UNCHANGED life
  /\ clock >= stime
  /\ etime' = clock
  /\ UNCHANGED <<queryVars, clock, began, stime, docs, reportVars>>

(* After cmd.Wait *)
NoteEnd ==
  /\ Meanwhile
  /\ EndNoted
  /\ clock >= stime
  /\ etime' = clock
  /\ UNCHANGED <<queryVars, clock, began, stime, docs, reportVars>>

(* The steps of the agent that note no time *)
Proceed ==
  /\ Meanwhile
  /\ StartStored \/ Ends \/ IsKilled \/ EndStored \/ AgentGone
  /\ UNCHANGED <<queryVars, timeVars, docs, reportVars>>

(* A search begins to see a document that was measured before *)
Measured(d) ==
  /\ Meanwhile
  /\ d.at <= clock
  /\ d \notin docs
  /\ Cardinality(docs) < MaxDocs
  /\ docs' = docs \cup {d}
  /\ UNCHANGED <<queryVars, recordVars, timeVars, reportVars>>

AgentsStep == Tick \/ Start \/ NoteEnd \/ Proceed \/ \E d \in Doc : Measured(d)

-----------------------------------------------------------------------------
(* The command.                                                             *)

(* os.Exit *)
ExitWith(status) ==
  /\ step' = "done"
  /\ exit' = status

(* ElasticSearch is not reached, at the start or between two pages *)
StoreFails ==
  /\ cmd # "procs"
  /\ exit = Running
  /\ ExitWith(-1)
  /\ UNCHANGED <<queryVars, lifeVars, cmd, hits, printed>>

(* An application without a document is no error *)
AppInfo ==
  /\ cmd = "info"
  /\ step = "called"
  /\ ExitWith(0)
  /\ UNCHANGED <<queryVars, lifeVars, cmd, hits, printed>>

Scroll(found) ==
  /\ hits' = found
  /\ step' = "scroll"
  /\ UNCHANGED <<queryVars, lifeVars, cmd, exit, printed>>

AppPerf ==
  /\ cmd = "perf"
  /\ step = "called"
  /\ Scroll({d \in docs : d.kind = "proc"})

(* Without the application's document, or its end, there is no report *)
AppSysPerfRefused ==
  /\ cmd = "sys"
  /\ step = "called"
  /\ appDoc # "ended"
  /\ ExitWith(-1)
  /\ UNCHANGED <<queryVars, lifeVars, cmd, hits, printed>>

(* Mutated InRange: from the start to the end, as they are *)
InRangeExact(t) == Stamp(stime, Entry) <= t /\ t <= Stamp(etime, Entry)

(* rq: three minutes before the start to three minutes after the end *)
InRange(t) == Stamp(stime, Entry) - Margin <= t /\ t <= Stamp(etime, Entry) + Margin

AppSysPerf ==
  /\ cmd = "sys"
  /\ step = "called"
  /\ appDoc = "ended"
  /\ Scroll({d \in docs : d.kind = "sys" /\ InRange(Stamp(d.at, d.node))})

(* Sort("timestamp", false), Size(100) *)
IsPage(page) ==
  /\ Cardinality(page) <= PageSize
  /\ page = hits \ printed \/ Cardinality(page) = PageSize
  /\ \A d \in page, e \in (hits \ printed) \ page :
       Stamp(d.at, d.node) >= Stamp(e.at, e.node)

(* Mutated NextPage: each page is searched for anew *)
NextPageLive ==
  /\ step = "scroll"
  /\ hits # printed
  /\ \E d \in docs \ printed : printed' = printed \cup {d}
  /\ UNCHANGED <<queryVars, lifeVars, cmd, step, exit, hits>>

NextPage ==
  /\ step = "scroll"
  /\ hits # printed
  /\ \E page \in SUBSET (hits \ printed) :
       /\ IsPage(page)
       /\ printed' = printed \cup page
  /\ UNCHANGED <<queryVars, lifeVars, cmd, step, exit, hits>>

(* io.EOF; of no hits at all a report may also be told by TotalHits *)
LastPage ==
  /\ step = "scroll"
  /\ hits = printed
  /\ ExitWith(0) \/ (cmd = "sys" /\ hits = {} /\ ExitWith(-1))
  /\ UNCHANGED <<queryVars, lifeVars, cmd, hits, printed>>

(* GetProcesses asks the manager: ProcessQuery *)
GetProcesses ==
  /\ cmd = "procs"
  /\ QueryNext
  /\ UNCHANGED <<lifeVars, reportVars>>

ProcessesPrinted ==
  /\ cmd = "procs"
  /\ step = "called"
  /\ heard # "waiting"
  /\ ExitWith(IF heard = "reply" THEN 0 ELSE -1)
  /\ UNCHANGED <<queryVars, lifeVars, cmd, hits, printed>>

ReportStep ==
  \/ AppInfo
  \/ AppPerf
  \/ AppSysPerfRefused
  \/ AppSysPerf
  \/ NextPage
  \/ LastPage
  \/ ProcessesPrinted

Next == AgentsStep \/ ReportStep \/ StoreFails \/ GetProcesses

Spec == Init /\ [][Next]_vars

(* Goroutines are scheduled, time passes for the client, searches return.   *)
(* Nothing is assumed of agents.                                            *)
Fairness ==
  /\ WF_vars(ReportStep)
  /\ WF_vars(GetProcesses /\ HandlerStep)
  /\ WF_vars(GetProcesses /\ ClientStep)

FairSpec == Spec /\ Fairness

-----------------------------------------------------------------------------
(* A report on system performance goes through every document that its     *)
(* search sees and that was measured, on any node, while the application    *)
(* ran: neither clocks that differ, nor stamps that are cut to seconds, nor *)
(* a launcher that notes the start late leave one outside the range.        *)
RangeCovers ==
  [][cmd = "sys" /\ step = "called" /\ step' = "scroll" =>
       \A d \in docs :
         d.kind = "sys" /\ began <= d.at /\ d.at <= etime => d \in hits']_vars

(* Only an application that has ended by itself has such a report: never    *)
(* one that was killed before its waiter looked at the context, even if its *)
(* process had already exited then.                                         *)
EndlessIsRefused ==
  life \in {"none", "running", "exited", "killed"} /\ cmd = "sys" => exit # 0

(* Every command ends, with whatever agents do not answer.                  *)
CommandEnds == <>(exit # Running)

=============================================================================
