------------------------------ MODULE ProcessQuery ------------------------------
(***************************************************************************)
(* One process query, end to end: GetProcesses of the client               *)
(* (monica/monica.go), which waits one second; GetProcesses of the manager *)
(* (manager/server_app.go), which asks every agent of its directory from a *)
(* goroutine of its own and collects their lists over a channel without    *)
(* places; and what each agent answers, a list that detectProcs has made   *)
(* (module Detectors).  How an agent reads that list while appMonitor      *)
(* replaces it is in AgentMonitor.                                         *)
(*                                                                         *)
(* The manager's deadline is the client's: gRPC carries it over, and the   *)
(* second of each goroutine begins later than the client's.                *)
(***************************************************************************)
EXTENDS Detectors

CONSTANTS
  Agent,       \* agents, dead ones of the directory included
  Host,
  Placements,  \* which agent runs on which host, one function for each case
  Entry,       \* the agent that has launched the application
  EntryPid,    \* its entry process
  Frameworks,  \* the application's frameworks, a sequence
  OwnJob,      \* the job that they run for it
  Listings     \* what jps may yield

ASSUME QueryAssumption ==
  /\ Placements \subseteq [Agent -> Host]
  /\ Entry \in Agent
  /\ EntryPid \in Pid
  /\ Frameworks \in Seq({Hadoop, Spark})
  /\ OwnJob \in JobId
  /\ Listings \subseteq Listing

VARIABLES
  hostOf,   \* Node.Host of each agent
  pc,       \* the handler: "idle", "gathering", "closed", "refused", "replied"
  worker,   \* its goroutines, one for each agent asked
  list,     \* the list each agent has answered
  seen,     \* what the detection it comes from has seen
  reply,    \* NodeProcs: lists by host
  heard     \* the client: "waiting", or how its call has ended

queryVars == <<hostOf, pc, worker, list, seen, reply, heard>>

(* What Submit has put into JobIds: empty strings, never replaced *)
JobIds == [i \in DOMAIN Frameworks |-> NoJob]

Outs == [DOMAIN Frameworks -> Listings]
Nothing == [entry |-> FALSE, outs |-> <<>>]
Sight == {Nothing} \cup [entry : BOOLEAN, outs : Outs]

(* The list an agent holds: of its last detection, or empty before it *)
Procs(sight) ==
  IF sight = Nothing THEN <<>>
  ELSE detectProcs(IF sight.entry THEN <<EntryPid>> ELSE <<>>, Frameworks, JobIds,
                   sight.outs)

Asked == {g \in Agent : worker[g] # "none"}
Sent == {g \in Agent : worker[g] = "sent"}

QueryTypeOK ==
  /\ hostOf \in Placements
  /\ pc \in {"idle", "gathering", "closed", "refused", "replied"}
  /\ worker \in [Agent -> {"none", "calling", "answered", "sent", "failed", "expired"}]
  /\ seen \in [Agent -> Sight]
  /\ list \in [Agent -> {Procs(sight) : sight \in Sight}]
  /\ DOMAIN reply \subseteq Host
  /\ heard \in {"waiting", "reply", "error", "deadline"}

QueryInit ==
  /\ hostOf \in Placements
  /\ pc = "idle"
  /\ worker = [g \in Agent |-> "none"]
  /\ list = [g \in Agent |-> <<>>]
  /\ seen = [g \in Agent |-> Nothing]
  /\ reply = <<>>
  /\ heard = "waiting"

-----------------------------------------------------------------------------
(* The handler of the manager and its goroutines.                           *)

(* The application is not in the table *)
Unknown ==
  /\ pc = "idle"
  /\ heard = "waiting"
  /\ pc' = "refused"
  /\ UNCHANGED <<hostOf, worker, list, seen, reply, heard>>

(* One goroutine for each agent of the directory, which may hold any *)
FanOut(agents) ==
  /\ pc = "idle"
  /\ heard = "waiting"
  /\ pc' = "gathering"
  /\ worker' = [g \in Agent |-> IF g \in agents THEN "calling" ELSE "none"]
  /\ UNCHANGED <<hostOf, list, seen, reply, heard>>

(* The agent answers with the list that its appMonitor has made last *)
Answer(g) ==
  /\ worker[g] = "calling"
  /\ \E sight \in Sight :
       /\ sight.entry => g = Entry
       /\ seen' = [seen EXCEPT ![g] = sight]
       /\ list' = [list EXCEPT ![g] = Procs(sight)]
  /\ worker' = [worker EXCEPT ![g] = "answered"]
  /\ UNCHANGED <<hostOf, pc, reply, heard>>

(* The agent is not reached, or does not monitor the application *)
CallFails(g) ==
  /\ worker[g] = "calling"
  /\ worker' = [worker EXCEPT ![g] = "failed"]
  /\ UNCHANGED <<hostOf, pc, list, seen, reply, heard>>

(* Mutated CallExpires: a goroutine does not wait as long as the client *)
CallExpiresSooner(g) ==
  /\ worker[g] = "calling"
  /\ worker' = [worker EXCEPT ![g] = "expired"]
  /\ UNCHANGED <<hostOf, pc, list, seen, reply, heard>>

(* newCtx: the client's deadline comes before the goroutine's own *)
CallExpires(g) ==
  /\ worker[g] = "calling"
  /\ heard = "deadline"
  /\ worker' = [worker EXCEPT ![g] = "expired"]
  /\ UNCHANGED <<hostOf, pc, list, seen, reply, heard>>

(* Mutated Receive: the goroutine takes its agent from the loop's variable *)
ReceiveCaptured(g) ==
  /\ pc = "gathering"
  /\ worker[g] = "answered"
  /\ worker' = [worker EXCEPT ![g] = "sent"]
  /\ \E last \in Asked :
       reply' = [h \in DOMAIN reply \cup {hostOf[last]} |->
                  IF h = hostOf[last] THEN list[g] ELSE reply[h]]
  /\ UNCHANGED <<hostOf, pc, list, seen, heard>>

(* agCh has no places: the goroutine sends when the handler receives *)
Receive(g) ==
  /\ pc = "gathering"
  /\ worker[g] = "answered"
  /\ worker' = [worker EXCEPT ![g] = "sent"]
  /\ reply' = [h \in DOMAIN reply \cup {hostOf[g]} |->
                 IF h = hostOf[g] THEN list[g] ELSE reply[h]]
  /\ UNCHANGED <<hostOf, pc, list, seen, heard>>

(* Mutated Close: a goroutine whose call fails is never done *)
CloseUnlessFailed ==
  /\ pc = "gathering"
  /\ \A g \in Agent : worker[g] \in {"none", "sent"}
  /\ pc' = "closed"
  /\ UNCHANGED <<hostOf, worker, list, seen, reply, heard>>

(* wg.Wait is over, and the channel closed *)
Close ==
  /\ pc = "gathering"
  /\ \A g \in Agent : worker[g] \notin {"calling", "answered"}
  /\ pc' = "closed"
  /\ UNCHANGED <<hostOf, worker, list, seen, reply, heard>>

Return ==
  /\ pc = "closed"
  /\ pc' = "replied"
  /\ UNCHANGED <<hostOf, worker, list, seen, reply, heard>>

-----------------------------------------------------------------------------
(* The client.                                                              *)

(* The manager is not reached *)
Unreachable ==
  /\ heard = "waiting"
  /\ pc = "idle"
  /\ heard' = "error"
  /\ UNCHANGED <<hostOf, pc, worker, list, seen, reply>>

Hear ==
  /\ heard = "waiting"
  /\ pc \in {"refused", "replied"}
  /\ heard' = IF pc = "replied" THEN "reply" ELSE "error"
  /\ UNCHANGED <<hostOf, pc, worker, list, seen, reply>>

(* Mutated Deadline: there is none once the manager has been called *)
DeadlineOfDial ==
  /\ heard = "waiting"
  /\ pc = "idle"
  /\ heard' = "deadline"
  /\ UNCHANGED <<hostOf, pc, worker, list, seen, reply>>

(* One second has passed *)
Deadline ==
  /\ heard = "waiting"
  /\ heard' = "deadline"
  /\ UNCHANGED <<hostOf, pc, worker, list, seen, reply>>

HandlerStep ==
  \/ Unknown
  \/ \E agents \in SUBSET Agent : FanOut(agents)
  \/ \E g \in Agent : CallExpires(g) \/ Receive(g)
  \/ Close
  \/ Return

ClientStep == Unreachable \/ Hear \/ Deadline

QueryNext == HandlerStep \/ ClientStep \/ \E g \in Agent : Answer(g) \/ CallFails(g)

QuerySpec == QueryInit /\ [][QueryNext]_queryVars

-----------------------------------------------------------------------------
(* The reply holds a list for exactly the hosts of the agents that have     *)
(* answered, and it is the list of one of them: lists of two agents on one  *)
(* host replace each other, nothing else is lost or mixed up by goroutines  *)
(* that finish in any order.                                                *)
ReplyFaithful ==
  pc = "replied" =>
    /\ DOMAIN reply = {hostOf[g] : g \in {a \in Agent : worker[a] \in {"answered", "sent"}}}
    /\ \A h \in DOMAIN reply : \E g \in Sent : hostOf[g] = h /\ reply[h] = list[g]

(* A reply that reaches the client is never cut short by an agent that is   *)
(* slow or silent: every agent asked has answered, or refused, or could not *)
(* be reached at all, and the last two are left out without a word.  (What  *)
(* a silent agent costs is the whole reply: the call ends with the          *)
(* deadline.)                                                               *)
NoCutReply == heard = "reply" => \A g \in Agent : worker[g] \in {"none", "sent", "failed"}

(* The processes an agent has answered with *)
Listed(g) == {list[g][i] : i \in DOMAIN list[g]}

(* Whether jps has run and what it has printed can be read *)
Readable(out) ==
  out.ok /\ \A i \in DOMAIN out.lines : out.lines[i].split => out.lines[i].number

(* The daemons of framework fw and the processes of the application's job   *)
Wanted(fw, out) ==
  {out.lines[i].pid : i \in {j \in DOMAIN out.lines :
     /\ Readable(out)
     /\ out.lines[j].split
     /\ fw \in out.lines[j].names
     /\ \/ out.lines[j].sn \in hadoopProcMap \cup sparkProcMap
        \/ OwnJob \in out.lines[j].jobs}}

(* No process of the application, nor of a framework it runs on, that jps   *)
(* has printed is missing from what an agent answers, although nobody tells *)
(* the agent the application's jobs: the detectors ask for a job id that    *)
(* every line contains.                                                     *)
NothingMissed ==
  \A g \in Agent :
    /\ seen[g].entry => EntryPid \in Listed(g)
    /\ \A i \in DOMAIN seen[g].outs : Wanted(Frameworks[i], seen[g].outs[i]) \subseteq Listed(g)

(* A query is answered or refused, whatever agents do not answer.           *)
QueryReturns == pc = "gathering" ~> pc = "replied"

-----------------------------------------------------------------------------
(* What the documentation says and the code does not do.                    *)

(* The processes that the frameworks run for other jobs *)
OfOtherJobs(out) ==
  {out.lines[i].pid : i \in {j \in DOMAIN out.lines :
     /\ out.lines[j].split
     /\ out.lines[j].sn \in hadoopAppProcMap \cup sparkAppProcMap
     /\ OwnJob \notin out.lines[j].jobs}}

(* "agent responds with the app's processes' info on the node"              *)
(* (agent.proto:21-22): not with processes of another job, which the        *)
(* detectors filter out by the job id (detector_hadoop.go:55-59).           *)
OnlyOwnProcesses ==
  \A g \in Agent : \A i \in DOMAIN seen[g].outs :
    Listed(g) \cap OfOtherJobs(seen[g].outs[i]) = {}

=============================================================================
