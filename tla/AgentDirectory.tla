----------------------------- MODULE AgentDirectory -----------------------------
(***************************************************************************)
(* The manager's directory of agents (manager/manager.go,                  *)
(* manager/server_master.go): every agent calls SayHi once per heartbeat   *)
(* interval (agent/agent.go cast), SayHi adds a new agent and stamps it,   *)
(* checkAgents removes the agents whose stamp is more than two intervals   *)
(* old.                                                                    *)
(*                                                                         *)
(* Time is discrete and relative: no clock is kept, only the age of each   *)
(* timestamp, the ticks since each agent began to sleep and the rest of    *)
(* checkAgents' sleep.  An agent runs one SayHi at a time.                 *)
(***************************************************************************)
EXTENDS Naturals

CONSTANTS
  Agent,        \* agent ids; a restarted daemon draws a new one
  Hb,           \* HbInterval in ticks
  Delay,        \* how long a punctual agent's call takes at most, in ticks
  Punctual,     \* the agents whose calls are never lost or late
  ConfigFails,  \* whether a Configure call to a live agent may fail
  MaxRestarts   \* bound on how often the manager ends

ASSUME DirectoryAssumption ==
  /\ Hb \in Nat \ {0}
  /\ Delay \in 1 .. Hb
  /\ Punctual \subseteq Agent
  /\ ConfigFails \in BOOLEAN
  /\ MaxRestarts \in Nat

VARIABLES
  agentUp,      \* the agents that run
  mgrUp,        \* the manager runs
  restarts,     \* how often it has ended
  listed,       \* the keys of Manager.agents
  age,          \* the age of the entry's Timestamp; Never: it is zero
  hi,           \* where the SayHi handler of each agent is
  since,        \* ticks since the agent's cast loop went to sleep
  check,        \* checkAgents: asleep, or about to remove what it found
  expired,      \* what its last scan found
  nap,          \* ticks left of its sleep
  configuring,  \* agents with a Configure call in flight
  configured    \* agents that got the manager's monitoring interval

checkVars == <<check, expired, nap>>
configVars == <<configuring, configured>>
life == <<agentUp, mgrUp, restarts>>
vars == <<life, listed, age, hi, since, checkVars, configVars>>

(* time.Time's zero value is older than any age that is told apart *)
Never == 4 * Hb + 2

Older(n) == IF n < 4 * Hb + 1 THEN n + 1 ELSE n

(* "adding": getAgent found no entry; "stamping": the handler holds the     *)
(* entry of the map; "orphan": it holds one that was removed meanwhile      *)
TypeOK ==
  /\ agentUp \subseteq Agent
  /\ mgrUp \in BOOLEAN
  /\ restarts \in 0 .. MaxRestarts
  /\ listed \subseteq Agent
  /\ age \in [Agent -> 0 .. Never]
  /\ hi \in [Agent -> {"asleep", "adding", "stamping", "orphan"}]
  /\ since \in [Agent -> 0 .. Hb + Delay]
  /\ check \in {"asleep", "removing"}
  /\ expired \subseteq Agent
  /\ nap \in 0 .. 2 * Hb
  /\ configuring \subseteq Agent
  /\ configured \subseteq Agent

Init ==
  /\ agentUp = Agent
  /\ mgrUp = TRUE
  /\ restarts = 0
  /\ listed = {}
  /\ age = [g \in Agent |-> Never]
  /\ hi = [g \in Agent |-> "asleep"]
  /\ since = [g \in Agent |-> Hb]
  /\ check = "asleep"
  /\ expired = {}
  /\ nap = 0
  /\ configuring = {}
  /\ configured = {}

-----------------------------------------------------------------------------
(* SayHi and the loop that calls it.                                        *)

(* The loop calls after a sleep of Hb; getAgent reads the map *)
SayHi(g) ==
  /\ mgrUp
  /\ g \in agentUp
  /\ hi[g] = "asleep"
  /\ since[g] >= Hb
  /\ hi' = [hi EXCEPT ![g] = IF g \in listed THEN "stamping" ELSE "adding"]
  /\ UNCHANGED <<life, listed, age, since, checkVars, configVars>>

(* Mutated AddAgent: Configure is left to the next call *)
AddUnconfigured(g) ==
  /\ hi[g] = "adding"
  /\ listed' = listed \cup {g}
  /\ age' = [age EXCEPT ![g] = Never]
  /\ hi' = [hi EXCEPT ![g] = "stamping"]
  /\ UNCHANGED <<life, since, checkVars, configVars>>

(* A new agent enters the map with a zero Timestamp, and Configure is called *)
AddAgent(g) ==
  /\ hi[g] = "adding"
  /\ listed' = listed \cup {g}
  /\ age' = [age EXCEPT ![g] = Never]
  /\ configuring' = configuring \cup {g}
  /\ hi' = [hi EXCEPT ![g] = "stamping"]
  /\ UNCHANGED <<life, since, checkVars, configured>>

(* Mutated Stamp: only a new agent is stamped *)
StampNew(g) ==
  /\ hi[g] \in {"stamping", "orphan"}
  /\ age' = [age EXCEPT ![g] = IF @ = Never THEN 0 ELSE @]
  /\ hi' = [hi EXCEPT ![g] = "asleep"]
  /\ since' = [since EXCEPT ![g] = 0]
  /\ UNCHANGED <<life, listed, checkVars, configVars>>

(* ag.Timestamp = time.Now(); SayHi returns and the agent goes to sleep.    *)
(* The stamp of an entry that is no longer in the map is lost.              *)
Stamp(g) ==
  /\ hi[g] \in {"stamping", "orphan"}
  /\ age' = [age EXCEPT ![g] = IF hi[g] = "stamping" THEN 0 ELSE @]
  /\ hi' = [hi EXCEPT ![g] = "asleep"]
  /\ since' = [since EXCEPT ![g] = 0]
  /\ UNCHANGED <<life, listed, checkVars, configVars>>

(* Mutated SayHiFails: cast returns and is not called again *)
SayHiGivesUp(g) ==
  /\ g \in agentUp
  /\ hi[g] = "asleep"
  /\ since[g] >= Hb
  /\ ~mgrUp
  /\ hi' = [hi EXCEPT ![g] = "returned"]
  /\ since' = [since EXCEPT ![g] = 0]
  /\ UNCHANGED <<life, listed, age, checkVars, configVars>>

(* The call fails before it reaches the manager: sleep, then cast again *)
SayHiFails(g) ==
  /\ g \in agentUp
  /\ hi[g] = "asleep"
  /\ since[g] >= Hb
  /\ ~mgrUp \/ g \notin Punctual
  /\ since' = [since EXCEPT ![g] = 0]
  /\ UNCHANGED <<life, listed, age, hi, checkVars, configVars>>

(* configAgent has one second and is not tried again *)
Configure(g) ==
  /\ g \in configuring
  /\ configuring' = configuring \ {g}
  /\ \/ g \in agentUp /\ configured' = configured \cup {g}
     \/ (ConfigFails \/ g \notin agentUp) /\ UNCHANGED configured
  /\ UNCHANGED <<life, listed, age, hi, since, checkVars>>

-----------------------------------------------------------------------------
(* checkAgents.                                                             *)

(* Mutated Expired: as long as a full round of checkAgents more *)
ExpiredLate(g) == age[g] > 4 * Hb

(* now.After(ag.Timestamp.Add(HbInterval * 2)) *)
Expired(g) == age[g] > 2 * Hb

(* The scan under the read lock *)
Scan ==
  /\ mgrUp
  /\ check = "asleep"
  /\ nap = 0
  /\ expired' = {g \in listed : Expired(g)}
  /\ \/ expired' = {} /\ nap' = 2 * Hb /\ UNCHANGED check
     \/ expired' # {} /\ check' = "removing" /\ UNCHANGED nap
  /\ UNCHANGED <<life, listed, age, hi, since, configVars>>

(* The deletion, under the write lock, of what the scan had found *)
RemoveThenSleep(n) ==
  /\ check = "removing"
  /\ listed' = listed \ expired
  /\ hi' = [g \in Agent |->
       IF g \in expired /\ hi[g] = "stamping" THEN "orphan" ELSE hi[g]]
  /\ check' = "asleep"
  /\ expired' = {}
  /\ nap' = n
  /\ UNCHANGED <<life, age, since, configVars>>

(* Mutated Remove: checkAgents sleeps twice as long after it *)
RemoveSleepsLong == RemoveThenSleep(4 * Hb)

Remove == RemoveThenSleep(2 * Hb)

-----------------------------------------------------------------------------
Die(g) ==
  /\ g \in agentUp
  /\ agentUp' = agentUp \ {g}
  /\ UNCHANGED <<mgrUp, restarts, listed, age, hi, since, checkVars, configVars>>

(* The manager ends with its map, checkAgents and every handler; the calls  *)
(* it was serving fail, and their agents go to sleep                        *)
ManagerEnds ==
  /\ mgrUp
  /\ restarts < MaxRestarts
  /\ mgrUp' = FALSE
  /\ listed' = {}
  /\ age' = [g \in Agent |-> Never]
  /\ since' = [g \in Agent |-> IF hi[g] = "asleep" THEN since[g] ELSE 0]
  /\ hi' = [g \in Agent |-> "asleep"]
  /\ check' = "asleep"
  /\ expired' = {}
  /\ nap' = 0
  /\ configuring' = {}
  /\ restarts' = restarts + 1
  /\ UNCHANGED <<agentUp, configured>>

ManagerStarts ==
  /\ ~mgrUp
  /\ mgrUp' = TRUE
  /\ UNCHANGED <<agentUp, restarts, listed, age, hi, since, checkVars, configVars>>

(* Time passes, but not beyond checkAgents' wake-up, not while it removes,  *)
(* and not beyond the delay of a punctual agent's call                      *)
Tick ==
  /\ check = "asleep"
  /\ mgrUp => nap > 0
  /\ \A g \in agentUp \cap Punctual : since[g] < Hb + Delay
  /\ age' = [g \in Agent |-> Older(age[g])]
  /\ since' = [g \in Agent |-> IF since[g] < Hb + Delay THEN since[g] + 1 ELSE since[g]]
  /\ nap' = IF nap > 0 THEN nap - 1 ELSE 0
  /\ UNCHANGED <<life, listed, hi, check, expired, configVars>>

AgentStep(g) == SayHi(g) \/ AddAgent(g) \/ Stamp(g)

Next ==
  \/ \E g \in Agent :
       AgentStep(g) \/ SayHiFails(g) \/ Configure(g) \/ Die(g)
  \/ Scan \/ Remove
  \/ ManagerEnds \/ ManagerStarts
  \/ Tick

(* Time goes on, and the manager's and the agents' goroutines run *)
Fairness ==
  /\ WF_vars(Tick) /\ WF_vars(Scan) /\ WF_vars(Remove)
  /\ \A g \in Agent :
       /\ WF_vars(AgentStep(g))
       /\ WF_vars(~mgrUp /\ SayHiFails(g))
       /\ WF_vars(Configure(g))

Spec == Init /\ [][Next]_vars

FairSpec == Spec /\ Fairness

-----------------------------------------------------------------------------
(* An agent that stays silent leaves within two rounds of checkAgents: no   *)
(* stamp in the map is older than four heartbeat intervals.                 *)
SilentAgentsLeave == \A g \in listed : age[g] <= 4 * Hb \/ age[g] = Never

(* The stamp of an agent that calls on time is never old enough for         *)
(* checkAgents to remove it, whatever the phase between the two loops.      *)
PunctualIsFresh ==
  \A g \in listed \cap agentUp \cap Punctual : age[g] # Never => ~Expired(g)

(* An agent that lives and calls on time is in the directory again and      *)
(* again: after a restart of the manager, and after checkAgents has removed *)
(* the entry it had just made.                                              *)
LiveIsListed ==
  \A g \in Punctual : g \in agentUp ~> g \in listed \/ g \notin agentUp \/ ~mgrUp

(* Where Configure calls do not fail, an agent that is in the directory     *)
(* comes to use the manager's monitoring interval.                          *)
ListedIsConfigured ==
  \A g \in Agent :
    g \in listed ~> g \in configured \/ g \notin agentUp \/ ~mgrUp

(* "checkAgents examines periodly expired agents and remove them"           *)
(* (manager.go:140): an agent it removes is expired.                        *)
OnlyExpiredLeave ==
  [][\A g \in Agent :
       (g \in listed \ listed' /\ mgrUp') => Expired(g)]_vars

=============================================================================
