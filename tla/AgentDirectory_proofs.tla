-------------------------- MODULE AgentDirectory_proofs --------------------------
(***************************************************************************)
(* Proofs of the timing properties of AgentDirectory, for every set of     *)
(* agents, heartbeat interval, delay and number of restarts.               *)
(***************************************************************************)
EXTENDS AgentDirectory, TLAPS

(* While the manager is down it has no entries and no handlers; a handler   *)
(* that found no entry, or lost it, belongs to an agent without one.        *)
HandlerInv ==
  /\ ~mgrUp => listed = {}
  /\ ~mgrUp => \A g \in Agent : hi[g] = "asleep"
  /\ \A g \in Agent : hi[g] \in {"adding", "orphan"} => g \notin listed

(* The sleep that is left is accounted for in the age of every entry, and   *)
(* what a scan has passed over is at most two intervals old.                *)
SilentInv ==
  /\ check = "asleep" =>
       \A g \in listed : age[g] = Never \/ age[g] + nap <= 4 * Hb
  /\ check = "removing" =>
       /\ nap = 0
       /\ \A g \in listed :
            age[g] = Never \/ (age[g] <= 4 * Hb /\ (g \in expired \/ age[g] <= 2 * Hb))

(* A punctual agent's stamp is no older than its sleep *)
FreshInv ==
  \A g \in listed \cap agentUp \cap Punctual : age[g] # Never => age[g] <= since[g]

Inv == TypeOK /\ HandlerInv /\ SilentInv /\ FreshInv

USE DirectoryAssumption DEF Never

(* Ageing by one tick: a stamp stays a stamp, and zero stays zero *)
LEMMA OlderFacts ==
  ASSUME NEW n \in 0 .. Never
  PROVE  /\ Older(n) \in 0 .. Never
         /\ Older(n) <= n + 1
         /\ Older(n) = Never <=> n = Never
  BY DEF Older

(* The initial states satisfy the invariant *)
LEMMA InvInit == Init => Inv
  BY DEF Init, Inv, TypeOK, HandlerInv, SilentInv, FreshInv

(* Every step keeps the types *)
LEMMA TypeStep == TypeOK /\ [Next]_vars => TypeOK'
<1> SUFFICES ASSUME TypeOK, [Next]_vars PROVE TypeOK'
  OBVIOUS
<1> USE DEF TypeOK, life, checkVars, configVars
<1>1. ASSUME NEW g \in Agent, SayHi(g) PROVE TypeOK'
  BY <1>1 DEF SayHi
<1>2. ASSUME NEW g \in Agent, AddAgent(g) PROVE TypeOK'
  BY <1>2 DEF AddAgent
<1>3. ASSUME NEW g \in Agent, Stamp(g) PROVE TypeOK'
  BY <1>3 DEF Stamp
<1>4. ASSUME NEW g \in Agent, SayHiFails(g) PROVE TypeOK'
  BY <1>4 DEF SayHiFails
<1>5. ASSUME NEW g \in Agent, Configure(g) PROVE TypeOK'
  BY <1>5 DEF Configure
<1>6. ASSUME NEW g \in Agent, Die(g) PROVE TypeOK'
  BY <1>6 DEF Die
<1>7. CASE Scan
  BY <1>7 DEF Scan
<1>8. CASE Remove
  BY <1>8 DEF Remove, RemoveThenSleep
<1>9. CASE ManagerEnds
  <2>1. Never \in 0 .. Never /\ 0 \in 0 .. 2 * Hb /\ 0 \in 0 .. Hb + Delay
    OBVIOUS
  <2>2. age' \in [Agent -> 0 .. Never] /\ nap' \in 0 .. 2 * Hb
    BY <1>9, <2>1 DEF ManagerEnds
  <2>3. since' \in [Agent -> 0 .. Hb + Delay]
    BY <1>9, <2>1, Zenon DEF ManagerEnds
  <2>4. restarts' \in 0 .. MaxRestarts
    BY <1>9 DEF ManagerEnds
  <2> QED
    BY <1>9, <2>2, <2>3, <2>4 DEF ManagerEnds
<1>10. CASE ManagerStarts
  BY <1>10 DEF ManagerStarts
<1>11. CASE Tick
  <2>1. age' \in [Agent -> 0 .. Never]
    BY <1>11, OlderFacts DEF Tick
  <2>2. since' \in [Agent -> 0 .. Hb + Delay]
    BY <1>11 DEF Tick
  <2>3. nap' \in 0 .. 2 * Hb
    BY <1>11 DEF Tick
  <2> QED
    BY <1>11, <2>1, <2>2, <2>3 DEF Tick
<1>12. CASE UNCHANGED vars
  BY <1>12 DEF vars
<1> QED
  BY <1>1, <1>2, <1>3, <1>4, <1>5, <1>6, <1>7, <1>8, <1>9, <1>10, <1>11, <1>12
  DEF Next, AgentStep

(* Every step keeps the invariant *)
LEMMA InvStep == Inv /\ [Next]_vars => Inv'
<1> SUFFICES ASSUME Inv, [Next]_vars PROVE Inv'
  OBVIOUS
<1> USE DEF Inv, life, checkVars, configVars
<1>0. TypeOK /\ TypeOK'
  BY TypeStep
<1>1. ASSUME NEW g \in Agent, SayHi(g) PROVE Inv'
  BY <1>0, <1>1 DEF SayHi, TypeOK, HandlerInv, SilentInv, FreshInv
<1>2. ASSUME NEW g \in Agent, AddAgent(g) PROVE Inv'
  BY <1>0, <1>2 DEF AddAgent, TypeOK, HandlerInv, SilentInv, FreshInv
<1>3. ASSUME NEW g \in Agent, Stamp(g) PROVE Inv'
  BY <1>0, <1>3 DEF Stamp, TypeOK, HandlerInv, SilentInv, FreshInv
<1>4. ASSUME NEW g \in Agent, SayHiFails(g) PROVE Inv'
  BY <1>0, <1>4 DEF SayHiFails, TypeOK, HandlerInv, SilentInv, FreshInv
<1>5. ASSUME NEW g \in Agent, Configure(g) PROVE Inv'
  BY <1>0, <1>5 DEF Configure, HandlerInv, SilentInv, FreshInv
<1>6. ASSUME NEW g \in Agent, Die(g) PROVE Inv'
  BY <1>0, <1>6 DEF Die, HandlerInv, SilentInv, FreshInv
<1>7. CASE Scan
  BY <1>0, <1>7 DEF Scan, Expired, TypeOK, HandlerInv, SilentInv, FreshInv
<1>8. CASE Remove
  <2>1. HandlerInv'
    BY <1>0, <1>8 DEF Remove, RemoveThenSleep, TypeOK, HandlerInv
  <2>2. SilentInv'
    BY <1>0, <1>8 DEF Remove, RemoveThenSleep, TypeOK, SilentInv
  <2>3. FreshInv'
    BY <1>0, <1>8 DEF Remove, RemoveThenSleep, TypeOK, FreshInv
  <2> QED
    BY <1>0, <2>1, <2>2, <2>3
<1>9. CASE ManagerEnds
  BY <1>0, <1>9 DEF ManagerEnds, HandlerInv, SilentInv, FreshInv
<1>10. CASE ManagerStarts
  BY <1>0, <1>10 DEF ManagerStarts, HandlerInv, SilentInv, FreshInv
<1>11. CASE Tick
  <2>1. HandlerInv'
    BY <1>11 DEF Tick, HandlerInv
  <2>2. SilentInv'
    BY <1>0, <1>11, OlderFacts DEF Tick, TypeOK, HandlerInv, SilentInv
  <2>3. FreshInv'
    BY <1>0, <1>11, OlderFacts DEF Tick, TypeOK, FreshInv
  <2> QED
    BY <1>0, <2>1, <2>2, <2>3
<1>12. CASE UNCHANGED vars
  BY <1>0, <1>12 DEF vars, HandlerInv, SilentInv, FreshInv
<1> QED
  BY <1>1, <1>2, <1>3, <1>4, <1>5, <1>6, <1>7, <1>8, <1>9, <1>10, <1>11, <1>12
  DEF Next, AgentStep

(* The invariant holds in every reachable state *)
THEOREM Invariance == Spec => []Inv
  BY InvInit, InvStep, PTL DEF Spec

(* Type correctness of the directory, the clocks and the calls of agents *)
THEOREM DirectoryTypes == Spec => []TypeOK
<1>1. Inv => TypeOK
  BY DEF Inv
<1> QED
  BY <1>1, Invariance, PTL

(* A silent agent leaves within four intervals: SayHi, checkAgents *)
THEOREM SilentLeave == Spec => []SilentAgentsLeave
<1>1. Inv => SilentAgentsLeave
  BY DEF Inv, TypeOK, SilentInv, SilentAgentsLeave
<1> QED
  BY <1>1, Invariance, PTL

(* checkAgents never finds the stamp of a punctual agent expired *)
THEOREM PunctualFresh == Spec => []PunctualIsFresh
<1>1. Inv => PunctualIsFresh
  BY DEF Inv, TypeOK, FreshInv, PunctualIsFresh, Expired
<1> QED
  BY <1>1, Invariance, PTL

=============================================================================
