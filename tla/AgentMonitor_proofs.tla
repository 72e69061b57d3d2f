--------------------------- MODULE AgentMonitor_proofs ---------------------------
(***************************************************************************)
(* Proofs of the safety of an agent's monitors and of the path of their    *)
(* documents, for every set of applications, every number of processes and *)
(* every capacity of the channels.                                         *)
(***************************************************************************)
EXTENDS AgentQuery, DocPipeline_proofs

-----------------------------------------------------------------------------
(* The monitors.                                                            *)

USE MonitorAssumption

(* A round begins with what is registered, so that an application which has *)
(* left is met once at most, and the documents sent about it since are no   *)
(* more than the processes that this round has passed.                      *)
LateInv ==
  /\ \A a \in App : moni[a] # "out" => late[a] = 0
  /\ \A a \in todo : late[a] = 0
  /\ cur = NoApp => next = 1
  /\ cur # NoApp => cur \notin todo /\ late[cur] < next
  /\ shot => cur # NoApp /\ next <= procs[cur]
  /\ \A a \in App : late[a] <= MaxProcs[a]

Inv == TypeOK /\ LateInv

LEMMA InvInit == Init => Inv
<1> SUFFICES ASSUME Init PROVE Inv
  OBVIOUS
<1>1. LateInv
  BY DEF Init, LateInv
<1>2. TypeOK
  <2>1. PipelineTypeOK
    BY PipelineTypeInit DEF Init
  <2>2. /\ next \in Nat \ {0}
        /\ procs \in [App -> Nat] /\ \A a \in App : procs[a] <= MaxProcs[a]
        /\ late \in [App -> Nat]
        /\ cuts \in 0 .. MaxCuts
    BY DEF Init
  <2> QED
    BY <2>1, <2>2 DEF Init, TypeOK
<1> QED
  BY <1>1, <1>2 DEF Inv

LEMMA PipelineKept == PipelineTypeOK /\ UNCHANGED pipelineVars => PipelineTypeOK'
  BY DEF pipelineVars, PipelineTypeOK

LEMMA AgentEndsInv == ASSUME Inv, AgentEnds PROVE Inv'
<1>1. PipelineTypeOK'
  BY PipelineKept DEF AgentEnds, Inv, TypeOK
<1>2. TypeOK'
  <2>1. procs' \in [App -> Nat] /\ \A a \in App : procs'[a] <= MaxProcs[a]
    BY DEF AgentEnds
  <2>2. next' \in Nat \ {0} /\ gone' \subseteq Process
    BY DEF AgentEnds
  <2> QED
    BY <1>1, <2>1, <2>2 DEF AgentEnds, Inv, TypeOK
<1>3. LateInv'
  BY DEF AgentEnds, Inv, TypeOK, LateInv
<1> QED
  BY <1>2, <1>3 DEF Inv

(* Every step keeps the invariant *)
LEMMA InvStep == Inv /\ [Next]_vars => Inv'
<1> SUFFICES ASSUME Inv, [Next]_vars PROVE Inv'
  OBVIOUS
<1>0. TypeOK /\ LateInv
  BY DEF Inv
<1> USE DEF roundVars, sysVars, Process
<1>1. ASSUME NEW a \in App, Register(a) \/ Deregister(a) PROVE Inv'
  <2>1. TypeOK'
    BY <1>0, <1>1, PipelineKept DEF Register, Deregister, TypeOK
  <2> QED
    BY <1>0, <1>1, <2>1 DEF Register, Deregister, Inv, TypeOK, LateInv
<1>2. ASSUME NEW a \in App, DetectPanics(a) \/ NilDeregister(a) PROVE Inv'
  BY <1>2, AgentEndsInv DEF DetectPanics, NilDeregister
<1>4. ASSUME NEW i \in Process, ProcessExits(i) PROVE Inv'
  <2>1. TypeOK'
    BY <1>0, <1>4, PipelineKept DEF ProcessExits, TypeOK
  <2> QED
    BY <1>0, <1>4, <2>1 DEF ProcessExits, Inv, TypeOK, LateInv
<1>5. CASE Round
  <2>1. TypeOK'
    BY <1>0, <1>5, PipelineKept DEF Round, TypeOK
  <2> QED
    BY <1>0, <1>5, <2>1 DEF Round, Inv, TypeOK, LateInv
<1>6. ASSUME NEW a \in App, Detect(a) PROVE Inv'
  <2>1. TypeOK'
    BY <1>0, <1>6, PipelineKept DEF Detect, TypeOK
  <2> QED
    BY <1>0, <1>6, <2>1 DEF Detect, Inv, TypeOK, LateInv
<1>7. CASE Snapshot
  <2>1. cur \in App
    BY <1>0, <1>7 DEF Snapshot, TypeOK
  <2>2. TypeOK'
    <3>1. cur' \in App \cup {NoApp} /\ next' \in Nat \ {0}
          /\ gone' \subseteq Process /\ shot' \in BOOLEAN
      <4>1. CASE next \in gone
        BY <1>0, <1>7, <4>1 DEF Snapshot, Return, TypeOK
      <4>2. CASE next \notin gone
        BY <1>0, <1>7, <4>2 DEF Snapshot, TypeOK
      <4> QED
        BY <4>1, <4>2
    <3> QED
      BY <1>0, <1>7, <3>1, PipelineKept DEF Snapshot, TypeOK
  <2> QED
    BY <1>0, <1>7, <2>1, <2>2 DEF Snapshot, Return, Inv, TypeOK, LateInv
<1>8. CASE SendUsage
  <2>1. cur \in App /\ next \in 1 .. MaxProcs[cur]
    BY <1>0, <1>8 DEF SendUsage, TypeOK, LateInv
  <2>2. PipelineTypeOK'
    BY <1>0, <1>8, SendType DEF SendUsage, TypeOK
  <2>3. TypeOK'
    <3>1. late' \in [App -> Nat] /\ next' \in Nat \ {0}
      BY <1>0, <1>8, <2>1 DEF SendUsage, TypeOK
    <3> QED
      BY <1>0, <1>8, <2>2, <3>1 DEF SendUsage, TypeOK
  <2>4. LateInv'
    BY <1>0, <1>8, <2>1 DEF SendUsage, TypeOK, LateInv
  <2> QED
    BY <2>3, <2>4 DEF Inv
<1>9. CASE MoniOneReturns
  <2>1. TypeOK'
    BY <1>0, <1>9, PipelineKept DEF MoniOneReturns, Return, TypeOK
  <2> QED
    BY <1>0, <1>9, <2>1 DEF MoniOneReturns, Return, Inv, TypeOK, LateInv
<1>10. CASE SysShot \/ SysWakes \/ SysCutOff
  <2>1. TypeOK'
    <3>1. CASE SysShot \/ SysWakes
      BY <1>0, <3>1, PipelineKept DEF SysShot, SysWakes, TypeOK
    <3>2. CASE SysCutOff
      BY <1>0, <3>2, PipelineKept DEF SysCutOff, TypeOK
    <3> QED
      BY <1>10, <3>1, <3>2
  <2> QED
    BY <1>0, <1>10, <2>1
    DEF SysShot, SysWakes, SysCutOff, Inv, TypeOK, LateInv
<1>11. CASE SendSys
  <2>1. PipelineTypeOK'
    BY <1>0, <1>11, SendType DEF SendSys, TypeOK
  <2>2. TypeOK'
    BY <1>0, <1>11, <2>1 DEF SendSys, TypeOK
  <2> QED
    BY <1>0, <1>11, <2>2 DEF SendSys, Inv, TypeOK, LateInv
<1>12. CASE Pipe
  <2>1. PipelineTypeOK'
    BY <1>0, <1>12, PipelineStepType DEF Pipe, TypeOK
  <2>2. TypeOK'
    BY <1>0, <1>12, <2>1 DEF Pipe, monitorVars, TypeOK
  <2> QED
    BY <1>0, <1>12, <2>2 DEF Pipe, monitorVars, Inv, TypeOK, LateInv
<1>13. CASE StoreFatal
  BY <1>13, AgentEndsInv DEF StoreFatal
<1>14. CASE UNCHANGED vars
  <2>1. TypeOK'
    BY <1>0, <1>14, PipelineKept DEF vars, monitorVars, TypeOK
  <2> QED
    BY <1>0, <1>14, <2>1 DEF vars, monitorVars, Inv, TypeOK, LateInv
<1> QED
  BY <1>1, <1>2, <1>4, <1>5, <1>6, <1>7, <1>8, <1>9, <1>10, <1>11, <1>12, <1>13, <1>14
  DEF Next, AppMonitorStep, SysMonitorStep

(* The invariant holds in every reachable state *)
THEOREM Invariance == Spec => []Inv
  BY InvInit, InvStep, PTL DEF Spec

(* Type correctness of the monitors and the pipeline together *)
THEOREM MonitorTypes == Spec => []TypeOK
<1>1. Inv => TypeOK
  BY DEF Inv
<1> QED
  BY <1>1, Invariance, PTL

(* appMonitor sends at most one document for each process of an application *)
(* after its Deregister was answered: those of the round it has begun.      *)
THEOREM LateDocs == Spec => []LateDocsBounded
<1>1. Inv => LateDocsBounded
  BY DEF Inv, LateInv, LateDocsBounded
<1> QED
  BY <1>1, Invariance, PTL

(* GetProcesses, asked at any time about any applications, does nothing to  *)
(* the monitors but end them with the agent: types and bound stay.          *)
THEOREM QueryKeepsMonitors == QuerySpec => [](TypeOK /\ LateDocsBounded)
<1>1. QueryInit => Inv
  BY InvInit DEF QueryInit
<1>2. Inv /\ [QueryNext]_<<vars, queryVars>> => Inv'
  <2> SUFFICES ASSUME Inv, [QueryNext]_<<vars, queryVars>> PROVE Inv'
    OBVIOUS
  <2>1. CASE [Next]_vars
    BY <2>1, InvStep
  <2>2. ASSUME NEW a \in App, GetPanics(a) PROVE Inv'
    BY <2>2, AgentEndsInv DEF GetPanics
  <2>3. ASSUME NEW a \in App, GetFinds(a) \/ GetSizes(a) \/ GetFills(a) PROVE UNCHANGED vars
    BY <2>3 DEF GetFinds, GetSizes, GetFills
  <2> QED
    BY <2>1, <2>2, <2>3, InvStep DEF QueryNext
<1>3. Inv => TypeOK /\ LateDocsBounded
  BY DEF Inv, LateInv, LateDocsBounded
<1> QED
  BY <1>1, <1>2, <1>3, PTL DEF QuerySpec

-----------------------------------------------------------------------------
(* The monitors' documents.                                                 *)

(* A step of the agent is a step of the pipeline, or leaves it alone        *)
LEMMA StepOfPipeline ==
  ASSUME [Next]_vars
  PROVE  [PipelineNext]_pipelineVars
<1>1. CASE SendUsage \/ SendSys
  BY <1>1, MonitorAssumption DEF SendUsage, SendSys, PipelineNext
<1>2. CASE Pipe
  BY <1>2 DEF Pipe, PipelineNext
<1>3. ASSUME NEW a \in App,
             Register(a) \/ Deregister(a) \/ NilDeregister(a) \/ DetectPanics(a)
               \/ Detect(a)
      PROVE  UNCHANGED pipelineVars
  BY <1>3 DEF Register, Deregister, NilDeregister, DetectPanics, Detect, AgentEnds
<1>4. ASSUME NEW i \in Process, ProcessExits(i) PROVE UNCHANGED pipelineVars
  BY <1>4 DEF ProcessExits
<1>5. CASE Round \/ Snapshot \/ MoniOneReturns \/ SysShot \/ SysWakes \/ SysCutOff
             \/ StoreFatal
  BY <1>5 DEF Round, Snapshot, MoniOneReturns, SysShot, SysWakes, SysCutOff,
              StoreFatal, AgentEnds
<1>6. CASE UNCHANGED vars
  BY <1>6 DEF vars
<1> QED
  BY <1>1, <1>2, <1>3, <1>4, <1>5, <1>6 DEF Next, AppMonitorStep, SysMonitorStep

(* An agent's monitors and its pipeline together implement DocStream too:   *)
(* whatever appMonitor and sysMonitor measure and whenever the agent ends,  *)
(* what reaches the document store is a prefix of what each of them sent,   *)
(* in order: moniOne, sysMonitor, merger, store                             *)
THEOREM MonitorsImplementDocStream ==
  ASSUME Numbered
  PROVE  Spec => ImplementsDocStream
<1>1. Init => StreamInv /\ Stream!Init
  BY StreamInvInit, StreamInit DEF Init
<1>2. StreamInv /\ [Next]_vars => StreamInv' /\ [Stream!Next]_(Stream!vars)
  BY StepOfPipeline, PipelineNextStream
<1> QED
  BY <1>1, <1>2, PTL DEF Spec, ImplementsDocStream, Stream!Spec

=============================================================================
