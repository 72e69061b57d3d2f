------------------------------- MODULE AppRecord -------------------------------
(***************************************************************************)
(* What an agent promises about the record it leaves of one application in *)
(* ElasticSearch: its start is stored once it runs, its end only when it   *)
(* has ended by itself and nobody had killed it by then, and either may be *)
(* missing.  AgentLauncher implements this for every application; Monica   *)
(* relies on it.                                                           *)
(***************************************************************************)

VARIABLES
  life,   \* "none", "running", "exited", "noted" (its waiter reports the end),
          \* "killed" before that, or "gone" with its agent
  appDoc  \* "none", "lost" (could not be stored), "started" or "ended"

recordVars == <<life, appDoc>>

RecordInit ==
  /\ life = "none"
  /\ appDoc = "none"

Starts ==
  /\ life = "none"
  /\ life' = "running"
  /\ UNCHANGED appDoc

Ends ==
  /\ life = "running"
  /\ life' = "exited"
  /\ UNCHANGED appDoc

(* Even when it has exited, the waiter will find app.ctx done *)
IsKilled ==
  /\ life \in {"running", "exited"}
  /\ life' = "killed"
  /\ UNCHANGED appDoc

(* storeOne, which the launcher calls before it starts the waiter *)
StartStored ==
  /\ life \in {"running", "exited", "killed"}
  /\ appDoc = "none"
  /\ appDoc' \in {"started", "lost"}
  /\ UNCHANGED life

(* The waiter's select *)
EndNoted ==
  /\ life = "exited"
  /\ appDoc # "none"
  /\ life' = "noted"
  /\ UNCHANGED appDoc

(* updateDoc *)
EndStored ==
  /\ life = "noted"
  /\ appDoc = "started"
  /\ appDoc' = "ended"
  /\ UNCHANGED life

AgentGone ==
  /\ life \notin {"none", "gone"}
  /\ life' = "gone"
  /\ appDoc' = IF appDoc = "none" THEN "lost" ELSE appDoc

RecordNext ==
  Starts \/ Ends \/ IsKilled \/ StartStored \/ EndNoted \/ EndStored \/ AgentGone

RecordSpec == RecordInit /\ [][RecordNext]_recordVars

=============================================================================
