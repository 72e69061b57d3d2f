------------------------------ MODULE AppRegistry ------------------------------
(***************************************************************************)
(* What the manager's table of applications (Manager.apps) promises its    *)
(* clients: an id enters it at most once and only for an application whose *)
(* process was started; it leaves because the process has ended, because a *)
(* client asked for it to be killed or deregistered, or with the manager;  *)
(* and it never comes back.                                                *)
(***************************************************************************)
CONSTANT App

VARIABLES
  up,        \* the manager runs
  started,   \* applications whose process was started
  ended,     \* applications whose process has ended
  asked,     \* applications a client asked to kill or to deregister
  entry      \* "new", then "live" while in the table, then "gone"

processes == <<started, ended>>
vars == <<up, processes, asked, entry>>

Init ==
  /\ up = TRUE
  /\ started = {}
  /\ ended = {}
  /\ asked = {}
  /\ entry = [a \in App |-> "new"]

Start(a) ==
  /\ started' = started \cup {a}
  /\ UNCHANGED <<up, ended, asked, entry>>

End(a) ==
  /\ a \in started
  /\ ended' = ended \cup {a}
  /\ UNCHANGED <<up, started, asked, entry>>

Admit(a) ==
  /\ up
  /\ a \in started
  /\ entry[a] = "new"
  /\ entry' = [entry EXCEPT ![a] = "live"]
  /\ UNCHANGED <<up, processes, asked>>

Ask(a) ==
  /\ up
  /\ entry[a] # "new"
  /\ asked' = asked \cup {a}
  /\ UNCHANGED <<up, processes, entry>>

Drop(a) ==
  /\ up
  /\ entry[a] = "live"
  /\ a \in asked \cup ended
  /\ entry' = [entry EXCEPT ![a] = "gone"]
  /\ UNCHANGED <<up, processes, asked>>

(* The manager ends, and its table with it *)
Crash ==
  /\ up
  /\ up' = FALSE
  /\ entry' = [a \in App |-> IF entry[a] = "live" THEN "gone" ELSE entry[a]]
  /\ UNCHANGED <<processes, asked>>

Restart ==
  /\ up' = TRUE
  /\ UNCHANGED <<processes, asked, entry>>

Next ==
  \/ \E a \in App : Start(a) \/ End(a) \/ Admit(a) \/ Ask(a) \/ Drop(a)
  \/ Crash
  \/ Restart

Spec == Init /\ [][Next]_vars

=============================================================================
