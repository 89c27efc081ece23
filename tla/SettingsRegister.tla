-------------------------- MODULE SettingsRegister --------------------------
(***************************************************************************)
(* What offline settings promise, without promises, transactions and       *)
(* queues: one register per setting. A toggle takes effect at one instant  *)
(* and on its own key only, it is confirmed only after it took effect, and *)
(* only toggles that were lost before they were confirmed may be undone.   *)
(***************************************************************************)
CONSTANTS Keys, Tasks

VARIABLES
  value,  \* the settings
  toggle  \* every toggle's status, key and desired value

vars == <<value, toggle>>

Statuses == {"open", "applied", "ok", "failed", "lost"}

TypeOK ==
  /\ value \in [Keys -> BOOLEAN]
  /\ toggle \in [Tasks -> [status : Statuses, key : Keys, value : BOOLEAN]]

Init ==
  /\ value \in [Keys -> BOOLEAN]
  /\ toggle \in [Tasks -> [status : {"open"}, key : Keys, value : BOOLEAN]]

\* A toggle arrives.
Arrive(t, k, v) ==
  /\ toggle[t].status = "open"
  /\ toggle' = [toggle EXCEPT ![t] = [status |-> "open", key |-> k, value |-> v]]
  /\ UNCHANGED value

\* A toggle takes effect, on its key and on no other.
Apply(t, k, v) ==
  /\ toggle[t].status = "open"
  /\ toggle' = [toggle EXCEPT ![t] = [status |-> "applied", key |-> k, value |-> v]]
  /\ value' = [value EXCEPT ![k] = v]

\* A toggle is answered with success, after it took effect.
Confirm(t) ==
  /\ toggle[t].status = "applied"
  /\ toggle' = [toggle EXCEPT ![t].status = "ok"]
  /\ UNCHANGED value

\* A toggle is answered with a failure, and never takes effect.
Refuse(t, k, v) ==
  /\ toggle[t].status = "open"
  /\ toggle' = [toggle EXCEPT ![t] = [status |-> "failed", key |-> k, value |-> v]]
  /\ UNCHANGED value

\* Several toggles fail together, when the settings cannot be read at all.
RefuseAll(T) ==
  /\ \A t \in T : toggle[t].status = "open"
  /\ toggle' = [t \in Tasks |-> IF t \in T THEN [toggle[t] EXCEPT !.status = "failed"]
                                ELSE toggle[t]]
  /\ UNCHANGED value

\* The service worker is lost with every toggle it has not answered.
Crash(T) ==
  /\ \A t \in T : toggle[t].status = "open"
  /\ toggle' = [t \in Tasks |->
                  IF t \in T \/ toggle[t].status = "applied"
                  THEN [toggle[t] EXCEPT !.status = "lost"] ELSE toggle[t]]
  /\ UNCHANGED value

\* The effects of lost toggles are undone.
Undo(T) ==
  /\ \A t \in T : toggle[t].status = "lost"
  /\ value' \in [Keys -> BOOLEAN]
  /\ \A k \in Keys : value'[k] # value[k] => \E t \in T : toggle[t].key = k
  /\ UNCHANGED toggle

Next ==
  \/ \E t \in Tasks, k \in Keys, v \in BOOLEAN :
       Arrive(t, k, v) \/ Apply(t, k, v) \/ Refuse(t, k, v)
  \/ \E t \in Tasks : Confirm(t)
  \/ \E T \in SUBSET Tasks : RefuseAll(T) \/ Crash(T) \/ Undo(T)

Spec == Init /\ [][Next]_vars
=============================================================================
