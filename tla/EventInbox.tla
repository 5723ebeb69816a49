----------------------------- MODULE EventInbox -----------------------------
(***************************************************************************)
(* What the webhook promises the relay and the operator: an event, once    *)
(* stored, is never lost; it is completed at most once; and its effect is  *)
(* in the database exactly when its completion says PROCESSED.             *)
(***************************************************************************)
CONSTANTS Events

VARIABLES inbox,   \* per event: absent, pending, or done
          effects  \* the events whose message is in the database

ivars == <<inbox, effects>>

IInit == inbox = [e \in Events |-> "absent"] /\ effects = {}

Accept(e) ==
  /\ inbox[e] = "absent"
  /\ inbox' = [inbox EXCEPT ![e] = "pending"]
  /\ UNCHANGED effects

(* PROCESSED with the event's message, or IGNORED without.                 *)
Complete(e) ==
  /\ inbox[e] = "pending"
  /\ \/ inbox' = [inbox EXCEPT ![e] = "processed"] /\ effects' = effects \union {e}
     \/ inbox' = [inbox EXCEPT ![e] = "ignored"] /\ UNCHANGED effects

INext == \E e \in Events : Accept(e) \/ Complete(e)

ISpec == IInit /\ [][INext]_ivars
=============================================================================
