-------------------------- MODULE MCRelayDelivery ---------------------------
(* Notifications: a customer's message, an element that cannot be read and *)
(* the status of a message sent earlier; an element too large before such  *)
(* a status; and two statuses of that message.                             *)
EXTENDS RelayDelivery, TLC

CONSTANTS p1, p2, rec, m1, s1, s2, r0, r1, t1

MCEnvelope ==
  m1 :> [type |-> "message", ref |-> r1, thread |-> t1, at |-> 1, content |-> TRUE,
         status |-> "UNKNOWN"] @@
  s1 :> [type |-> "status", ref |-> r0, thread |-> t1, at |-> 1, content |-> FALSE,
         status |-> "SENT"] @@
  s2 :> [type |-> "status", ref |-> r0, thread |-> t1, at |-> 1, content |-> FALSE,
         status |-> "DELIVERED"]

MCMixed    == <<[class |-> "FORWARD", event |-> m1], [class |-> "ISOLATED", event |-> m1],
                [class |-> "FORWARD", event |-> s1]>>
MCOversize == <<[class |-> "OVERSIZE", event |-> m1], [class |-> "FORWARD", event |-> s1]>>
MCTwo      == <<[class |-> "FORWARD", event |-> s1], [class |-> "FORWARD", event |-> s2]>>

MCNotifications == {MCMixed, MCOversize}
MCStatuses      == {MCTwo}

MCWorlds == {{p1, p2, rec, m1, s1, s2}}
MCLegacy == r0 :> [by |-> None, thread |-> t1, at |-> 1, content |-> "none",
                   delivery |-> "QUEUED"]
=============================================================================
