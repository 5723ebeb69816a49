-------------------------- MODULE MCWebhookIntake ---------------------------
(* Two messages and two statuses, in five small worlds.                    *)
EXTENDS WebhookIntake, TLC

CONSTANTS p1, p2, rec, op, b1, b2, m1, m2, x1, s1, s2, r1, r2, r0, t1, t2

MCEnvelope ==
  m1 :> [type |-> "message", ref |-> r1, thread |-> t1, at |-> 2, content |-> TRUE,
         status |-> "UNKNOWN"] @@
  m2 :> [type |-> "message", ref |-> r2, thread |-> t2, at |-> 1, content |-> TRUE,
         status |-> "UNKNOWN"] @@
  x1 :> [type |-> "other", ref |-> r2, thread |-> t2, at |-> 1, content |-> FALSE,
         status |-> "UNKNOWN"] @@
  s1 :> [type |-> "status", ref |-> r1, thread |-> t1, at |-> 2, content |-> FALSE,
         status |-> "SENT"] @@
  s2 :> [type |-> "status", ref |-> r1, thread |-> t1, at |-> 2, content |-> FALSE,
         status |-> "DELIVERED"]

MCDrafts == {[ref |-> r1, thread |-> t1, at |-> 1, content |-> TRUE, status |-> "QUEUED"],
             [ref |-> r1, thread |-> t2, at |-> 1, content |-> FALSE, status |-> "UNKNOWN"],
             [ref |-> r2, thread |-> t1, at |-> 1, content |-> TRUE, status |-> "QUEUED"]}

(* A message and its status against a staff copy of it and a revocation;   *)
(* two statuses of a staff message; a thread opened late; the backfill.    *)
MCWorlds == {{p1, rec, op, m1, t1}, {p1, p2, rec, m1, s1}, {p1, rec, op, s1, s2},
             {p1, rec, op, m2, t2}, {p1, rec, m1, x1, b1, b2}}

MCLegacy == r0 :> [by |-> None, thread |-> t2, at |-> 1, content |-> "none",
                   delivery |-> "UNKNOWN"]
=============================================================================
