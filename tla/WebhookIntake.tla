---------------------------- MODULE WebhookIntake ---------------------------
(***************************************************************************)
(* The WhatsApp webhook: T1 stores an event, T2 claims and processes it,   *)
(* the operator's recovery runs T2 again.  Around it, what shares its rows:*)
(* staff messages in the same threads, a consent revoked, a thread opened, *)
(* the one-off interactions backfill.                                      *)
(*                                                                         *)
(* Each actor is one connection; a step is one statement that waits, reads *)
(* what it decides on, or commits.  What a transaction means to write is   *)
(* its `plan`, seen by no one until Finish.  The row locks an actor holds  *)
(* follow from where it stands, so no variable repeats them.               *)
(***************************************************************************)
EXTENDS Naturals, FiniteSets, Sequences

CONSTANTS
  Posters, Recoverers, Staff, Backfillers,  \* the actors, by what they run
  Events, Refs, Threads, Instants,
  Envelope,      \* what each event carries: [type, ref, thread, at, content, status]
  Drafts,        \* the messages staff may send, records like an envelope's
  Legacy,        \* messages recorded before interactions were written
  KnownThreads,  \* threads that exist at the start
  None,
  Worlds,        \* which actors, events and threads a behaviour involves
  MaxPosts,      \* bound on HTTP deliveries and staff commands
  MaxFaults      \* bound on failures of processing, of a COMMIT or of T1

Actors   == Posters \union Recoverers \union Staff \union Backfillers
Final    == {"PROCESSED", "IGNORED"}
Statuses == {"UNKNOWN", "QUEUED", "SENT", "DELIVERED", "READ", "FAILED"}
Contents == {"none", "archived", "withheld", "lost"}

VARIABLES
  world,         \* who and what takes part; never changes
  threads,       \* threads with a WhatsApp reference
  consents,      \* threads whose party's archive consent is bound and GRANTED
  event,         \* webhook_events: per event its processing_status, or absent
  message,       \* communication_messages, by external reference
  lastAt,        \* communication_threads.last_message_at, 0 for NULL
  interactions,  \* how many interactions name each message
  at,            \* where each actor's transaction stands
  job,           \* what it works on
  plan,          \* the message it will write at COMMIT, or None
  outcome,       \* its event's status to be, or None
  reply,         \* the status code of an actor's last answer, or 0
  posts, faults  \* the counters behind MaxPosts and MaxFaults

store == <<threads, consents, event, message, lastAt, interactions>>
vars  == <<world, store, at, job, plan, outcome, reply, posts, faults>>

Steps == {"idle", "store", "claim", "thread", "insert", "status", "finish", "backfill"}
Jobs  == [event : Events \union {None}, type : {"message", "status", "other", "staff", "backfill"},
          ref : Refs \union {None}, thread : Threads \union {None}, at : Instants \union {0},
          content : {"none", "given", "dropped"}, status : Statuses,
          missing : SUBSET Refs]
Messages == [by : Events \union {None}, thread : Threads, at : Instants,
             content : Contents, delivery : Statuses]
Requests == [ref : Refs, thread : Threads, at : Instants, content : BOOLEAN, status : Statuses]

(* What parse_envelope accepts, what a staff command may carry, and the    *)
(* messages of before: no webhook event wrote those.                       *)
ASSUME IntakeAssumption ==
  /\ Envelope \in [Events -> [type : {"message", "status", "other"}, ref : Refs, thread : Threads,
                              at : Instants, content : BOOLEAN, status : Statuses]]
  /\ Drafts \subseteq Requests
  /\ DOMAIN Legacy \subseteq Refs
  /\ \A r \in DOMAIN Legacy : Legacy[r] \in Messages /\ Legacy[r].by = None
  /\ KnownThreads \subseteq Threads
  /\ Instants \subseteq Nat
  /\ None \notin Events /\ None \notin Messages
  /\ MaxPosts \in Nat /\ MaxFaults \in Nat

TypeOK ==
  /\ world \in Worlds
  /\ threads \subseteq Threads /\ consents \subseteq Threads
  /\ event \in [Events -> Final \union {"absent", "RECEIVED", "FAILED"}]
  /\ message \in [Refs -> Messages \union {None}]
  /\ lastAt \in [Threads -> Instants \union {0}]
  /\ interactions \in [Refs -> Nat]
  /\ at \in [Actors -> Steps]
  /\ job \in [Actors -> Jobs]
  /\ plan \in [Actors -> Messages \union {None}]
  /\ outcome \in [Actors -> Final \union {"FAILED", None}]
  /\ reply \in [Actors -> {0, 200, 500, 503}]
  /\ posts \in 0..MaxPosts /\ faults \in 0..MaxFaults

NoJob == [event |-> None, type |-> "other", ref |-> None, thread |-> None, at |-> 0,
          content |-> "none", status |-> "UNKNOWN", missing |-> {}]

(* A request's job; the recovery's comes from the stored, content-free     *)
(* payload, which only tells that content existed.                         *)
JobOf(e, stored) ==
  LET v == Envelope[e]
  IN [NoJob EXCEPT !.event = e, !.type = v.type, !.ref = v.ref, !.thread = v.thread,
        !.at = v.at, !.status = v.status,
        !.content = IF ~v.content THEN "none" ELSE IF stored THEN "dropped" ELSE "given"]

Init ==
  /\ world \in Worlds
  /\ threads = KnownThreads /\ consents = KnownThreads
  /\ event = [e \in Events |-> "absent"]
  /\ message = [r \in Refs |-> IF r \in DOMAIN Legacy THEN Legacy[r] ELSE None]
  /\ lastAt = [t \in Threads |-> 0]
  /\ interactions = [r \in Refs |-> 0]
  /\ at = [a \in Actors |-> "idle"]
  /\ job = [a \in Actors |-> NoJob]
  /\ plan = [a \in Actors |-> None]
  /\ outcome = [a \in Actors |-> None]
  /\ reply = [a \in Actors |-> 0]
  /\ posts = 0 /\ faults = 0

-----------------------------------------------------------------------------
(* Row locks.  A savepoint's rollback frees what was locked under it, so a *)
(* FAILED outcome holds nothing but the event's own row.                   *)
HoldsEvent(a, e)  == job[a].event = e /\ at[a] \in {"thread", "insert", "status", "finish"}
HoldsThread(a, t) == /\ job[a].thread = t /\ job[a].type \in {"message", "staff"}
                     /\ (at[a] = "insert" \/ (at[a] = "finish" /\ outcome[a] # "FAILED"))
Inserting(a, r)   == at[a] = "finish" /\ plan[a] # None /\ job[a].ref = r

Fault_PlainRead(a, r) == FALSE
(* _process_status reads the message FOR UPDATE.                           *)
HoldsMessage(a, r) == /\ job[a].type = "status" /\ job[a].ref = r
                      /\ at[a] = "finish" /\ outcome[a] # "FAILED"
Fault_NoShareLock(a, t) == FALSE
(* _archive_consent_holds reads the binding and the grant FOR SHARE.       *)
SharesConsent(a, t) == plan[a] # None /\ plan[a].content = "archived" /\ plan[a].thread = t

Goto(a, step) == at' = [at EXCEPT ![a] = step]

(* The transaction is over: nothing planned, nothing held, an answer given.*)
End(a, code) ==
  /\ Goto(a, "idle")
  /\ job' = [job EXCEPT ![a] = NoJob]
  /\ plan' = [plan EXCEPT ![a] = None]
  /\ outcome' = [outcome EXCEPT ![a] = None]
  /\ reply' = [reply EXCEPT ![a] = IF a \in Posters THEN code ELSE 0]

Begin(a, j, step) ==
  /\ at[a] = "idle" /\ a \in world
  /\ Goto(a, step)
  /\ job' = [job EXCEPT ![a] = j]
  /\ reply' = [reply EXCEPT ![a] = 0]
  /\ UNCHANGED <<world, store, plan, outcome>>

Fail == faults < MaxFaults /\ faults' = faults + 1

(* A signed, readable envelope arrives; refusals before T1 write nothing.  *)
Post(a, e) ==
  /\ a \in Posters /\ e \in world /\ posts < MaxPosts /\ posts' = posts + 1
  /\ Begin(a, JobOf(e, FALSE), "store")
  /\ UNCHANGED faults

StaffMessage(a, d) ==
  /\ a \in Staff /\ posts < MaxPosts /\ posts' = posts + 1
  /\ Begin(a, [NoJob EXCEPT !.type = "staff", !.ref = d.ref, !.thread = d.thread, !.at = d.at,
                 !.content = IF d.content THEN "given" ELSE "none", !.status = d.status], "thread")
  /\ UNCHANGED faults

(* recover(): the list is read first, and each event is claimed later.     *)
Recover(a, e) ==
  /\ a \in Recoverers /\ event[e] \in {"RECEIVED", "FAILED"}
  /\ Begin(a, JobOf(e, TRUE), "claim")
  /\ UNCHANGED <<posts, faults>>

NewlyStored(e) == IF event[e] = "absent" THEN "RECEIVED" ELSE event[e]

(* T1: insert, or read the stored status; or it raises, and its COMMIT may *)
(* or may not have taken effect.                                           *)
Store(a) ==
  LET e == job[a].event
  IN /\ at[a] = "store"
     /\ \/ /\ event' = [event EXCEPT ![e] = NewlyStored(e)]
           /\ IF event[e] \in Final THEN End(a, 200)
              ELSE Goto(a, "claim") /\ UNCHANGED <<job, plan, outcome, reply>>
           /\ UNCHANGED faults
        \/ /\ Fail
           /\ \/ UNCHANGED event
              \/ event' = [event EXCEPT ![e] = NewlyStored(e)]
           /\ End(a, 503)
     /\ UNCHANGED <<world, threads, consents, message, lastAt, interactions, posts>>

Fault_OnlyReceived(e) == event[e] = "RECEIVED"
(* A FAILED event is claimed again, by a redelivery or by recover().       *)
Claimable(e) == event[e] \in {"RECEIVED", "FAILED"}
EventLocked(a, e) == \E b \in Actors \ {a} : HoldsEvent(b, e)

(* T2 step 1: no claimable row is FINAL; a locked one is IN_FLIGHT (NOWAIT *)
(* for the webhook, SKIP LOCKED for the recovery).  Both answer 200.       *)
Claim(a) ==
  LET e == job[a].event
      free == Claimable(e) /\ ~EventLocked(a, e)
  IN /\ at[a] = "claim"
     /\ \/ /\ ~free
           /\ End(a, 200)
        \/ /\ free
           /\ Goto(a, CASE job[a].type = "message" -> "thread"
                        [] job[a].type = "status"  -> "status"
                        [] job[a].type = "other"   -> "finish")
           /\ outcome' = [outcome EXCEPT ![a] = IF job[a].type = "other" THEN "IGNORED" ELSE None]
           /\ UNCHANGED <<job, plan, reply>>
     /\ UNCHANGED <<world, store, posts, faults>>

Resolve(a, result) ==
  /\ Goto(a, "finish")
  /\ outcome' = [outcome EXCEPT ![a] = result]

(* What is kept of a message's content.                                    *)
Kept(a) ==
  CASE job[a].content = "none"    -> "none"
    [] job[a].content = "dropped" -> "lost"
    [] job[a].content = "given"   -> IF job[a].thread \in consents THEN "archived" ELSE "withheld"

(* The thread, FOR UPDATE; then the reference and the consent are read.    *)
(* prepare_message refuses where _process_message ignores or withholds.    *)
LockThread(a) ==
  LET t == job[a].thread
      staff == job[a].type = "staff"
      refused == \/ t \notin threads
                 \/ message[job[a].ref] # None
                 \/ staff /\ Kept(a) = "withheld"
  IN /\ at[a] = "thread"
     /\ \A b \in Actors \ {a} : ~HoldsThread(b, t)
     /\ \/ /\ refused /\ staff
           /\ End(a, 0)
        \/ /\ refused /\ ~staff
           /\ Resolve(a, "IGNORED")
           /\ UNCHANGED <<job, plan, reply>>
        \/ /\ ~refused
           /\ Goto(a, "insert")
           /\ plan' = [plan EXCEPT ![a] =
                [by |-> job[a].event, thread |-> t, at |-> job[a].at, content |-> Kept(a),
                 delivery |-> IF staff THEN job[a].status ELSE "UNKNOWN"]]
           /\ UNCHANGED <<job, outcome, reply>>
     /\ UNCHANGED <<world, store, posts, faults>>

(* The INSERT waits for another transaction's uncommitted message of the   *)
(* same reference, and ignores or refuses a committed one (23505).         *)
Insert(a) ==
  LET r == job[a].ref
      taken == message[r] # None
  IN /\ at[a] = "insert"
     /\ \A b \in Actors \ {a} : ~Inserting(b, r)
     /\ \/ /\ taken /\ job[a].type = "staff"
           /\ End(a, 0)
        \/ /\ taken /\ job[a].type # "staff"
           /\ Resolve(a, "IGNORED")
           /\ plan' = [plan EXCEPT ![a] = None]
           /\ UNCHANGED <<job, reply>>
        \/ /\ ~taken
           /\ Resolve(a, "PROCESSED")
           /\ UNCHANGED <<job, plan, reply>>
     /\ UNCHANGED <<world, store, posts, faults>>

Order == <<"QUEUED", "SENT", "DELIVERED", "READ">>
Rank(s) == IF \E i \in 1..4 : Order[i] = s THEN CHOOSE i \in 1..4 : Order[i] = s ELSE 0

(* G7-5's table: forward only, FAILED from QUEUED or SENT, and for good.   *)
Accepted(old, new) ==
  \/ old = "UNKNOWN" /\ Rank(new) > 0
  \/ new = "FAILED" /\ old \in {"QUEUED", "SENT"}
  \/ Rank(old) > 0 /\ Rank(new) > Rank(old)

(* The message, FOR UPDATE: an uncommitted one is not seen.                *)
ReadStatus(a) ==
  LET r == job[a].ref
      applies == message[r] # None /\ Accepted(message[r].delivery, job[a].status)
  IN /\ at[a] = "status"
     /\ \A b \in Actors \ {a} : ~HoldsMessage(b, r)
     /\ Resolve(a, IF applies THEN "PROCESSED" ELSE "IGNORED")
     /\ UNCHANGED <<world, store, job, plan, reply, posts, faults>>

Fault_KeepsSavepoint(a) == UNCHANGED plan
(* ROLLBACK TO SAVEPOINT: the message is gone, the claim stays.            *)
RollBack(a) == plan' = [plan EXCEPT ![a] = None]

(* An exception inside `process`: the event will be recorded FAILED.       *)
ProcessFails(a) ==
  /\ job[a].event # None /\ at[a] \in {"thread", "insert", "status", "finish"}
  /\ outcome[a] # "FAILED"
  /\ Fail
  /\ RollBack(a)
  /\ Resolve(a, "FAILED")
  /\ UNCHANGED <<world, store, job, reply, posts>>

Later(x, y) == IF x < y THEN y ELSE x
Fault_LastWriter(x, y) == y
(* UPDATE ... SET last_message_at WHERE it is NULL or earlier.             *)
LastMessageAt(x, y) == Later(x, y)

(* Step 4 and COMMIT: the message, its thread's clock, its interaction and *)
(* the event's status become visible together.  The client may learn       *)
(* nothing of a COMMIT that took effect: it is answered 500.               *)
Finish(a) ==
  LET e == job[a].event
      r == job[a].ref
  IN /\ at[a] = "finish"
     /\ event' = IF e = None THEN event ELSE [event EXCEPT ![e] = outcome[a]]
     /\ message' =
          IF plan[a] # None THEN [message EXCEPT ![r] = plan[a]]
          ELSE IF job[a].type = "status" /\ outcome[a] = "PROCESSED"
               THEN [message EXCEPT ![r].delivery = job[a].status]
               ELSE message
     /\ lastAt' = IF plan[a] = None THEN lastAt
                  ELSE [lastAt EXCEPT ![job[a].thread] = LastMessageAt(@, job[a].at)]
     /\ interactions' = IF plan[a] = None THEN interactions
                        ELSE [interactions EXCEPT ![r] = @ + 1]
     /\ \/ End(a, IF outcome[a] = "FAILED" THEN 500 ELSE 200) /\ UNCHANGED faults
        \/ End(a, 500) /\ Fail
     /\ UNCHANGED <<world, threads, consents, posts>>

(* Step 4, the COMMIT or the connection fails: the transaction is lost     *)
(* whole and the event keeps its status.                                   *)
Lose(a) ==
  /\ at[a] \in {"claim", "thread", "insert", "status", "finish"}
  /\ Fail
  /\ End(a, 500)
  /\ UNCHANGED <<world, store, posts>>

WithoutInteraction == {r \in Refs : message[r] # None /\ interactions[r] = 0}

(* The backfill queues on its advisory lock, here with what it could see   *)
(* when its transaction began.                                             *)
Backfill(a) ==
  /\ a \in Backfillers /\ WithoutInteraction # {}
  /\ Begin(a, [NoJob EXCEPT !.type = "backfill", !.missing = WithoutInteraction], "backfill")
  /\ UNCHANGED <<posts, faults>>

Fault_RepeatableRead(a) == job[a].missing
(* READ COMMITTED: the SELECT after the lock sees the previous run's rows. *)
Missing(a) == WithoutInteraction

WriteMissing(a) ==
  /\ at[a] = "backfill"
  /\ interactions' = [r \in Refs |-> interactions[r] + IF r \in Missing(a) THEN 1 ELSE 0]
  /\ End(a, 0)
  /\ UNCHANGED <<world, threads, consents, event, message, lastAt, posts, faults>>

OpenThread(t) ==
  /\ t \in world \ threads
  /\ threads' = threads \union {t}
  /\ UNCHANGED <<world, consents, event, message, lastAt, interactions, at, job, plan, outcome,
                 reply, posts, faults>>

(* Revoking waits for a transaction that read the consent FOR SHARE.       *)
RevokeConsent(t) ==
  /\ t \in consents \intersect world
  /\ \A a \in Actors : ~SharesConsent(a, t)
  /\ consents' = consents \ {t}
  /\ UNCHANGED <<world, threads, event, message, lastAt, interactions, at, job, plan, outcome,
                 reply, posts, faults>>

Work(a) == \/ Store(a) \/ Claim(a) \/ LockThread(a) \/ Insert(a)
           \/ ReadStatus(a) \/ Finish(a) \/ WriteMissing(a)

Unfinished == {e \in Events : event[e] \in {"RECEIVED", "FAILED"}}

Quiet ==
  /\ \A a \in Actors : at[a] = "idle"
  /\ Unfinished = {}
  /\ UNCHANGED vars

Next ==
  \/ \E a \in Actors, e \in Events : Post(a, e) \/ Recover(a, e)
  \/ \E a \in Actors, d \in Drafts : StaffMessage(a, d)
  \/ \E a \in Actors : Work(a) \/ ProcessFails(a) \/ Lose(a) \/ Backfill(a)
  \/ \E t \in Threads : OpenThread(t) \/ RevokeConsent(t)
  \/ Quiet

(* A transaction runs to its end, and an operator keeps running recover(): *)
(* the code schedules nothing itself.                                      *)
Fairness ==
  /\ \A a \in Actors : WF_vars(Work(a))
  /\ \A a \in Recoverers : WF_vars(\E e \in Events : Recover(a, e))

Spec == Init /\ [][Next]_vars /\ Fairness

-----------------------------------------------------------------------------
Recorded == {r \in Refs : message[r] # None}

(* What an actor works on, by where its transaction stands.                *)
EventJob(a) ==
  LET e == job[a].event
  IN /\ e \in Events
     /\ job[a].type = Envelope[e].type /\ job[a].ref = Envelope[e].ref
     /\ job[a].thread = Envelope[e].thread /\ job[a].at = Envelope[e].at
     /\ job[a].status = Envelope[e].status
StaffJob(a) ==
  /\ job[a].type = "staff" /\ job[a].event = None
  /\ job[a].ref \in Refs /\ job[a].thread \in Threads /\ job[a].at \in Instants
StepOK(a) ==
  /\ at[a] \in {"store", "claim"} => EventJob(a)
  /\ at[a] \in {"thread", "insert"} => StaffJob(a) \/ (EventJob(a) /\ job[a].type = "message")
  /\ at[a] = "status" => EventJob(a) /\ job[a].type = "status"
  /\ at[a] = "finish" => StaffJob(a) \/ EventJob(a)

(* What it means to write can still be written when it commits.            *)
PlanOK(a) ==
  /\ at[a] = "insert" => plan[a] # None
  /\ plan[a] # None =>
       /\ at[a] \in {"insert", "finish"} /\ job[a].type \in {"message", "staff"}
       /\ plan[a].by = job[a].event /\ plan[a].thread = job[a].thread /\ plan[a].at = job[a].at
       /\ plan[a].content = "archived" => plan[a].thread \in consents
OutcomeOK(a) ==
  at[a] = "finish" =>
    /\ outcome[a] \in Final \union {"FAILED"}
    /\ plan[a] # None <=> job[a].type \in {"message", "staff"} /\ outcome[a] = "PROCESSED"
    /\ plan[a] # None => message[job[a].ref] = None
    /\ outcome[a] = "PROCESSED" => job[a].type # "other"
    /\ outcome[a] = "PROCESSED" /\ job[a].type = "status" =>
         message[job[a].ref] # None /\ Accepted(message[job[a].ref].delivery, job[a].status)
ActorsOK == \A a \in Actors : StepOK(a) /\ PlanOK(a) /\ OutcomeOK(a)

(* The row locks exclude, and a locked event is still to be completed.     *)
LocksOK ==
  /\ \A a \in Actors, e \in Events : HoldsEvent(a, e) => event[e] \in {"RECEIVED", "FAILED"}
  /\ \A a, b \in Actors : a # b =>
       /\ \A e \in Events : ~(HoldsEvent(a, e) /\ HoldsEvent(b, e))
       /\ \A r \in Refs : ~(Inserting(a, r) /\ Inserting(b, r))
       /\ \A r \in Refs : ~(HoldsMessage(a, r) /\ HoldsMessage(b, r))

InteractionsOK ==
  \A r \in Refs :
    /\ r \in DOMAIN Legacy => message[r] # None
    /\ IF message[r] = None THEN interactions[r] = 0
       ELSE interactions[r] = 1 \/ (interactions[r] = 0 /\ r \in DOMAIN Legacy)

Dated(t) == {r \in Recorded \ DOMAIN Legacy : message[r].thread = t}
ClocksOK ==
  \A t \in Threads :
    /\ \A r \in Dated(t) : message[r].at <= lastAt[t]
    /\ (lastAt[t] = 0 /\ Dated(t) = {}) \/ \E r \in Dated(t) : message[r].at = lastAt[t]

(* The inductive invariant the properties below rest on.                   *)
IInv == TypeOK /\ ActorsOK /\ LocksOK /\ InteractionsOK /\ ClocksOK

(* The timeline of a thread's party: an item per interaction, the message  *)
(* it names read live, with its content only when that was archived.       *)
TimelineItem(r) ==
  [delivery |-> message[r].delivery,
   shows    |-> IF message[r].content = "archived" THEN {"metadata", "content"} ELSE {"metadata"}]
Timeline(t) ==
  UNION {{[ref |-> r, nth |-> n, item |-> TimelineItem(r)] : n \in 1..interactions[r]} :
            r \in {r \in Recorded : message[r].thread = t}}

(* Each message is on one timeline and once, the old ones on none until the*)
(* backfill gives them an interaction; a thread's last_message_at is its   *)
(* latest message's time, whatever the order of arrival.                   *)
(* (read_party_timeline, message_interactions, _process_message.)          *)
MessagesConsistent ==
  /\ IInv
  /\ \A r \in Recorded :
       LET items == {i \in UNION {Timeline(t) : t \in Threads} : i.ref = r}
       IN Cardinality(items) = 1 \/ (items = {} /\ r \in DOMAIN Legacy)
  /\ \A r \in Refs \ Recorded : interactions[r] = 0
  /\ \A t \in Threads :
       LET times == {message[r].at : r \in Dated(t)}
       IN lastAt[t] = IF times = {} THEN 0 ELSE CHOOSE x \in times : \A y \in times : y <= x

(* Content reaches the archive only while its thread's consent holds: a    *)
(* revocation never slips between the check and the COMMIT (G7-9).         *)
ArchivedUnderConsent ==
  [][\A r \in Refs :
       message'[r] # None /\ message[r] = None /\ message'[r].content = "archived"
         => message'[r].thread \in consents]_vars

(* Two status events in any order and overlap never take a delivery status *)
(* back, and FAILED and READ are for good (G7-5, _process_status).         *)
StatusOnlyForward ==
  [][\A r \in Recorded :
       /\ message'[r] # None
       /\ message'[r].delivery # message[r].delivery
            => /\ message[r].delivery \notin {"FAILED", "READ"}
               /\ \/ Rank(message'[r].delivery) > Rank(message[r].delivery)
                  \/ message'[r].delivery = "FAILED"]_vars

(* The webhook keeps the inbox's promise: no event lost or completed twice,*)
(* no message without its completion, whatever fails and whoever overlaps. *)
InboxStatus(e) == CASE event[e] = "absent" -> "absent"
                    [] event[e] = "PROCESSED" -> "processed"
                    [] event[e] = "IGNORED" -> "ignored"
                    [] OTHER -> "pending"
HasEffect(e) == IF Envelope[e].type = "message"
                THEN message[Envelope[e].ref] # None /\ message[Envelope[e].ref].by = e
                ELSE event[e] = "PROCESSED"
InboxOfEvents == [e \in Events |-> InboxStatus(e)]
EffectsStored == {e \in Events : HasEffect(e)}
Inbox == INSTANCE EventInbox WITH inbox <- InboxOfEvents, effects <- EffectsStored
KeepsInbox == Inbox!ISpec

(* Every stored event reaches PROCESSED or IGNORED, given that failures    *)
(* stop and recover() is run again and again.                              *)
EventuallyFinal ==
  \A e \in Events : event[e] \in {"RECEIVED", "FAILED"} ~> event[e] \in Final
=============================================================================
