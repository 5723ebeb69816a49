------------------------ MODULE WebhookIntakeProofs -------------------------
(* Proofs about WebhookIntake, for every set of actors, events, references *)
(* and threads, every content of the events and every number of failures.  *)
EXTENDS WebhookIntake, FiniteSetTheorems, TLAPS

(* The ladder of delivery statuses ranks its four statuses 1 to 4 and      *)
(* everything else 0.                                                      *)
LEMMA Ranks ==
  /\ Rank("QUEUED") = 1 /\ Rank("SENT") = 2 /\ Rank("DELIVERED") = 3 /\ Rank("READ") = 4
  /\ Rank("UNKNOWN") = 0 /\ Rank("FAILED") = 0
<1>1. \A i \in 1..4 : Rank(Order[i]) = i
  <2> SUFFICES ASSUME NEW i \in 1..4 PROVE Rank(Order[i]) = i
    OBVIOUS
  <2>1. \A j \in 1..4 : Order[j] = Order[i] => j = i
    BY DEF Order
  <2> QED BY <2>1 DEF Rank
<1>2. Order[1] = "QUEUED" /\ Order[2] = "SENT" /\ Order[3] = "DELIVERED" /\ Order[4] = "READ"
  BY DEF Order
<1>3. \A s \in {"UNKNOWN", "FAILED"} : \A i \in 1..4 : Order[i] # s
  BY DEF Order
<1> QED BY <1>1, <1>2, <1>3 DEF Rank

(* A status the table accepts is another status, further on or FAILED, and *)
(* the one it replaces is neither FAILED nor READ.                         *)
LEMMA AcceptedForward ==
  ASSUME NEW old \in Statuses, NEW new \in Statuses, Accepted(old, new)
  PROVE  /\ old \notin {"FAILED", "READ"}
         /\ Rank(new) > Rank(old) \/ new = "FAILED"
BY Ranks DEF Accepted, Statuses

(* What End and Begin write, and how the jobs they are given are typed.    *)
LEMMA EndType ==
  ASSUME TypeOK, NEW a \in Actors, NEW code \in {0, 200, 500, 503}, End(a, code)
  PROVE  /\ at' \in [Actors -> Steps] /\ job' \in [Actors -> Jobs]
         /\ plan' \in [Actors -> Messages \union {None}]
         /\ outcome' \in [Actors -> Final \union {"FAILED", None}]
         /\ reply' \in [Actors -> {0, 200, 500, 503}]
<1>1. NoJob \in Jobs
  BY DEF NoJob, Jobs, Statuses
<1> QED BY <1>1 DEF End, Goto, TypeOK, Steps

LEMMA BeginType ==
  ASSUME TypeOK, NEW a \in Actors, NEW j \in Jobs, NEW s \in Steps, Begin(a, j, s)
  PROVE  /\ at' \in [Actors -> Steps] /\ job' \in [Actors -> Jobs]
         /\ plan' \in [Actors -> Messages \union {None}]
         /\ outcome' \in [Actors -> Final \union {"FAILED", None}]
         /\ reply' \in [Actors -> {0, 200, 500, 503}]
BY DEF Begin, Goto, TypeOK

(* The job of a webhook event or a draft, field by field.                  *)
LEMMA EventJobType ==
  ASSUME NEW e \in Events, NEW stored \in BOOLEAN
  PROVE  /\ JobOf(e, stored) \in Jobs
         /\ JobOf(e, stored).event = e /\ JobOf(e, stored).type = Envelope[e].type
         /\ JobOf(e, stored).ref = Envelope[e].ref /\ JobOf(e, stored).thread = Envelope[e].thread
         /\ JobOf(e, stored).at = Envelope[e].at /\ JobOf(e, stored).status = Envelope[e].status
BY IntakeAssumption DEF JobOf, NoJob, Jobs

StaffJobOf(d) == [NoJob EXCEPT !.type = "staff", !.ref = d.ref, !.thread = d.thread, !.at = d.at,
                    !.content = IF d.content THEN "given" ELSE "none", !.status = d.status]

LEMMA StaffJobType ==
  ASSUME NEW d \in Drafts
  PROVE  /\ StaffJobOf(d) \in Jobs
         /\ StaffJobOf(d).event = None /\ StaffJobOf(d).type = "staff" /\ StaffJobOf(d).ref \in Refs
         /\ StaffJobOf(d).thread \in Threads /\ StaffJobOf(d).at \in Instants
BY IntakeAssumption DEF StaffJobOf, NoJob, Jobs, Requests

LEMMA BackfillJobType ==
  ASSUME NEW missing \in SUBSET Refs
  PROVE  [NoJob EXCEPT !.type = "backfill", !.missing = missing] \in Jobs
BY DEF NoJob, Jobs, Statuses

(* Times are numbers.                                                      *)
LEMMA Times ==
  ASSUME TypeOK
  PROVE  /\ \A t \in Threads : lastAt[t] \in Nat
         /\ \A r \in Refs : message[r] # None => message[r] \in Messages /\ message[r].at \in Nat
<1>1. \A x \in Instants : x \in Nat
  BY IntakeAssumption
<1>2. ASSUME NEW t \in Threads PROVE lastAt[t] \in Nat
  <2>1. lastAt[t] \in Instants \union {0}
    BY DEF TypeOK
  <2> QED BY <1>1, <2>1
<1>3. ASSUME NEW r \in Refs, message[r] # None PROVE message[r] \in Messages /\ message[r].at \in Nat
  <2>1. message[r] \in Messages
    BY <1>3 DEF TypeOK
  <2> QED BY <1>1, <2>1 DEF Messages
<1> QED BY <1>2, <1>3

(* Where a transaction has a reference, a thread and a time to write.      *)
LEMMA AtWork ==
  ASSUME IInv, NEW a \in Actors, at[a] \in {"store", "claim", "thread", "insert", "status", "finish"}
  PROVE  /\ job[a].ref \in Refs /\ job[a].thread \in Threads /\ job[a].at \in Instants
         /\ job[a].at \in Nat /\ job[a].status \in Statuses /\ job[a] \in Jobs
         /\ job[a].event \in Events \/ (job[a].event = None /\ job[a].type = "staff")
         /\ job[a].type \in {"message", "status", "other", "staff"}
         /\ job[a].event \in Events => EventJob(a) /\ job[a].type # "staff"
<1>1. StaffJob(a) \/ EventJob(a)
  BY DEF IInv, ActorsOK, StepOK
<1>2. job[a] \in Jobs
  BY DEF IInv, TypeOK
<1>3. ASSUME EventJob(a)
      PROVE  /\ job[a].ref \in Refs /\ job[a].thread \in Threads /\ job[a].at \in Instants
             /\ job[a].type \in {"message", "status", "other"} /\ job[a].event \in Events
  BY <1>3, IntakeAssumption DEF EventJob
<1> QED BY <1>1, <1>2, <1>3, IntakeAssumption DEF StaffJob, Jobs

(* Initially nobody works, and only the old messages are recorded.         *)
LEMMA InitOK == Init => IInv
<1> SUFFICES ASSUME Init PROVE IInv
  OBVIOUS
<1>1. TypeOK
  <2>1. NoJob \in Jobs
    BY DEF NoJob, Jobs, Statuses
  <2>2. message \in [Refs -> Messages \union {None}]
    BY IntakeAssumption DEF Init
  <2> QED BY <2>1, <2>2, IntakeAssumption DEF Init, TypeOK, Steps
<1>2. ActorsOK
  BY DEF Init, ActorsOK, StepOK, PlanOK, OutcomeOK
<1>3. LocksOK
  BY DEF Init, LocksOK, HoldsEvent, Inserting, HoldsMessage
<1>4. \A r \in Refs : message[r] # None <=> r \in DOMAIN Legacy
  BY IntakeAssumption DEF Init
<1>5. InteractionsOK
  BY <1>4 DEF Init, InteractionsOK
<1>6. ClocksOK
  <2>1. \A t \in Threads : Dated(t) = {}
    BY <1>4 DEF Dated, Recorded
  <2> QED BY <2>1 DEF Init, ClocksOK
<1> QED BY <1>1, <1>2, <1>3, <1>5, <1>6 DEF IInv

-----------------------------------------------------------------------------
(* Every step keeps each variable in its set.                              *)
LEMMA TypeStep ==
  ASSUME IInv, [Next]_vars
  PROVE  TypeOK'
<1> USE DEF IInv
<1>0. TypeOK
  OBVIOUS
<1> USE DEF TypeOK
<1>1. ASSUME NEW a \in Actors, NEW e \in Events, Post(a, e) PROVE TypeOK'
  <2>1. JobOf(e, FALSE) \in Jobs /\ "store" \in Steps
    BY EventJobType DEF Steps
  <2>2. posts' \in 0..MaxPosts
    BY <1>1, IntakeAssumption DEF Post
  <2> QED BY <1>0, <1>1, <2>1, <2>2, BeginType, ZenonT(60) DEF Post, Begin, store
<1>2. ASSUME NEW a \in Actors, NEW e \in Events, Recover(a, e) PROVE TypeOK'
  <2>1. JobOf(e, TRUE) \in Jobs /\ "claim" \in Steps
    BY EventJobType DEF Steps
  <2> QED BY <1>0, <1>2, <2>1, BeginType, ZenonT(60) DEF Recover, Begin, store
<1>3. ASSUME NEW a \in Actors, NEW d \in Drafts, StaffMessage(a, d) PROVE TypeOK'
  <2>1. StaffJobOf(d) \in Jobs /\ "thread" \in Steps /\ Begin(a, StaffJobOf(d), "thread")
    BY <1>3, StaffJobType DEF Steps, StaffMessage, StaffJobOf
  <2>2. posts' \in 0..MaxPosts
    BY <1>3, IntakeAssumption DEF StaffMessage
  <2>3. UNCHANGED <<world, store, faults>>
    BY <1>3 DEF StaffMessage, Begin
  <2> QED BY <1>0, <2>1, <2>2, <2>3, BeginType DEF store
<1>4. ASSUME Fail PROVE faults' \in 0..MaxFaults
  BY <1>4, IntakeAssumption DEF Fail
<1>5. ASSUME NEW a \in Actors, Store(a) PROVE TypeOK'
  <2>1. event' \in [Events -> Final \union {"absent", "RECEIVED", "FAILED"}]
    BY <1>5 DEF Store, NewlyStored
  <2>2. faults' \in 0..MaxFaults
    BY <1>4, <1>5 DEF Store
  <2>3. CASE End(a, 200) \/ End(a, 503)
    BY <1>0, <1>5, <2>1, <2>2, <2>3, EndType DEF Store
  <2>4. CASE Goto(a, "claim") /\ UNCHANGED <<job, plan, outcome, reply>>
    BY <1>5, <2>1, <2>2, <2>4 DEF Store, Goto, Steps
  <2> QED BY <1>5, <2>3, <2>4 DEF Store
<1>6. ASSUME NEW a \in Actors, Claim(a) PROVE TypeOK'
  <2>0. UNCHANGED <<world, store, posts, faults>>
    BY <1>6 DEF Claim
  <2>1. CASE End(a, 200)
    BY <1>0, <2>0, <2>1, EndType DEF store
  <2>2. CASE ~End(a, 200)
    <3>1. at[a] = "claim" /\ UNCHANGED <<job, plan, reply>>
      BY <1>6, <2>2 DEF Claim
    <3>2. outcome' \in [Actors -> Final \union {"FAILED", None}]
      BY <1>6, <2>2 DEF Claim, Final
    <3>3. job[a].type \in {"message", "status", "other"}
      BY <3>1, IntakeAssumption DEF ActorsOK, StepOK, EventJob
    <3>4. at' \in [Actors -> Steps]
      BY <1>6, <2>2, <3>3 DEF Claim, Goto, Steps
    <3> QED BY <2>0, <3>1, <3>2, <3>4 DEF store
  <2> QED BY <2>1, <2>2
<1>7. ASSUME NEW a \in Actors, LockThread(a) PROVE TypeOK'
  <2>0. UNCHANGED <<world, store, posts, faults>> /\ at[a] = "thread"
    BY <1>7 DEF LockThread
  <2>1. CASE End(a, 0)
    BY <1>0, <2>0, <2>1, EndType DEF store
  <2>2. CASE Resolve(a, "IGNORED") /\ UNCHANGED <<job, plan, reply>>
    BY <2>0, <2>2 DEF Resolve, Goto, Steps, Final, store
  <2>3. CASE /\ Goto(a, "insert")
             /\ plan' = [plan EXCEPT ![a] =
                  [by |-> job[a].event, thread |-> job[a].thread, at |-> job[a].at, content |-> Kept(a),
                   delivery |-> IF job[a].type = "staff" THEN job[a].status ELSE "UNKNOWN"]]
             /\ UNCHANGED <<job, outcome, reply>>
    <3>1. Kept(a) \in Contents
      BY DEF Kept, Contents, Jobs
    <3>2. job[a].event \in Events \union {None} /\ job[a].thread \in Threads
          /\ job[a].at \in Instants /\ job[a].status \in Statuses
      BY <2>0, AtWork
    <3>3. plan' \in [Actors -> Messages \union {None}]
      BY <2>3, <3>1, <3>2 DEF Messages, Statuses
    <3> QED BY <2>0, <2>3, <3>3 DEF Goto, Steps, store
  <2> QED BY <1>7, <2>1, <2>2, <2>3 DEF LockThread
<1>8. ASSUME NEW a \in Actors, Insert(a) PROVE TypeOK'
  <2>0. UNCHANGED <<world, store, posts, faults>>
    BY <1>8 DEF Insert
  <2>1. CASE End(a, 0)
    BY <1>0, <2>0, <2>1, EndType DEF store
  <2>2. CASE ~End(a, 0)
    BY <1>8, <2>0, <2>2 DEF Insert, Resolve, Goto, Steps, Final, store
  <2> QED BY <2>1, <2>2
<1>9. ASSUME NEW a \in Actors, ReadStatus(a) PROVE TypeOK'
  BY <1>9 DEF ReadStatus, Resolve, Goto, Steps, Final, store
<1>10. ASSUME NEW a \in Actors, ProcessFails(a) PROVE TypeOK'
  BY <1>4, <1>10 DEF ProcessFails, RollBack, Resolve, Goto, Steps, store
<1>11. ASSUME NEW a \in Actors, Finish(a) PROVE TypeOK'
  <2>0. /\ UNCHANGED <<world, threads, consents, posts>> /\ at[a] = "finish"
        /\ outcome[a] \in Final \union {"FAILED"}
        /\ job[a].ref \in Refs /\ job[a].thread \in Threads /\ job[a].at \in Instants
        /\ job[a].status \in Statuses
    BY <1>11, AtWork DEF Finish, ActorsOK, OutcomeOK
  <2>1. event' \in [Events -> Final \union {"absent", "RECEIVED", "FAILED"}]
    BY <1>11, <2>0 DEF Finish
  <2>2. message' \in [Refs -> Messages \union {None}]
    <3>1. CASE plan[a] # None
      BY <1>11, <2>0, <3>1 DEF Finish
    <3>2. CASE plan[a] = None /\ job[a].type = "status" /\ outcome[a] = "PROCESSED"
      <4>1. message[job[a].ref] \in Messages
        BY <2>0, <3>2 DEF ActorsOK, OutcomeOK
      <4>2. [message[job[a].ref] EXCEPT !.delivery = job[a].status] \in Messages
        BY <2>0, <4>1 DEF Messages
      <4>3. message' = [message EXCEPT ![job[a].ref] = [message[job[a].ref] EXCEPT !.delivery = job[a].status]]
        BY <1>11, <3>2 DEF Finish
      <4> QED BY <4>2, <4>3
    <3>3. CASE message' = message
      BY <3>3
    <3> QED BY <1>11, <3>1, <3>2, <3>3 DEF Finish
  <2>3. lastAt' \in [Threads -> Instants \union {0}]
    BY <1>11, <2>0 DEF Finish, LastMessageAt, Later
  <2>4. interactions' \in [Refs -> Nat]
    BY <1>11, <2>0 DEF Finish
  <2>5. faults' \in 0..MaxFaults
    BY <1>4, <1>11 DEF Finish
  <2>6. PICK code \in {200, 500} : End(a, code)
    BY <1>11 DEF Finish
  <2> QED BY <1>0, <2>0, <2>1, <2>2, <2>3, <2>4, <2>5, <2>6, EndType
<1>12. ASSUME NEW a \in Actors, Lose(a) PROVE TypeOK'
  <2>1. End(a, 500) /\ Fail /\ UNCHANGED <<world, store, posts>>
    BY <1>12 DEF Lose
  <2> QED BY <1>0, <1>4, <2>1, EndType DEF store
<1>13. ASSUME NEW a \in Actors, Backfill(a) PROVE TypeOK'
  <2>1. WithoutInteraction \in SUBSET Refs /\ "backfill" \in Steps
    BY DEF WithoutInteraction, Steps
  <2> QED BY <1>0, <1>13, <2>1, BackfillJobType, BeginType, ZenonT(60) DEF Backfill, Begin, store
<1>14. ASSUME NEW a \in Actors, WriteMissing(a) PROVE TypeOK'
  <2>1. interactions' \in [Refs -> Nat]
    BY <1>14 DEF WriteMissing
  <2> QED BY <1>0, <1>14, <2>1, EndType DEF WriteMissing
<1>15. ASSUME NEW t \in Threads, OpenThread(t) PROVE TypeOK'
  BY <1>15 DEF OpenThread
<1>16. ASSUME NEW t \in Threads, RevokeConsent(t) PROVE TypeOK'
  BY <1>16 DEF RevokeConsent
<1>17. CASE UNCHANGED vars
  BY <1>17 DEF vars, store
<1> QED
  BY <1>1, <1>2, <1>3, <1>5, <1>6, <1>7, <1>8, <1>9, <1>10, <1>11, <1>12, <1>13, <1>14, <1>15,
     <1>16, <1>17 DEF Next, Work, Quiet

-----------------------------------------------------------------------------
(* Only a's transaction moves.                                             *)
Only(a) == \A b \in Actors \ {a} : /\ at'[b] = at[b] /\ job'[b] = job[b]
                                   /\ plan'[b] = plan[b] /\ outcome'[b] = outcome[b]
ActorOK(a) == StepOK(a) /\ PlanOK(a) /\ OutcomeOK(a)

(* The others stand as they stood, as long as the messages they read and   *)
(* the consents they share do.                                             *)
LEMMA OthersKeep ==
  ASSUME IInv, NEW a \in Actors, Only(a), NEW b \in Actors, b # a,
         UNCHANGED <<message, consents>>
  PROVE  ActorOK(b)'
<1>1. at'[b] = at[b] /\ job'[b] = job[b] /\ plan'[b] = plan[b] /\ outcome'[b] = outcome[b]
  BY DEF Only
<1>2. StepOK(b) /\ PlanOK(b) /\ OutcomeOK(b)
  BY DEF IInv, ActorsOK
<1>3. StepOK(b)'
  BY <1>1, <1>2 DEF StepOK, EventJob, StaffJob
<1>4. PlanOK(b)'
  BY <1>1, <1>2 DEF PlanOK
<1>5. OutcomeOK(b)'
  BY <1>1, <1>2 DEF OutcomeOK
<1> QED BY <1>3, <1>4, <1>5 DEF ActorOK

(* The locks still exclude when what a newly holds nobody else held, and   *)
(* the events others hold keep their status.                               *)
LEMMA LocksKeep ==
  ASSUME IInv, NEW a \in Actors, Only(a),
         \A e \in Events : HoldsEvent(a, e)' =>
           event'[e] \in {"RECEIVED", "FAILED"} /\ \A b \in Actors \ {a} : ~HoldsEvent(b, e),
         \A r \in Refs : Inserting(a, r)' => \A b \in Actors \ {a} : ~Inserting(b, r),
         \A r \in Refs : HoldsMessage(a, r)' => \A b \in Actors \ {a} : ~HoldsMessage(b, r),
         \A b \in Actors \ {a}, e \in Events : HoldsEvent(b, e) => event'[e] \in {"RECEIVED", "FAILED"}
  PROVE  LocksOK'
<1>1. \A b \in Actors \ {a} :
        /\ \A e \in Events : HoldsEvent(b, e)' <=> HoldsEvent(b, e)
        /\ \A r \in Refs : Inserting(b, r)' <=> Inserting(b, r)
        /\ \A r \in Refs : HoldsMessage(b, r)' <=> HoldsMessage(b, r)
  BY DEF Only, HoldsEvent, Inserting, HoldsMessage
<1>2. ASSUME NEW b \in Actors, NEW e \in Events, HoldsEvent(b, e)'
      PROVE  event'[e] \in {"RECEIVED", "FAILED"}
  BY <1>1, <1>2
<1>3. ASSUME NEW b \in Actors, NEW c \in Actors, b # c
      PROVE  /\ \A e \in Events : ~(HoldsEvent(b, e)' /\ HoldsEvent(c, e)')
             /\ \A r \in Refs : ~(Inserting(b, r)' /\ Inserting(c, r)')
             /\ \A r \in Refs : ~(HoldsMessage(b, r)' /\ HoldsMessage(c, r)')
  <2>1. CASE b = a
    BY <1>1, <1>3, <2>1
  <2>2. CASE c = a
    BY <1>1, <1>3, <2>2
  <2>3. CASE b # a /\ c # a
    BY <1>1, <1>3, <2>3 DEF IInv, LocksOK
  <2> QED BY <2>1, <2>2, <2>3
<1> QED BY <1>2, <1>3 DEF LocksOK

(* Neither the interactions nor the clocks look beyond the stored rows.    *)
LEMMA RowsKeep ==
  ASSUME IInv, UNCHANGED <<message, lastAt, interactions>>
  PROVE  InteractionsOK' /\ ClocksOK'
<1>1. InteractionsOK'
  BY DEF IInv, InteractionsOK
<1>2. \A t \in Threads : Dated(t)' = Dated(t)
  BY DEF Dated, Recorded
<1>3. ClocksOK'
  BY <1>2 DEF IInv, ClocksOK
<1> QED BY <1>1, <1>3

(* A transaction begins: it holds nothing yet but a staff thread's place.  *)
LEMMA BeginKeeps ==
  ASSUME IInv, NEW a \in Actors, NEW j \in Jobs, NEW s \in {"store", "claim", "thread", "backfill"},
         Begin(a, j, s),
         j.event \in Events => s \in {"store", "claim"},
         s \in {"store", "claim"} => j.event \in Events /\ EventJob(a)',
         s = "thread" => StaffJob(a)'
  PROVE  ActorsOK' /\ LocksOK' /\ InteractionsOK' /\ ClocksOK'
<1>0. Only(a) /\ at'[a] = s /\ job'[a] = j /\ plan'[a] = plan[a] /\ at[a] = "idle"
  BY DEF Begin, Goto, Only, IInv, TypeOK
<1>1. UNCHANGED <<threads, consents, event, message, lastAt, interactions>>
  BY DEF Begin, store
<1>2. plan[a] = None
  BY <1>0 DEF IInv, ActorsOK, PlanOK
<1>3. ActorOK(a)'
  <2>1. StepOK(a)'
    BY <1>0 DEF StepOK
  <2>2. PlanOK(a)' /\ OutcomeOK(a)'
    BY <1>0, <1>2 DEF PlanOK, OutcomeOK
  <2> QED BY <2>1, <2>2 DEF ActorOK
<1>4. ActorsOK'
  BY <1>0, <1>1, <1>3, OthersKeep DEF ActorsOK, ActorOK
<1>5. LocksOK'
  <2>1. \A e \in Events : ~HoldsEvent(a, e)'
    BY <1>0 DEF HoldsEvent
  <2>2. \A r \in Refs : ~Inserting(a, r)' /\ ~HoldsMessage(a, r)'
    BY <1>0 DEF Inserting, HoldsMessage
  <2>3. \A b \in Actors \ {a}, e \in Events : HoldsEvent(b, e) => event'[e] \in {"RECEIVED", "FAILED"}
    BY <1>1 DEF IInv, LocksOK
  <2> QED BY <1>0, <2>1, <2>2, <2>3, LocksKeep
<1> QED BY <1>1, <1>4, <1>5, RowsKeep

(* A transaction ends: it holds nothing any more.                          *)
LEMMA EndIdle ==
  ASSUME IInv, NEW a \in Actors, NEW code, End(a, code)
  PROVE  /\ Only(a) /\ ActorOK(a)'
         /\ \A e \in Events : ~HoldsEvent(a, e)'
         /\ \A r \in Refs : ~Inserting(a, r)' /\ ~HoldsMessage(a, r)'
<1>1. Only(a)
  BY DEF End, Goto, Only
<1>2. at'[a] = "idle" /\ plan'[a] = None
  BY DEF End, Goto, IInv, TypeOK
<1>3. ActorOK(a)'
  BY <1>2 DEF ActorOK, StepOK, PlanOK, OutcomeOK
<1> QED BY <1>1, <1>2, <1>3 DEF HoldsEvent, Inserting, HoldsMessage

(* It may end anywhere, writing nothing but a newly stored event.          *)
LEMMA EndKeeps ==
  ASSUME IInv, NEW a \in Actors, NEW code, End(a, code),
         UNCHANGED <<consents, message, lastAt, interactions>>,
         \A e \in Events : event'[e] = event[e] \/ (event[e] = "absent" /\ event'[e] = "RECEIVED")
  PROVE  ActorsOK' /\ LocksOK' /\ InteractionsOK' /\ ClocksOK'
<1>1. ActorsOK'
  BY EndIdle, OthersKeep DEF ActorsOK, ActorOK
<1>2. LocksOK'
  <2>1. \A b \in Actors \ {a}, e \in Events : HoldsEvent(b, e) => event'[e] \in {"RECEIVED", "FAILED"}
    BY DEF IInv, LocksOK
  <2> QED BY <2>1, EndIdle, LocksKeep
<1> QED BY <1>1, <1>2, RowsKeep

(* A step inside a transaction, which commits nothing.                     *)
LEMMA MoveKeeps ==
  ASSUME IInv, NEW a \in Actors, Only(a), ActorOK(a)',
         UNCHANGED <<consents, message, lastAt, interactions>>,
         \A e \in Events : event'[e] = event[e] \/ (event[e] = "absent" /\ event'[e] = "RECEIVED"),
         \A e \in Events : HoldsEvent(a, e)' =>
           \/ HoldsEvent(a, e)
           \/ Claimable(e) /\ \A b \in Actors \ {a} : ~HoldsEvent(b, e),
         \A r \in Refs : Inserting(a, r)' => \A b \in Actors \ {a} : ~Inserting(b, r),
         \A r \in Refs : HoldsMessage(a, r)' => \A b \in Actors \ {a} : ~HoldsMessage(b, r)
  PROVE  ActorsOK' /\ LocksOK' /\ InteractionsOK' /\ ClocksOK'
<1>1. ActorsOK'
  BY OthersKeep DEF ActorsOK, ActorOK
<1>2. LocksOK'
  <2>1. \A b \in Actors \ {a}, e \in Events : HoldsEvent(b, e) => event'[e] \in {"RECEIVED", "FAILED"}
    BY DEF IInv, LocksOK
  <2>2. ASSUME NEW e \in Events, HoldsEvent(a, e)'
        PROVE  event'[e] \in {"RECEIVED", "FAILED"} /\ \A b \in Actors \ {a} : ~HoldsEvent(b, e)
    BY <2>2 DEF IInv, LocksOK, Claimable
  <2> QED BY <2>1, <2>2, LocksKeep
<1> QED BY <1>1, <1>2, RowsKeep

-----------------------------------------------------------------------------
(* Each action keeps the invariant.                                        *)
Preserved == ActorsOK' /\ LocksOK' /\ InteractionsOK' /\ ClocksOK'

(* T1 stores, then claims: it holds nothing of the event yet.              *)
LEMMA StoreStep ==
  ASSUME IInv, NEW a \in Actors, Store(a)
  PROVE  Preserved
<1>0. /\ at[a] = "store" /\ UNCHANGED <<consents, message, lastAt, interactions>>
      /\ \A e \in Events : event'[e] = event[e] \/ (event[e] = "absent" /\ event'[e] = "RECEIVED")
  BY DEF Store, NewlyStored, IInv, TypeOK
<1>1. CASE End(a, 200) \/ End(a, 503)
  BY <1>0, <1>1, EndKeeps DEF Preserved
<1>2. CASE Goto(a, "claim") /\ UNCHANGED <<job, plan, outcome, reply>>
  <2>1. Only(a) /\ at'[a] = "claim"
    BY <1>2 DEF Only, Goto, IInv, TypeOK
  <2>2. ActorOK(a)'
    BY <1>0, <1>2, <2>1 DEF ActorOK, IInv, ActorsOK, StepOK, PlanOK, OutcomeOK, EventJob
  <2>3. /\ \A e \in Events : ~HoldsEvent(a, e)'
        /\ \A r \in Refs : ~Inserting(a, r)' /\ ~HoldsMessage(a, r)'
    BY <2>1 DEF HoldsEvent, Inserting, HoldsMessage
  <2> QED BY <1>0, <2>1, <2>2, <2>3, MoveKeeps DEF Preserved
<1> QED BY <1>1, <1>2 DEF Store

(* T2 claims an event nobody holds, by its type.                           *)
LEMMA ClaimStep ==
  ASSUME IInv, NEW a \in Actors, Claim(a)
  PROVE  Preserved
<1>0. /\ at[a] = "claim" /\ UNCHANGED <<consents, message, lastAt, interactions, event>>
      /\ EventJob(a) /\ job[a].type \in {"message", "status", "other"} /\ plan[a] = None
  BY IntakeAssumption DEF Claim, store, IInv, ActorsOK, StepOK, PlanOK, EventJob
<1>1. CASE End(a, 200)
  BY <1>0, <1>1, EndKeeps DEF Preserved
<1>2. CASE ~End(a, 200)
  <2>0. /\ Claimable(job[a].event) /\ ~EventLocked(a, job[a].event) /\ UNCHANGED <<job, plan>>
        /\ at' = [at EXCEPT ![a] = CASE job[a].type = "message" -> "thread"
                                     [] job[a].type = "status"  -> "status"
                                     [] job[a].type = "other"   -> "finish"]
        /\ outcome' = [outcome EXCEPT ![a] = IF job[a].type = "other" THEN "IGNORED" ELSE None]
    BY <1>2 DEF Claim, Goto
  <2>1. Only(a)
    BY <2>0 DEF Only
  <2>2. /\ job[a].type = "message" => at'[a] = "thread"
        /\ job[a].type = "status" => at'[a] = "status"
        /\ job[a].type = "other" => at'[a] = "finish" /\ outcome'[a] = "IGNORED"
    BY <1>0, <2>0 DEF IInv, TypeOK
  <2>3. ActorOK(a)'
    <3>1. StepOK(a)'
      BY <1>0, <2>0, <2>2 DEF StepOK, EventJob
    <3>2. PlanOK(a)'
      BY <1>0, <2>0, <2>2 DEF PlanOK
    <3>3. OutcomeOK(a)'
      BY <1>0, <2>0, <2>2 DEF OutcomeOK, Final
    <3> QED BY <3>1, <3>2, <3>3 DEF ActorOK
  <2>4. /\ \A e \in Events : HoldsEvent(a, e)' =>
             Claimable(e) /\ \A b \in Actors \ {a} : ~HoldsEvent(b, e)
        /\ \A r \in Refs : ~Inserting(a, r)' /\ ~HoldsMessage(a, r)'
    BY <1>0, <2>0, <2>2 DEF HoldsEvent, Inserting, HoldsMessage, EventLocked
  <2> QED BY <1>0, <2>1, <2>3, <2>4, MoveKeeps DEF Preserved
<1> QED BY <1>1, <1>2

(* The thread is locked: a message is planned, under the consent read.     *)
LEMMA LockThreadStep ==
  ASSUME IInv, NEW a \in Actors, LockThread(a)
  PROVE  Preserved
<1>0. /\ at[a] = "thread" /\ UNCHANGED <<consents, message, lastAt, interactions, event>>
      /\ plan[a] = None /\ (StaffJob(a) \/ (EventJob(a) /\ job[a].type = "message"))
  BY DEF LockThread, store, IInv, ActorsOK, StepOK, PlanOK
<1>1. CASE End(a, 0)
  BY <1>0, <1>1, EndKeeps DEF Preserved
<1>2. CASE job[a].type # "staff" /\ Resolve(a, "IGNORED") /\ UNCHANGED <<job, plan, reply>>
  <2>1. Only(a) /\ at'[a] = "finish" /\ outcome'[a] = "IGNORED" /\ job'[a] = job[a] /\ plan'[a] = None
    BY <1>0, <1>2 DEF Only, Resolve, Goto, IInv, TypeOK
  <2>2. ActorOK(a)'
    BY <1>0, <2>1 DEF ActorOK, StepOK, PlanOK, OutcomeOK, EventJob, StaffJob, Final
  <2>3. /\ \A e \in Events : HoldsEvent(a, e)' => HoldsEvent(a, e)
        /\ \A r \in Refs : ~Inserting(a, r)' /\ ~HoldsMessage(a, r)'
    BY <1>0, <2>1 DEF HoldsEvent, Inserting, HoldsMessage, EventJob, StaffJob
  <2> QED BY <1>0, <2>1, <2>2, <2>3, MoveKeeps DEF Preserved
<1>3. CASE /\ Goto(a, "insert")
           /\ plan' = [plan EXCEPT ![a] =
                [by |-> job[a].event, thread |-> job[a].thread, at |-> job[a].at, content |-> Kept(a),
                 delivery |-> IF job[a].type = "staff" THEN job[a].status ELSE "UNKNOWN"]]
           /\ UNCHANGED <<job, outcome, reply>>
  <2>1. /\ Only(a) /\ at'[a] = "insert" /\ job'[a] = job[a] /\ plan'[a] # None
        /\ plan'[a].by = job[a].event /\ plan'[a].thread = job[a].thread /\ plan'[a].at = job[a].at
        /\ plan'[a].content = Kept(a)
    <3>1. plan' \in [Actors -> Messages \union {None}]
      <4>1. Kept(a) \in Contents
        BY DEF Kept, Contents, Jobs, IInv, TypeOK
      <4>2. job[a].event \in Events \union {None} /\ job[a].thread \in Threads
            /\ job[a].at \in Instants /\ job[a].status \in Statuses
        BY <1>0, AtWork
      <4> QED BY <1>3, <4>1, <4>2 DEF Messages, Statuses, IInv, TypeOK
    <3>2. plan'[a] # None
      <4>1. plan'[a] \in Messages
        <5>1. Kept(a) \in Contents
          BY DEF Kept, Contents, Jobs, IInv, TypeOK
        <5>2. job[a].event \in Events \union {None} /\ job[a].thread \in Threads
              /\ job[a].at \in Instants /\ job[a].status \in Statuses
          BY <1>0, AtWork
        <5> QED BY <1>3, <5>1, <5>2 DEF Messages, Statuses, IInv, TypeOK
      <4> QED BY <4>1, IntakeAssumption
    <3> QED BY <1>3, <3>2 DEF Only, Goto, IInv, TypeOK
  <2>2. Kept(a) = "archived" => job[a].thread \in consents
    BY DEF Kept, Jobs, IInv, TypeOK
  <2>3. ActorOK(a)'
    <3>1. StepOK(a)'
      BY <1>0, <2>1 DEF StepOK, EventJob, StaffJob
    <3>2. PlanOK(a)'
      BY <1>0, <2>1, <2>2 DEF PlanOK, StaffJob
    <3>3. OutcomeOK(a)'
      BY <2>1 DEF OutcomeOK
    <3> QED BY <3>1, <3>2, <3>3 DEF ActorOK
  <2>4. /\ \A e \in Events : HoldsEvent(a, e)' => HoldsEvent(a, e)
        /\ \A r \in Refs : ~Inserting(a, r)' /\ ~HoldsMessage(a, r)'
    BY <1>0, <2>1 DEF HoldsEvent, Inserting, HoldsMessage
  <2> QED BY <1>0, <2>1, <2>3, <2>4, MoveKeeps DEF Preserved
<1> QED BY <1>1, <1>2, <1>3 DEF LockThread

(* The reference is free and nobody else is inserting it.                  *)
LEMMA InsertStep ==
  ASSUME IInv, NEW a \in Actors, Insert(a)
  PROVE  Preserved
<1>0. /\ at[a] = "insert" /\ UNCHANGED <<consents, message, lastAt, interactions, event>>
      /\ plan[a] # None /\ PlanOK(a) /\ (StaffJob(a) \/ (EventJob(a) /\ job[a].type = "message"))
      /\ \A b \in Actors \ {a} : ~Inserting(b, job[a].ref)
  BY DEF Insert, store, IInv, ActorsOK, StepOK, PlanOK
<1>1. CASE End(a, 0)
  BY <1>0, <1>1, EndKeeps DEF Preserved
<1>2. CASE /\ job[a].type # "staff" /\ Resolve(a, "IGNORED")
           /\ plan' = [plan EXCEPT ![a] = None] /\ UNCHANGED <<job, reply>>
  <2>1. Only(a) /\ at'[a] = "finish" /\ outcome'[a] = "IGNORED" /\ job'[a] = job[a] /\ plan'[a] = None
    BY <1>0, <1>2 DEF Only, Resolve, Goto, IInv, TypeOK
  <2>2. ActorOK(a)'
    BY <1>0, <2>1 DEF ActorOK, StepOK, PlanOK, OutcomeOK, EventJob, StaffJob, Final
  <2>3. /\ \A e \in Events : HoldsEvent(a, e)' => HoldsEvent(a, e)
        /\ \A r \in Refs : ~Inserting(a, r)' /\ ~HoldsMessage(a, r)'
    BY <1>0, <2>1 DEF HoldsEvent, Inserting, HoldsMessage, EventJob, StaffJob
  <2> QED BY <1>0, <2>1, <2>2, <2>3, MoveKeeps DEF Preserved
<1>3. CASE message[job[a].ref] = None /\ Resolve(a, "PROCESSED") /\ UNCHANGED <<job, plan, reply>>
  <2>1. Only(a) /\ at'[a] = "finish" /\ outcome'[a] = "PROCESSED" /\ job'[a] = job[a] /\ plan'[a] = plan[a]
    BY <1>0, <1>3 DEF Only, Resolve, Goto, IInv, TypeOK
  <2>2. ActorOK(a)'
    <3>1. StepOK(a)'
      BY <1>0, <2>1 DEF StepOK, EventJob, StaffJob
    <3>2. PlanOK(a)'
      BY <1>0, <2>1 DEF PlanOK
    <3>3. OutcomeOK(a)'
      BY <1>0, <1>3, <2>1 DEF OutcomeOK, StaffJob, Final
    <3> QED BY <3>1, <3>2, <3>3 DEF ActorOK
  <2>3. /\ \A e \in Events : HoldsEvent(a, e)' => HoldsEvent(a, e)
        /\ \A r \in Refs : Inserting(a, r)' => r = job[a].ref
        /\ \A r \in Refs : ~HoldsMessage(a, r)'
    BY <1>0, <2>1 DEF HoldsEvent, Inserting, HoldsMessage, StaffJob
  <2> QED BY <1>0, <2>1, <2>2, <2>3, MoveKeeps DEF Preserved
<1> QED BY <1>1, <1>2, <1>3 DEF Insert

(* The message is locked: the transition it decides on stays valid.        *)
LEMMA ReadStatusStep ==
  ASSUME IInv, NEW a \in Actors, ReadStatus(a)
  PROVE  Preserved
<1>0. /\ at[a] = "status" /\ UNCHANGED <<consents, message, lastAt, interactions, event, job, plan>>
      /\ plan[a] = None /\ EventJob(a) /\ job[a].type = "status"
      /\ \A b \in Actors \ {a} : ~HoldsMessage(b, job[a].ref)
  BY DEF ReadStatus, store, IInv, ActorsOK, StepOK, PlanOK
<1>1. Only(a) /\ at'[a] = "finish" /\ outcome'[a] \in {"PROCESSED", "IGNORED"}
  BY <1>0 DEF ReadStatus, Only, Resolve, Goto, IInv, TypeOK
<1>2. outcome'[a] = "PROCESSED" =>
        message[job[a].ref] # None /\ Accepted(message[job[a].ref].delivery, job[a].status)
  BY DEF ReadStatus, Resolve, IInv, TypeOK
<1>3. ActorOK(a)'
  <2>1. StepOK(a)'
    BY <1>0, <1>1 DEF StepOK, EventJob
  <2>2. PlanOK(a)'
    BY <1>0, <1>1 DEF PlanOK
  <2>3. OutcomeOK(a)'
    BY <1>0, <1>1, <1>2 DEF OutcomeOK, Final
  <2> QED BY <2>1, <2>2, <2>3 DEF ActorOK
<1>4. /\ \A e \in Events : HoldsEvent(a, e)' => HoldsEvent(a, e)
      /\ \A r \in Refs : ~Inserting(a, r)'
      /\ \A r \in Refs : HoldsMessage(a, r)' => r = job[a].ref
  BY <1>0, <1>1 DEF HoldsEvent, Inserting, HoldsMessage
<1> QED BY <1>0, <1>1, <1>3, <1>4, MoveKeeps DEF Preserved

(* A failure of processing frees all but the event's own row.              *)
LEMMA ProcessFailsStep ==
  ASSUME IInv, NEW a \in Actors, ProcessFails(a)
  PROVE  Preserved
<1>0. /\ at[a] \in {"thread", "insert", "status", "finish"} /\ job[a].event # None
      /\ UNCHANGED <<consents, message, lastAt, interactions, event, job>>
  BY DEF ProcessFails, store
<1>1. Only(a) /\ at'[a] = "finish" /\ outcome'[a] = "FAILED" /\ plan'[a] = None
  BY DEF ProcessFails, RollBack, Only, Resolve, Goto, IInv, TypeOK
<1>2. EventJob(a)
  BY <1>0, AtWork
<1>3. ActorOK(a)'
  BY <1>0, <1>1, <1>2 DEF ActorOK, StepOK, PlanOK, OutcomeOK, EventJob, Final
<1>4. /\ \A e \in Events : HoldsEvent(a, e)' => HoldsEvent(a, e)
      /\ \A r \in Refs : ~Inserting(a, r)' /\ ~HoldsMessage(a, r)'
  BY <1>0, <1>1 DEF HoldsEvent, Inserting, HoldsMessage
<1> QED BY <1>0, <1>1, <1>3, <1>4, MoveKeeps DEF Preserved

(* What COMMIT writes: a message nobody else inserts and that was not      *)
(* there; or a status over a message it holds; or neither.                 *)
Writes(a) ==
  /\ plan[a] # None /\ plan[a] \in Messages /\ message[job[a].ref] = None
  /\ job[a].type \in {"message", "staff"} /\ outcome[a] = "PROCESSED"
  /\ job[a].ref \notin DOMAIN Legacy
  /\ plan[a].by = job[a].event /\ plan[a].thread = job[a].thread /\ plan[a].at = job[a].at
  /\ plan[a].content = "archived" => plan[a].thread \in consents
  /\ message' = [message EXCEPT ![job[a].ref] = plan[a]]
  /\ lastAt' = [lastAt EXCEPT ![job[a].thread] = LastMessageAt(@, job[a].at)]
  /\ interactions' = [interactions EXCEPT ![job[a].ref] = @ + 1]
Advances(a) ==
  LET old == message[job[a].ref]
  IN /\ plan[a] = None /\ job[a].type = "status" /\ outcome[a] = "PROCESSED"
     /\ old \in Messages /\ Accepted(old.delivery, job[a].status)
     /\ message' = [message EXCEPT ![job[a].ref] = [old EXCEPT !.delivery = job[a].status]]
     /\ UNCHANGED <<lastAt, interactions>>
Settles(a) ==
  /\ plan[a] = None
  /\ job[a].type \in {"message", "status"} => outcome[a] # "PROCESSED"
  /\ UNCHANGED <<message, lastAt, interactions>>

LEMMA FinishCases ==
  ASSUME IInv, NEW a \in Actors, Finish(a)
  PROVE  /\ Writes(a) \/ Advances(a) \/ Settles(a)
         /\ at[a] = "finish" /\ job[a].ref \in Refs /\ job[a].thread \in Threads
         /\ job[a].at \in Nat /\ job[a].status \in Statuses
         /\ UNCHANGED consents
         /\ \E code : End(a, code)
         /\ outcome[a] \in Final \union {"FAILED"}
         /\ job[a].event \in Events \/ (job[a].event = None /\ job[a].type = "staff")
<1>1. /\ at[a] = "finish" /\ UNCHANGED consents /\ PlanOK(a) /\ OutcomeOK(a)
      /\ \E code : End(a, code)
  BY DEF Finish, IInv, ActorsOK
<1>2. /\ job[a].ref \in Refs /\ job[a].thread \in Threads /\ job[a].at \in Nat
      /\ job[a].status \in Statuses /\ job[a].type \in {"message", "status", "other", "staff"}
      /\ job[a].event \in Events \/ (job[a].event = None /\ job[a].type = "staff")
  BY <1>1, AtWork
<1>3. plan[a] # None => Writes(a)
  <2> SUFFICES ASSUME plan[a] # None PROVE Writes(a)
    OBVIOUS
  <2>1. plan[a] \in Messages
    BY DEF IInv, TypeOK
  <2>2. /\ message[job[a].ref] = None /\ job[a].type \in {"message", "staff"} /\ outcome[a] = "PROCESSED"
        /\ plan[a].by = job[a].event /\ plan[a].thread = job[a].thread /\ plan[a].at = job[a].at
        /\ plan[a].content = "archived" => plan[a].thread \in consents
    BY <1>1 DEF PlanOK, OutcomeOK
  <2>3. job[a].ref \notin DOMAIN Legacy
    BY <1>2, <2>2 DEF IInv, InteractionsOK
  <2>4. /\ message' = [message EXCEPT ![job[a].ref] = plan[a]]
        /\ lastAt' = [lastAt EXCEPT ![job[a].thread] = LastMessageAt(@, job[a].at)]
        /\ interactions' = [interactions EXCEPT ![job[a].ref] = @ + 1]
    BY DEF Finish
  <2> QED BY <2>1, <2>2, <2>3, <2>4 DEF Writes
<1>4. plan[a] = None /\ job[a].type = "status" /\ outcome[a] = "PROCESSED" => Advances(a)
  <2> SUFFICES ASSUME plan[a] = None, job[a].type = "status", outcome[a] = "PROCESSED" PROVE Advances(a)
    OBVIOUS
  <2>1. /\ message[job[a].ref] # None
        /\ Accepted(message[job[a].ref].delivery, job[a].status)
    BY <1>1 DEF OutcomeOK
  <2>2. message[job[a].ref] \in Messages
    BY <1>2, <2>1 DEF IInv, TypeOK
  <2> QED BY <2>1, <2>2 DEF Advances, Finish
<1>5. plan[a] = None /\ ~(job[a].type = "status" /\ outcome[a] = "PROCESSED") => Settles(a)
  BY <1>1, <1>2 DEF Settles, Finish, OutcomeOK
<1> QED BY <1>1, <1>2, <1>3, <1>4, <1>5 DEF OutcomeOK

(* COMMIT keeps the invariant: the row locks leave the others' decisions   *)
(* standing, and the message, its interaction and its thread's clock agree.*)
LEMMA FinishStep ==
  ASSUME IInv, NEW a \in Actors, Finish(a)
  PROVE  Preserved
<1> DEFINE r == job[a].ref
<1>0. /\ Writes(a) \/ Advances(a) \/ Settles(a)
      /\ at[a] = "finish" /\ r \in Refs /\ job[a].thread \in Threads /\ job[a].at \in Nat
      /\ job[a].status \in Statuses
      /\ UNCHANGED consents
      /\ outcome[a] \in Final \union {"FAILED"}
  BY FinishCases
<1>e. PICK code : End(a, code)
  BY FinishCases
<1>i. /\ Only(a) /\ ActorOK(a)'
      /\ \A e \in Events : ~HoldsEvent(a, e)'
      /\ \A q \in Refs : ~Inserting(a, q)' /\ ~HoldsMessage(a, q)'
  BY <1>e, EndIdle
<1>m. message \in [Refs -> Messages \union {None}]
  BY DEF IInv, TypeOK
<1>1. ASSUME NEW b \in Actors, b # a PROVE ActorOK(b)'
  <2>1. at'[b] = at[b] /\ job'[b] = job[b] /\ plan'[b] = plan[b] /\ outcome'[b] = outcome[b]
    BY <1>i, <1>1 DEF Only
  <2>2. StepOK(b) /\ PlanOK(b) /\ OutcomeOK(b)
    BY DEF IInv, ActorsOK
  <2>3. StepOK(b)' /\ PlanOK(b)'
    BY <1>0, <2>1, <2>2 DEF StepOK, EventJob, StaffJob, PlanOK
  <2>4. OutcomeOK(b)'
    <3> SUFFICES ASSUME at[b] = "finish" PROVE OutcomeOK(b)'
      BY <2>1 DEF OutcomeOK
    <3>0. job[b].ref \in Refs
      BY AtWork
    <3>1. ASSUME plan[b] # None PROVE message'[job[b].ref] = None
      <4>1. Inserting(b, job[b].ref) /\ message[job[b].ref] = None
        BY <2>2, <3>1 DEF Inserting, OutcomeOK
      <4>2. CASE Writes(a)
        <5>1. Inserting(a, r)
          BY <1>0, <4>2 DEF Writes, Inserting
        <5>2. job[b].ref # r
          BY <1>0, <1>1, <4>1, <5>1 DEF IInv, LocksOK
        <5> QED BY <1>m, <3>0, <4>1, <4>2, <5>2 DEF Writes
      <4>3. CASE Advances(a)
        <5>1. job[b].ref # r
          BY <4>1, <4>3, IntakeAssumption DEF Advances
        <5> QED BY <1>m, <3>0, <4>1, <4>3, <5>1 DEF Advances
      <4> QED BY <1>0, <4>1, <4>2, <4>3 DEF Settles
    <3>2. ASSUME outcome[b] = "PROCESSED", job[b].type = "status"
          PROVE  message'[job[b].ref] = message[job[b].ref]
      <4>1. message[job[b].ref] # None /\ HoldsMessage(b, job[b].ref)
        BY <2>2, <3>2 DEF OutcomeOK, HoldsMessage
      <4>2. CASE Writes(a)
        <5>1. job[b].ref # r
          BY <4>1, <4>2 DEF Writes
        <5> QED BY <1>m, <3>0, <4>2, <5>1 DEF Writes
      <4>3. CASE Advances(a)
        <5>1. HoldsMessage(a, r)
          BY <1>0, <4>3 DEF Advances, HoldsMessage
        <5>2. job[b].ref # r
          BY <1>0, <1>1, <4>1, <5>1 DEF IInv, LocksOK
        <5> QED BY <1>m, <3>0, <4>3, <5>2 DEF Advances
      <4> QED BY <1>0, <4>2, <4>3 DEF Settles
    <3> QED BY <2>1, <2>2, <3>1, <3>2 DEF OutcomeOK
  <2> QED BY <2>3, <2>4 DEF ActorOK
<1>2. ActorsOK'
  BY <1>i, <1>1 DEF ActorsOK, ActorOK
<1>3. LocksOK'
  <2>1. ASSUME NEW b \in Actors \ {a}, NEW e \in Events, HoldsEvent(b, e)
        PROVE  event'[e] \in {"RECEIVED", "FAILED"}
    <3>1. event[e] \in {"RECEIVED", "FAILED"}
      BY <2>1 DEF IInv, LocksOK
    <3>2. ~HoldsEvent(a, e)
      BY <2>1 DEF IInv, LocksOK
    <3>3. job[a].event # e
      BY <1>0, <3>2 DEF HoldsEvent
    <3> QED BY <3>1, <3>3 DEF Finish, IInv, TypeOK
  <2> QED BY <1>i, <2>1, LocksKeep
<1>4. InteractionsOK'
  <2>1. CASE Writes(a)
    BY <1>m, <1>0, <2>1, IntakeAssumption DEF Writes, IInv, TypeOK, InteractionsOK
  <2>2. CASE Advances(a)
    <3>1. \A q \in Refs : message'[q] = None <=> message[q] = None
      <4>1. [message[r] EXCEPT !.delivery = job[a].status] \in Messages
        BY <1>0, <2>2 DEF Advances, Messages
      <4> QED BY <1>m, <1>0, <2>2, <4>1, IntakeAssumption DEF Advances
    <3> QED BY <2>2, <3>1 DEF Advances, IInv, InteractionsOK
  <2>3. CASE Settles(a)
    BY <2>3, RowsKeep DEF Settles
  <2> QED BY <1>0, <2>1, <2>2, <2>3
<1>5. ClocksOK'
  <2>1. CASE Writes(a)
    <3>0. PICK t \in Threads : t = job[a].thread
      BY <1>0
    <3>1. /\ message'[r] # None /\ message'[r].thread = t /\ message'[r].at = job[a].at
          /\ message[r] = None /\ r \notin DOMAIN Legacy
          /\ \A q \in Refs \ {r} : message'[q] = message[q]
      BY <1>m, <1>0, <2>1, <3>0 DEF Writes
    <3>2. Dated(t)' = Dated(t) \union {r}
      BY <1>0, <3>1 DEF Dated, Recorded
    <3>3. \A s \in Threads \ {t} : Dated(s)' = Dated(s)
      BY <1>0, <3>1 DEF Dated, Recorded
    <3>4. \A s \in Threads : \A q \in Dated(s) : q \in Refs \ {r} /\ message[q] \in Messages /\ message[q].at \in Nat
      BY <1>m, <3>1, IntakeAssumption, ZenonT(60) DEF Dated, Recorded, Messages
    <3>5. lastAt[t] \in Nat
      BY <3>0, Times DEF IInv
    <3>6. /\ lastAt'[t] = IF lastAt[t] < job[a].at THEN job[a].at ELSE lastAt[t]
          /\ \A s \in Threads \ {t} : lastAt'[s] = lastAt[s]
      BY <1>0, <2>1, <3>0 DEF Writes, LastMessageAt, Later, IInv, TypeOK
    <3>7. ASSUME NEW s \in Threads, s # t
          PROVE  /\ \A q \in Dated(s)' : message'[q].at <= lastAt'[s]
                 /\ (lastAt'[s] = 0 /\ Dated(s)' = {}) \/ \E q \in Dated(s)' : message'[q].at = lastAt'[s]
      BY <3>1, <3>3, <3>4, <3>6, <3>7 DEF IInv, ClocksOK
    <3>8. \A q \in Dated(t)' : message'[q].at <= lastAt'[t]
      <4>1. \A q \in Dated(t) : message[q].at <= lastAt[t] /\ message'[q] = message[q]
        BY <1>0, <3>1, <3>4 DEF IInv, ClocksOK
      <4> QED BY <1>0, <3>1, <3>2, <3>4, <3>5, <3>6, <4>1
    <3>9. \E q \in Dated(t)' : message'[q].at = lastAt'[t]
      <4>1. CASE lastAt[t] < job[a].at
        BY <3>1, <3>2, <3>6, <4>1
      <4>2. CASE ~(lastAt[t] < job[a].at) /\ Dated(t) = {}
        <5>1. lastAt[t] = 0
          BY <1>0, <4>2 DEF IInv, ClocksOK
        <5> QED BY <1>0, <3>1, <3>2, <3>6, <4>2, <5>1
      <4>3. CASE ~(lastAt[t] < job[a].at) /\ Dated(t) # {}
        <5>1. PICK q \in Dated(t) : message[q].at = lastAt[t]
          BY <1>0, <4>3 DEF IInv, ClocksOK
        <5> QED BY <3>1, <3>2, <3>4, <3>6, <4>3, <5>1, <1>0
      <4> QED BY <4>1, <4>2, <4>3
    <3> QED BY <3>7, <3>8, <3>9 DEF ClocksOK
  <2>2. CASE Advances(a)
    <3>1. \A q \in Refs : /\ message'[q] = None <=> message[q] = None
                          /\ message[q] # None => /\ message'[q].thread = message[q].thread
                                                  /\ message'[q].at = message[q].at
      <4>1. [message[r] EXCEPT !.delivery = job[a].status] \in Messages
        BY <1>0, <2>2 DEF Advances, Messages
      <4>2. /\ [message[r] EXCEPT !.delivery = job[a].status].thread = message[r].thread
            /\ [message[r] EXCEPT !.delivery = job[a].status].at = message[r].at
        BY <2>2 DEF Advances, Messages
      <4> QED BY <1>m, <1>0, <2>2, <4>1, <4>2, IntakeAssumption DEF Advances
    <3>2. \A s \in Threads : Dated(s)' = Dated(s)
      BY <3>1 DEF Dated, Recorded
    <3>3. \A s \in Threads : \A q \in Dated(s) : message'[q].at = message[q].at
      BY <3>1 DEF Dated, Recorded
    <3> QED BY <2>2, <3>2, <3>3 DEF Advances, IInv, ClocksOK
  <2>3. CASE Settles(a)
    BY <2>3, RowsKeep DEF Settles
  <2> QED BY <1>0, <2>1, <2>2, <2>3
<1> QED BY <1>2, <1>3, <1>4, <1>5 DEF Preserved

(* The backfill gives one interaction to each message that has none.       *)
LEMMA WriteMissingStep ==
  ASSUME IInv, NEW a \in Actors, WriteMissing(a)
  PROVE  Preserved
<1>0. End(a, 0) /\ UNCHANGED <<consents, event, message, lastAt>>
  BY DEF WriteMissing
<1>1. ActorsOK'
  BY <1>0, EndIdle, OthersKeep DEF ActorsOK, ActorOK
<1>2. LocksOK'
  <2>1. \A b \in Actors \ {a}, e \in Events : HoldsEvent(b, e) => event'[e] \in {"RECEIVED", "FAILED"}
    BY <1>0 DEF IInv, LocksOK
  <2> QED BY <1>0, <2>1, EndIdle, LocksKeep
<1>3. InteractionsOK'
  BY <1>0 DEF WriteMissing, Missing, WithoutInteraction, InteractionsOK, IInv, TypeOK
<1>4. ClocksOK'
  <2>1. \A t \in Threads : Dated(t)' = Dated(t)
    BY <1>0 DEF Dated, Recorded
  <2> QED BY <1>0, <2>1 DEF IInv, ClocksOK
<1> QED BY <1>1, <1>2, <1>3, <1>4 DEF Preserved

(* Opening a thread touches no row; revoking a consent waits for those who *)
(* read it, so no content planned as archived is left without it.          *)
LEMMA ThreadSteps ==
  ASSUME IInv, NEW t \in Threads, OpenThread(t) \/ RevokeConsent(t)
  PROVE  Preserved
<1>0. /\ UNCHANGED <<event, message, lastAt, interactions, at, job, plan, outcome>>
      /\ \A a \in Actors : plan[a] # None /\ plan[a].content = "archived" =>
           (plan[a].thread \in consents => plan[a].thread \in consents')
  BY DEF OpenThread, RevokeConsent, SharesConsent
<1>1. ASSUME NEW a \in Actors PROVE ActorOK(a)'
  <2>1. StepOK(a) /\ PlanOK(a) /\ OutcomeOK(a)
    BY DEF IInv, ActorsOK
  <2>2. StepOK(a)' /\ OutcomeOK(a)'
    BY <1>0, <2>1 DEF StepOK, EventJob, StaffJob, OutcomeOK
  <2>3. PlanOK(a)'
    BY <1>0, <2>1 DEF PlanOK
  <2> QED BY <2>2, <2>3 DEF ActorOK
<1>2. LocksOK'
  BY <1>0 DEF IInv, LocksOK, HoldsEvent, Inserting, HoldsMessage
<1> QED BY <1>0, <1>1, <1>2, RowsKeep DEF Preserved, ActorsOK, ActorOK

LEMMA Inductive == IInv /\ [Next]_vars => IInv'
<1> SUFFICES ASSUME IInv, [Next]_vars PROVE IInv'
  OBVIOUS
<1>0. TypeOK'
  BY TypeStep
<1>1. ASSUME NEW a \in Actors, NEW e \in Events, Post(a, e) PROVE Preserved
  <2>1. Begin(a, JobOf(e, FALSE), "store") /\ job'[a] = JobOf(e, FALSE)
    BY <1>1 DEF Post, Begin, IInv, TypeOK
  <2>2. EventJob(a)'
    <3>1. /\ job'[a].event = e /\ job'[a].type = Envelope[e].type /\ job'[a].ref = Envelope[e].ref
          /\ job'[a].thread = Envelope[e].thread /\ job'[a].at = Envelope[e].at
          /\ job'[a].status = Envelope[e].status
      BY <2>1, EventJobType
    <3> QED BY <3>1 DEF EventJob
  <2> QED BY <2>1, <2>2, EventJobType, BeginKeeps DEF Preserved
<1>2. ASSUME NEW a \in Actors, NEW e \in Events, Recover(a, e) PROVE Preserved
  <2>1. Begin(a, JobOf(e, TRUE), "claim") /\ job'[a] = JobOf(e, TRUE)
    BY <1>2 DEF Recover, Begin, IInv, TypeOK
  <2>2. EventJob(a)'
    <3>1. /\ job'[a].event = e /\ job'[a].type = Envelope[e].type /\ job'[a].ref = Envelope[e].ref
          /\ job'[a].thread = Envelope[e].thread /\ job'[a].at = Envelope[e].at
          /\ job'[a].status = Envelope[e].status
      BY <2>1, EventJobType
    <3> QED BY <3>1 DEF EventJob
  <2> QED BY <2>1, <2>2, EventJobType, BeginKeeps DEF Preserved
<1>3. ASSUME NEW a \in Actors, NEW d \in Drafts, StaffMessage(a, d) PROVE Preserved
  <2>1. Begin(a, StaffJobOf(d), "thread")
    BY <1>3 DEF StaffMessage, StaffJobOf
  <2>2. job'[a] = StaffJobOf(d)
    BY <2>1 DEF Begin, IInv, TypeOK
  <2>3. StaffJob(a)' /\ StaffJobOf(d).event \notin Events
    BY <2>2, StaffJobType, IntakeAssumption DEF StaffJob
  <2> QED BY <2>1, <2>3, StaffJobType, BeginKeeps DEF Preserved
<1>4. ASSUME NEW a \in Actors, Lose(a) PROVE Preserved
  <2>1. End(a, 500) /\ UNCHANGED <<consents, event, message, lastAt, interactions>>
    BY <1>4 DEF Lose, store
  <2> QED BY <2>1, EndKeeps DEF Preserved
<1>5. ASSUME NEW a \in Actors, Backfill(a) PROVE Preserved
  <2> DEFINE j == [NoJob EXCEPT !.type = "backfill", !.missing = WithoutInteraction]
  <2>1. j \in Jobs /\ j.event = None
    BY BackfillJobType DEF WithoutInteraction, NoJob
  <2>2. Begin(a, j, "backfill")
    BY <1>5 DEF Backfill
  <2>3. j.event \notin Events
    BY <2>1, IntakeAssumption
  <2> HIDE DEF j
  <2> QED BY <2>1, <2>2, <2>3, BeginKeeps DEF Preserved
<1>6. ASSUME UNCHANGED vars PROVE Preserved
  <2>1. UNCHANGED <<consents, event, message, lastAt, interactions, at, job, plan, outcome>>
    BY <1>6 DEF vars, store
  <2>2. ASSUME NEW a \in Actors PROVE ActorOK(a)'
    BY <2>1 DEF IInv, ActorsOK, ActorOK, StepOK, EventJob, StaffJob, PlanOK, OutcomeOK
  <2>3. LocksOK'
    BY <2>1 DEF IInv, LocksOK, HoldsEvent, Inserting, HoldsMessage
  <2>4. ActorsOK'
    BY <2>2 DEF ActorsOK, ActorOK
  <2>5. InteractionsOK' /\ ClocksOK'
    BY <2>1, RowsKeep
  <2> QED BY <2>3, <2>4, <2>5 DEF Preserved
<1>7. ASSUME NEW a \in Actors, Work(a) PROVE Preserved
  BY <1>7, StoreStep, ClaimStep, LockThreadStep, InsertStep, ReadStatusStep, FinishStep,
     WriteMissingStep DEF Work
<1>8. ASSUME NEW a \in Actors, ProcessFails(a) PROVE Preserved
  BY <1>8, ProcessFailsStep
<1>9. ASSUME NEW t \in Threads, OpenThread(t) \/ RevokeConsent(t) PROVE Preserved
  BY <1>9, ThreadSteps
<1>10. Preserved
  BY <1>1, <1>2, <1>3, <1>4, <1>5, <1>6, <1>7, <1>8, <1>9 DEF Next, Quiet
<1> QED BY <1>0, <1>10 DEF IInv, Preserved

(* Whatever overlaps and fails, the webhook keeps its invariant.           *)
THEOREM Invariance == Spec => []IInv
BY InitOK, Inductive, PTL DEF Spec

-----------------------------------------------------------------------------
(* A recorded message's items over all the timelines: one per interaction. *)
LEMMA Items ==
  ASSUME IInv, NEW r \in Recorded
  PROVE  {i \in UNION {Timeline(t) : t \in Threads} : i.ref = r} =
           {[ref |-> r, nth |-> n, item |-> TimelineItem(r)] : n \in 1..interactions[r]}
<1> DEFINE Item(q, n) == [ref |-> q, nth |-> n, item |-> TimelineItem(q)]
<1>1. message[r].thread \in Threads /\ r \in Refs
  BY DEF Recorded, IInv, TypeOK, Messages
<1>2. \A q, n : Item(q, n).ref = q
  OBVIOUS
<1>3. \A t : Timeline(t) = UNION {{Item(q, n) : n \in 1..interactions[q]} :
                                      q \in {q \in Recorded : message[q].thread = t}}
  BY DEF Timeline
<1>4. \A t : \A i : i \in Timeline(t) <=>
        \E q \in Recorded : message[q].thread = t /\ \E n \in 1..interactions[q] : i = Item(q, n)
  BY <1>3
<1> HIDE DEF Item
<1>5. \A i : i \in UNION {Timeline(t) : t \in Threads} /\ i.ref = r <=>
               \E n \in 1..interactions[r] : i = Item(r, n)
  BY <1>1, <1>2, <1>4
<1>6. {i \in UNION {Timeline(t) : t \in Threads} : i.ref = r} = {Item(r, n) : n \in 1..interactions[r]}
  BY <1>5
<1> QED BY <1>6 DEF Item

(* Each message is on one timeline and once, an old one on none until the  *)
(* backfill; a thread's last_message_at is its latest message's time,      *)
(* whatever the order of arrival.                                          *)
THEOREM Consistency == Spec => []MessagesConsistent
<1>1. ASSUME IInv PROVE MessagesConsistent
  <2>1. ASSUME NEW r \in Recorded
        PROVE LET items == {i \in UNION {Timeline(t) : t \in Threads} : i.ref = r}
              IN Cardinality(items) = 1 \/ (items = {} /\ r \in DOMAIN Legacy)
    <3> DEFINE items == {i \in UNION {Timeline(t) : t \in Threads} : i.ref = r}
               item(n) == [ref |-> r, nth |-> n, item |-> TimelineItem(r)]
    <3>1. items = {item(n) : n \in 1..interactions[r]}
      BY <1>1, Items
    <3>2. interactions[r] = 1 \/ (interactions[r] = 0 /\ r \in DOMAIN Legacy)
      BY <1>1 DEF IInv, InteractionsOK, Recorded
    <3>3. CASE interactions[r] = 1
      <4>1. 1..1 = {1}
        OBVIOUS
      <4>2. items = {item(1)}
        BY <3>1, <3>3, <4>1
      <4> QED BY <4>2, FS_Singleton
    <3>4. CASE interactions[r] = 0 /\ r \in DOMAIN Legacy
      <4>1. 1..0 = {}
        OBVIOUS
      <4> QED BY <3>1, <3>4, <4>1
    <3> QED BY <3>2, <3>3, <3>4
  <2>2. \A r \in Refs \ Recorded : interactions[r] = 0
    BY <1>1 DEF IInv, InteractionsOK, Recorded
  <2>3. ASSUME NEW t \in Threads
        PROVE LET times == {message[r].at : r \in Dated(t)}
              IN lastAt[t] = IF times = {} THEN 0 ELSE CHOOSE x \in times : \A y \in times : y <= x
    <3> DEFINE times == {message[r].at : r \in Dated(t)}
    <3>1. \A x \in times : x \in Nat /\ x <= lastAt[t]
      <4>1. \A r \in Dated(t) : message[r].at \in Nat /\ message[r].at <= lastAt[t]
        BY <1>1, Times DEF IInv, ClocksOK, Dated, Recorded
      <4> QED BY <4>1
    <3>2. lastAt[t] \in times \/ (lastAt[t] = 0 /\ times = {})
      BY <1>1 DEF IInv, ClocksOK
    <3> HIDE DEF times
    <3>3. \A x \in times : (\A y \in times : y <= x) /\ lastAt[t] \in times => x = lastAt[t]
      BY <3>1
    <3> QED BY <3>1, <3>2, <3>3 DEF times
  <2> QED BY <1>1, <2>1, <2>2, <2>3 DEF MessagesConsistent
<1> QED BY <1>1, Invariance, PTL

-----------------------------------------------------------------------------
(* Only a COMMIT writes a message.                                         *)
LEMMA OnlyFinishWrites ==
  ASSUME [Next]_vars
  PROVE  UNCHANGED message \/ \E a \in Actors : Finish(a)
<1>1. ASSUME NEW a \in Actors, Work(a), ~Finish(a) PROVE UNCHANGED message
  BY <1>1 DEF Work, Store, Claim, LockThread, Insert, ReadStatus, WriteMissing, store
<1>2. ASSUME NEW a \in Actors, ProcessFails(a) \/ Lose(a) \/ Backfill(a) PROVE UNCHANGED message
  BY <1>2 DEF ProcessFails, Lose, Backfill, Begin, store
<1>3. ASSUME NEW a \in Actors, NEW e \in Events, Post(a, e) \/ Recover(a, e) PROVE UNCHANGED message
  BY <1>3 DEF Post, Recover, Begin, store
<1>4. ASSUME NEW a \in Actors, NEW d \in Drafts, StaffMessage(a, d) PROVE UNCHANGED message
  BY <1>4 DEF StaffMessage, Begin, store
<1>5. ASSUME NEW t \in Threads, OpenThread(t) \/ RevokeConsent(t) PROVE UNCHANGED message
  BY <1>5 DEF OpenThread, RevokeConsent
<1>6. ASSUME UNCHANGED vars PROVE UNCHANGED message
  BY <1>6 DEF vars, store
<1> QED BY <1>1, <1>2, <1>3, <1>4, <1>5, <1>6 DEF Next, Quiet

(* A message is recorded with archived content only while its thread's     *)
(* consent holds, whatever is revoked between the check and the COMMIT.    *)
THEOREM Consented == Spec => ArchivedUnderConsent
<1>1. ASSUME IInv, [Next]_vars, NEW r \in Refs, message'[r] # None, message[r] = None,
             message'[r].content = "archived"
      PROVE  message'[r].thread \in consents
  <2>1. PICK a \in Actors : Finish(a)
    BY <1>1, OnlyFinishWrites
  <2>2. /\ Writes(a) \/ Advances(a) \/ Settles(a)
        /\ job[a].ref \in Refs
    BY <1>1, <2>1, FinishCases
  <2>3. message \in [Refs -> Messages \union {None}]
    BY <1>1 DEF IInv, TypeOK
  <2>4. ~Settles(a)
    BY <1>1 DEF Settles
  <2>5. ~Advances(a)
    BY <1>1, <2>2, <2>3, IntakeAssumption DEF Advances
  <2>6. Writes(a) /\ r = job[a].ref
    BY <1>1, <2>2, <2>3, <2>4, <2>5 DEF Writes
  <2> QED BY <1>1, <2>2, <2>3, <2>6 DEF Writes
<1>2. ASSUME IInv, [Next]_vars
      PROVE  [\A r \in Refs :
                message'[r] # None /\ message[r] = None /\ message'[r].content = "archived"
                  => message'[r].thread \in consents]_vars
  BY <1>1, <1>2
<1> QED BY <1>2, Invariance, PTL DEF Spec, ArchivedUnderConsent

(* A message stays recorded, and its delivery status only moves forward:   *)
(* the row lock keeps the status a decision was made on until the COMMIT.  *)
THEOREM Forward == Spec => StatusOnlyForward
<1>1. ASSUME IInv, [Next]_vars, NEW r \in Recorded
      PROVE  /\ message'[r] # None
             /\ message'[r].delivery # message[r].delivery
                  => /\ message[r].delivery \notin {"FAILED", "READ"}
                     /\ \/ Rank(message'[r].delivery) > Rank(message[r].delivery)
                        \/ message'[r].delivery = "FAILED"
  <2>0. r \in Refs /\ message[r] # None /\ message[r] \in Messages
    BY <1>1, Times DEF Recorded, IInv
  <2>1. CASE UNCHANGED message
    BY <2>0, <2>1
  <2>2. CASE \E a \in Actors : Finish(a)
    <3>1. PICK a \in Actors : Finish(a)
      BY <2>2
    <3>2. /\ Writes(a) \/ Advances(a) \/ Settles(a)
          /\ job[a].ref \in Refs /\ job[a].status \in Statuses
      BY <1>1, <3>1, FinishCases
    <3>3. message \in [Refs -> Messages \union {None}]
      BY <1>1 DEF IInv, TypeOK
    <3>4. CASE r # job[a].ref \/ Settles(a)
      <4>1. message'[r] = message[r]
        BY <2>0, <3>2, <3>3, <3>4 DEF Writes, Advances, Settles
      <4> QED BY <2>0, <4>1
    <3>5. CASE r = job[a].ref /\ Writes(a)
      BY <2>0, <3>5 DEF Writes
    <3>6. CASE r = job[a].ref /\ Advances(a)
      <4>1. message'[r] = [message[r] EXCEPT !.delivery = job[a].status]
        BY <2>0, <3>3, <3>6 DEF Advances
      <4>2. message'[r] \in Messages /\ message'[r].delivery = job[a].status
        BY <2>0, <3>2, <4>1 DEF Messages
      <4>3. message[r].delivery \in Statuses /\ Accepted(message[r].delivery, job[a].status)
        BY <2>0, <3>6 DEF Advances, Messages
      <4> QED BY <3>2, <4>2, <4>3, AcceptedForward, IntakeAssumption
    <3> QED BY <3>2, <3>4, <3>5, <3>6
  <2> QED BY <1>1, <2>1, <2>2, OnlyFinishWrites
<1>2. ASSUME IInv, [Next]_vars
      PROVE  [\A r \in Recorded :
                /\ message'[r] # None
                /\ message'[r].delivery # message[r].delivery
                     => /\ message[r].delivery \notin {"FAILED", "READ"}
                        /\ \/ Rank(message'[r].delivery) > Rank(message[r].delivery)
                           \/ message'[r].delivery = "FAILED"]_vars
  BY <1>1, <1>2
<1> QED BY <1>2, Invariance, PTL DEF Spec, StatusOnlyForward

-----------------------------------------------------------------------------
(* A step that touches neither the events nor the messages is a stutter of *)
(* the inbox; storing a new event accepts it.                              *)
LEMMA InboxStutters ==
  ASSUME UNCHANGED <<event, message>>
  PROVE  UNCHANGED Inbox!ivars
<1>1. \A e : (InboxStatus(e)' = InboxStatus(e)) /\ (HasEffect(e)' <=> HasEffect(e))
  BY DEF InboxStatus, HasEffect
<1> QED BY <1>1 DEF Inbox!ivars, InboxOfEvents, EffectsStored

(* T1 accepts the event it stores, or finds it there.                      *)
LEMMA StoreRefines ==
  ASSUME IInv, NEW a \in Actors, Store(a)
  PROVE  [Inbox!INext]_Inbox!ivars
<1> DEFINE e == job[a].event
<1>0. e \in Events /\ UNCHANGED message /\ event' \in {event, [event EXCEPT ![e] = NewlyStored(e)]}
  BY DEF Store, IInv, ActorsOK, StepOK, EventJob
<1>1. CASE event' = event
  BY <1>0, <1>1, InboxStutters
<1>2. CASE event' # event
  <2>1. event[e] = "absent" /\ event' = [event EXCEPT ![e] = "RECEIVED"]
    BY <1>0, <1>2 DEF NewlyStored, IInv, TypeOK
  <2>2. event'[e] = "RECEIVED" /\ \A d \in Events \ {e} : event'[d] = event[d]
    BY <1>0, <2>1 DEF IInv, TypeOK
  <2>3. InboxOfEvents[e] = "absent"
    BY <1>0, <2>1 DEF InboxOfEvents, InboxStatus
  <2>4. InboxOfEvents' = [InboxOfEvents EXCEPT ![e] = "pending"]
    BY <1>0, <2>2 DEF InboxOfEvents, InboxStatus
  <2>5. \A d \in Events : HasEffect(d)' <=> HasEffect(d)
    BY <1>0, <2>1, <2>2 DEF HasEffect
  <2>6. UNCHANGED EffectsStored
    BY <2>5 DEF EffectsStored
  <2> QED BY <1>0, <2>3, <2>4, <2>6 DEF Inbox!INext, Inbox!Accept
<1> QED BY <1>1, <1>2

(* A COMMIT completes its event, with its effect exactly when it is        *)
(* PROCESSED; a FAILED event stays pending; a staff message is none's.     *)
LEMMA FinishRefines ==
  ASSUME IInv, NEW a \in Actors, Finish(a)
  PROVE  [Inbox!INext]_Inbox!ivars
<1> DEFINE r == job[a].ref
<1>0. /\ Writes(a) \/ Advances(a) \/ Settles(a)
      /\ at[a] = "finish" /\ r \in Refs /\ outcome[a] \in Final \union {"FAILED"}
      /\ job[a].event \in Events \/ (job[a].event = None /\ job[a].type = "staff")
  BY FinishCases
<1>m. message \in [Refs -> Messages \union {None}]
  BY DEF IInv, TypeOK
<1>1. \A q \in Refs :
        \/ /\ message'[q] = None <=> message[q] = None
           /\ message[q] # None => message'[q].by = message[q].by
        \/ Writes(a) /\ q = r /\ message[q] = None /\ message'[q] # None /\ message'[q].by = job[a].event
  <2>1. CASE Writes(a)
    BY <1>0, <1>m, <2>1, IntakeAssumption DEF Writes
  <2>2. CASE Advances(a)
    <3>1. /\ [message[r] EXCEPT !.delivery = job[a].status] \in Messages
          /\ [message[r] EXCEPT !.delivery = job[a].status].by = message[r].by
      BY <2>2, FinishCases DEF Advances, Messages
    <3> QED BY <1>0, <1>m, <2>2, <3>1, IntakeAssumption DEF Advances
  <2>3. CASE Settles(a)
    BY <2>3 DEF Settles
  <2> QED BY <1>0, <2>1, <2>2, <2>3
<1>2. ASSUME NEW d \in Events, d # job[a].event
      PROVE  event'[d] = event[d] /\ InboxStatus(d)' = InboxStatus(d) /\ (HasEffect(d)' <=> HasEffect(d))
  <2>1. event'[d] = event[d]
    BY <1>2 DEF Finish, IInv, TypeOK
  <2>2. Envelope[d].ref \in Refs
    BY IntakeAssumption
  <2>3. (message'[Envelope[d].ref] # None /\ message'[Envelope[d].ref].by = d)
          <=> (message[Envelope[d].ref] # None /\ message[Envelope[d].ref].by = d)
    BY <1>1, <1>2, <2>2
  <2> QED BY <2>1, <2>3 DEF InboxStatus, HasEffect
<1>3. CASE job[a].event = None
  <2>1. \A d \in Events : InboxStatus(d)' = InboxStatus(d) /\ (HasEffect(d)' <=> HasEffect(d))
    BY <1>2, <1>3, IntakeAssumption
  <2> QED BY <2>1 DEF Inbox!ivars, InboxOfEvents, EffectsStored
<1>4. CASE job[a].event \in Events
  <2>0. PICK e \in Events : e = job[a].event
    BY <1>4
  <2>1. /\ event'[e] = outcome[a] /\ event[e] \in {"RECEIVED", "FAILED"}
        /\ job[a].type = Envelope[e].type /\ r = Envelope[e].ref /\ job[a].type \in {"message", "status", "other"}
        /\ outcome[a] = "PROCESSED" => job[a].type # "other"
    <3>1. HoldsEvent(a, e)
      BY <1>0, <2>0 DEF HoldsEvent
    <3>2. event'[e] = outcome[a]
      BY <1>4, <2>0, IntakeAssumption DEF Finish, IInv, TypeOK
    <3>3. EventJob(a) /\ job[a].type # "staff" /\ job[a].type \in {"message", "status", "other", "staff"}
      BY <1>0, <1>4, AtWork
    <3>4. OutcomeOK(a)
      BY DEF IInv, ActorsOK
    <3> QED BY <1>0, <2>0, <3>1, <3>2, <3>3, <3>4 DEF EventJob, OutcomeOK, IInv, LocksOK
  <2>2. InboxOfEvents[e] = "pending"
    BY <2>1 DEF InboxOfEvents, InboxStatus
  <2>3. InboxOfEvents' = [InboxOfEvents EXCEPT ![e] = InboxStatus(e)']
    BY <1>2, <2>0 DEF InboxOfEvents
  <2>4. \A d \in Events \ {e} : HasEffect(d)' <=> HasEffect(d)
    BY <1>2, <2>0
  <2>5. CASE outcome[a] = "PROCESSED"
    <3>1. InboxStatus(e)' = "processed"
      BY <2>1, <2>5 DEF InboxStatus
    <3>2. HasEffect(e)'
      <4>1. CASE Writes(a)
        <5>1. message'[r] # None /\ message'[r].by = e /\ job[a].type = "message"
          BY <1>0, <1>m, <2>0, <2>1, <4>1, IntakeAssumption DEF Writes
        <5> QED BY <2>1, <5>1 DEF HasEffect
      <4>2. CASE Advances(a)
        BY <2>1, <2>5, <4>2 DEF Advances, HasEffect
      <4>3. CASE Settles(a)
        BY <2>1, <2>5, <4>3 DEF Settles
      <4> QED BY <1>0, <4>1, <4>2, <4>3
    <3>3. EffectsStored' = EffectsStored \union {e}
      BY <2>4, <3>2 DEF EffectsStored
    <3> QED BY <2>2, <2>3, <3>1, <3>3 DEF Inbox!INext, Inbox!Complete
  <2>6. CASE outcome[a] # "PROCESSED"
    <3>1. Settles(a)
      BY <1>0, <2>6 DEF Writes, Advances
    <3>2. HasEffect(e)' <=> HasEffect(e)
      BY <2>1, <2>6, <3>1 DEF Settles, HasEffect
    <3>3. UNCHANGED EffectsStored
      BY <2>4, <3>2 DEF EffectsStored
    <3>4. CASE outcome[a] = "IGNORED"
      <4>1. InboxStatus(e)' = "ignored"
        BY <2>1, <3>4 DEF InboxStatus
      <4> QED BY <2>2, <2>3, <3>3, <4>1 DEF Inbox!INext, Inbox!Complete
    <3>5. CASE outcome[a] = "FAILED"
      <4>1. InboxStatus(e)' = "pending"
        BY <2>1, <3>5 DEF InboxStatus
      <4>2. UNCHANGED InboxOfEvents
        BY <2>2, <2>3, <4>1 DEF InboxOfEvents
      <4> QED BY <3>3, <4>2 DEF Inbox!ivars
    <3> QED BY <1>0, <2>6, <3>4, <3>5 DEF Final
  <2> QED BY <2>5, <2>6
<1> QED BY <1>0, <1>3, <1>4

LEMMA StepRefines == IInv /\ [Next]_vars => [Inbox!INext]_Inbox!ivars
<1> SUFFICES ASSUME IInv, [Next]_vars PROVE [Inbox!INext]_Inbox!ivars
  OBVIOUS
<1>1. ASSUME NEW a \in Actors, Work(a) PROVE [Inbox!INext]_Inbox!ivars
  <2>1. ASSUME ~Store(a), ~Finish(a) PROVE UNCHANGED <<event, message>>
    BY <1>1, <2>1 DEF Work, Claim, LockThread, Insert, ReadStatus, WriteMissing, store
  <2> QED BY <2>1, StoreRefines, FinishRefines, InboxStutters
<1>2. ASSUME NEW a \in Actors, ProcessFails(a) \/ Lose(a) \/ Backfill(a) PROVE UNCHANGED <<event, message>>
  BY <1>2 DEF ProcessFails, Lose, Backfill, Begin, store
<1>3. ASSUME NEW a \in Actors, NEW e \in Events, Post(a, e) \/ Recover(a, e) PROVE UNCHANGED <<event, message>>
  BY <1>3 DEF Post, Recover, Begin, store
<1>4. ASSUME NEW a \in Actors, NEW d \in Drafts, StaffMessage(a, d) PROVE UNCHANGED <<event, message>>
  BY <1>4 DEF StaffMessage, Begin, store
<1>5. ASSUME NEW t \in Threads, OpenThread(t) \/ RevokeConsent(t) PROVE UNCHANGED <<event, message>>
  BY <1>5 DEF OpenThread, RevokeConsent
<1>6. ASSUME UNCHANGED vars PROVE UNCHANGED <<event, message>>
  BY <1>6 DEF vars, store
<1> QED BY <1>1, <1>2, <1>3, <1>4, <1>5, <1>6, InboxStutters DEF Next, Quiet

LEMMA InitRefines == Init => Inbox!IInit
<1> SUFFICES ASSUME Init PROVE Inbox!IInit
  OBVIOUS
<1>1. InboxOfEvents = [e \in Events |-> "absent"]
  BY DEF Init, InboxOfEvents, InboxStatus
<1>2. ASSUME NEW e \in Events PROVE ~HasEffect(e)
  <2>1. Envelope[e].ref \in Refs
    BY IntakeAssumption
  <2>2. message[Envelope[e].ref] # None => message[Envelope[e].ref].by # e
    BY <2>1, IntakeAssumption DEF Init
  <2> QED BY <2>2 DEF HasEffect, Init
<1>3. EffectsStored = {}
  BY <1>2 DEF EffectsStored
<1> QED BY <1>1, <1>3 DEF Inbox!IInit

(* The webhook is an inbox: no event is lost or completed twice, and its   *)
(* message is in the database exactly when its completion says so.         *)
THEOREM Refinement == Spec => KeepsInbox
BY InitRefines, StepRefines, Invariance, PTL DEF Spec, KeepsInbox, Inbox!ISpec
=============================================================================
