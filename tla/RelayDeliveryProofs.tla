------------------------ MODULE RelayDeliveryProofs -------------------------
(* Proofs about RelayDelivery, for every notification, every number of     *)
(* attempts and connections, over what WebhookIntakeProofs shows of TURAB. *)
EXTENDS RelayDelivery, WebhookIntakeProofs

(* A notification's elements are classed events.                           *)
LEMMA ElementTypes ==
  ASSUME elements \in Notifications
  PROVE  /\ Len(elements) \in Nat /\ DOMAIN elements = 1..Len(elements)
         /\ \A i \in 1..Len(elements) : elements[i].class \in Classes /\ elements[i].event \in Events
<1> DEFINE E == [class : Classes, event : Events]
<1>1. elements \in Seq(E)
  BY NotificationsAssumption
<1>0. \A x \in E : x.class \in Classes /\ x.event \in Events
  OBVIOUS
<1> HIDE DEF E
<1>2. Len(elements) \in Nat /\ DOMAIN elements = 1..Len(elements)
  BY <1>1
<1>3. \A i \in 1..Len(elements) : elements[i] \in E
  BY <1>1
<1> QED BY <1>0, <1>2, <1>3

(* No step of TURAB's makes a stored event absent again.                   *)
LEMMA StoredStays ==
  ASSUME IInv, [Next]_vars, NEW e \in Events, Stored(e)
  PROVE  Stored(e)'
<1> USE DEF Stored
<1>0. event \in [Events -> Final \union {"absent", "RECEIVED", "FAILED"}]
  BY DEF IInv, TypeOK
<1>1. ASSUME NEW a \in Actors, Work(a) PROVE Stored(e)'
  <2>1. CASE Store(a)
    BY <1>0, <2>1 DEF Store, NewlyStored
  <2>2. CASE Finish(a)
    <3>1. outcome[a] # "absent"
      BY <2>2, FinishCases DEF Final
    <3> QED BY <1>0, <2>2, <3>1 DEF Finish
  <2>3. ASSUME ~Store(a), ~Finish(a) PROVE UNCHANGED event
    BY <1>1, <2>3 DEF Work, Claim, LockThread, Insert, ReadStatus, WriteMissing, store
  <2> QED BY <2>1, <2>2, <2>3
<1>2. ASSUME NEW a \in Actors, ProcessFails(a) \/ Lose(a) \/ Backfill(a) PROVE UNCHANGED event
  BY <1>2 DEF ProcessFails, Lose, Backfill, Begin, store
<1>3. ASSUME NEW a \in Actors, NEW d \in Events, Post(a, d) \/ Recover(a, d) PROVE UNCHANGED event
  BY <1>3 DEF Post, Recover, Begin, store
<1>4. ASSUME NEW a \in Actors, NEW d \in Drafts, StaffMessage(a, d) PROVE UNCHANGED event
  BY <1>4 DEF StaffMessage, Begin, store
<1>5. ASSUME NEW t \in Threads, OpenThread(t) \/ RevokeConsent(t) PROVE UNCHANGED event
  BY <1>5 DEF OpenThread, RevokeConsent
<1>6. ASSUME UNCHANGED vars PROVE UNCHANGED event
  BY <1>6 DEF vars, store
<1> QED BY <1>1, <1>2, <1>3, <1>4, <1>5, <1>6 DEF Next, Quiet

(* What a step of TURAB's may do to a connection: nothing; take its        *)
(* request further, which is past T1 only with the event stored; or answer *)
(* it, which from T1 is 200 only with the event stored.                    *)
Progress(b) ==
  \/ at'[b] = at[b] /\ job'[b] = job[b] /\ reply'[b] = reply[b]
  \/ /\ at[b] # "idle" /\ at'[b] \notin {"idle", "store"} /\ job'[b] = job[b]
     /\ at[b] = "store" => event'[job[b].event] # "absent"
  \/ /\ at[b] # "idle" /\ at'[b] = "idle"
     /\ at[b] = "store" /\ reply'[b] = 200 => event'[job[b].event] # "absent"

LEMMA TurabProgress ==
  ASSUME IInv, NEW b \in Posters, Turab
  PROVE  Progress(b)
<1>0. b \in Actors /\ at \in [Actors -> Steps] /\ job \in [Actors -> Jobs]
      /\ reply \in [Actors -> {0, 200, 500, 503}]
      /\ event \in [Events -> Final \union {"absent", "RECEIVED", "FAILED"}]
  BY DEF Actors, IInv, TypeOK
<1>1. ASSUME NEW a \in Actors, NEW e \in Events, Recover(a, e) PROVE Progress(b)
  <2>1. a # b
    BY <1>1, NotificationsAssumption DEF Recover
  <2>2. PICK j : Begin(a, j, "claim")
    BY <1>1 DEF Recover
  <2>3. at'[b] = at[b] /\ job'[b] = job[b] /\ reply'[b] = reply[b]
    BY <1>0, <2>1, <2>2 DEF Begin, Goto
  <2> QED BY <2>3 DEF Progress
<1>2. ASSUME NEW a \in Actors, a # b, Work(a) \/ ProcessFails(a) \/ Lose(a) PROVE Progress(b)
  BY <1>0, <1>2 DEF Work, Store, Claim, LockThread, Insert, ReadStatus, Finish, WriteMissing, ProcessFails,
                    Lose, End, Resolve, Goto, Progress
<1>3. CASE Store(b)
  <2>1. EventJob(b)
    BY <1>0, <1>3 DEF Store, IInv, ActorsOK, StepOK
  <2>2. CASE End(b, 200)
    <3>1. event[job[b].event] \in Final
      BY <1>0, <1>3, <2>2 DEF Store, End, Goto
    <3>2. event'[job[b].event] \in Final
      BY <1>0, <1>3, <2>1, <3>1 DEF Store, NewlyStored, EventJob, Final
    <3>3. at[b] = "store" /\ at'[b] = "idle"
      BY <1>0, <1>3, <2>2 DEF Store, End, Goto
    <3> QED BY <3>2, <3>3 DEF Progress, Final
  <2>3. CASE Goto(b, "claim") /\ UNCHANGED <<job, plan, outcome, reply>>
    BY <1>0, <1>3, <2>1, <2>3 DEF Store, NewlyStored, End, Goto, Progress, Stored, EventJob
  <2>4. CASE End(b, 503)
    BY <1>0, <1>3, <2>4 DEF Store, End, Goto, Progress
  <2> QED BY <1>3, <2>2, <2>3, <2>4 DEF Store
<1>4. ASSUME Work(b) \/ ProcessFails(b) \/ Lose(b), ~Store(b) PROVE Progress(b)
  <2>1. CASE Claim(b)
    <3>1. EventJob(b) /\ job[b].type \in {"message", "status", "other"}
      BY <1>0, <2>1, IntakeAssumption DEF Claim, EventJob, IInv, ActorsOK, StepOK
    <3> QED BY <1>0, <2>1, <3>1 DEF Claim, End, Goto, Progress
  <2>2. CASE LockThread(b)
    BY <1>0, <2>2 DEF LockThread, End, Resolve, Goto, Progress
  <2>3. CASE Insert(b)
    BY <1>0, <2>3 DEF Insert, End, Resolve, Goto, Progress
  <2>4. CASE ReadStatus(b) \/ ProcessFails(b)
    BY <1>0, <2>4 DEF ReadStatus, ProcessFails, Resolve, Goto, Progress
  <2>5. CASE Finish(b) \/ Lose(b) \/ WriteMissing(b)
    BY <1>0, <2>5 DEF Finish, Lose, WriteMissing, End, Goto, Progress
  <2> QED BY <1>4, <2>1, <2>2, <2>3, <2>4, <2>5 DEF Work
<1> QED BY <1>0, <1>1, <1>2, <1>3, <1>4 DEF Turab, Actors

-----------------------------------------------------------------------------
(* The relay's own steps give TURAB a Next step, or take one failure.      *)
LEMMA TurabSide ==
  ASSUME RInv, [RNext]_rvars
  PROVE  /\ IInv' /\ elements' = elements
         /\ \A e \in Events : Stored(e) => Stored(e)'
<1> USE DEF RInv
<1>1. ASSUME [Next]_vars PROVE IInv' /\ \A e \in Events : Stored(e) => Stored(e)'
  BY <1>1, Inductive, StoredStays
<1>2. ASSUME Fail, UNCHANGED <<world, store, at, job, plan, outcome, reply, posts>>
      PROVE  IInv' /\ \A e \in Events : Stored(e) => Stored(e)'
  <2>1. UNCHANGED <<world, threads, consents, event, message, lastAt, interactions, at, job, plan, outcome,
                    reply, posts>>
    BY <1>2 DEF store
  <2>2. TypeOK'
    BY <1>2, <2>1, IntakeAssumption DEF Fail, IInv, TypeOK
  <2>3. ASSUME NEW a \in Actors PROVE ActorOK(a)'
    BY <2>1 DEF IInv, ActorsOK, ActorOK, StepOK, EventJob, StaffJob, PlanOK, OutcomeOK
  <2>4. ActorsOK'
    BY <2>3 DEF ActorsOK, ActorOK
  <2>5. LocksOK'
    BY <2>1 DEF IInv, LocksOK, HoldsEvent, Inserting, HoldsMessage
  <2>6. InteractionsOK' /\ ClocksOK'
    BY <2>1, RowsKeep
  <2> QED BY <2>1, <2>2, <2>4, <2>5, <2>6 DEF IInv, Stored
<1>3. CASE Turab
  BY <1>1, <1>3 DEF Turab, Next, Work
<1>4. CASE Resting \/ UNCHANGED rvars
  BY <1>1, <1>4 DEF Resting, rvars
<1>5. ASSUME NEW n \in Attempts, Relay(n) \/ NotReady(n) \/ Timeout(n)
      PROVE  /\ IInv' /\ elements' = elements
             /\ \A e \in Events : Stored(e) => Stored(e)'
  <2>1. CASE Deliver(n) \/ Skip(n) \/ Answered(n) \/ Finished(n)
    BY <1>1, <2>1 DEF Deliver, Skip, Answered, Finished, PassOver, Next1, Answer, Move
  <2>2. CASE Send(n)
    <3>1. PICK a \in Posters : Post(a, elements[attempt[n].i].event) /\ elements' = elements
      BY <2>2 DEF Send, Move
    <3>2. a \in Actors /\ elements[attempt[n].i].event \in Events
      <4>1. attempt[n].i \in 1..Len(elements)
        BY <1>5, <2>2, ElementTypes DEF Send, RTypeOK
      <4> QED BY <4>1, ElementTypes DEF Actors, RTypeOK
    <3>3. Next
      BY <3>1, <3>2 DEF Next
    <3> QED BY <1>1, <3>1, <3>3
  <2>3. CASE NotReady(n) \/ Timeout(n)
    BY <1>2, <2>3 DEF NotReady, Timeout, Answer, Move
  <2> QED BY <1>5, <2>1, <2>2, <2>3 DEF Relay
<1> QED BY <1>3, <1>4, <1>5 DEF RNext

(* Nothing is delivered and nothing sent at the start.                     *)
LEMMA RInitOK == RInit => RInv
<1> SUFFICES ASSUME RInit PROVE RInv
  OBVIOUS
<1>1. IInv /\ elements \in Notifications
  BY InitOK DEF RInit
<1>2. Len(elements) \in Nat
  BY <1>1, ElementTypes
<1>3. attempt \in [Attempts -> [at : {"off", "next", "waiting", "ended"},
                               i : 1..(Len(elements) + 1), via : Posters \union {None},
                               answer : {0, 200, 502, 503, 504}]]
  BY <1>2 DEF RInit
<1>4. RTypeOK
  BY <1>1, <1>3 DEF RTypeOK, IInv
<1>5. \A n \in Attempts : WaitOK(n) /\ PassedOK(n)
  BY DEF RInit, WaitOK, PassedOK
<1> QED BY <1>1, <1>4, <1>5 DEF RInv

(* What an attempt is, field by field.                                     *)
LEMMA AttemptTypes ==
  ASSUME RInv, NEW n \in Attempts
  PROVE  /\ Len(elements) \in Nat /\ elements \in Notifications
         /\ attempt[n].i \in 1..(Len(elements) + 1)
         /\ attempt[n].at \in {"off", "next", "waiting", "ended"}
         /\ attempt[n].via \in Posters \union {None}
         /\ attempt[n].i <= Len(elements) => /\ attempt[n].i \in 1..Len(elements)
                                            /\ elements[attempt[n].i].event \in Events
<1>1. elements \in Notifications
  BY DEF RInv, RTypeOK
<1>2. Len(elements) \in Nat
  BY <1>1, ElementTypes
<1>3. attempt[n].i \in 1..(Len(elements) + 1) /\ attempt[n].at \in {"off", "next", "waiting", "ended"}
      /\ attempt[n].via \in Posters \union {None}
  BY DEF RInv, RTypeOK
<1> QED BY <1>1, <1>2, <1>3, ElementTypes

(* The records the steps leave: delivered, ended, past an element, waiting.*)
Record == [at : {"off", "next", "waiting", "ended"}, i : 1..(Len(elements) + 1),
           via : Posters \union {None}, answer : {0, 200, 502, 503, 504}]
Started(x)     == [x EXCEPT !.at = "next"]
Ended(x, code) == [x EXCEPT !.at = "ended", !.via = None, !.answer = code]
Passed(x)      == [x EXCEPT !.at = "next", !.i = @ + 1, !.via = None]
Waiting(x, a)  == [x EXCEPT !.at = "waiting", !.via = a]

LEMMA Records ==
  ASSUME NEW x \in Record, Len(elements) \in Nat
  PROVE  /\ Started(x) \in Record /\ Started(x).at = "next" /\ Started(x).i = x.i
         /\ Started(x).answer = x.answer
         /\ \A code \in {200, 502, 503, 504} :
              /\ Ended(x, code) \in Record /\ Ended(x, code).at = "ended"
              /\ Ended(x, code).i = x.i /\ Ended(x, code).answer = code
         /\ x.i <= Len(elements) =>
              /\ Passed(x) \in Record /\ Passed(x).at = "next"
              /\ Passed(x).i = x.i + 1 /\ Passed(x).answer = x.answer
         /\ \A a \in Posters :
              /\ Waiting(x, a) \in Record /\ Waiting(x, a).at = "waiting" /\ Waiting(x, a).via = a
              /\ Waiting(x, a).i = x.i /\ Waiting(x, a).answer = x.answer
<1> DEFINE A == {"off", "next", "waiting", "ended"}
           I == 1..(Len(elements) + 1)
           V == Posters \union {None}
           W == {0, 200, 502, 503, 504}
<1>0. /\ Record = [at : A, i : I, via : V, answer : W]
      /\ "next" \in A /\ "ended" \in A /\ "waiting" \in A /\ None \in V
      /\ \A a \in Posters : a \in V
      /\ \A code \in {200, 502, 503, 504} : code \in W
      /\ \A k \in I : k <= Len(elements) => k + 1 \in I
  BY DEF Record
<1> HIDE DEF A, I, V, W
<1>1. x \in [at : A, i : I, via : V, answer : W]
  BY <1>0
<1>2. "next" \in A /\ "ended" \in A /\ "waiting" \in A /\ None \in V
  BY <1>0
<1>3. Started(x) \in Record /\ Started(x).at = "next" /\ Started(x).i = x.i /\ Started(x).answer = x.answer
  BY <1>0 DEF Started
<1>4. ASSUME NEW code \in {200, 502, 503, 504}
      PROVE  /\ Ended(x, code) \in Record /\ Ended(x, code).at = "ended"
             /\ Ended(x, code).i = x.i /\ Ended(x, code).answer = code
  <2>1. code \in W
    BY <1>0
  <2>2. Ended(x, code) \in [at : A, i : I, via : V, answer : W]
    BY <1>1, <1>2, <2>1 DEF Ended
  <2>3. Ended(x, code).at = "ended" /\ Ended(x, code).i = x.i /\ Ended(x, code).answer = code
    BY <1>1 DEF Ended
  <2> QED BY <1>0, <2>2, <2>3
<1>5. ASSUME x.i <= Len(elements)
      PROVE  /\ Passed(x) \in Record /\ Passed(x).at = "next"
             /\ Passed(x).i = x.i + 1 /\ Passed(x).answer = x.answer
  <2>1. x.i + 1 \in I
    BY <1>0, <1>5
  <2>2. Passed(x) \in [at : A, i : I, via : V, answer : W]
    BY <1>1, <1>2, <2>1 DEF Passed
  <2>3. Passed(x).at = "next" /\ Passed(x).i = x.i + 1 /\ Passed(x).answer = x.answer
    BY <1>1 DEF Passed
  <2> QED BY <1>0, <2>2, <2>3
<1>6. ASSUME NEW a \in Posters
      PROVE  /\ Waiting(x, a) \in Record /\ Waiting(x, a).at = "waiting" /\ Waiting(x, a).via = a
             /\ Waiting(x, a).i = x.i /\ Waiting(x, a).answer = x.answer
  <2>1. a \in V
    BY <1>0
  <2>2. Waiting(x, a) \in [at : A, i : I, via : V, answer : W]
    BY <1>1, <1>2, <2>1 DEF Waiting
  <2>3. Waiting(x, a).at = "waiting" /\ Waiting(x, a).via = a /\ Waiting(x, a).i = x.i
        /\ Waiting(x, a).answer = x.answer
    BY <1>1 DEF Waiting
  <2> QED BY <1>0, <2>2, <2>3
<1> QED BY <1>3, <1>4, <1>5, <1>6

(* Where each step of the relay leaves its attempt.                        *)
LEMMA RelayMoves ==
  ASSUME RInv, NEW n \in Attempts, Relay(n) \/ NotReady(n) \/ Timeout(n)
  PROVE  /\ attempt' \in [Attempts -> Record]
         /\ \A m \in Attempts \ {n} : attempt'[m] = attempt[m]
         /\ \/ /\ attempt'[n].at # "waiting" /\ attempt'[n].i = attempt[n].i
               /\ UNCHANGED <<event, at, job, reply>>
               /\ attempt'[n].answer = 200 =>
                    attempt[n].answer = 200 \/ (attempt[n].i = Len(elements) + 1 /\ ~Oversize)
            \/ /\ attempt'[n].at # "waiting" /\ attempt'[n].i = attempt[n].i + 1
               /\ UNCHANGED <<event, at, job, reply>> /\ attempt[n].i <= Len(elements)
               /\ \/ elements[attempt[n].i].class # "FORWARD"
                  \/ attempt[n].at = "waiting" /\ at[attempt[n].via] = "idle" /\ reply[attempt[n].via] = 200
               /\ attempt'[n].answer = attempt[n].answer
            \/ /\ Send(n) /\ attempt'[n].at = "waiting" /\ attempt'[n].i = attempt[n].i
               /\ attempt'[n].answer = attempt[n].answer
<1>0. /\ attempt \in [Attempts -> Record] /\ Len(elements) \in Nat /\ attempt[n] \in Record
      /\ attempt[n].i \in 1..(Len(elements) + 1)
  BY AttemptTypes DEF RInv, RTypeOK, Record
<1>1. ASSUME NEW x \in Record, Move(n, x)
      PROVE  attempt' \in [Attempts -> Record] /\ attempt'[n] = x /\ \A m \in Attempts \ {n} : attempt'[m] = attempt[m]
  BY <1>0, <1>1 DEF Move
<1>2. CASE Deliver(n)
  <2>1. Move(n, Started(attempt[n])) /\ UNCHANGED <<event, at, job, reply>>
    BY <1>2 DEF Deliver, Started, vars, store
  <2> QED BY <1>0, <1>1, <2>1, Records
<1>3. ASSUME NEW code \in {200, 502, 503, 504}, Answer(n, code), UNCHANGED <<event, at, job, reply>>,
             code = 200 => attempt[n].i = Len(elements) + 1 /\ ~Oversize
      PROVE  /\ attempt' \in [Attempts -> Record]
             /\ \A m \in Attempts \ {n} : attempt'[m] = attempt[m]
             /\ attempt'[n].at # "waiting" /\ attempt'[n].i = attempt[n].i
             /\ attempt'[n].answer = 200 => attempt[n].i = Len(elements) + 1 /\ ~Oversize
  <2>1. Move(n, Ended(attempt[n], code))
    BY <1>3 DEF Answer, Ended
  <2> QED BY <1>0, <1>1, <1>3, <2>1, Records
<1>4. ASSUME Next1(n), attempt[n].i <= Len(elements)
      PROVE  /\ attempt' \in [Attempts -> Record]
             /\ \A m \in Attempts \ {n} : attempt'[m] = attempt[m]
             /\ attempt'[n].at # "waiting" /\ attempt'[n].i = attempt[n].i + 1
             /\ attempt'[n].answer = attempt[n].answer
  <2>1. Move(n, Passed(attempt[n]))
    BY <1>4 DEF Next1, Passed
  <2> QED BY <1>0, <1>1, <1>4, <2>1, Records
<1>5. CASE Skip(n)
  <2>1. Next1(n) /\ UNCHANGED <<event, at, job, reply>> /\ attempt[n].i <= Len(elements)
        /\ elements[attempt[n].i].class # "FORWARD"
    BY <1>5 DEF Skip, PassOver, vars, store
  <2> QED BY <1>4, <2>1
<1>6. CASE Answered(n)
  <2>1. UNCHANGED <<event, at, job, reply>> /\ attempt[n].at = "waiting" /\ at[attempt[n].via] = "idle"
        /\ attempt[n].i <= Len(elements)
    BY <1>6 DEF Answered, vars, store, RInv, WaitOK
  <2>2. CASE reply[attempt[n].via] = 200 /\ Next1(n)
    BY <1>4, <2>1, <2>2
  <2>3. CASE Answer(n, 502)
    BY <1>3, <2>1, <2>3
  <2> QED BY <1>6, <2>2, <2>3 DEF Answered, Completed
<1>7. CASE Finished(n)
  <2>1. UNCHANGED <<event, at, job, reply>> /\ attempt[n].i = Len(elements) + 1
    BY <1>7 DEF Finished, vars, store
  <2>2. CASE Oversize /\ Answer(n, 503)
    BY <1>3, <2>1, <2>2
  <2>3. CASE ~Oversize /\ Answer(n, 200)
    BY <1>3, <2>1, <2>3
  <2> QED BY <1>7, <2>2, <2>3 DEF Finished
<1>8. CASE NotReady(n)
  <2>1. UNCHANGED <<event, at, job, reply>> /\ Answer(n, 503)
    BY <1>8 DEF NotReady, store
  <2> QED BY <1>3, <2>1
<1>9. CASE Timeout(n)
  <2>1. UNCHANGED <<event, at, job, reply>> /\ Answer(n, 504)
    BY <1>9 DEF Timeout, store
  <2> QED BY <1>3, <2>1
<1>10. CASE Send(n)
  <2>1. PICK a \in Posters : Move(n, Waiting(attempt[n], a))
    BY <1>10 DEF Send, Waiting
  <2> QED BY <1>0, <1>1, <1>10, <2>1, Records
<1> QED BY <1>2, <1>5, <1>6, <1>7, <1>8, <1>9, <1>10 DEF Relay

(* A stored event stays stored, so what was left behind stays stored and a *)
(* 200 already given stays right.                                          *)
Given(n) == attempt[n].answer = 200 => ~Oversize /\ \A e \in Forwarded : Stored(e)

LEMMA StillStored ==
  ASSUME RInv, [RNext]_rvars, NEW n \in Attempts
  PROVE  /\ \A i \in 1..Len(elements) : Stored(elements[i].event) => Stored(elements[i].event)'
         /\ attempt'[n].i = attempt[n].i => PassedOK(n)'
         /\ Given(n) /\ attempt'[n].answer = attempt[n].answer => Given(n)'
<1>1. /\ elements' = elements /\ \A e \in Events : Stored(e) => event'[e] # "absent"
  BY TurabSide DEF Stored
<1>2. \A i \in 1..Len(elements) : elements[i].event \in Events
  BY ElementTypes DEF RInv, RTypeOK
<1>3. \A i \in 1..Len(elements) : Stored(elements[i].event) => Stored(elements[i].event)'
  BY <1>1, <1>2 DEF Stored
<1>4. ASSUME attempt'[n].i = attempt[n].i PROVE PassedOK(n)'
  <2>1. attempt[n].i \in 1..(Len(elements) + 1) /\ Len(elements) \in Nat
    BY AttemptTypes
  <2>2. \A i \in 1..(attempt[n].i - 1) : i \in 1..Len(elements)
    BY <2>1
  <2>3. PassedOK(n)
    BY DEF RInv
  <2> QED BY <1>1, <1>3, <1>4, <2>2, <2>3 DEF PassedOK
<1>5. ASSUME Given(n), attempt'[n].answer = attempt[n].answer PROVE Given(n)'
  <2>1. Oversize' = Oversize /\ Forwarded' = Forwarded
    BY <1>1 DEF Oversize, Forwarded
  <2>2. \A e \in Forwarded : e \in Events
    BY <1>2, ElementTypes DEF Forwarded, RInv, RTypeOK
  <2> QED BY <1>1, <1>5, <2>1, <2>2 DEF Given, Stored
<1> QED BY <1>3, <1>4, <1>5

(* TURAB's steps leave every attempt waiting for what it waited for.       *)
LEMMA TurabKeeps ==
  ASSUME RInv, Turab, NEW n \in Attempts
  PROVE  WaitOK(n)'
<1>0. RNext /\ UNCHANGED <<elements, attempt>>
  BY DEF RNext, Turab
<1> SUFFICES ASSUME attempt[n].at = "waiting" PROVE WaitOK(n)'
  BY <1>0 DEF WaitOK
<1>1. WaitOK(n) /\ attempt[n].i \in 1..Len(elements) /\ elements[attempt[n].i].event \in Events
  BY AttemptTypes DEF RInv, WaitOK
<1>2. PICK a \in Posters : a = attempt[n].via
  BY <1>1 DEF WaitOK
<1>3. PICK e \in Events : e = elements[attempt[n].i].event
  BY <1>1
<1>4. /\ at[a] # "idle" => job[a].event = e
      /\ at[a] \notin {"idle", "store"} => Stored(e)
      /\ at[a] = "idle" /\ reply[a] = 200 => Stored(e)
      /\ attempt[n].i <= Len(elements)
      /\ \A m \in Attempts \ {n} : attempt[m].at = "waiting" => attempt[m].via # a
  BY <1>1, <1>2, <1>3 DEF WaitOK
<1>5. Stored(e) => event'[e] # "absent"
  BY <1>0, TurabSide DEF Stored
<1>6. Progress(a)
  BY TurabProgress DEF RInv
<1>7. /\ at'[a] # "idle" => job'[a].event = e
      /\ at'[a] \notin {"idle", "store"} => event'[e] # "absent"
      /\ at'[a] = "idle" /\ reply'[a] = 200 => event'[e] # "absent"
  BY <1>4, <1>5, <1>6 DEF Progress
<1> QED BY <1>0, <1>2, <1>3, <1>4, <1>7 DEF WaitOK, Stored

(* Sending: a connection nobody waits on starts on the element.            *)
LEMMA SendKeeps ==
  ASSUME RInv, NEW n \in Attempts, Send(n), NEW m \in Attempts
  PROVE  WaitOK(m)'
<1>0. RNext /\ elements' = elements
  BY DEF RNext, Relay, Send, Move
<1>1. PICK a \in Posters : /\ \A k \in Attempts : attempt[k].via # a
                           /\ Post(a, elements[attempt[n].i].event)
                           /\ Move(n, Waiting(attempt[n], a))
  BY DEF Send, Waiting
<1>2. attempt[n].i <= Len(elements) /\ attempt[n].i \in 1..Len(elements)
      /\ elements[attempt[n].i].event \in Events
  BY AttemptTypes DEF Send
<1>3. PICK e \in Events : e = elements[attempt[n].i].event
  BY <1>2
<1>4. /\ at' = [at EXCEPT ![a] = "store"] /\ job' = [job EXCEPT ![a] = JobOf(e, FALSE)]
      /\ reply' = [reply EXCEPT ![a] = 0] /\ UNCHANGED event
  BY <1>1, <1>3 DEF Post, Begin, Goto, store
<1>5. /\ at \in [Actors -> Steps] /\ job \in [Actors -> Jobs] /\ reply \in [Actors -> {0, 200, 500, 503}]
      /\ a \in Actors
  BY DEF RInv, IInv, TypeOK, Actors
<1>6. at'[a] = "store" /\ job'[a].event = e
  BY <1>4, <1>5, EventJobType, ZenonT(60)
<1>7. /\ attempt'[n].at = "waiting" /\ attempt'[n].via = a /\ attempt'[n].i = attempt[n].i
      /\ \A k \in Attempts \ {n} : attempt'[k] = attempt[k]
  <2>1. attempt \in [Attempts -> Record] /\ attempt[n] \in Record /\ Len(elements) \in Nat
    BY AttemptTypes DEF RInv, RTypeOK, Record
  <2>2. /\ Waiting(attempt[n], a).at = "waiting" /\ Waiting(attempt[n], a).via = a
        /\ Waiting(attempt[n], a).i = attempt[n].i
    BY <1>1, <2>1, Records
  <2> QED BY <1>1, <2>1, <2>2 DEF Move
<1>8. CASE m = n
  BY <1>0, <1>1, <1>2, <1>3, <1>6, <1>7, <1>8 DEF WaitOK
<1>9. CASE m # n
  <2> SUFFICES ASSUME attempt[m].at = "waiting" PROVE WaitOK(m)'
    BY <1>7, <1>9 DEF WaitOK
  <2>1. WaitOK(m)
    BY DEF RInv
  <2>2. PICK b \in Posters : b = attempt[m].via /\ b # a
    BY <1>1, <2>1 DEF WaitOK
  <2>3. b \in Actors /\ at'[b] = at[b] /\ job'[b] = job[b] /\ reply'[b] = reply[b]
    BY <1>4, <1>5, <2>2 DEF Actors
  <2>4. \A k \in Attempts \ {m} : attempt'[k].at = "waiting" => attempt'[k].via # b
    BY <1>7, <2>1, <2>2 DEF WaitOK
  <2>5. attempt'[m] = attempt[m]
    BY <1>7, <1>9
  <2>6. /\ attempt[m].i <= Len(elements)
        /\ at[b] # "idle" => job[b].event = elements[attempt[m].i].event
        /\ at[b] \notin {"idle", "store"} => Stored(elements[attempt[m].i].event)
        /\ at[b] = "idle" /\ reply[b] = 200 => Stored(elements[attempt[m].i].event)
    BY <2>1, <2>2 DEF WaitOK
  <2>7. Stored(elements[attempt[m].i].event)' <=> Stored(elements[attempt[m].i].event)
    BY <1>0, <1>4, <2>5 DEF Stored
  <2> QED BY <1>0, <2>2, <2>3, <2>4, <2>5, <2>6, <2>7 DEF WaitOK
<1> QED BY <1>8, <1>9

(* Every step keeps the relay's invariant, and the answers given right.    *)
LEMMA RInductive ==
  ASSUME RInv, \A n \in Attempts : Given(n), [RNext]_rvars
  PROVE  RInv' /\ \A n \in Attempts : Given(n)'
<1>0. IInv' /\ elements' = elements /\ elements \in Notifications /\ Len(elements) \in Nat
  BY TurabSide, ElementTypes DEF RInv, RTypeOK
<1>1. ASSUME UNCHANGED attempt,
             \A n \in Attempts : WaitOK(n)'
      PROVE  RInv' /\ \A n \in Attempts : Given(n)'
  <2>1. RTypeOK'
    BY <1>0, <1>1 DEF RInv, RTypeOK, IInv
  <2>2. \A n \in Attempts : PassedOK(n)' /\ Given(n)'
    BY <1>1, StillStored
  <2> QED BY <1>0, <1>1, <2>1, <2>2 DEF RInv
<1>2. CASE Turab
  <2>1. UNCHANGED attempt
    BY <1>2 DEF Turab
  <2> QED BY <1>1, <1>2, <2>1, TurabKeeps
<1>3. CASE Resting \/ UNCHANGED rvars
  <2>1. UNCHANGED <<event, at, job, reply, attempt, elements>>
    BY <1>3 DEF Resting, rvars, vars, store
  <2>2. \A n \in Attempts : WaitOK(n)'
    BY <2>1 DEF RInv, WaitOK, Stored
  <2> QED BY <1>1, <2>1, <2>2
<1>4. ASSUME NEW n \in Attempts, Relay(n) \/ NotReady(n) \/ Timeout(n)
      PROVE  RInv' /\ \A m \in Attempts : Given(m)'
  <2>0. /\ attempt' \in [Attempts -> Record]
        /\ \A m \in Attempts \ {n} : attempt'[m] = attempt[m]
    BY <1>4, RelayMoves
  <2>1. RTypeOK'
    BY <1>0, <2>0 DEF RTypeOK, IInv, Record
  <2>2. ASSUME NEW m \in Attempts PROVE WaitOK(m)'
    <3>1. CASE Send(n)
      BY <3>1, SendKeeps
    <3>2. CASE attempt'[n].at # "waiting" /\ UNCHANGED <<event, at, job, reply>>
      <4>1. CASE m = n
        BY <3>2, <4>1 DEF WaitOK
      <4>2. CASE m # n
        <5>1. attempt'[m] = attempt[m] /\ WaitOK(m)
          BY <2>0, <4>2 DEF RInv
        <5>2. \A k \in Attempts : attempt'[k].at = "waiting" => attempt[k].at = "waiting" /\ attempt'[k] = attempt[k]
          BY <2>0, <3>2
        <5> QED BY <1>0, <3>2, <5>1, <5>2 DEF WaitOK, Stored
      <4> QED BY <4>1, <4>2
    <3> QED BY <1>4, <3>1, <3>2, RelayMoves
  <2>3. ASSUME NEW m \in Attempts, m # n PROVE PassedOK(m)' /\ Given(m)'
    BY <2>0, <2>3, StillStored
  <2>4. PassedOK(n)'
    <3>1. CASE attempt'[n].i = attempt[n].i
      BY <3>1, StillStored
    <3>2. CASE /\ attempt'[n].i = attempt[n].i + 1 /\ attempt[n].i <= Len(elements)
               /\ UNCHANGED <<event, at, job, reply>>
               /\ \/ elements[attempt[n].i].class # "FORWARD"
                  \/ attempt[n].at = "waiting" /\ at[attempt[n].via] = "idle" /\ reply[attempt[n].via] = 200
      <4>1. attempt[n].i \in Nat /\ PassedOK(n) /\ WaitOK(n)
        BY AttemptTypes DEF RInv
      <4>2. elements[attempt[n].i].class = "FORWARD" => Stored(elements[attempt[n].i].event)
        BY <3>2, <4>1 DEF WaitOK
      <4>3. \A i \in 1..attempt[n].i : elements[i].class = "FORWARD" => Stored(elements[i].event)
        BY <4>1, <4>2 DEF PassedOK
      <4> QED BY <1>0, <3>2, <4>1, <4>3 DEF PassedOK, Stored
    <3> QED BY <1>4, <3>1, <3>2, RelayMoves
  <2>5. Given(n)'
    <3>1. CASE attempt'[n].answer = 200 => attempt[n].answer = 200
      <4>1. CASE attempt'[n].answer = 200
        BY <3>1, <4>1, StillStored
      <4>2. CASE attempt'[n].answer # 200
        BY <4>2 DEF Given
      <4> QED BY <4>1, <4>2
    <3>2. CASE attempt[n].i = Len(elements) + 1 /\ ~Oversize /\ UNCHANGED event
      <4>1. \A i \in 1..Len(elements) : elements[i].class = "FORWARD" => Stored(elements[i].event)
        BY <1>0, <3>2 DEF RInv, PassedOK
      <4>2. \A e \in Forwarded : Stored(e)
        BY <4>1, ElementTypes, <1>0 DEF Forwarded
      <4>3. Oversize' = Oversize /\ Forwarded' = Forwarded
        BY <1>0 DEF Oversize, Forwarded
      <4> QED BY <3>2, <4>2, <4>3 DEF Given, Stored
    <3> QED BY <1>4, <3>1, <3>2, RelayMoves
  <2> QED BY <1>0, <2>1, <2>2, <2>3, <2>4, <2>5 DEF RInv
<1> QED BY <1>2, <1>3, <1>4 DEF RNext

(* A 200 to Meta is given only when every element it forwards is stored at *)
(* TURAB and none was too large, whatever failed, timed out or overlapped. *)
THEOREM Delivered == RSpec => []DeliveredMeansStored
<1>1. RInit => RInv /\ \A n \in Attempts : Given(n)
  <2>1. RInit => \A n \in Attempts : Given(n)
    BY DEF RInit, Given
  <2> QED BY <2>1, RInitOK
<1>2. (RInv /\ \A n \in Attempts : Given(n)) /\ [RNext]_rvars => (RInv /\ \A n \in Attempts : Given(n))'
  BY RInductive
<1>3. (RInv /\ \A n \in Attempts : Given(n)) => DeliveredMeansStored
  BY DEF Given, DeliveredMeansStored
<1> QED BY <1>1, <1>2, <1>3, PTL DEF RSpec
=============================================================================
