---------------------------- MODULE RelayDelivery ---------------------------
(***************************************************************************)
(* The relay in front of the webhook.  Meta posts one notification until   *)
(* it is answered 200; each attempt sends the notification's elements to   *)
(* TURAB in document order, one at a time, each under a deadline, and      *)
(* stops at the first that TURAB does not answer 200.  TURAB's side is     *)
(* WebhookIntake, whose steps go on whether or not the relay still waits.  *)
(***************************************************************************)
EXTENDS WebhookIntake

CONSTANTS Notifications,  \* what Meta may post: sequences of [class, event]
          MaxAttempts     \* bound on Meta's deliveries of it

Attempts == 1..MaxAttempts
Classes  == {"FORWARD", "ISOLATED", "DROPPED", "OVERSIZE"}

(* A request of the relay's is no run of the operator's recover().         *)
ASSUME NotificationsAssumption ==
  /\ MaxAttempts \in Nat
  /\ Notifications \subseteq Seq([class : Classes, event : Events])
  /\ Posters \intersect Recoverers = {}

VARIABLES elements,  \* the notification's elements, classed; never change
          attempt    \* per attempt: its step, next element, TURAB connection, answer to Meta

rvars == <<vars, elements, attempt>>

Forwarded == {elements[i].event : i \in {i \in DOMAIN elements : elements[i].class = "FORWARD"}}
Oversize  == \E i \in DOMAIN elements : elements[i].class = "OVERSIZE"

RTypeOK ==
  /\ TypeOK
  /\ elements \in Notifications
  /\ attempt \in [Attempts -> [at : {"off", "next", "waiting", "ended"},
                               i : 1..(Len(elements) + 1), via : Posters \union {None},
                               answer : {0, 200, 502, 503, 504}]]

RInit ==
  /\ Init
  /\ elements \in Notifications
  /\ attempt = [n \in Attempts |-> [at |-> "off", i |-> 1, via |-> None, answer |-> 0]]

Move(n, new) == attempt' = [attempt EXCEPT ![n] = new] /\ UNCHANGED elements
Answer(n, code) == Move(n, [attempt[n] EXCEPT !.at = "ended", !.via = None, !.answer = code])
Next1(n) == Move(n, [attempt[n] EXCEPT !.at = "next", !.i = @ + 1, !.via = None])

(* Meta's first delivery, or its redelivery of one not answered 200.       *)
Deliver(n) ==
  /\ attempt[n].at = "off"
  /\ n > 1 => attempt[n - 1].at = "ended" /\ attempt[n - 1].answer # 200
  /\ Move(n, [attempt[n] EXCEPT !.at = "next"])
  /\ UNCHANGED vars

(* The key or TURAB's URL is missing or refused: 503, and nothing is sent. *)
NotReady(n) ==
  /\ attempt[n].at = "next" /\ attempt[n].i = 1
  /\ Fail
  /\ Answer(n, 503)
  /\ UNCHANGED <<world, store, at, job, plan, outcome, reply, posts>>

Fault_IsolatedStops(n) == Answer(n, 502)
(* ISOLATED, DROPPED and OVERSIZE elements are counted, never sent.        *)
PassOver(n) == Next1(n)

Skip(n) ==
  /\ attempt[n].at = "next" /\ attempt[n].i <= Len(elements)
  /\ elements[attempt[n].i].class # "FORWARD"
  /\ PassOver(n)
  /\ UNCHANGED vars

Send(n) ==
  /\ attempt[n].at = "next" /\ attempt[n].i <= Len(elements)
  /\ elements[attempt[n].i].class = "FORWARD"
  /\ \E a \in Posters :
       /\ \A m \in Attempts : attempt[m].via # a
       /\ Post(a, elements[attempt[n].i].event)
       /\ Move(n, [attempt[n] EXCEPT !.at = "waiting", !.via = a])

Fault_503Completes(code) == code \in {200, 503}
(* TURAB's 200 completes an envelope; 500 and 503 do not, and stop.        *)
Completed(code) == code = 200

Answered(n) ==
  /\ attempt[n].at = "waiting" /\ at[attempt[n].via] = "idle"
  /\ IF Completed(reply[attempt[n].via]) THEN Next1(n) ELSE Answer(n, 502)
  /\ UNCHANGED vars

(* No answer before the deadline: 504.  TURAB's transaction goes on.       *)
Timeout(n) ==
  /\ attempt[n].at = "waiting" /\ at[attempt[n].via] # "idle"
  /\ Fail
  /\ Answer(n, 504)
  /\ UNCHANGED <<world, store, at, job, plan, outcome, reply, posts>>

(* Every envelope answered 200: 200 to Meta, unless an element is OVERSIZE.*)
Finished(n) ==
  /\ attempt[n].at = "next" /\ attempt[n].i = Len(elements) + 1
  /\ Answer(n, IF Oversize THEN 503 ELSE 200)
  /\ UNCHANGED vars

Relay(n) == Deliver(n) \/ Skip(n) \/ Send(n) \/ Answered(n) \/ Finished(n)

Turab ==
  /\ \/ \E a \in Actors : Work(a) \/ ProcessFails(a) \/ Lose(a)
     \/ \E a \in Actors, e \in Events : Recover(a, e)
  /\ UNCHANGED <<elements, attempt>>

Resting ==
  /\ \A n \in Attempts : attempt[n].at \in {"off", "ended"}
  /\ \A n \in Attempts : ~ENABLED Deliver(n)
  /\ \A a \in Actors : at[a] = "idle"
  /\ Unfinished = {}
  /\ UNCHANGED rvars

RNext == Turab \/ Resting \/ \E n \in Attempts : Relay(n) \/ NotReady(n) \/ Timeout(n)

(* Meta redelivers, the relay and TURAB run on, an operator recovers.      *)
RFairness ==
  /\ \A n \in Attempts : WF_rvars(Relay(n))
  /\ \A a \in Actors : WF_rvars(Work(a) /\ UNCHANGED <<elements, attempt>>)
  /\ \A a \in Recoverers : WF_rvars((\E e \in Events : Recover(a, e)) /\ UNCHANGED <<elements, attempt>>)

RSpec == RInit /\ [][RNext]_rvars /\ RFairness

-----------------------------------------------------------------------------
(* What an attempt waits for is what its connection works on; the element  *)
(* is stored once T1 is over or 200 was answered; and so is every element  *)
(* the attempt has left behind, though other attempts and the recovery may *)
(* have worked on it too.                                                  *)
Stored(e) == event[e] # "absent"
WaitOK(n) ==
  attempt[n].at = "waiting" =>
    LET a == attempt[n].via
        e == elements[attempt[n].i].event
    IN /\ attempt[n].i <= Len(elements) /\ a \in Posters
       /\ at[a] # "idle" => job[a].event = e
       /\ at[a] \notin {"idle", "store"} => Stored(e)
       /\ at[a] = "idle" /\ reply[a] = 200 => Stored(e)
       /\ \A m \in Attempts \ {n} : attempt[m].at = "waiting" => attempt[m].via # a
PassedOK(n) ==
  \A i \in 1..(attempt[n].i - 1) : elements[i].class = "FORWARD" => Stored(elements[i].event)
RInv ==
  /\ RTypeOK /\ IInv
  /\ \A n \in Attempts : WaitOK(n) /\ PassedOK(n)

(* 200 to Meta closes the redelivery window, so it is given only when every*)
(* FORWARD element is stored at TURAB and none was too large to send:      *)
(* whatever failed or timed out on the way, nothing is lost (duty 5, 7).   *)
DeliveredMeansStored ==
  /\ RInv
  /\ \A n \in Attempts : attempt[n].answer = 200 =>
       ~Oversize /\ \A e \in Forwarded : Stored(e)

(* When failures stop before Meta's redeliveries do, every element the     *)
(* notification forwards is completed, whatever ISOLATED or OVERSIZE ones  *)
(* stand among them, and it is answered 200 unless one is OVERSIZE.        *)
EventuallyDelivered ==
  <>(/\ Oversize \/ \E n \in Attempts : attempt[n].answer = 200
     /\ \A e \in Forwarded : event[e] \in Final)

(* What the relay's module states: stopping at the first failure, "TURAB   *)
(* processes the elements in document order across attempts".              *)
DocumentOrder ==
  \A i, j \in DOMAIN elements :
    i < j /\ elements[i].class = "FORWARD" /\ elements[j].class = "FORWARD"
          /\ event[elements[j].event] \in Final
      => event[elements[i].event] \in Final
=============================================================================
