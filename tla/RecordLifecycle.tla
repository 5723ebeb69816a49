-------------------------- MODULE RecordLifecycle --------------------------
(***************************************************************************)
(* The status, the freshness and the terms of the three records customers  *)
(* and staff work on: a request, an offer and a property.  Each has a      *)
(* version, which a trigger bumps on every UPDATE of its row.              *)
(*                                                                         *)
(* The code changes them in three ways: most commands lock the row and then*)
(* decide, an offer's transition compares and sets, and the operator's     *)
(* freshness pass samples, skips what is locked and asserts its conditions *)
(* again.  Here the three meet on one row of each table, with a clock.     *)
(*                                                                         *)
(* Each actor runs one transaction.  A step is one statement that waits or *)
(* reads what is decided on; the last one writes and commits, as nobody    *)
(* sees the row between the two.                                           *)
(***************************************************************************)
EXTENDS Naturals

CONSTANTS
  Actors, None,
  Criteria,  \* ids of the request's criteria; one that is added takes a free id
  Slots,     \* <<criterion_code, sort_order>>, unique within a request
  Sources,   \* what an offer can be linked to
  Amounts,   \* of money: what a request's budgets can be
  Days,      \* the active policy's freshness window
  Horizon,   \* the last instant of the clock
  Settings   \* the workloads to explore: what each actor does, from which rows

Rows  == {"request", "offer", "property"}
Times == 0..Horizon

RequestEdges ==
  [RAW |-> {"CONTACTED"}, CONTACTED |-> {"QUALIFIED"}, QUALIFIED |-> {"ACTIVE"},
   ACTIVE |-> {"NEEDS_CONFIRMATION", "PAUSED", "CLOSED"},
   NEEDS_CONFIRMATION |-> {"ACTIVE", "PAUSED", "CLOSED"},
   PAUSED |-> {"ACTIVE"}, CLOSED |-> {"ACTIVE"}, absent |-> {}]
ReactivationFrom == {"PAUSED", "CLOSED"}

OfferEdges ==
  [DRAFT |-> {"PENDING_INFO", "ACTIVE", "WITHDRAWN", "CLOSED"},
   PENDING_INFO |-> {"ACTIVE", "WITHDRAWN", "CLOSED"},
   ACTIVE |-> {"PENDING_INFO", "PAUSED", "WITHDRAWN", "CLOSED"},
   PAUSED |-> {"PENDING_INFO", "ACTIVE", "WITHDRAWN", "CLOSED"},
   WITHDRAWN |-> {}, CLOSED |-> {}, absent |-> {}]
CustomerTargets ==
  [DRAFT |-> {"ACTIVE", "WITHDRAWN"}, PENDING_INFO |-> {"ACTIVE", "WITHDRAWN"},
   ACTIVE |-> {"PAUSED", "WITHDRAWN"}, PAUSED |-> {"ACTIVE", "WITHDRAWN"},
   WITHDRAWN |-> {}, CLOSED |-> {}, absent |-> {}]

StaleConvertible ==
  {"AVAILABLE", "POTENTIALLY_AVAILABLE", "UNDER_DISCUSSION", "TEMPORARILY_UNAVAILABLE"}
Availability == StaleConvertible \union {"UNAVAILABLE", "NEEDS_CONFIRMATION", "UNKNOWN"}

Statuses == DOMAIN RequestEdges \union DOMAIN OfferEdges \union Availability

(* What a PATCH changes and a rule of the schema ties together: a request's*)
(* two budgets, and an offer's type and whether its seller states what he  *)
(* expects.  The columns a table has not stay empty.                       *)
Terms == [target : Amounts \union {None}, max : Amounts \union {None},
          sale : BOOLEAN, expects : BOOLEAN]
NoTerms == [target |-> None, max |-> None, sale |-> FALSE, expects |-> FALSE]

Conflict(terms) == terms.target # None /\ terms.max # None /\ terms.target > terms.max
Coherent(terms) == ~Conflict(terms) /\ (terms.expects => terms.sale)

(* confirmed is last_confirmed_at, commercial_terms_last_confirmed_at or   *)
(* availability_last_confirmed_at; closed says that closed_at is set.      *)
Row == [status : Statuses, confirmed : Times \union {None}, closed : BOOLEAN,
        terms : Terms, version : Nat]

Kinds == {"patch", "move", "reconfirm", "criterion", "source", "pass"}

(* to is a transition's target or the availability a reconfirmation states;*)
(* given is its confirmed_at; reasoned says that the reason a request's    *)
(* closure needs, with its note, or the one an offer's move gives, is in   *)
(* order; customer that a customer moves it; a PATCH sets some fields to   *)
(* those of terms, or to a location that is known or not.                  *)
Job == [kind : Kinds, row : Rows, to : Statuses, given : Times \union {None},
        reasoned : BOOLEAN, customer : BOOLEAN, criterion : Criteria \union {None},
        slot : Slots, source : Sources, primary : BOOLEAN,
        sets : SUBSET {"target", "max", "expects", "wording", "location"},
        terms : Terms, known : BOOLEAN]

(* The calls the routes take, after what each refuses by itself: a PATCH   *)
(* names at least one field, of those its body declares, and the status, a *)
(* confirmation, the type or the availability are none of them.            *)
RequestFields  == {"target", "max", "wording", "location"}
OfferFields    == {"expects", "wording"}
PropertyFields == {"wording", "location"}

Patches(r, fields) ==
  {j \in Job : j.kind = "patch" /\ j.row = r /\ j.sets # {} /\ j.sets \subseteq fields}
RequestPatches  == Patches("request", RequestFields)
OfferPatches    == Patches("offer", OfferFields)
PropertyPatches == Patches("property", PropertyFields)

RequestTargets == {"CONTACTED", "QUALIFIED", "ACTIVE", "NEEDS_CONFIRMATION", "PAUSED", "CLOSED"}
OfferTargets   == {"DRAFT", "PENDING_INFO", "ACTIVE", "PAUSED", "WITHDRAWN", "CLOSED"}
RequestMoves == {j \in Job : j.kind = "move" /\ j.row = "request" /\ j.to \in RequestTargets}
OfferMoves   == {j \in Job : j.kind = "move" /\ j.row = "offer" /\ j.to \in OfferTargets}

RequestConfirms  == {j \in Job : j.kind = "reconfirm" /\ j.row = "request"}
OfferConfirms    == {j \in Job : j.kind = "reconfirm" /\ j.row = "offer"}
PropertyConfirms == {j \in Job : j.kind = "reconfirm" /\ j.row = "property" /\ j.to \in Availability}

CriterionCalls == {j \in Job : j.kind = "criterion" /\ j.row = "request"}
SourceLinks    == {j \in Job : j.kind = "source" /\ j.row = "offer"}
Passes         == {j \in Job : j.kind = "pass" /\ j.row \in {"request", "property"}}

Calls ==
  RequestPatches \union OfferPatches \union PropertyPatches
    \union RequestMoves \union OfferMoves
    \union RequestConfirms \union OfferConfirms \union PropertyConfirms
    \union CriterionCalls \union SourceLinks \union Passes

World == [row : [Rows -> Row], criteria : [Criteria -> Slots \union {None}],
          primaries : SUBSET Sources]

ASSUME NoneAssumption == None \notin Nat \union Slots \union Criteria
ASSUME TimeAssumption == Days \in Nat /\ Horizon \in Nat /\ Amounts \subseteq Nat

(* A row is closed_at-stamped exactly while it is a closed request, and the*)
(* CHECKs and the unique indexes hold.                                     *)
ClosedIsStamped(rows)  == \A r \in Rows : rows[r].closed <=> r = "request" /\ rows[r].status = "CLOSED"
TermsCoherent(rows)    == \A r \in Rows : Coherent(rows[r].terms)
SlotsDistinct(placed)  ==
  \A c, d \in Criteria : c # d /\ placed[c] = placed[d] => placed[c] = None
OnePrimary(linked)     == \A s, u \in linked : s = u

ASSUME SettingsAssumption ==
  \A s \in Settings : /\ s.plan \in [Actors -> Calls] /\ s.world \in World
                       /\ ClosedIsStamped(s.world.row) /\ TermsCoherent(s.world.row)
                       /\ SlotsDistinct(s.world.criteria) /\ OnePrimary(s.world.primaries)

VARIABLES
  plan,       \* what each actor does; never changes
  clock,
  row, criteria, primaries,
  at,         \* where each transaction stands
  seen,       \* the row and the criteria each decides on, once read
  cleared,    \* the primaries a source link clears before it sets its own
  held,       \* the row locks
  answer

INSTANCE RowLocks WITH Txns <- Actors

tables == <<row, criteria, primaries>>
vars   == <<plan, clock, tables, at, seen, cleared, held, answer>>

Steps == {"idle", "merge", "lock", "apply", "grab", "slot", "decide", "done"}

Reads == [row : Row, criteria : [Criteria -> Slots \union {None}]]

TypeOK ==
  /\ plan \in [Actors -> Calls]
  /\ clock \in Times
  /\ row \in [Rows -> Row]
  /\ criteria \in [Criteria -> Slots \union {None}]
  /\ primaries \subseteq Sources
  /\ at \in [Actors -> Steps]
  /\ seen \in [Actors -> Reads \union {None}]
  /\ cleared \in [Actors -> SUBSET Sources]
  /\ HeldType
  /\ answer \in [Actors -> {"none", "written", "refused", "constraint", "error"}]

Of(t)   == plan[t].row
Mine(t) == row[Of(t)]
Now(t)  == [row |-> Mine(t), criteria |-> criteria]

Init ==
  /\ \E s \in Settings :
       /\ plan = s.plan /\ row = s.world.row
       /\ criteria = s.world.criteria /\ primaries = s.world.primaries
  /\ clock = 0
  /\ at = [t \in Actors |-> "idle"]
  /\ seen = [t \in Actors |-> None]
  /\ cleared = [t \in Actors |-> {}]
  /\ Unlocked
  /\ answer = [t \in Actors |-> "none"]

-----------------------------------------------------------------------------
Goto(t, step) == at' = [at EXCEPT ![t] = step]

(* COMMIT and ROLLBACK both end the transaction and free its locks.        *)
End(t, what) ==
  /\ Goto(t, "done")
  /\ answer' = [answer EXCEPT ![t] = what]
  /\ seen' = [seen EXCEPT ![t] = None] /\ cleared' = [cleared EXCEPT ![t] = {}]
  /\ Release(t)
  /\ UNCHANGED <<plan, clock>>

Refuse(t) == End(t, "refused") /\ UNCHANGED tables

(* An UPDATE of the row, which fires the version trigger.                  *)
Write(t, new) ==
  row' = [row EXCEPT ![Of(t)] = [new EXCEPT !.version = Mine(t).version + 1]]

(* freshness.evaluate, at this instant.                                    *)
Fresh(last) == last # None /\ clock - last <= Days
Stale(last) == last # None /\ clock - last > Days

Begins(t, kind) == at[t] = "idle" /\ plan[t].kind = kind

(* The commands that lock their row before they read what they decide on,  *)
(* and the mode: FOR UPDATE in every one of them.                          *)
LockFirst == {"patch", "reconfirm", "criterion", "source"}
Fault_SourceUnlocked(kind) == IF kind = "source" THEN 0 ELSE Update
LockRank(kind) == Update

LocksFirst(t) == plan[t].kind \in LockFirst \/ (plan[t].kind = "move" /\ Of(t) = "request")

(* A new record is in its table's default status, or the availability it is*)
(* given, and was never confirmed.                                         *)
Insert(r, status, terms) ==
  /\ row[r].status = "absent"
  /\ row' = [row EXCEPT ![r] = [status |-> status, confirmed |-> None, closed |-> FALSE,
                                terms |-> terms, version |-> 1]]
  /\ UNCHANGED <<plan, clock, criteria, primaries, at, seen, cleared, held, answer>>

(* Both budgets are in the body, so the route can compare them.            *)
Budgets == {terms \in Terms : ~terms.sale /\ ~terms.expects}
CreateRequest == \E new \in Budgets : ~Conflict(new) /\ Insert("request", "RAW", new)

Deals == {terms \in Terms : terms.target = None /\ terms.max = None}
CreateOffer ==
  /\ row["property"].status # "absent"
  /\ \E new \in Deals : (new.expects => new.sale) /\ Insert("offer", "DRAFT", new)

CreateProperty == \E s \in Availability : Insert("property", s, NoTerms)

Create == CreateRequest \/ CreateOffer \/ CreateProperty

NotFound(t) ==
  /\ at[t] = "idle" /\ plan[t].kind # "pass" /\ Mine(t).status = "absent"
  /\ Refuse(t)

(* The caller of a PATCH has read the record and its version; the other    *)
(* locking commands read nothing before the lock, but a reconfirmation     *)
(* refuses a time to come first.  The route of a request's PATCH has a look*)
(* at the budgets before its command begins.                               *)
Merges(t) == plan[t].kind = "patch" /\ Of(t) = "request"

Begin(t) ==
  /\ at[t] = "idle" /\ LocksFirst(t) /\ Mine(t).status # "absent"
  /\ ~(plan[t].kind = "reconfirm" /\ plan[t].given # None /\ plan[t].given > clock)
  /\ seen' = IF plan[t].kind = "patch" THEN [seen EXCEPT ![t] = Now(t)] ELSE seen
  /\ Goto(t, IF Merges(t) THEN "merge" ELSE "lock")
  /\ UNCHANGED <<plan, clock, tables, cleared, held, answer>>

RefuseFuture(t) ==
  /\ Begins(t, "reconfirm") /\ Mine(t).status # "absent"
  /\ plan[t].given # None /\ plan[t].given > clock
  /\ Refuse(t)

(* access_free_budget_check: the budgets that would result, from an        *)
(* unlocked read of the row in the session of the object checks.           *)
Merged(t, old) ==
  LET Put(field, was) == IF field \in plan[t].sets THEN plan[t].terms[field] ELSE was
  IN [old EXCEPT !.target = Put("target", @), !.max = Put("max", @), !.expects = Put("expects", @)]

Fault_AsSubmitted(t) == Conflict(plan[t].terms)
BudgetConflict(t) == Conflict(Merged(t, Mine(t).terms))

CheckBudget(t) ==
  /\ at[t] = "merge"
  /\ IF BudgetConflict(t)
       THEN Refuse(t)
       ELSE Goto(t, "lock") /\ UNCHANGED <<plan, clock, tables, seen, cleared, held, answer>>

(* SELECT ... FOR UPDATE, and the row as it is once the lock is held.  A   *)
(* PATCH keeps what its caller read: concurrency.check only compares the   *)
(* version.                                                                *)
LockRow(t) ==
  /\ at[t] = "lock"
  /\ Lock(t, Of(t), LockRank(plan[t].kind))
  /\ seen' = IF plan[t].kind = "patch" THEN seen ELSE [seen EXCEPT ![t] = Now(t)]
  /\ Goto(t, IF plan[t].kind \in {"criterion", "source"} THEN "slot" ELSE "decide")
  /\ UNCHANGED <<plan, clock, tables, cleared, answer>>

-----------------------------------------------------------------------------
(* PATCH.  If-Match-Version is compared under the lock; then an expectation*)
(* on an offer that is no sale, or a property's location that is none, is  *)
(* refused.  A request's budgets are not looked at again: the CHECK would  *)
(* fail the command.                                                       *)
Fault_AnyVersion(t) == TRUE
Matches(t) == seen[t].row.version = Mine(t).version

PatchRefused(t) ==
  \/ "expects" \in plan[t].sets /\ plan[t].terms.expects /\ ~Mine(t).terms.sale
  \/ Of(t) = "property" /\ "location" \in plan[t].sets /\ ~plan[t].known

Patch(t) ==
  /\ at[t] = "decide" /\ plan[t].kind = "patch"
  /\ IF ~Matches(t) \/ PatchRefused(t)
       THEN Refuse(t)
       ELSE LET new == Merged(t, Mine(t).terms)
            IN IF Coherent(new)
                 THEN /\ Write(t, [Mine(t) EXCEPT !.terms = new])
                      /\ End(t, "written") /\ UNCHANGED <<criteria, primaries>>
                 ELSE End(t, "constraint") /\ UNCHANGED tables

(* The request's transition, decided from the locked row.                  *)
Reactivates(t) == seen[t].row.status \in ReactivationFrom /\ plan[t].to = "ACTIVE"

MayMoveRequest(t) ==
  /\ plan[t].to \in RequestEdges[seen[t].row.status]
  /\ Reactivates(t) => Fresh(seen[t].row.confirmed)
  /\ plan[t].to = "CLOSED" => plan[t].reasoned

(* Like the stamp, the reason is set by a closure and cleared by any other *)
(* move.                                                                   *)
MoveRequest(t) ==
  /\ at[t] = "decide" /\ plan[t].kind = "move"
  /\ IF MayMoveRequest(t)
       THEN /\ IF Mine(t).status = seen[t].row.status
                 THEN Write(t, [Mine(t) EXCEPT !.status = plan[t].to,
                                               !.closed = plan[t].to = "CLOSED"])
                 ELSE UNCHANGED row
            /\ End(t, "written") /\ UNCHANGED <<criteria, primaries>>
       ELSE Refuse(t)

(* The offer's transition: an unlocked read, its checks, and one UPDATE    *)
(* that waits for the row and applies only if the status is still the one  *)
(* read.                                                                   *)
MayMoveOffer(t, from) ==
  /\ plan[t].to \in OfferEdges[from]
  /\ plan[t].customer => plan[t].to \in CustomerTargets[from]
  /\ plan[t].reasoned

ReadOffer(t) ==
  /\ Begins(t, "move") /\ Of(t) = "offer" /\ Mine(t).status # "absent"
  /\ MayMoveOffer(t, Mine(t).status)
  /\ seen' = [seen EXCEPT ![t] = Now(t)]
  /\ Goto(t, "apply")
  /\ UNCHANGED <<plan, clock, tables, cleared, held, answer>>

RefuseOffer(t) ==
  /\ Begins(t, "move") /\ Of(t) = "offer" /\ Mine(t).status # "absent"
  /\ ~MayMoveOffer(t, Mine(t).status)
  /\ Refuse(t)

Fault_NoCompare(t) == TRUE
StillExpected(t) == Mine(t).status = seen[t].row.status

(* OFFER_STATE_CHANGED is the losing outcome.                              *)
MoveOffer(t) ==
  /\ at[t] = "apply"
  /\ Blockers(t, Of(t), NoKeyUpdate) = {}
  /\ IF StillExpected(t)
       THEN /\ Write(t, [Mine(t) EXCEPT !.status = plan[t].to])
            /\ End(t, "written") /\ UNCHANGED <<criteria, primaries>>
       ELSE Refuse(t)

(* Reconfirmation.  The stamp may be earlier than the one it replaces.  A  *)
(* request that needs confirmation becomes active by a second UPDATE; a    *)
(* property takes the availability that is stated; an offer keeps its      *)
(* status.                                                                 *)
Stamp(t) == IF plan[t].given = None THEN clock ELSE plan[t].given

Fault_Reopens(t) ==
  LET stamped == [Mine(t) EXCEPT !.confirmed = Stamp(t), !.version = @ + 1]
  IN IF Of(t) = "request" THEN [stamped EXCEPT !.status = "ACTIVE"] ELSE stamped

Reconfirmed(t) ==
  LET stamped == [Mine(t) EXCEPT !.confirmed = Stamp(t), !.version = @ + 1]
  IN CASE Of(t) = "request" /\ seen[t].row.status = "NEEDS_CONFIRMATION"
            -> IF Mine(t).status = "NEEDS_CONFIRMATION"
                 THEN [stamped EXCEPT !.status = "ACTIVE", !.version = @ + 1]
                 ELSE stamped
       [] Of(t) = "property" -> [stamped EXCEPT !.status = plan[t].to]
       [] OTHER -> stamped

Reconfirm(t) ==
  /\ at[t] = "decide" /\ plan[t].kind = "reconfirm"
  /\ row' = [row EXCEPT ![Of(t)] = Reconfirmed(t)]
  /\ End(t, "written") /\ UNCHANGED <<criteria, primaries>>

-----------------------------------------------------------------------------
(* Criteria: one that is given is changed, otherwise a free id is taken.   *)
Taken(t, c, placed) == \E d \in Criteria \ {c} : placed[d] = plan[t].slot

(* The slot is checked, then the criterion to change must be the request's.*)
CheckSlot(t) ==
  /\ at[t] = "slot" /\ plan[t].kind = "criterion"
  /\ IF \/ Taken(t, plan[t].criterion, criteria)
        \/ plan[t].criterion # None /\ criteria[plan[t].criterion] = None
       THEN Refuse(t)
       ELSE Goto(t, "decide") /\ UNCHANGED <<plan, clock, tables, seen, cleared, held, answer>>

Chosen(t, c) == IF plan[t].criterion = None THEN criteria[c] = None ELSE c = plan[t].criterion

(* The criterion's row does not bump the request's version; the touch does.*)
Fault_NoTouch(t) == UNCHANGED row
Touch(t) == Write(t, Mine(t))

PlaceCriterion(t) ==
  /\ at[t] = "decide" /\ plan[t].kind = "criterion"
  /\ \E c \in Criteria :
       /\ Chosen(t, c)
       /\ IF Taken(t, c, criteria)
            THEN End(t, "constraint") /\ UNCHANGED tables
            ELSE /\ criteria' = [criteria EXCEPT ![c] = plan[t].slot]
                 /\ Touch(t)
                 /\ End(t, "written") /\ UNCHANGED primaries

(* A source link: a primary one clears the primary there is, then is set.  *)
(* The offer's own row is not written.                                     *)
ClearPrimary(t) ==
  /\ at[t] = "slot" /\ plan[t].kind = "source"
  /\ cleared' = [cleared EXCEPT ![t] =
                   IF plan[t].primary THEN primaries \ {plan[t].source} ELSE {}]
  /\ Goto(t, "decide")
  /\ UNCHANGED <<plan, clock, tables, seen, held, answer>>

LinkSource(t) ==
  LET kept == primaries \ cleared[t]
  IN /\ at[t] = "decide" /\ plan[t].kind = "source"
     /\ IF plan[t].primary /\ kept \ {plan[t].source} # {}
          THEN End(t, "constraint") /\ UNCHANGED tables
          ELSE /\ primaries' = IF plan[t].primary THEN kept \union {plan[t].source}
                                                  ELSE kept \ {plan[t].source}
               /\ End(t, "written") /\ UNCHANGED <<row, criteria>>

-----------------------------------------------------------------------------
(* The freshness pass, one UPDATE over a sample taken FOR UPDATE SKIP      *)
(* LOCKED: a row that is locked is left alone, and one that was changed    *)
(* since the sample is evaluated again before it is locked and before it   *)
(* is written.                                                             *)
Convertible(r) == IF r = "request" THEN {"ACTIVE"} ELSE StaleConvertible
GoneStale(r)   == row[r].status \in Convertible(r) /\ Stale(row[r].confirmed)

Sample(t) ==
  /\ Begins(t, "pass")
  /\ IF GoneStale(Of(t))
       THEN Goto(t, "grab") /\ UNCHANGED <<plan, clock, tables, seen, cleared, held, answer>>
       ELSE Refuse(t)

Fault_ByIdAlone(r) == TRUE
StillStale(r) == GoneStale(r)

(* Skip the locked row, or lock it.                                        *)
Grab(t) ==
  /\ at[t] = "grab"
  /\ IF Blockers(t, Of(t), Update) = {} /\ StillStale(Of(t))
       THEN /\ Lock(t, Of(t), Update)
            /\ seen' = [seen EXCEPT ![t] = Now(t)]
            /\ Goto(t, "decide")
            /\ UNCHANGED <<plan, clock, tables, cleared, answer>>
       ELSE Refuse(t)

MarkStale(t) ==
  /\ at[t] = "decide" /\ plan[t].kind = "pass"
  /\ IF StillStale(Of(t))
       THEN /\ Write(t, [Mine(t) EXCEPT !.status = "NEEDS_CONFIRMATION"])
            /\ End(t, "written") /\ UNCHANGED <<criteria, primaries>>
       ELSE Refuse(t)

-----------------------------------------------------------------------------
(* A command that fails after its first statement, provenance included,    *)
(* writes nothing.                                                         *)
Fail(t) == at[t] \in {"slot", "decide"} /\ End(t, "error") /\ UNCHANGED tables

Step(t) ==
  \/ NotFound(t) \/ Begin(t) \/ RefuseFuture(t) \/ CheckBudget(t) \/ LockRow(t)
  \/ Patch(t) \/ MoveRequest(t) \/ ReadOffer(t) \/ RefuseOffer(t) \/ MoveOffer(t)
  \/ Reconfirm(t) \/ CheckSlot(t) \/ PlaceCriterion(t) \/ ClearPrimary(t) \/ LinkSource(t)
  \/ Sample(t) \/ Grab(t) \/ MarkStale(t) \/ Fail(t)

Tick ==
  /\ clock < Horizon
  /\ clock' = clock + 1
  /\ UNCHANGED <<plan, tables, at, seen, cleared, held, answer>>

Over == clock = Horizon /\ (\A t \in Actors : at[t] = "done") /\ UNCHANGED vars

Next == (\E t \in Actors : Step(t)) \/ Create \/ Tick \/ Over

Spec == Init /\ [][Next]_vars

-----------------------------------------------------------------------------
(* Where a transaction can stand, by what it does; a row it has found stays.*)
StepsFit ==
  \A t \in Actors :
    /\ at[t] = "merge"  => Merges(t)
    /\ at[t] = "lock"   => LocksFirst(t)
    /\ at[t] = "apply"  => /\ plan[t].kind = "move" /\ Of(t) = "offer"
                           /\ MayMoveOffer(t, seen[t].row.status)
    /\ at[t] = "grab"   => plan[t].kind = "pass"
    /\ at[t] = "slot"   => plan[t].kind \in {"criterion", "source"}
    /\ at[t] = "decide" => LocksFirst(t) \/ plan[t].kind = "pass"
    /\ at[t] \in {"merge", "lock", "apply", "slot", "decide"} => Mine(t).status # "absent"
    /\ at[t] \in {"merge", "apply", "slot", "decide"} => seen[t] \in Reads
    /\ at[t] = "lock" /\ plan[t].kind = "patch" => seen[t] \in Reads

(* What the locks are for.  Whoever decides holds the row, and what it has *)
(* read is the row as it is; a PATCH instead has a version, which no two   *)
(* states of its row and criteria share.                                   *)
Deciding(t) == at[t] \in {"slot", "decide"}
SeenIsNow(t) ==
  seen[t].row = Mine(t) /\ (Of(t) = "request" => seen[t].criteria = criteria)

DecidersHold   == \A t \in Actors : Deciding(t) => held[t][Of(t)] = Update
SeenIsCurrent  == \A t \in Actors : Deciding(t) /\ plan[t].kind # "patch" => SeenIsNow(t)
VersionsName   ==
  \A t \in Actors :
    plan[t].kind = "patch" /\ at[t] \in {"merge", "lock", "decide"} =>
      /\ seen[t].row.version <= Mine(t).version
      /\ seen[t].row.version = Mine(t).version => SeenIsNow(t)
BudgetsStand   ==
  \A t \in Actors : Merges(t) /\ at[t] \in {"lock", "decide"} /\ Matches(t) => ~BudgetConflict(t)
ChecksStand    ==
  \A t \in Actors : at[t] = "decide" =>
    /\ plan[t].kind = "criterion" => ~Taken(t, plan[t].criterion, criteria)
    /\ plan[t].kind = "source" /\ plan[t].primary => cleared[t] = primaries \ {plan[t].source}

(* The CHECKs and the two unique indexes are the second lock, as the       *)
(* comments on the budgets, on the slot check and on link_source say: no   *)
(* command ever runs into one, though the budgets are compared without a   *)
(* lock, with what another PATCH may have replaced since.                  *)
ConstraintsUnreached == \A t \in Actors : answer[t] # "constraint"

(* No interleaving of the commands leaves a request stamped closed that is *)
(* not, or not stamped that is, a target above the maximum, an expectation *)
(* where nothing is sold, two criteria in one slot, or two primary sources *)
(* of one offer; and it is the code that prevents it, by its locks and its *)
(* versions, never the constraint.                                         *)
IInv ==
  /\ TypeOK /\ Compatible /\ StepsFit
  /\ ClosedIsStamped(row) /\ TermsCoherent(row)
  /\ SlotsDistinct(criteria) /\ OnePrimary(primaries)
  /\ DecidersHold /\ SeenIsCurrent /\ VersionsName /\ BudgetsStand /\ ChecksStand
  /\ ConstraintsUnreached

Applied(t) == answer[t] = "none" /\ answer'[t] = "written"

(* A command that is answered as done was decided on the row it replaces,  *)
(* whatever ran between its reads and its UPDATE: the provenance's previous*)
(* value is the value that was replaced, an offer's transition leaves the  *)
(* status its caller was told, and the move it reports has happened.       *)
DecidedOnWhatItReplaces ==
  [][\A t \in Actors : Applied(t) =>
       /\ plan[t].kind \in {"reconfirm", "criterion"} => seen[t].row = Mine(t)
       /\ plan[t].kind = "move" => /\ seen[t].row.status = Mine(t).status
                                  /\ row'[Of(t)].status = plan[t].to]_vars

(* Over every interleaving of commands, confirmations and passes, a request*)
(* and an offer only ever take the edges of their machines, a customer     *)
(* moves an offer only where customers may, and a paused or closed request *)
(* comes back only on a confirmation that is fresh at that instant.        *)
StatusFollowsMachine ==
  [][/\ row'["request"].status # row["request"].status =>
         \/ row["request"].status = "absent"
         \/ /\ row'["request"].status \in RequestEdges[row["request"].status]
            /\ row["request"].status \in ReactivationFrom => Fresh(row["request"].confirmed)
     /\ row'["offer"].status # row["offer"].status =>
         \/ row["offer"].status = "absent"
         \/ \E t \in Actors :
              /\ at[t] = "apply" /\ at'[t] = "done"
              /\ MayMoveOffer(t, row["offer"].status)
              /\ row'["offer"].status = plan[t].to]_vars

(* The freshness pass marks only a row that is stale and convertible when  *)
(* it is written: one that was confirmed, paused, closed or made           *)
(* unavailable after the sample is left alone.                             *)
PassSparesTheConfirmed ==
  [][\A t \in Actors : Applied(t) /\ plan[t].kind = "pass" => GoneStale(Of(t))]_vars

(* A PATCH is applied only to the record its caller read: any transition,  *)
(* confirmation, pass or criterion since then makes it stale, though       *)
(* criteria are rows of their own.                                         *)
PatchSeesEveryChange ==
  [][\A t \in Actors : Applied(t) /\ plan[t].kind = "patch" => SeenIsNow(t)]_vars
=============================================================================
