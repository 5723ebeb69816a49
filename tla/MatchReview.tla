----------------------------- MODULE MatchReview ----------------------------
(***************************************************************************)
(* The review of the matches of one request, and the opportunities made of *)
(* them: matching runs, reviews, the opportunity commands, writers of the  *)
(* facts they rest on, and the identity consolidation that meets them.     *)
(*                                                                         *)
(* Each actor runs one transaction: the statements of its program that     *)
(* wait or read, in the code's order, and a COMMIT.  Properties are        *)
(* numbered in the order of their ids, and each has one offer and one      *)
(* binding.  What facts say is reduced to its class in the currency check, *)
(* and versions tell one writing of a fact from another.  No service       *)
(* writes an offer's permission scope after creating it, so a share's      *)
(* narrowed-scope refusal has no case here.                                *)
(***************************************************************************)
EXTENDS Naturals, Sequences, FiniteSets

CONSTANTS
  Actors, Properties,
  Ids,      \* the ids that matches, and the opportunities made of them, may take:
            \* a run that would need more of them than there are cannot commit
  None,
  Plans,    \* the workloads to explore: what each actor does
  Worlds    \* the states they may start from

Classes == {"VALID", "NEEDS_CONFIRMATION", "INVALID"}
Final   == {"APPROVED", "REJECTED"}
Request == <<"request", 0>>
Facts   == {Request} \union ({"property", "offer", "binding"} \X Properties)
FactsOf(p) == {Request, <<"property", p>>, <<"offer", p>>, <<"binding", p>>}
Reviewing == {"APPROVED", "REJECTED", "NEED_MORE_INFORMATION"}
Commands  == {"revalidate", "share", "close"}

(* What staff may ask for: a review, a run, and the three commands on an   *)
(* opportunity; then the writers they meet.                                *)
Asked(kinds) ==
  [kind : kinds, property : Properties, into : Properties, fact : Facts, value : Classes]
ReviewMatch           == Asked(Reviewing)
RunMatching           == Asked({"run"})
RevalidateOpportunity == Asked({"revalidate"})
ShareOpportunity      == Asked({"share"})
CloseOpportunity      == Asked({"close"})
Writers               == Asked({"write", "bind", "consolidate"})

Job == ReviewMatch \union RunMatching \union RevalidateOpportunity
         \union ShareOpportunity \union CloseOpportunity \union Writers

VARIABLES
  plan,      \* what each actor does; never changes
  fact, version, contact, aliasOf,   \* contact: a CURRENT CONTACT_BEFORE_SHARING binding
  matches,   \* the committed matches, in the order of their ids
  review,    \* the latest decision on each
  opp,       \* the opportunity made of each
  tasks,     \* the RESOLVE_IDENTITY tasks: <<opportunity, duplicates named>>
  clock,     \* instants taken so far by runs
  todo,      \* what is left of each transaction's program
  doing,     \* the match or opportunity it works on, and the run's instant
  seen,      \* the class its currency check found
  made,      \* a run's new matches
  raised,    \* a consolidation's tasks
  held, answer

Lockable == Facts \union ({"match", "opportunity"} \X Ids)
INSTANCE RowLocks WITH Txns <- Actors, Rows <- Lockable

store == <<fact, version, contact, aliasOf, matches, review, opp, tasks>>
own   == <<doing, seen, made, raised>>
vars  == <<plan, store, clock, todo, own, held, answer>>

Opportunity == [status : {"NEW", "SHARED", "CLOSED"}, validity : Classes]
Eligibility == {"ELIGIBLE", "NEEDS_CONFIRMATION", "REJECTED"}
Match ==
  [property : Properties, input : Nat \X Nat \X Nat \X Nat, eligibility : Eligibility, at : Nat]

(* What a match was evaluated on.                                          *)
SameInput(m, n) == m.property = n.property /\ m.input = n.input

(* The states to start from: what the tables' own constraints keep, and no *)
(* open opportunity on the canonical record of another one's property.     *)
World(w) ==
  /\ w.rounds \in Nat
  /\ w.aliasOf \in [Properties -> Properties \union {None}]
  /\ w.matches \in Seq(Match) /\ DOMAIN w.matches \subseteq Ids
  /\ w.review \in [Ids -> Reviewing \union {None}]
  /\ w.opp \in [Ids -> Opportunity \union {None}]
  /\ \A i \in Ids : /\ w.opp[i] # None <=> w.review[i] = "APPROVED"
                    /\ w.opp[i] # None => i \in DOMAIN w.matches
  /\ \A i, k \in DOMAIN w.matches : i # k => ~SameInput(w.matches[i], w.matches[k])
  /\ LET onOpen(i, p) ==
           w.opp[i] # None /\ w.opp[i].status # "CLOSED" /\ w.matches[i].property = p
     IN \A i, k \in DOMAIN w.matches : \A p, q \in Properties :
          onOpen(i, p) /\ onOpen(k, q) => (p = q => i = k) /\ w.aliasOf[p] # q

(* There are finitely many properties; a binding is on an offer or on a    *)
(* property, and nothing is an alias of itself.                            *)
ASSUME Constants ==
  /\ Properties \subseteq Nat /\ IsFiniteSet(Properties) /\ Ids \subseteq Nat
  /\ None \notin Properties /\ None \notin Reviewing /\ None \notin Classes
  /\ None \notin Opportunity
  /\ \A p \in Plans :
       /\ p \in [Actors -> Job]
       /\ \A t \in Actors : LET j == p[t] IN
            /\ j.kind = "bind" => j.fact \in {<<"offer", j.property>>, <<"property", j.property>>}
            /\ j.kind = "consolidate" => j.property # j.into
  /\ \A w \in Worlds : World(w)

Init ==
  /\ plan \in Plans
  /\ \E w \in Worlds :
       /\ version = [f \in Facts |-> w.rounds] /\ clock = w.rounds
       /\ aliasOf = w.aliasOf /\ matches = w.matches /\ review = w.review /\ opp = w.opp
  /\ fact = [f \in Facts |-> "VALID"] /\ contact = [p \in Properties |-> FALSE]
  /\ tasks = {}
  /\ todo = [t \in Actors |-> <<>>] /\ doing = [t \in Actors |-> 0]
  /\ seen = [t \in Actors |-> None]
  /\ made = [t \in Actors |-> <<>>] /\ raised = [t \in Actors |-> {}]
  /\ Unlocked
  /\ answer = [t \in Actors |-> "idle"]

-----------------------------------------------------------------------------
PropertyOf(i) == matches[i].property
IsOpen(i)     == opp[i] # None /\ opp[i].status # "CLOSED"
Place(p)      == IF aliasOf[p] = None THEN p ELSE aliasOf[p]


(* The worst class over the facts; an alias is INVALID.                    *)
Classify(p) ==
  LET found == {fact[f] : f \in FactsOf(p)}
  IN IF aliasOf[p] # None \/ "INVALID" \in found THEN "INVALID"
     ELSE IF "NEEDS_CONFIRMATION" \in found THEN "NEEDS_CONFIRMATION" ELSE "VALID"

Locks(kind, n, mode) == <<"lock", <<kind, n>>, mode>>
Check(what)          == <<"check", what>>

Fault_MatchShared == Share
MatchMode == Update
Fault_RequestWeak == NoKeyUpdate
RequestMode == Update
Fault_Inclusive == Share
ShareMode == Update

Fault_PropertyFirst(p, mode) ==
  <<Locks("property", p, mode), Locks("request", 0, NoKeyUpdate), Locks("offer", p, mode),
    Locks("binding", p, Share), <<"facts">>>>
(* The currency check: the facts' rows, in one order, then their values.   *)
Currency(p, mode) ==
  <<Locks("request", 0, NoKeyUpdate), Locks("property", p, mode), Locks("offer", p, mode),
    Locks("binding", p, Share), <<"facts">>>>

(* A task's foreign keys.                                                  *)
TaskKeys(p, i) ==
  <<Locks("request", 0, KeyShare), Locks("property", p, KeyShare), Locks("match", i, KeyShare)>>

(* A request and a property are locked before they are written.            *)
WriteMode(kind) == IF kind \in {"request", "property"} THEN Update ELSE NoKeyUpdate

Min2(p, q) == IF p < q THEN p ELSE q
Max2(p, q) == IF p < q THEN q ELSE p

Program(j, i) ==
  LET p == IF i = 0 THEN j.property ELSE PropertyOf(i)
      ofMatch == <<Locks("match", i, MatchMode), Check("decided")>>
      ofOpp   == <<Locks("opportunity", i, Update), Check("closed")>>
  IN CASE j.kind = "APPROVED" ->
            ofMatch \o <<Check("gates"), Locks("request", 0, RequestMode), Check("superseded")>>
              \o Currency(p, Share) \o <<Check("valid"), Check("open")>>
       [] j.kind = "REJECTED" -> ofMatch
       [] j.kind = "NEED_MORE_INFORMATION" -> ofMatch \o TaskKeys(p, i)
       [] j.kind = "revalidate" -> ofOpp \o Currency(p, Share)
       [] j.kind = "share" ->
            ofOpp \o <<Check("stored")>> \o Currency(p, ShareMode)
              \o <<Check("valid"), Check("contact")>>
       [] j.kind = "close" -> ofOpp
       [] j.kind = "run" -> <<<<"snapshot">>>>
       [] j.kind = "write" -> <<<<"lock", j.fact, WriteMode(j.fact[1])>>>>
       [] j.kind = "bind" -> <<<<"lock", j.fact, KeyShare>>>>
       [] j.kind = "consolidate" ->
            <<Locks("property", Min2(p, j.into), Update), Locks("property", Max2(p, j.into), Update),
              Check("aliases"), <<"work">>>>

Subjects(j) ==
  CASE j.kind \in Reviewing -> {i \in DOMAIN matches : PropertyOf(i) = j.property}
    [] j.kind \in Commands  -> {i \in DOMAIN matches : PropertyOf(i) = j.property /\ opp[i] # None}
    [] OTHER -> {0}

Begin(t) ==
  /\ answer[t] = "idle"
  /\ \E i \in Subjects(plan[t]) :
       /\ todo' = [todo EXCEPT ![t] = Program(plan[t], i)]
       /\ doing' = [doing EXCEPT ![t] = IF plan[t].kind = "run" THEN clock + 1 ELSE i]
  /\ clock' = IF plan[t].kind = "run" THEN clock + 1 ELSE clock
  /\ answer' = [answer EXCEPT ![t] = "open"]
  /\ UNCHANGED <<plan, store, seen, made, raised, held>>

At(t, what) == answer[t] = "open" /\ todo[t] # <<>> /\ Head(todo[t])[1] = what
Continue(t, more) == todo' = [todo EXCEPT ![t] = more \o Tail(@)]

(* COMMIT and ROLLBACK both end the transaction and free its locks.        *)
End(t, what) ==
  /\ answer' = [answer EXCEPT ![t] = what]
  /\ todo' = [todo EXCEPT ![t] = <<>>] /\ doing' = [doing EXCEPT ![t] = 0]
  /\ seen' = [seen EXCEPT ![t] = None]
  /\ made' = [made EXCEPT ![t] = <<>>] /\ raised' = [raised EXCEPT ![t] = {}]
  /\ Release(t)

TakeLock(t) ==
  /\ At(t, "lock")
  /\ Lock(t, Head(todo[t])[2], Head(todo[t])[3])
  /\ Continue(t, <<>>)
  /\ UNCHANGED <<plan, store, clock, own, answer>>

-----------------------------------------------------------------------------
Fault_OpportunityOnly(i) == opp[i] # None
Decided(i) == review[i] \in Final \/ opp[i] # None

Superseded(i) ==
  \E k \in DOMAIN matches : PropertyOf(k) = PropertyOf(i) /\ matches[k].at > matches[i].at

Fault_ThisRecord(p) == \E k \in DOMAIN matches : IsOpen(k) /\ PropertyOf(k) = p
(* An open opportunity on the property or on an alias of it.               *)
OpenOnPlace(p) ==
  \E k \in DOMAIN matches :
    IsOpen(k) /\ (PropertyOf(k) = p \/ aliasOf[PropertyOf(k)] = p)

Refuses(t, what) ==
  LET i == doing[t]
      j == plan[t]
  IN CASE what = "decided"    -> Decided(i)
       [] what = "gates"      -> matches[i].eligibility # "ELIGIBLE"
       [] what = "superseded" -> Superseded(i)
       [] what = "valid"      -> seen[t] # "VALID"
       [] what = "open"       -> OpenOnPlace(PropertyOf(i))
       [] what = "closed"     -> opp[i].status = "CLOSED"
       [] what = "stored"     -> opp[i].validity # "VALID"
       [] what = "contact"    -> contact[PropertyOf(i)]
       [] what = "aliases"    -> \/ aliasOf[j.property] # None \/ aliasOf[j.into] # None
                                 \/ \E q \in Properties : aliasOf[q] = j.property

CheckStep(t) ==
  /\ At(t, "check")
  /\ IF Refuses(t, Head(todo[t])[2]) THEN End(t, "refused")
     ELSE Continue(t, <<>>) /\ UNCHANGED <<own, held, answer>>
  /\ UNCHANGED <<plan, store, clock>>

ReadFacts(t) ==
  /\ At(t, "facts")
  /\ seen' = [seen EXCEPT ![t] = Classify(PropertyOf(doing[t]))]
  /\ Continue(t, <<>>)
  /\ UNCHANGED <<plan, store, clock, doing, made, raised, held, answer>>

-----------------------------------------------------------------------------
(* A run reads everything from one snapshot.  It takes the canonical       *)
(* properties that are not INVALID with an ACTIVE offer, and a match's     *)
(* input is the versions of the facts it was evaluated on.                 *)
Candidates(offers) ==
  {p \in Properties : aliasOf[p] = None /\ fact[<<"property", p>>] # "INVALID"
                        /\ fact[<<"offer", p>>] \in offers}
EligibilityOf(p) ==
  CASE Classify(p) = "VALID" -> "ELIGIBLE" [] Classify(p) = "INVALID" -> "REJECTED"
    [] OTHER -> "NEEDS_CONFIRMATION"
Evaluated(p, at) ==
  [property |-> p,
   input |-> <<version[Request], version[<<"property", p>>], version[<<"offer", p>>],
               version[<<"binding", p>>]>>,
   eligibility |-> EligibilityOf(p), at |-> at]

(* A run inserts the candidates' matches one by one, by property.          *)
First(ms)   == {m \in ms : \A n \in ms : m.property <= n.property}
Inserts(ms) == IF ms = {} THEN <<>> ELSE <<<<"insert", ms>>>>

(* A request that is not open to matching refuses the run.  One that needs *)
(* confirmation may be PAUSED, which is not; an offer that does may be     *)
(* ACTIVE and stale, or not ACTIVE.                                        *)
Snapshot(t) ==
  /\ At(t, "snapshot")
  /\ \/ fact[Request] # "VALID" /\ End(t, "refused")
     \/ /\ fact[Request] # "INVALID"
        /\ \E offers \in {{"VALID"}, {"VALID", "NEEDS_CONFIRMATION"}} :
             Continue(t, Inserts({Evaluated(p, doing[t]) : p \in Candidates(offers)})
                           \o <<Locks("request", 0, KeyShare)>>)
        /\ UNCHANGED <<own, held, answer>>
  /\ UNCHANGED <<plan, store, clock>>

(* The unique key makes the INSERT wait for another run's equal match.     *)
Inserting(t, m) ==
  {u \in Actors \ {t} : \E k \in DOMAIN made[u] : SameInput(m, made[u][k])}

(* One that is committed is returned instead, and a task may name it unless*)
(* it is ELIGIBLE.                                                         *)
InsertMatch(t) ==
  LET ms == Head(todo[t])[2]
  IN /\ At(t, "insert")
     /\ \E m \in First(ms) :
          LET found == {i \in DOMAIN matches : SameInput(m, matches[i])}
              rest  == Inserts(ms \ {m})
          IN /\ Inserting(t, m) = {}
             /\ \/ /\ found = {}
                   /\ made' = [made EXCEPT ![t] = Append(@, m)]
                   /\ Continue(t, <<Locks("request", 0, KeyShare),
                                    Locks("property", m.property, KeyShare),
                                    Locks("offer", m.property, KeyShare)>> \o rest)
                \/ /\ UNCHANGED made
                   /\ \E i \in found : todo' = [todo EXCEPT ![t] = rest \o Tail(@) \o
                        IF matches[i].eligibility = "ELIGIBLE" THEN <<>>
                        ELSE TaskKeys(m.property, i)]
     /\ UNCHANGED <<plan, store, clock, doing, seen, raised, held, answer>>

-----------------------------------------------------------------------------
(* A consolidation's tasks: one per open match or opportunity on the alias.*)
OpenMatch(i) == review[i] # "REJECTED" /\ opp[i] = None

Fault_NamesNone(alias, into) == {}
Duplicates(alias, into) == {k \in DOMAIN matches : IsOpen(k) /\ PropertyOf(k) = into}

Tasks(is) == IF is = {} THEN <<>> ELSE <<<<"task", is>>>>

ReadWork(t) ==
  LET j == plan[t]
      here == {i \in DOMAIN matches : PropertyOf(i) = j.property}
      opps == {i \in here : IsOpen(i)}
  IN /\ At(t, "work")
     /\ raised' = [raised EXCEPT ![t] =
          {<<i, Duplicates(j.property, j.into)>> : i \in opps}]
     /\ Continue(t, Tasks({i \in here : OpenMatch(i)}) \o Tasks(opps))
     /\ UNCHANGED <<plan, store, clock, doing, seen, made, held, answer>>

(* They are inserted in the order of the matches' ids.                     *)
RaiseTask(t) ==
  LET is == Head(todo[t])[2]
  IN /\ At(t, "task")
     /\ \E i \in is :
          /\ \A k \in is : i <= k
          /\ Continue(t, TaskKeys(plan[t].property, i) \o Tasks(is \ {i}))
     /\ UNCHANGED <<plan, store, clock, own, held, answer>>

-----------------------------------------------------------------------------
(* The two queues staff work from, each read in one statement.  A match on *)
(* an alias is left to the consolidation's tasks.                          *)
Fault_Unreviewed ==
  {i \in DOMAIN matches :
     /\ matches[i].eligibility # "REJECTED" /\ review[i] = None /\ opp[i] = None
     /\ aliasOf[PropertyOf(i)] = None /\ ~Superseded(i)}
MatchQueue ==
  {i \in DOMAIN matches :
     /\ matches[i].eligibility # "REJECTED"
     /\ review[i] \in {None, "NEED_MORE_INFORMATION"} /\ opp[i] = None
     /\ aliasOf[PropertyOf(i)] = None /\ ~Superseded(i)}

(* The reasons of a match that is not ELIGIBLE are its own.                *)
MatchItem(i) ==
  IF matches[i].eligibility # "ELIGIBLE" THEN [priority |-> "NORMAL", reason |-> "OWN"]
  ELSE [priority |-> "HIGH",
        reason |-> IF review[i] = None THEN "READY_FOR_REVIEW" ELSE "AWAITING_INFORMATION"]

OpportunityQueue ==
  {i \in DOMAIN matches : IsOpen(i) /\ (opp[i].validity # "VALID" \/ opp[i].status = "NEW")}

OpportunityItem(i) ==
  [priority |-> IF opp[i].validity = "INVALID" THEN "HIGH" ELSE "NORMAL",
   reason   |-> IF opp[i].validity = "VALID" THEN "NOT_YET_SHARED" ELSE opp[i].validity]

-----------------------------------------------------------------------------
(* What each transaction writes.                                           *)
Effect(t) ==
  LET j == plan[t]
      i == doing[t]
  IN \/ /\ j.kind \in Reviewing
        /\ review' = [review EXCEPT ![i] = j.kind]
        /\ opp' = IF j.kind # "APPROVED" THEN opp
                  ELSE [opp EXCEPT ![i] = [status |-> "NEW", validity |-> "VALID"]]
        /\ UNCHANGED <<fact, version, contact, aliasOf, matches, tasks>>
     \/ /\ j.kind = "revalidate"
        /\ opp' = [opp EXCEPT ![i].validity = seen[t]]
        /\ UNCHANGED <<fact, version, contact, aliasOf, matches, review, tasks>>
     \/ /\ j.kind = "share"
        /\ opp' = [opp EXCEPT ![i].status = IF @ = "NEW" THEN "SHARED" ELSE @]
        /\ UNCHANGED <<fact, version, contact, aliasOf, matches, review, tasks>>
     \/ /\ j.kind = "close"
        /\ opp' = [opp EXCEPT ![i].status = "CLOSED"]
        /\ UNCHANGED <<fact, version, contact, aliasOf, matches, review, tasks>>
     \/ /\ j.kind = "run"
        /\ matches' = matches \o made[t] /\ DOMAIN matches' \subseteq Ids
        /\ UNCHANGED <<fact, version, contact, aliasOf, review, opp, tasks>>
     \/ /\ j.kind = "write"
        /\ fact' = [fact EXCEPT ![j.fact] = j.value]
        /\ version' = [version EXCEPT ![j.fact] = @ + 1]
        /\ UNCHANGED <<contact, aliasOf, matches, review, opp, tasks>>
     \/ /\ j.kind = "bind"
        /\ contact' = [contact EXCEPT ![j.property] = TRUE]
        /\ UNCHANGED <<fact, version, aliasOf, matches, review, opp, tasks>>
     \/ /\ j.kind = "consolidate"
        /\ aliasOf' = [aliasOf EXCEPT ![j.property] = j.into]
        /\ tasks' = tasks \union raised[t]
        /\ UNCHANGED <<fact, version, contact, matches, review, opp>>

Commit(t) ==
  /\ answer[t] = "open" /\ todo[t] = <<>>
  /\ Effect(t)
  /\ End(t, "written")
  /\ UNCHANGED <<plan, clock>>

(* The process dies, a statement fails, or PostgreSQL ends a deadlock.     *)
Fail(t) ==
  /\ answer[t] = "open"
  /\ End(t, "error")
  /\ UNCHANGED <<plan, store, clock>>

Finished ==
  /\ \A t \in Actors : answer[t] \notin {"idle", "open"} \/ (answer[t] = "idle" /\ Subjects(plan[t]) = {})
  /\ UNCHANGED vars

Step(t) ==
  \/ Begin(t) \/ TakeLock(t) \/ CheckStep(t) \/ ReadFacts(t) \/ Snapshot(t) \/ InsertMatch(t)
  \/ ReadWork(t) \/ RaiseTask(t) \/ Commit(t)

Next == Finished \/ \E t \in Actors : Step(t) \/ Fail(t)

Spec == Init /\ [][Next]_vars

-----------------------------------------------------------------------------
(* What a transaction of each kind may check and do.                       *)
Checks(kind) ==
  CASE kind \in Reviewing   -> {"decided", "gates", "superseded", "valid", "open"}
    [] kind \in Commands    -> {"closed", "stored", "valid", "contact"}
    [] kind = "consolidate" -> {"aliases"}
    [] OTHER                -> {}
Statements(kind) ==
  ({"lock"} \X Lockable \X (1..Update)) \union ({"check"} \X Checks(kind)) \union
  CASE kind \in Reviewing \union Commands -> {<<"facts">>}
    [] kind = "run"         -> {<<"snapshot">>} \union ({"insert"} \X SUBSET Match)
    [] kind = "consolidate" -> {<<"work">>} \union ({"task"} \X SUBSET Ids)
    [] OTHER                -> {}

TypeOK ==
  /\ plan \in Plans
  /\ fact \in [Facts -> Classes] /\ version \in [Facts -> Nat]
  /\ contact \in [Properties -> BOOLEAN] /\ aliasOf \in [Properties -> Properties \union {None}]
  /\ matches \in Seq(Match) /\ DOMAIN matches \subseteq Ids
  /\ review \in [Ids -> Reviewing \union {None}]
  /\ opp \in [Ids -> Opportunity \union {None}]
  /\ tasks \subseteq Ids \X SUBSET Ids
  /\ clock \in Nat /\ doing \in [Actors -> Nat]
  /\ DOMAIN todo = Actors /\ \A t \in Actors : todo[t] \in Seq(Statements(plan[t].kind))
  /\ seen \in [Actors -> Classes \union {None}]
  /\ made \in [Actors -> Seq(Match)] /\ raised \in [Actors -> SUBSET (Ids \X SUBSET Ids)]
  /\ HeldType
  /\ answer \in [Actors -> {"idle", "open", "written", "refused", "error"}]

Of(seq) == {seq[k] : k \in DOMAIN seq}

Holds(t, lock) == held[t][lock[2]] >= lock[3]

(* The locks that what a statement establishes rests on, and what has to   *)
(* come before it.                                                         *)
What(s) == IF s[1] = "check" THEN s[2] ELSE s[1]
FactLocks(j, i) ==
  LET p    == PropertyOf(i)
      mode == IF j.kind = "share" THEN ShareMode ELSE Share
  IN {Locks("request", 0, NoKeyUpdate), Locks("property", p, mode), Locks("offer", p, mode),
      Locks("binding", p, Share)}
Guards(j, i, what) ==
  CASE what = "decided"              -> {Locks("match", i, MatchMode)}
    [] what = "superseded"           -> {Locks("request", 0, RequestMode)}
    [] what \in {"facts", "valid"}   -> FactLocks(j, i)
    [] what = "open" ->
         {Locks("request", 0, RequestMode), Locks("property", PropertyOf(i), Share)}
    [] what \in {"closed", "stored"} -> {Locks("opportunity", i, Update)}
    [] what = "contact" ->
         {Locks("property", PropertyOf(i), ShareMode), Locks("offer", PropertyOf(i), ShareMode)}
    [] what \in {"aliases", "work"}  ->
         {Locks("property", j.property, Update), Locks("property", j.into, Update)}
    [] OTHER -> {}
Needed(j, i, s) ==
  Guards(j, i, What(s)) \union (IF What(s) = "valid" THEN {<<"facts">>} ELSE {})

(* What a statement established is true now, and its locks are held.       *)
Established(t, what) ==
  /\ \A g \in Guards(plan[t], doing[t], what) : Holds(t, g)
  /\ what \in Checks(plan[t].kind) => ~Refuses(t, what)
  /\ what \in {"facts", "valid"} => seen[t] = Classify(PropertyOf(doing[t]))
  /\ what = "snapshot" =>
       LET key == Locks("request", 0, KeyShare) IN Holds(t, key) \/ key \in Of(todo[t])
  /\ what = "work" =>
       \A i, k \in DOMAIN matches :
         IsOpen(i) /\ IsOpen(k) /\ PropertyOf(i) = plan[t].property /\ PropertyOf(k) = plan[t].into =>
           \E w \in raised[t] : w[1] = i /\ k \in w[2]
Kept(t, s) == IF s[1] = "lock" THEN Holds(t, s) ELSE Established(t, What(s))

(* What an open transaction read and checked still holds, whoever committed*)
(* meanwhile, and what is left of its program is in the program's order.   *)
Current(t) ==
  /\ plan[t].kind # "run" => doing[t] \in Subjects(plan[t])
  /\ \A s \in Of(Program(plan[t], doing[t])) : Kept(t, s) \/ s \in Of(todo[t])
  /\ \A k \in DOMAIN todo[t] : \A g \in Needed(plan[t], doing[t], todo[t][k]) :
       Kept(t, g) \/ \E m \in 1..(k - 1) : todo[t][m] = g

(* What a run has inserted is no one else's, and neither is what it has    *)
(* still to insert its own.                                                *)
Fresh(t) ==
  /\ \A k \in DOMAIN made[t] :
       /\ \A i \in DOMAIN matches : ~SameInput(matches[i], made[t][k])
       /\ \A u \in Actors : \A l \in DOMAIN made[u] :
            t # u \/ k # l => ~SameInput(made[t][k], made[u][l])
  /\ \A a \in DOMAIN todo[t] : todo[t][a][1] = "insert" =>
       /\ \A b \in DOMAIN todo[t] : todo[t][b][1] = "insert" => a = b
       /\ \A m \in todo[t][a][2] :
            /\ \A n \in todo[t][a][2] : m.property = n.property => m = n
            /\ \A k \in DOMAIN made[t] : made[t][k].property # m.property
  /\ <<"snapshot">> \in Of(todo[t]) => todo[t] = <<<<"snapshot">>>> /\ made[t] = <<>>

Underway ==
  \A t \in Actors : /\ Fresh(t)
                    /\ answer[t] = "open" => Current(t)
                    /\ answer[t] # "open" => todo[t] = <<>> /\ made[t] = <<>>

(* An opportunity stands on an APPROVED review and an APPROVED review has  *)
(* its opportunity, one request has one open opportunity on a property     *)
(* record without the unique index ever firing, and no input is matched    *)
(* twice, whatever reviews and runs overlap.                               *)
Consistent ==
  /\ \A i \in Ids : /\ opp[i] # None <=> review[i] = "APPROVED"
                    /\ opp[i] # None => i \in DOMAIN matches
  /\ \A i, k \in DOMAIN matches :
       i # k => /\ ~SameInput(matches[i], matches[k])
                /\ ~(IsOpen(i) /\ IsOpen(k) /\ PropertyOf(i) = PropertyOf(k))

(* What an approval begun now would accept is in the match queue, at HIGH; *)
(* and no opportunity that a share would refuse for its stored validity, or*)
(* that was never shared, is missing from the other queue or shown there as*)
(* anything else (opportunity_views, G5-11).                               *)
Approvable(i) ==
  /\ ~Decided(i) /\ matches[i].eligibility = "ELIGIBLE" /\ ~Superseded(i)
  /\ Classify(PropertyOf(i)) = "VALID" /\ ~OpenOnPlace(PropertyOf(i))
Queued ==
  /\ \A i \in DOMAIN matches :
       Approvable(i) => i \in MatchQueue /\ MatchItem(i).priority = "HIGH"
  /\ \A i \in DOMAIN matches :
       IsOpen(i) /\ i \notin OpportunityQueue =>
         opp[i].status = "SHARED" /\ opp[i].validity = "VALID"
  /\ \A i \in OpportunityQueue :
       OpportunityItem(i).reason = "NOT_YET_SHARED" =>
         opp[i].status = "NEW" /\ i \notin MatchQueue

(* With the first n statements of its program made, a transaction that is  *)
(* no run and no consolidation holds the locks among them and no other.    *)
Reached(t, n) ==
  LET q == Program(plan[t], doing[t])
  IN /\ Len(todo[t]) + n = Len(q)
     /\ \A k \in DOMAIN todo[t] : todo[t][k] = q[k + n]
     /\ \A k \in 1..n : q[k][1] = "lock" => Holds(t, q[k])
     /\ \A r \in Lockable : held[t][r] # 0 => \E k \in 1..n : q[k] = <<"lock", r, held[t][r]>>

(* A run asks for the locks of foreign keys only, a property's before its  *)
(* offer's, and names in a task no match that is ELIGIBLE; and it inserts  *)
(* by property.                                                            *)
KeyStatement(t, k) ==
  LET what == todo[t][k][1]
      row  == todo[t][k][2]
  IN /\ what = "lock" =>
          /\ todo[t][k][3] = KeyShare /\ row[1] \in {"request", "property", "offer", "match"}
          /\ row[1] = "match" =>
               row[2] \in DOMAIN matches /\ matches[row[2]].eligibility # "ELIGIBLE"
          /\ row[1] = "offer" =>
               \/ held[t][<<"property", row[2]>>] # 0
               \/ \E m \in 1..(k - 1) : todo[t][m] = Locks("property", row[2], KeyShare)
     /\ what = "insert" =>
          \A m \in row : \A l \in DOMAIN made[t] : made[t][l].property < m.property
KeysOnly(t) ==
  /\ \A r \in Lockable : held[t][r] \in {0, KeyShare}
  /\ \A p \in Properties : held[t][<<"offer", p>>] # 0 => held[t][<<"property", p>>] # 0
  /\ \A k \in DOMAIN todo[t] : KeyStatement(t, k)

(* The locks a transaction has, and the order in which it will ask for     *)
(* others.                                                                 *)
LockOrder(t) ==
  /\ answer[t] # "open" => \A r \in Lockable : held[t][r] = 0
  /\ plan[t].kind # "run" => made[t] = <<>>
  /\ answer[t] = "open" /\ plan[t].kind = "run" => KeysOnly(t)
  /\ answer[t] = "open" /\ plan[t].kind \notin {"run", "consolidate"} =>
       \E n \in 0..Len(Program(plan[t], doing[t])) : Reached(t, n)

IInv ==
  /\ TypeOK /\ Compatible /\ Consistent /\ Queued /\ Underway
  /\ \A t \in Actors : LockOrder(t)

Created(i) == opp[i] = None /\ opp'[i] # None
(* The alias relation is flat: a place is its canonical record.            *)
SamePlace(i, k) == Place(PropertyOf(i)) = Place(PropertyOf(k))

(* An opportunity is created only where the request has no other open one  *)
(* on the same physical property, though no index sees the aliases and a   *)
(* consolidation may be under way (match_review._open_opportunity, 3.3).   *)
OneOpenPerPlace ==
  [][\A i, k \in DOMAIN matches : Created(i) /\ IsOpen(k) => ~SamePlace(i, k)]_vars

(* When an approval commits, the facts it read are still current, and no   *)
(* later evaluation of its property has been committed: neither a writer   *)
(* nor a run can slip between its checks and its COMMIT (3.7, L-S5-3b).    *)
ApprovedOnCurrentFacts ==
  [][\A i \in DOMAIN matches :
       Created(i) => matches[i].eligibility = "ELIGIBLE" /\ Classify(PropertyOf(i)) = "VALID" /\ ~Superseded(i)]_vars

(* When a share commits, the facts are VALID and no one has asked to be    *)
(* contacted first, even by a binding that did not exist when the share    *)
(* took its locks (opportunity_commands.prepare_share, R-S5-5-01).         *)
SharedOnlyWhileConsented ==
  [][\A t \in Actors :
       plan[t].kind = "share" /\ answer[t] = "open" /\ answer'[t] = "written" =>
         LET i == doing[t]
         IN IsOpen(i) /\ Classify(PropertyOf(i)) = "VALID" /\ ~contact[PropertyOf(i)]]_vars

(* A final review and a closed opportunity never change, whoever waited on *)
(* the match or the opportunity meanwhile (match_review._decided, 0006).   *)
Finality ==
  [][\A i \in DOMAIN matches :
       /\ review[i] \in Final => review'[i] = review[i]
       /\ opp[i] # None /\ opp[i].status = "CLOSED" => opp'[i] = opp[i]]_vars

(* Two open opportunities, one on an alias and one on the property it is an*)
(* alias of, are named together by a task, whatever was approved or closed *)
(* around the consolidation (raise_review_work, E04).                      *)
DuplicateNamed ==
  \A i, k \in DOMAIN matches :
    IsOpen(i) /\ IsOpen(k) /\ aliasOf[PropertyOf(i)] = PropertyOf(k) =>
      \E w \in tasks : w[1] = i /\ k \in w[2]

(* What a transaction waits for: a lock, or another run's equal match.     *)
Waits(t) ==
  IF At(t, "lock") THEN Blockers(t, Head(todo[t])[2], Head(todo[t])[3])
  ELSE IF At(t, "insert") THEN UNION {Inserting(t, m) : m \in First(Head(todo[t])[2])} ELSE {}

(* Reviews, opportunity commands, runs and writers of facts never wait on  *)
(* each other in a circle: each takes the match or the opportunity, the    *)
(* request, the property and the offer in that order (STEP6 3.3).          *)
CommandsNeverWaitInCircle ==
  ~Deadlocked([t \in Actors |-> IF plan[t].kind = "consolidate" THEN {} ELSE Waits(t)])

(* What SLICE_5_STEP6_DELIVERY.md, 3.3, states of every path: there is no  *)
(* cycle.  A consolidation holds the properties when its tasks' foreign    *)
(* keys wait for the request and the match.                                *)
NoCircularWait == ~Deadlocked([t \in Actors |-> Waits(t)])

(* What SLICE_5_PLAN.md makes of E04's tasks, the net behind the check of  *)
(* one open opportunity per physical property: a second one is named.      *)
AnyDuplicateNamed ==
  \A i, k \in DOMAIN matches :
    i # k /\ IsOpen(i) /\ IsOpen(k) /\ SamePlace(i, k) =>
      \E w \in tasks : (w[1] = i /\ k \in w[2]) \/ (w[1] = k /\ i \in w[2])
=============================================================================
