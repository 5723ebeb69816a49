-------------------------- MODULE PropertyIdentity --------------------------
(***************************************************************************)
(* Identity resolution of properties: `generate` proposes pairs that may be*)
(* one property, `review` decides a pair and may make one of the two an    *)
(* alias of the other, and the writers that aim at a property refuse one   *)
(* that is an alias.  Properties are numbered in the order of their ids,   *)
(* the order in which every transaction locks them.                        *)
(*                                                                         *)
(* Each actor runs one transaction.  A step is one statement that waits,   *)
(* reads what it decides on, or commits; a REPEATABLE READ matching run is *)
(* a writer whose check reads the state its snapshot was taken from.       *)
(***************************************************************************)
EXTENDS Naturals, FiniteSets

CONSTANTS
  Actors, Properties,
  Places,   \* a property's type and known canonical location, as one value
  None,
  Plans,    \* the workloads to explore: what each actor does
  Worlds    \* the states they may start from: [place, aliasOf, status]

Pairs     == {pr \in Properties \X Properties : pr[1] < pr[2]}
Open      == {"PENDING_REVIEW", "UNSURE"}
Final     == {"CONFIRMED_SAME", "CONFIRMED_DISTINCT"}
Decisions == Final \union {"UNSURE"}
Work      == Properties \X (Actors \union {None})

(* The writers, by what they do first.  `offer` stands for create_offer,   *)
(* create_relation and record_claim, `match` for the matching run,         *)
(* `opportunity` for the approval, `reconfirm` for reconfirm_availability  *)
(* and resolve, `patch` for patch_property behind its version check.       *)
Writing    == {"offer", "match", "opportunity", "reconfirm", "patch"}
Fault_ApprovalReadsFirst == {"reconfirm", "patch"}
LockFirst  == {"opportunity", "reconfirm", "patch"}
CheckFirst == Writing \ LockFirst
Kinds      == Writing \union {"review", "generate"}

(* `property` is the writer's target, generate's focus, or the property a  *)
(* review chooses as the canonical one.                                    *)
Job == [kind : Kinds, pair : Pairs, decision : Decisions,
        property : Properties \union {None}, place : Places \union {None}]
World == [place   : [Properties -> Places \union {None}],
          aliasOf : [Properties -> Properties \union {None}],
          status  : [Pairs -> Open \union Final \union {"none"}]]

ASSUME PropertiesAssumption == Properties \subseteq Nat /\ None \notin Properties \union Places
ASSUME PlansAssumption ==
  \A p \in Plans :
    /\ p \in [Actors -> Job]
    /\ \A t \in Actors :
         /\ p[t].kind \in Writing => p[t].property # None
         /\ p[t].kind = "review" /\ p[t].decision = "CONFIRMED_SAME" =>
              p[t].property \in {p[t].pair[1], p[t].pair[2]}

ASSUME WorldsAssumption ==
  \A w \in Worlds :
    /\ w \in World
    /\ \A p \in Properties : w.aliasOf[p] # None => w.aliasOf[w.aliasOf[p]] = None
    /\ \A pr \in Pairs : w.status[pr] = "CONFIRMED_SAME"
                           <=> w.aliasOf[pr[1]] = pr[2] \/ w.aliasOf[pr[2]] = pr[1]

VARIABLES
  plan,      \* what each actor does; never changes
  place, aliasOf, status,
  open,      \* open matches and opportunities: <<property, who made it>>
  tasks,     \* the ones a RESOLVE_IDENTITY task names
  at,        \* where each transaction stands
  todo,      \* the pairs a generate still considers
  proposed,  \* the candidates it has inserted and not committed
  raising,   \* the tasks a review has inserted and not committed
  held,      \* the row locks on properties
  answer

INSTANCE RowLocks WITH Txns <- Actors, Rows <- Properties

store == <<place, aliasOf, status, open, tasks>>
own   == <<todo, proposed, raising>>
vars  == <<plan, store, at, own, held, answer>>

Steps == {"idle", "candidate", "first", "second", "read", "lock", "check", "record",
          "insert", "commit", "done"}

TypeOK ==
  /\ plan \in Plans
  /\ place \in [Properties -> Places \union {None}]
  /\ aliasOf \in [Properties -> Properties \union {None}]
  /\ status \in [Pairs -> Open \union Final \union {"none"}]
  /\ open \subseteq Work /\ tasks \subseteq Work
  /\ at \in [Actors -> Steps]
  /\ todo \in [Actors -> SUBSET Pairs]
  /\ proposed \in [Actors -> SUBSET Pairs]
  /\ raising \in [Actors -> SUBSET Work]
  /\ HeldType
  /\ answer \in [Actors -> {"none", "written", "refused", "error"}]

Init ==
  /\ plan \in Plans
  /\ \E w \in Worlds : place = w.place /\ aliasOf = w.aliasOf /\ status = w.status
  /\ open = Properties \X {None}
  /\ tasks = {p \in Properties : aliasOf[p] # None} \X {None}
  /\ at = [t \in Actors |-> "idle"]
  /\ todo = [t \in Actors |-> {}] /\ proposed = [t \in Actors |-> {}]
  /\ raising = [t \in Actors |-> {}]
  /\ Unlocked
  /\ answer = [t \in Actors |-> "none"]

-----------------------------------------------------------------------------
Goto(t, step) == at' = [at EXCEPT ![t] = step]

(* COMMIT and ROLLBACK both end the transaction and free its locks.        *)
End(t, what) ==
  /\ Goto(t, "done")
  /\ answer' = [answer EXCEPT ![t] = what]
  /\ todo' = [todo EXCEPT ![t] = {}] /\ proposed' = [proposed EXCEPT ![t] = {}]
  /\ raising' = [raising EXCEPT ![t] = {}]
  /\ Release(t)

(* A review of a candidate that does not exist is a 404.                   *)
CanBegin(t) == at[t] = "idle" /\ (plan[t].kind = "review" => status[plan[t].pair] # "none")

Begin(t) ==
  /\ CanBegin(t)
  /\ Goto(t, CASE plan[t].kind = "review"      -> "candidate"
               [] plan[t].kind = "generate"    -> "read"
               [] plan[t].kind \in CheckFirst  -> "check"
               [] plan[t].kind \in LockFirst   -> "lock")
  /\ UNCHANGED <<plan, store, own, held, answer>>

IsAlias(p)   == aliasOf[p] # None
Canonical(p) == \E q \in Properties : aliasOf[q] = p

-----------------------------------------------------------------------------
(* Review.                                                                 *)
Pair(t)  == plan[t].pair
Alias(t) == IF plan[t].property = Pair(t)[1] THEN Pair(t)[2] ELSE Pair(t)[1]

HoldsCandidate(t, pr) ==
  /\ plan[t].kind = "review" /\ Pair(t) = pr
  /\ at[t] \in {"first", "second", "check", "record", "commit"}

Fault_AnyStatus(t) == FALSE
Decided(t) == status[Pair(t)] \in Final

(* The candidate FOR UPDATE: a reviewer that waited reads the decision.    *)
LockCandidate(t) ==
  /\ plan[t].kind = "review" /\ at[t] = "candidate"
  /\ \A u \in Actors \ {t} : ~HoldsCandidate(u, Pair(t))
  /\ \/ Decided(t) /\ End(t, "refused")
     \/ ~Decided(t) /\ Goto(t, "first") /\ UNCHANGED <<own, held, answer>>
  /\ UNCHANGED <<plan, store>>

Fault_NoKeyUpdate == NoKeyUpdate
ReviewMode == Update

Fault_CanonicalFirst(t) ==
  IF plan[t].property = None THEN Pair(t) ELSE <<plan[t].property, Alias(t)>>
(* Both properties, in id order.                                           *)
LockOrder(t) == Pair(t)

LockPair(t) ==
  /\ plan[t].kind = "review"
  /\ \/ at[t] = "first"  /\ Lock(t, LockOrder(t)[1], ReviewMode) /\ Goto(t, "second")
     \/ at[t] = "second" /\ Lock(t, LockOrder(t)[2], ReviewMode) /\ Goto(t, "check")
  /\ UNCHANGED <<plan, store, own, answer>>

Fault_OnlyCanonicalChecked(t) == plan[t].decision = "CONFIRMED_SAME" /\ IsAlias(plan[t].property)
(* No decision on an alias, and no alias of what is itself canonical.      *)
NotCanonical(t) ==
  \/ IsAlias(Pair(t)[1]) \/ IsAlias(Pair(t)[2])
  \/ plan[t].decision = "CONFIRMED_SAME" /\ Canonical(Alias(t))

CheckPair(t) ==
  /\ plan[t].kind = "review" /\ at[t] = "check"
  /\ \/ NotCanonical(t) /\ End(t, "refused")
     \/ ~NotCanonical(t) /\ Goto(t, "record") /\ UNCHANGED <<own, held, answer>>
  /\ UNCHANGED <<plan, store>>

OpenOn(p) == {w \in open : w[1] = p}

(* The alias and the decision are written, then every open match and       *)
(* opportunity on the alias gets a task.  A task's INSERT also waits, by   *)
(* its foreign keys, for the request and the match it names, which nothing *)
(* here locks; MatchReview has them, with the circle they can close.       *)
Record(t) ==
  /\ plan[t].kind = "review" /\ at[t] = "record"
  /\ raising' = [raising EXCEPT ![t] =
       IF plan[t].decision = "CONFIRMED_SAME" THEN OpenOn(Alias(t)) ELSE {}]
  /\ Goto(t, "commit")
  /\ UNCHANGED <<plan, store, todo, proposed, held, answer>>

CommitReview(t) ==
  /\ plan[t].kind = "review" /\ at[t] = "commit"
  /\ status' = [status EXCEPT ![Pair(t)] = plan[t].decision]
  /\ aliasOf' = IF plan[t].decision = "CONFIRMED_SAME"
                THEN [aliasOf EXCEPT ![Alias(t)] = plan[t].property] ELSE aliasOf
  /\ tasks' = tasks \union raising[t]
  /\ End(t, "written")
  /\ UNCHANGED <<plan, place, open>>

-----------------------------------------------------------------------------
(* Generate.                                                               *)
Blocked(pr) == place[pr[1]] # None /\ place[pr[1]] = place[pr[2]]

Involved(t) ==
  {p \in Properties : plan[t].property = p \/ \E pr \in todo[t] : p \in {pr[1], pr[2]}}

Before(pr, qr) == pr[1] < qr[1] \/ (pr[1] = qr[1] /\ pr[2] <= qr[2])

(* The blocked pairs are read without a lock.                              *)
ReadPairs(t) ==
  /\ plan[t].kind = "generate" /\ at[t] = "read"
  /\ todo' = [todo EXCEPT ![t] =
       {pr \in Pairs : Blocked(pr) /\ plan[t].property \in {None, pr[1], pr[2]}}]
  /\ Goto(t, "lock")
  /\ UNCHANGED <<plan, store, proposed, raising, held, answer>>

LockInvolved(t) ==
  LET left == {p \in Involved(t) : held[t][p] = 0}
  IN /\ plan[t].kind = "generate" /\ at[t] = "lock"
     /\ \/ left = {} /\ Goto(t, "check") /\ UNCHANGED held
        \/ \E p \in left : (\A q \in left : p <= q) /\ Lock(t, p, Share) /\ UNCHANGED at
     /\ UNCHANGED <<plan, store, own, answer>>

Fault_AsRead(pr) == TRUE
StillBlocked(pr) == Blocked(pr) /\ ~IsAlias(pr[1]) /\ ~IsAlias(pr[2])

RecheckPairs(t) ==
  /\ plan[t].kind = "generate" /\ at[t] = "check"
  /\ IF plan[t].property # None /\ IsAlias(plan[t].property)
     THEN End(t, "refused")
     ELSE /\ todo' = [todo EXCEPT ![t] = {pr \in todo[t] : StillBlocked(pr)}]
          /\ Goto(t, "insert")
          /\ UNCHANGED <<proposed, raising, held, answer>>
  /\ UNCHANGED <<plan, store>>

(* A pair's candidate exists, or is inserted under a savepoint; the unique *)
(* index makes the INSERT wait for another generate's uncommitted row.     *)
InsertCandidate(t) ==
  /\ plan[t].kind = "generate" /\ at[t] = "insert"
  /\ \/ todo[t] = {} /\ Goto(t, "commit") /\ UNCHANGED <<todo, proposed>>
     \/ \E pr \in todo[t] :
          /\ \A qr \in todo[t] : Before(pr, qr)
          /\ \/ status[pr] # "none" /\ UNCHANGED proposed
             \/ /\ status[pr] = "none"
                /\ \A u \in Actors \ {t} : pr \notin proposed[u]
                /\ proposed' = [proposed EXCEPT ![t] = @ \union {pr}]
          /\ todo' = [todo EXCEPT ![t] = @ \ {pr}]
          /\ UNCHANGED at
  /\ UNCHANGED <<plan, store, raising, held, answer>>

CommitGenerate(t) ==
  /\ plan[t].kind = "generate" /\ at[t] = "commit"
  /\ status' = [pr \in Pairs |-> IF pr \in proposed[t] THEN "PENDING_REVIEW" ELSE status[pr]]
  /\ End(t, "written")
  /\ UNCHANGED <<plan, place, aliasOf, open, tasks>>

-----------------------------------------------------------------------------
(* The writers.  An INSERT locks the property through its foreign key.     *)
WriterMode(kind) ==
  CASE kind \in CheckFirst -> KeyShare [] kind = "opportunity" -> Share [] OTHER -> Update

LockTarget(t) ==
  /\ plan[t].kind \in Writing /\ at[t] = "lock"
  /\ Lock(t, plan[t].property, WriterMode(plan[t].kind))
  /\ Goto(t, IF plan[t].kind \in LockFirst THEN "check" ELSE "commit")
  /\ UNCHANGED <<plan, store, own, answer>>

Fault_NoRefusal(p) == FALSE
(* refuse_alias, and the other writers' reading of the aliases.            *)
RefuseAlias(p) == IsAlias(p)

CheckTarget(t) ==
  /\ plan[t].kind \in Writing /\ at[t] = "check"
  /\ \/ RefuseAlias(plan[t].property) /\ End(t, "refused")
     \/ /\ ~RefuseAlias(plan[t].property)
        /\ Goto(t, IF plan[t].kind \in LockFirst THEN "commit" ELSE "lock")
        /\ UNCHANGED <<own, held, answer>>
  /\ UNCHANGED <<plan, store>>

CommitWrite(t) ==
  LET p == plan[t].property
  IN /\ plan[t].kind \in Writing /\ at[t] = "commit"
     /\ place' = IF plan[t].kind = "patch" THEN [place EXCEPT ![p] = plan[t].place] ELSE place
     /\ open' = IF plan[t].kind \in {"match", "opportunity"} THEN open \union {<<p, t>>} ELSE open
     /\ End(t, "written")
     /\ UNCHANGED <<plan, aliasOf, status, tasks>>

(* The process dies or a statement fails: nothing survives.                *)
Fail(t) ==
  /\ at[t] \notin {"idle", "done"}
  /\ End(t, "error")
  /\ UNCHANGED <<plan, store>>

Run(t) ==
  \/ LockCandidate(t) \/ LockPair(t) \/ CheckPair(t) \/ Record(t) \/ CommitReview(t)
  \/ ReadPairs(t) \/ LockInvolved(t) \/ RecheckPairs(t) \/ InsertCandidate(t)
  \/ CommitGenerate(t) \/ LockTarget(t) \/ CheckTarget(t) \/ CommitWrite(t)

Finished ==
  /\ \A t \in Actors : at[t] = "done" \/ (at[t] = "idle" /\ ~CanBegin(t))
  /\ UNCHANGED vars

Next == Finished \/ \E t \in Actors : Begin(t) \/ Run(t) \/ Fail(t)

(* PostgreSQL grants a free lock, and nothing else makes a step wait.      *)
Fairness == \A t \in Actors : WF_vars(Run(t))

Spec == Init /\ [][Next]_vars /\ Fairness

-----------------------------------------------------------------------------
(* An alias names a canonical property: following it once is enough, for   *)
(* every reader that resolves a property (ADR-03, no chains), and the pair *)
(* is CONFIRMED_SAME exactly when one of its properties is the other's     *)
(* alias, however many reviews overlap.                                    *)
NoChains ==
  /\ \A p \in Properties : IsAlias(p) => ~IsAlias(aliasOf[p])
  /\ \A pr \in Pairs : status[pr] = "CONFIRMED_SAME"
                         <=> aliasOf[pr[1]] = pr[2] \/ aliasOf[pr[2]] = pr[1]

(* What a transaction has checked still holds when it commits, because of  *)
(* what it holds: a review its candidate and both properties, ...          *)
ReviewOK(t) ==
  plan[t].kind = "review" =>
    /\ at[t] \in {"second", "check", "record", "commit"} => held[t][Pair(t)[1]] >= Update
    /\ at[t] \in {"check", "record", "commit"} => held[t][Pair(t)[2]] >= Update
    /\ at[t] \notin {"idle", "done"} => status[Pair(t)] # "none"
    /\ at[t] \in {"first", "second", "check", "record", "commit"} =>
         status[Pair(t)] \notin Final
    /\ at[t] \in {"record", "commit"} => ~NotCanonical(t)
    /\ at[t] = "commit" /\ plan[t].decision = "CONFIRMED_SAME" =>
         OpenOn(Alias(t)) \subseteq raising[t]

(* ... a generate every property it may pair, ...                          *)
GenerateOK(t) ==
  plan[t].kind = "generate" =>
    /\ at[t] \in {"check", "insert", "commit"} =>
         \A pr \in todo[t] \union proposed[t] :
           held[t][pr[1]] >= Share /\ held[t][pr[2]] >= Share
    /\ at[t] \in {"insert", "commit"} =>
         \A pr \in todo[t] \union proposed[t] : StillBlocked(pr)
    /\ \A p \in Properties : held[t][p] = 0 \/ held[t][p] >= Share

(* ... a writer the property it aims at.                                   *)
WriterOK(t) ==
  plan[t].kind \in Writing =>
    LET p == plan[t].property
    IN /\ at[t] = "commit" \/ (at[t] = "check" /\ plan[t].kind \in LockFirst) =>
            held[t][p] >= WriterMode(plan[t].kind)
       /\ at[t] = "commit" /\ plan[t].kind \in LockFirst => ~IsAlias(p)

ProposedOK(t) ==
  \A pr \in proposed[t] :
    plan[t].kind = "generate" /\ at[t] \in {"insert", "commit"} /\ status[pr] = "none"

(* No two transactions work on one candidate.                              *)
CandidatesOK ==
  \A t, u \in Actors : t # u =>
    /\ \A pr \in Pairs : ~(HoldsCandidate(t, pr) /\ HoldsCandidate(u, pr))
    /\ proposed[t] \intersect proposed[u] = {}

(* The inductive invariant behind NoChains and the properties below.       *)
IInv ==
  /\ TypeOK /\ Compatible /\ NoChains /\ CandidatesOK
  /\ \A t \in Actors : ReviewOK(t) /\ GenerateOK(t) /\ WriterOK(t) /\ ProposedOK(t)

(* A final decision is never changed, and a pair one of whose properties   *)
(* is an alias is not decided at all: two reviewers, or a review and an    *)
(* aliasing it waited for, cannot slip past the check (identity.review).   *)
DecidedOnce ==
  [][\A pr \in Pairs :
       status'[pr] # status[pr] =>
         /\ status[pr] \notin Final
         /\ ~IsAlias(pr[1]) /\ ~IsAlias(pr[2])]_vars

(* A candidate is written only while its two properties are canonical and  *)
(* of one type and place, though the pairs were read before any lock       *)
(* (_lock_and_recheck).                                                    *)
ProposedAsIs ==
  [][\A pr \in Pairs :
       status[pr] = "none" /\ status'[pr] # "none" =>
         /\ place[pr[1]] # None /\ place[pr[1]] = place[pr[2]]
         /\ ~IsAlias(pr[1]) /\ ~IsAlias(pr[2])]_vars

(* When a property becomes an alias, every open match and opportunity on   *)
(* it has its task: none was committed between reading them and the COMMIT *)
(* (raise_review_work, ADR-03's corrective effect).                        *)
WorkSurfaced ==
  [][\A p \in Properties : aliasOf'[p] # aliasOf[p] => OpenOn(p) \subseteq tasks']_vars

(* A writer that locks the property before it looks for an alias writes to *)
(* no alias; an approval, a confirmation or a patch is refused instead.    *)
LockedWritesCanonical ==
  [][\A t \in Actors :
       plan[t].kind \in {"opportunity", "reconfirm", "patch"}
         /\ answer[t] = "none" /\ answer'[t] = "written"
         => ~IsAlias(plan[t].property)]_vars

(* Every transaction that begins ends, as far as the properties' locks go: *)
(* they are taken in one order, so reviews, generates and writers never    *)
(* wait for each other's properties in a circle.  The rows that a review's *)
(* tasks wait for besides are another matter (NoCircularWait, MatchReview).*)
Ends == \A t \in Actors : at[t] # "idle" ~> at[t] = "done"

(* What refuse_alias and decision F-2 state of every new write: it cannot  *)
(* interleave with an aliasing, and a write that names an alias is refused.*)
NewWritesCanonical ==
  [][\A t \in Actors :
       plan[t].kind \in Writing /\ answer[t] = "none" /\ answer'[t] = "written"
         => ~IsAlias(plan[t].property)]_vars
=============================================================================
