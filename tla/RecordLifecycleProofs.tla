----------------------- MODULE RecordLifecycleProofs ------------------------
(* Proofs about RecordLifecycle, for any number of actors, criteria and    *)
(* sources, any window and any workload.                                   *)
EXTENDS RecordLifecycle, TLAPS

USE DEF Update, NoKeyUpdate, Share, KeyShare, Of, Mine, Now

Answers == {"none", "written", "refused", "constraint", "error"}

(* A workload gives every actor a row, and a status a record can take.     *)
LEMMA JobType ==
  ASSUME TypeOK, NEW t \in Actors
  PROVE  /\ plan[t] \in Job /\ Of(t) \in Rows
         /\ plan[t].to \in Statuses /\ plan[t].terms \in Terms
         /\ plan[t].kind = "criterion" => Of(t) = "request"
         /\ plan[t].kind = "source" => Of(t) = "offer"
         /\ plan[t].kind = "pass" => Of(t) \in {"request", "property"}
         /\ plan[t].slot \in Slots /\ plan[t].source \in Sources
         /\ plan[t].given \in Times \union {None}
<1>1. plan[t] \in Calls
  BY DEF TypeOK
<1>2. plan[t] \in Job
  BY <1>1 DEF Calls, RequestPatches, OfferPatches, PropertyPatches, Patches, RequestMoves, OfferMoves,
              RequestConfirms, OfferConfirms, PropertyConfirms, CriterionCalls, SourceLinks, Passes
<1>3. /\ plan[t].kind = "criterion" => Of(t) = "request"
      /\ plan[t].kind = "source" => Of(t) = "offer"
      /\ plan[t].kind = "pass" => Of(t) \in {"request", "property"}
  BY <1>1 DEF Calls, RequestPatches, OfferPatches, PropertyPatches, Patches, RequestMoves, OfferMoves,
              RequestConfirms, OfferConfirms, PropertyConfirms, CriterionCalls, SourceLinks, Passes
<1> QED BY <1>2, <1>3 DEF Job

(* A move aims at a status, and a reconfirmed property is available or not:*)
(* nobody asks for a record to be absent.                                  *)
LEMMA JobTarget ==
  ASSUME TypeOK, NEW t \in Actors
  PROVE  /\ plan[t].kind = "move" => plan[t].to # "absent"
         /\ plan[t].kind = "reconfirm" /\ Of(t) = "property" => plan[t].to # "absent"
<1>1. plan[t] \in Calls
  BY DEF TypeOK
<1> QED
  BY <1>1 DEF Calls, RequestPatches, OfferPatches, PropertyPatches, Patches, RequestMoves, OfferMoves,
              RequestConfirms, OfferConfirms, PropertyConfirms, CriterionCalls, SourceLinks, Passes,
              RequestTargets, OfferTargets, Availability, StaleConvertible

LEMMA RowType ==
  ASSUME TypeOK, NEW r \in Rows
  PROVE  /\ row[r] \in Row /\ row[r].status \in Statuses /\ row[r].version \in Nat
         /\ row[r].closed \in BOOLEAN /\ row[r].confirmed \in Times \union {None}
         /\ row[r].terms \in Terms
BY DEF TypeOK, Row

LEMMA NamedStatuses ==
  /\ {"RAW", "CONTACTED", "QUALIFIED", "ACTIVE", "NEEDS_CONFIRMATION", "PAUSED", "CLOSED",
      "DRAFT", "absent"} \subseteq Statuses
  /\ Availability \subseteq Statuses /\ "absent" \notin Availability
  /\ StaleConvertible \subseteq Statuses
BY DEF Statuses, RequestEdges, OfferEdges, Availability, StaleConvertible

(* Taking a lock keeps conflicting modes apart and changes one entry.      *)
LEMMA LockStep ==
  ASSUME HeldType, Compatible, NEW t \in Actors, NEW r \in Rows, Lock(t, r, Update)
  PROVE  /\ HeldType' /\ Compatible'
         /\ held'[t][r] = Update
         /\ \A u \in Actors, q \in Rows : u # t \/ q # r => held'[u][q] = held[u][q]
<1> USE DEF HeldType, Compatible, Lock
<1>1. \A u \in Actors \ {t} : held[u][r] = 0
  BY DEF Blockers
<1>2. HeldType' /\ held'[t][r] = Update
  OBVIOUS
<1>3. \A u \in Actors, q \in Rows : u # t \/ q # r => held'[u][q] = held[u][q]
  OBVIOUS
<1>4. \A u, v \in Actors, q \in Rows : u # v => held'[u][q] + held'[v][q] <= 4
  <2> SUFFICES ASSUME NEW u \in Actors, NEW v \in Actors, NEW q \in Rows, u # v
               PROVE  held'[u][q] + held'[v][q] <= 4
    OBVIOUS
  <2>1. CASE q = r /\ t \in {u, v}
    BY <2>1, <1>1, <1>2, <1>3
  <2>2. CASE ~(q = r /\ t \in {u, v})
    BY <2>2, <1>3
  <2> QED BY <2>1, <2>2
<1> QED BY <1>2, <1>3, <1>4

(* Ending a transaction frees what it held and changes no other's.         *)
LEMMA EndStep ==
  ASSUME TypeOK, Compatible, NEW t \in Actors, NEW what \in Answers, End(t, what)
  PROVE  /\ plan' = plan /\ clock' = clock
         /\ at' \in [Actors -> Steps] /\ seen' \in [Actors -> Reads \union {None}]
         /\ cleared' \in [Actors -> SUBSET Sources] /\ answer' \in [Actors -> Answers]
         /\ HeldType' /\ Compatible'
         /\ at'[t] = "done" /\ answer'[t] = what
         /\ \A u \in Actors \ {t} : /\ at'[u] = at[u] /\ held'[u] = held[u]
                                    /\ seen'[u] = seen[u] /\ cleared'[u] = cleared[u]
                                    /\ answer'[u] = answer[u]
<1> USE DEF TypeOK, End, Goto, Release, HeldType
<1>1. /\ at' \in [Actors -> Steps] /\ at'[t] = "done"
      /\ seen' \in [Actors -> Reads \union {None}]
      /\ cleared' \in [Actors -> SUBSET Sources]
  BY DEF Steps, Reads
<1>2. answer' \in [Actors -> Answers] /\ answer'[t] = what
  BY DEF Answers
<1>3. HeldType' /\ \A r \in Rows : held'[t][r] = 0
  OBVIOUS
<1>4. \A u \in Actors \ {t} : /\ at'[u] = at[u] /\ held'[u] = held[u]
                              /\ seen'[u] = seen[u] /\ cleared'[u] = cleared[u]
                              /\ answer'[u] = answer[u]
  OBVIOUS
<1>5. Compatible'
  <2> SUFFICES ASSUME NEW u \in Actors, NEW v \in Actors, NEW r \in Rows, u # v
               PROVE  held'[u][r] + held'[v][r] <= 4
    BY DEF Compatible
  <2>1. held[u][r] + held[v][r] <= 4 /\ held[u][r] \in 0..4 /\ held[v][r] \in 0..4
    BY DEF Compatible
  <2> QED BY <2>1, <1>3, <1>4
<1> QED BY <1>1, <1>2, <1>3, <1>4, <1>5

(* Whoever holds a row, or finds it free to UPDATE, is alone in deciding   *)
(* on it.                                                                  *)
LEMMA Alone ==
  ASSUME IInv, NEW t \in Actors,
         held[t][Of(t)] = Update \/ Blockers(t, Of(t), NoKeyUpdate) = {}
  PROVE  \A u \in Actors \ {t} : Deciding(u) => Of(u) # Of(t)
<1> SUFFICES ASSUME NEW u \in Actors \ {t}, Deciding(u), Of(u) = Of(t)
             PROVE  FALSE
  OBVIOUS
<1>1. Of(t) \in Rows /\ held[u][Of(t)] = Update
  BY JobType DEF IInv, DecidersHold
<1>2. held[t][Of(t)] \in 0..4 /\ held[t][Of(t)] + held[u][Of(t)] <= 4
  BY <1>1 DEF IInv, Compatible, TypeOK, HeldType
<1>3. CASE held[t][Of(t)] = Update
  BY <1>1, <1>2, <1>3
<1>4. CASE Blockers(t, Of(t), NoKeyUpdate) = {}
  BY <1>1, <1>4 DEF Blockers
<1> QED BY <1>3, <1>4

(* What a last step has to show: it changes its own row and what hangs off *)
(* it, it is alone in deciding on it, and the version tells.               *)
LEMMA Ending ==
  ASSUME IInv, NEW t \in Actors, NEW what \in Answers \ {"constraint"}, End(t, what),
         row' \in [Rows -> Row], criteria' \in [Criteria -> Slots \union {None}],
         primaries' \subseteq Sources,
         \A r \in Rows \ {Of(t)} : row'[r] = row[r],
         row'[Of(t)] = Mine(t) \/ (row'[Of(t)].version > Mine(t).version
                                     /\ row'[Of(t)].status # "absent"),
         criteria' = criteria \/ (Of(t) = "request" /\ row'[Of(t)].version > Mine(t).version),
         primaries' = primaries \/ Of(t) = "offer",
         \/ row' = row /\ criteria' = criteria /\ primaries' = primaries
         \/ \A u \in Actors \ {t} : Deciding(u) => Of(u) # Of(t),
         ClosedIsStamped(row'), TermsCoherent(row'),
         SlotsDistinct(criteria'), OnePrimary(primaries')
  PROVE  IInv'
<1>0. TypeOK /\ Compatible
  BY DEF IInv
<1>1. /\ plan' = plan /\ clock' = clock
      /\ at' \in [Actors -> Steps] /\ seen' \in [Actors -> Reads \union {None}]
      /\ cleared' \in [Actors -> SUBSET Sources] /\ answer' \in [Actors -> Answers]
      /\ HeldType' /\ Compatible'
      /\ at'[t] = "done" /\ answer'[t] = what
      /\ \A u \in Actors \ {t} : /\ at'[u] = at[u] /\ held'[u] = held[u]
                                 /\ seen'[u] = seen[u] /\ cleared'[u] = cleared[u]
                                 /\ answer'[u] = answer[u]
  BY <1>0, EndStep
<1>2. TypeOK'
  BY <1>0, <1>1 DEF TypeOK, Answers
<1>3. \A u \in Actors : Of(u)' = Of(u) /\ Of(u) \in Rows
  BY <1>0, <1>1, JobType
<1>4. \A u \in Actors : Mine(u)' = Mine(u) \/ (Of(u) = Of(t) /\ Mine(u)'.version > Mine(u).version
                                                  /\ Mine(u)'.status # "absent")
  BY <1>3
<1>5. \A u \in Actors \ {t} :
        Deciding(u) => /\ Mine(u)' = Mine(u)
                       /\ Of(u) = "request" => criteria' = criteria
                       /\ Of(u) = "offer" => primaries' = primaries
  BY <1>3
<1>6. StepsFit'
  <2> SUFFICES ASSUME NEW u \in Actors PROVE
         /\ at'[u] = "merge"  => Merges(u)'
         /\ at'[u] = "lock"   => LocksFirst(u)'
         /\ at'[u] = "apply"  => /\ plan[u].kind = "move" /\ Of(u) = "offer"
                                 /\ MayMoveOffer(u, seen'[u].row.status)
         /\ at'[u] = "grab"   => plan[u].kind = "pass"
         /\ at'[u] = "slot"   => plan[u].kind \in {"criterion", "source"}
         /\ at'[u] = "decide" => LocksFirst(u)' \/ plan[u].kind = "pass"
         /\ at'[u] \in {"merge", "lock", "apply", "slot", "decide"} => Mine(u)'.status # "absent"
         /\ at'[u] \in {"merge", "apply", "slot", "decide"} => seen'[u] \in Reads
         /\ at'[u] = "lock" /\ plan[u].kind = "patch" => seen'[u] \in Reads
    BY <1>1 DEF StepsFit, MayMoveOffer
  <2>1. CASE u = t
    BY <1>1, <2>1
  <2>2. CASE u # t
    BY <1>1, <1>4, <2>2, SMTT(30) DEF IInv, StepsFit, LocksFirst, MayMoveOffer, Merges
  <2> QED BY <2>1, <2>2
<1>7. DecidersHold'
  BY <1>1 DEF IInv, DecidersHold, Deciding
<1>8. SeenIsCurrent'
  <2> SUFFICES ASSUME NEW u \in Actors, Deciding(u)', plan[u].kind # "patch" PROVE SeenIsNow(u)'
    BY <1>1 DEF SeenIsCurrent
  <2>1. u # t /\ Deciding(u)
    BY <1>1 DEF Deciding
  <2> QED BY <1>1, <1>3, <1>5, <2>1 DEF IInv, SeenIsCurrent, SeenIsNow
<1>9. VersionsName'
  <2> SUFFICES ASSUME NEW u \in Actors, plan[u].kind = "patch", at'[u] \in {"merge", "lock", "decide"}
               PROVE  /\ seen'[u].row.version <= Mine(u)'.version
                      /\ seen'[u].row.version = Mine(u)'.version => SeenIsNow(u)'
    BY <1>1 DEF VersionsName
  <2>1. u # t /\ at[u] \in {"merge", "lock", "decide"}
    BY <1>1
  <2>2. /\ seen[u].row.version <= Mine(u).version
        /\ seen[u].row.version = Mine(u).version => SeenIsNow(u)
    BY <2>1 DEF IInv, VersionsName
  <2>3. seen[u] \in Reads /\ seen[u].row.version \in Nat /\ Mine(u).version \in Nat
    <3>1. seen[u] \in Reads
      BY <2>1 DEF IInv, StepsFit
    <3> QED BY <1>0, <1>3, <3>1, RowType DEF Reads, Row
  <2>4. Mine(u)'.version \in Nat
    BY <1>2, <1>3 DEF TypeOK, Row
  <2>5. CASE Mine(u)' = Mine(u) /\ (Of(u) = "request" => criteria' = criteria)
    BY <2>1, <2>2, <2>5, <1>1, <1>3 DEF SeenIsNow
  <2>6. CASE Mine(u)'.version > Mine(u).version
    BY <2>1, <2>2, <2>3, <2>4, <2>6, <1>1
  <2>7. CASE Mine(u)' = Mine(u) /\ Of(u) = "request" /\ criteria' # criteria
    <3>1. Of(t) = "request" /\ row'[Of(t)].version > Mine(t).version
      BY <2>7
    <3>2. Mine(u)'.version > Mine(u).version
      BY <3>1, <2>7, <1>3
    <3> QED BY <2>1, <2>2, <2>3, <2>4, <3>2, <1>1
  <2> QED BY <2>5, <2>6, <2>7, <1>4
<1>12. BudgetsStand'
  <2> SUFFICES ASSUME NEW u \in Actors, Merges(u)', at'[u] \in {"lock", "decide"}, Matches(u)'
               PROVE  ~BudgetConflict(u)'
    BY <1>1 DEF BudgetsStand
  <2>1. /\ u # t /\ at[u] \in {"lock", "decide"} /\ Merges(u) /\ plan[u].kind = "patch"
        /\ seen'[u].row.version = Mine(u)'.version /\ seen'[u] = seen[u]
    BY <1>1 DEF Merges, Matches
  <2>2. seen[u].row.version <= Mine(u).version
    BY <2>1 DEF IInv, VersionsName
  <2>3. seen[u].row.version \in Nat /\ Mine(u).version \in Nat
    <3>1. seen[u] \in Reads
      BY <2>1 DEF IInv, StepsFit
    <3> QED BY <1>0, <1>3, <3>1, RowType DEF Reads, Row
  <2>4. Mine(u)' = Mine(u)
    BY <1>4, <2>1, <2>2, <2>3
  <2>5. Matches(u)
    BY <2>1, <2>4 DEF Matches
  <2>6. ~BudgetConflict(u)
    BY <2>1, <2>5 DEF IInv, BudgetsStand
  <2> QED BY <1>1, <2>4, <2>6 DEF BudgetConflict, Merged
<1>10. ChecksStand'
  <2> SUFFICES ASSUME NEW u \in Actors, at'[u] = "decide"
               PROVE  /\ plan[u].kind = "criterion" => ~Taken(u, plan[u].criterion, criteria)'
                      /\ plan[u].kind = "source" /\ plan[u].primary =>
                           cleared'[u] = primaries' \ {plan[u].source}
    BY <1>1 DEF ChecksStand
  <2>1. u # t /\ at[u] = "decide" /\ Deciding(u) /\ cleared'[u] = cleared[u]
    BY <1>1 DEF Deciding
  <2>2. /\ plan[u].kind = "criterion" => criteria' = criteria
        /\ plan[u].kind = "source" => primaries' = primaries
    BY <1>0, <1>5, <2>1, JobType
  <2> QED BY <1>1, <2>1, <2>2 DEF IInv, ChecksStand, Taken
<1>11. ConstraintsUnreached'
  BY <1>1 DEF IInv, ConstraintsUnreached
<1> QED
  BY <1>1, <1>2, <1>6, <1>7, <1>8, <1>9, <1>10, <1>11, <1>12 DEF IInv

(* A step that refuses or fails ends the transaction and writes nothing.   *)
LEMMA EndingEmpty ==
  ASSUME IInv, NEW t \in Actors, NEW what \in Answers \ {"constraint"}, End(t, what), UNCHANGED tables
  PROVE  IInv'
<1>1. row' = row /\ criteria' = criteria /\ primaries' = primaries
  BY DEF tables
<1>2. /\ row' \in [Rows -> Row] /\ criteria' \in [Criteria -> Slots \union {None}]
      /\ primaries' \subseteq Sources
      /\ ClosedIsStamped(row') /\ TermsCoherent(row')
      /\ SlotsDistinct(criteria') /\ OnePrimary(primaries')
  BY <1>1 DEF IInv, TypeOK
<1>3. row'[Of(t)] = Mine(t)
  BY <1>1
<1>4. \A r \in Rows \ {Of(t)} : row'[r] = row[r]
  BY <1>1
<1> QED BY <1>1, <1>2, <1>3, <1>4, Ending

(* What the invariant says of one actor.                                   *)
Local(t) ==
  /\ at[t] = "merge"  => Merges(t)
  /\ at[t] = "lock"   => LocksFirst(t)
  /\ at[t] = "apply"  => /\ plan[t].kind = "move" /\ Of(t) = "offer"
                         /\ MayMoveOffer(t, seen[t].row.status)
  /\ at[t] = "grab"   => plan[t].kind = "pass"
  /\ at[t] = "slot"   => plan[t].kind \in {"criterion", "source"}
  /\ at[t] = "decide" => LocksFirst(t) \/ plan[t].kind = "pass"
  /\ at[t] \in {"merge", "lock", "apply", "slot", "decide"} => Mine(t).status # "absent"
  /\ at[t] \in {"merge", "apply", "slot", "decide"} => seen[t] \in Reads
  /\ at[t] = "lock" /\ plan[t].kind = "patch" => seen[t] \in Reads
  /\ Deciding(t) => held[t][Of(t)] = Update
  /\ Deciding(t) /\ plan[t].kind # "patch" => SeenIsNow(t)
  /\ plan[t].kind = "patch" /\ at[t] \in {"merge", "lock", "decide"} =>
       /\ seen[t].row.version <= Mine(t).version
       /\ seen[t].row.version = Mine(t).version => SeenIsNow(t)
  /\ Merges(t) /\ at[t] \in {"lock", "decide"} /\ Matches(t) => ~BudgetConflict(t)
  /\ at[t] = "decide" =>
       /\ plan[t].kind = "criterion" => ~Taken(t, plan[t].criterion, criteria)
       /\ plan[t].kind = "source" /\ plan[t].primary => cleared[t] = primaries \ {plan[t].source}

LEMMA Locally ==
  (\A t \in Actors : Local(t)) <=>
    StepsFit /\ DecidersHold /\ SeenIsCurrent /\ VersionsName /\ BudgetsStand /\ ChecksStand
BY DEF Local, StepsFit, DecidersHold, SeenIsCurrent, VersionsName, BudgetsStand, ChecksStand

(* A step that writes no table has to show the actor's own part only.      *)
LEMMA Moving ==
  ASSUME IInv, NEW t \in Actors,
         UNCHANGED <<plan, clock, tables, answer>>, TypeOK', Compatible',
         \A u \in Actors \ {t} : /\ at'[u] = at[u] /\ held'[u] = held[u]
                                  /\ seen'[u] = seen[u] /\ cleared'[u] = cleared[u],
         Local(t)'
  PROVE  IInv'
<1>1. row' = row /\ criteria' = criteria /\ primaries' = primaries /\ plan' = plan /\ answer' = answer
  BY DEF tables
<1>2. \A u \in Actors : Local(u)
  BY Locally DEF IInv
<1>3. ASSUME NEW u \in Actors \ {t} PROVE Local(u)'
  <2>1. (Matches(u) => ~BudgetConflict(u)) => (Matches(u) => ~BudgetConflict(u))'
    BY <1>1, <1>3 DEF Matches, BudgetConflict, Merged
  <2> QED
    BY <1>1, <1>2, <1>3, <2>1
       DEF Local, Deciding, LocksFirst, SeenIsNow, Taken, MayMoveOffer, Merges
<1>4. \A u \in Actors : Local(u)'
  BY <1>3
<1>5. (StepsFit /\ DecidersHold /\ SeenIsCurrent /\ VersionsName /\ BudgetsStand /\ ChecksStand)'
  BY <1>4 DEF Local, StepsFit, DecidersHold, SeenIsCurrent, VersionsName, BudgetsStand, ChecksStand
<1>6. (ClosedIsStamped(row) /\ TermsCoherent(row) /\ SlotsDistinct(criteria) /\ OnePrimary(primaries)
         /\ ConstraintsUnreached)'
  BY <1>1 DEF IInv, ConstraintsUnreached
<1> QED BY <1>5, <1>6 DEF IInv

(* An UPDATE of one's own row, in the hands of one who decides alone on it. *)
LEMMA UpdateStep ==
  ASSUME TypeOK, ClosedIsStamped(row), TermsCoherent(row), NEW t \in Actors, NEW new \in Row,
         new.closed <=> Of(t) = "request" /\ new.status = "CLOSED", Coherent(new.terms),
         row' = [row EXCEPT ![Of(t)] = new]
  PROVE  /\ row' \in [Rows -> Row] /\ row'[Of(t)] = new
         /\ \A r \in Rows \ {Of(t)} : row'[r] = row[r]
         /\ ClosedIsStamped(row') /\ TermsCoherent(row')
<1>1. Of(t) \in Rows /\ row \in [Rows -> Row]
  BY JobType DEF TypeOK
<1>2. /\ row' \in [Rows -> Row] /\ row'[Of(t)] = new
      /\ \A r \in Rows \ {Of(t)} : row'[r] = row[r]
  BY <1>1
<1>3. ClosedIsStamped(row')
  BY <1>2 DEF ClosedIsStamped
<1>4. TermsCoherent(row')
  BY <1>2 DEF TermsCoherent
<1> QED BY <1>2, <1>3, <1>4

LEMMA Updating ==
  ASSUME IInv, NEW t \in Actors, NEW new \in Row,
         held[t][Of(t)] = Update \/ Blockers(t, Of(t), NoKeyUpdate) = {},
         new.status # "absent", new.version > Mine(t).version,
         new.closed <=> Of(t) = "request" /\ new.status = "CLOSED", Coherent(new.terms),
         row' = [row EXCEPT ![Of(t)] = new],
         UNCHANGED <<criteria, primaries>>, End(t, "written")
  PROVE  IInv'
<1>1. /\ row' \in [Rows -> Row] /\ row'[Of(t)] = new
      /\ \A r \in Rows \ {Of(t)} : row'[r] = row[r]
      /\ ClosedIsStamped(row') /\ TermsCoherent(row')
  BY UpdateStep DEF IInv
<1>2. \A u \in Actors \ {t} : Deciding(u) => Of(u) # Of(t)
  BY Alone
<1>3. /\ criteria' = criteria /\ primaries' = primaries
      /\ criteria' \in [Criteria -> Slots \union {None}] /\ primaries' \subseteq Sources
      /\ SlotsDistinct(criteria') /\ OnePrimary(primaries')
  BY DEF IInv, TypeOK
<1> QED BY <1>1, <1>2, <1>3, Ending DEF Answers

(* Amending a row gives a row.                                             *)
Closing(r, s, c, n) == [r EXCEPT !.status = s, !.closed = c, !.version = n]
Turning(r, s, n)    == [r EXCEPT !.status = s, !.version = n]
Stamping(r, l, n)   == [r EXCEPT !.confirmed = l, !.version = n]

LEMMA ClosingRow ==
  ASSUME NEW r \in Row, NEW s \in Statuses, NEW c \in BOOLEAN, NEW n \in Nat
  PROVE  /\ Closing(r, s, c, n) \in Row
         /\ Closing(r, s, c, n).status = s
         /\ Closing(r, s, c, n).closed = c
         /\ Closing(r, s, c, n).version = n
         /\ Closing(r, s, c, n).terms = r.terms
BY DEF Row, Closing

LEMMA TurningRow ==
  ASSUME NEW r \in Row, NEW s \in Statuses, NEW n \in Nat
  PROVE  /\ Turning(r, s, n) \in Row
         /\ Turning(r, s, n).status = s
         /\ Turning(r, s, n).closed = r.closed
         /\ Turning(r, s, n).version = n
         /\ Turning(r, s, n).terms = r.terms
BY DEF Row, Turning

LEMMA StampingRow ==
  ASSUME NEW r \in Row, NEW l \in Times \union {None}, NEW n \in Nat
  PROVE  /\ Stamping(r, l, n) \in Row
         /\ Stamping(r, l, n).status = r.status
         /\ Stamping(r, l, n).closed = r.closed
         /\ Stamping(r, l, n).version = n
         /\ Stamping(r, l, n).terms = r.terms
BY DEF Row, Stamping

Agreeing(r, x, n) == [r EXCEPT !.terms = x, !.version = n]

LEMMA AgreeingRow ==
  ASSUME NEW r \in Row, NEW x \in Terms, NEW n \in Nat
  PROVE  /\ Agreeing(r, x, n) \in Row
         /\ Agreeing(r, x, n).status = r.status
         /\ Agreeing(r, x, n).closed = r.closed
         /\ Agreeing(r, x, n).version = n
         /\ Agreeing(r, x, n).terms = x
BY DEF Row, Agreeing

LEMMA Stated ==
  ASSUME NEW r \in Row, NEW s \in Statuses
  PROVE  /\ [r EXCEPT !.status = s] \in Row
         /\ [r EXCEPT !.status = s].status = s
         /\ [r EXCEPT !.status = s].closed = r.closed
         /\ [r EXCEPT !.status = s].version = r.version
         /\ [r EXCEPT !.status = s].terms = r.terms
BY DEF Row

(* What an UPDATE of one's own row starts from.                            *)
LEMMA OwnRow ==
  ASSUME IInv, NEW t \in Actors
  PROVE  /\ Of(t) \in Rows /\ Mine(t) \in Row /\ Mine(t).version \in Nat
         /\ Mine(t).closed <=> Of(t) = "request" /\ Mine(t).status = "CLOSED"
         /\ Mine(t).terms \in Terms /\ Coherent(Mine(t).terms)
         /\ Deciding(t) => Mine(t).status # "absent" /\ held[t][Of(t)] = Update
         /\ Deciding(t) /\ plan[t].kind # "patch" => seen[t].row = Mine(t)
<1>1. Of(t) \in Rows /\ Mine(t) \in Row /\ Mine(t).version \in Nat
  BY JobType, RowType DEF IInv
<1>2. Mine(t).closed <=> Of(t) = "request" /\ Mine(t).status = "CLOSED"
  BY <1>1 DEF IInv, ClosedIsStamped
<1>5. Mine(t).terms \in Terms /\ Coherent(Mine(t).terms)
  BY <1>1 DEF Row, IInv, TermsCoherent
<1>3. Deciding(t) => Mine(t).status # "absent" /\ held[t][Of(t)] = Update
  BY DEF IInv, StepsFit, DecidersHold, Deciding
<1>4. Deciding(t) /\ plan[t].kind # "patch" => seen[t].row = Mine(t)
  BY DEF IInv, SeenIsCurrent, SeenIsNow
<1> QED BY <1>1, <1>2, <1>3, <1>4, <1>5

-----------------------------------------------------------------------------
(* The steps that end a transaction.                                       *)
LEMMA NotFoundStep ==
  ASSUME IInv, NEW t \in Actors,
         NotFound(t) \/ RefuseFuture(t) \/ RefuseOffer(t) \/ Fail(t)
  PROVE  IInv'
BY EndingEmpty DEF NotFound, RefuseFuture, RefuseOffer, Fail, Refuse, Answers

(* What a PATCH makes of the terms is coherent again: the offer's check is *)
(* made under the lock, the request's before it, with the same version.    *)
LEMMA MergedTerms ==
  ASSUME NEW t \in Actors, plan[t].terms \in Terms, NEW old \in Terms
  PROVE  /\ Merged(t, old) \in Terms
         /\ Merged(t, old).sale = old.sale
         /\ Merged(t, old).expects = IF "expects" \in plan[t].sets THEN plan[t].terms.expects
                                                                  ELSE old.expects
         /\ Merged(t, old).target = IF "target" \in plan[t].sets THEN plan[t].terms.target
                                                                ELSE old.target
         /\ Merged(t, old).max = IF "max" \in plan[t].sets THEN plan[t].terms.max ELSE old.max
BY DEF Merged, Terms

LEMMA PatchCoherent ==
  ASSUME IInv, NEW t \in Actors, at[t] = "decide", plan[t].kind = "patch", Matches(t), ~PatchRefused(t)
  PROVE  Merged(t, Mine(t).terms) \in Terms /\ Coherent(Merged(t, Mine(t).terms))
<1> DEFINE old == Mine(t).terms
           new == Merged(t, old)
<1>1. old \in Terms /\ Coherent(old) /\ plan[t].terms \in Terms
  BY OwnRow, JobType DEF IInv
<1>2. /\ new \in Terms /\ new.sale = old.sale
      /\ new.expects = IF "expects" \in plan[t].sets THEN plan[t].terms.expects ELSE old.expects
      /\ new.target = IF "target" \in plan[t].sets THEN plan[t].terms.target ELSE old.target
      /\ new.max = IF "max" \in plan[t].sets THEN plan[t].terms.max ELSE old.max
  BY <1>1, MergedTerms
<1> HIDE DEF new
<1>3. new.expects => new.sale
  BY <1>1, <1>2 DEF PatchRefused, Coherent, Terms
<1>4. ~Conflict(new)
  <2>1. CASE Of(t) = "request"
    BY <2>1 DEF Merges, IInv, BudgetsStand, BudgetConflict, new
  <2>2. CASE Of(t) # "request"
    <3>1. plan[t].sets \subseteq OfferFields \union PropertyFields
      <4>1. plan[t] \in Calls
        BY DEF IInv, TypeOK
      <4> QED BY <2>2, <4>1
            DEF Calls, RequestPatches, OfferPatches, PropertyPatches, Patches, RequestMoves, OfferMoves,
                RequestConfirms, OfferConfirms, PropertyConfirms, CriterionCalls, SourceLinks, Passes
    <3>2. "target" \notin plan[t].sets /\ "max" \notin plan[t].sets
      BY <3>1 DEF OfferFields, PropertyFields
    <3> QED BY <1>1, <1>2, <3>2 DEF Coherent, Conflict
  <2> QED BY <2>1, <2>2
<1> QED BY <1>2, <1>3, <1>4 DEF Coherent, new

LEMMA PatchStep ==
  ASSUME IInv, NEW t \in Actors, Patch(t)
  PROVE  IInv'
<1>1. CASE ~Matches(t) \/ PatchRefused(t)
  BY <1>1, EndingEmpty DEF Patch, Refuse, Answers
<1>2. CASE Matches(t) /\ ~PatchRefused(t)
  <2> DEFINE merged == Merged(t, Mine(t).terms)
             new == [Mine(t) EXCEPT !.terms = merged, !.version = Mine(t).version + 1]
  <2>1. Deciding(t) /\ merged \in Terms /\ Coherent(merged)
    BY <1>2, PatchCoherent DEF Patch, Deciding
  <2>2. /\ Write(t, [Mine(t) EXCEPT !.terms = merged])
        /\ End(t, "written") /\ UNCHANGED <<criteria, primaries>>
    BY <1>2, <2>1 DEF Patch
  <2> HIDE DEF merged
  <2>3. row' = [row EXCEPT ![Of(t)] = new]
    BY <2>2, OwnRow DEF Write, Row
  <2>4. new \in Row /\ new.status = Mine(t).status /\ new.closed = Mine(t).closed
          /\ new.version > Mine(t).version /\ new.terms = merged
    <3>1. Mine(t) \in Row /\ Mine(t).version + 1 \in Nat /\ Mine(t).version + 1 > Mine(t).version
      BY OwnRow
    <3>2. new = Agreeing(Mine(t), merged, Mine(t).version + 1)
      BY DEF Agreeing
    <3> HIDE DEF new
    <3> QED BY <2>1, <3>1, <3>2, AgreeingRow
  <2> HIDE DEF new
  <2> QED BY <2>1, <2>2, <2>3, <2>4, OwnRow, Updating
<1> QED BY <1>1, <1>2

LEMMA MoveRequestStep ==
  ASSUME IInv, NEW t \in Actors, MoveRequest(t)
  PROVE  IInv'
<1>1. CASE ~MayMoveRequest(t)
  BY <1>1, EndingEmpty DEF MoveRequest, Refuse, Answers
<1>2. CASE MayMoveRequest(t)
  <2> DEFINE new == [Mine(t) EXCEPT !.status = plan[t].to, !.closed = plan[t].to = "CLOSED",
                                    !.version = Mine(t).version + 1]
  <2>1. Deciding(t) /\ plan[t].kind = "move" /\ Of(t) = "request"
    BY DEF MoveRequest, Deciding, IInv, StepsFit, LocksFirst, LockFirst
  <2>2. seen[t].row = Mine(t)
    BY <2>1, OwnRow
  <2>3. new \in Row /\ new.status = plan[t].to /\ new.closed = (plan[t].to = "CLOSED")
          /\ new.version > Mine(t).version /\ new.terms = Mine(t).terms
    <3>1. Mine(t) \in Row /\ Mine(t).version + 1 \in Nat /\ Mine(t).version + 1 > Mine(t).version
      BY OwnRow
    <3> DEFINE closing == plan[t].to = "CLOSED"
    <3>2. plan[t].to \in Statuses /\ closing \in BOOLEAN
      BY JobType DEF IInv
    <3>3. new = Closing(Mine(t), plan[t].to, closing, Mine(t).version + 1)
      BY DEF Closing
    <3>4. closing = (plan[t].to = "CLOSED")
      OBVIOUS
    <3> HIDE DEF new, closing
    <3>5. new \in Row /\ new.status = plan[t].to /\ new.closed = closing
            /\ new.version = Mine(t).version + 1 /\ new.terms = Mine(t).terms
      BY <3>1, <3>2, <3>3, ClosingRow
    <3> QED BY <3>1, <3>4, <3>5
  <2>4. row' = [row EXCEPT ![Of(t)] = new]
    BY <1>2, <2>2 DEF MoveRequest, Write
  <2>5. UNCHANGED <<criteria, primaries>> /\ End(t, "written")
    BY <1>2 DEF MoveRequest
  <2>6. plan[t].to # "absent"
    BY <2>1, JobTarget DEF IInv
  <2> HIDE DEF new
  <2> QED BY <2>1, <2>3, <2>4, <2>5, <2>6, OwnRow, Updating, ZenonT(60)
<1> QED BY <1>1, <1>2

LEMMA MoveOfferStep ==
  ASSUME IInv, NEW t \in Actors, MoveOffer(t)
  PROVE  IInv'
<1>1. CASE ~StillExpected(t)
  BY <1>1, EndingEmpty DEF MoveOffer, Refuse, Answers
<1>2. CASE StillExpected(t)
  <2> DEFINE new == [Mine(t) EXCEPT !.status = plan[t].to, !.version = Mine(t).version + 1]
  <2>1. Of(t) = "offer"
    BY DEF MoveOffer, IInv, StepsFit
  <2>2. new \in Row /\ new.status = plan[t].to /\ new.closed = Mine(t).closed
          /\ new.version > Mine(t).version /\ new.terms = Mine(t).terms
    <3>1. Mine(t) \in Row /\ Mine(t).version + 1 \in Nat /\ Mine(t).version + 1 > Mine(t).version
      BY OwnRow
    <3>2. plan[t].to \in Statuses
      BY JobType DEF IInv
    <3>3. new = Turning(Mine(t), plan[t].to, Mine(t).version + 1)
      BY DEF Turning
    <3> HIDE DEF new
    <3> QED BY <3>1, <3>2, <3>3, TurningRow
  <2>3. row' = [row EXCEPT ![Of(t)] = new] /\ UNCHANGED <<criteria, primaries>> /\ End(t, "written")
    BY <1>2 DEF MoveOffer, Write
  <2>4. Blockers(t, Of(t), NoKeyUpdate) = {} /\ plan[t].to # "absent"
    BY JobTarget DEF MoveOffer, IInv, StepsFit
  <2> HIDE DEF new
  <2> QED BY <2>1, <2>2, <2>3, <2>4, OwnRow, Updating
<1> QED BY <1>1, <1>2

LEMMA MarkStaleStep ==
  ASSUME IInv, NEW t \in Actors, MarkStale(t)
  PROVE  IInv'
<1>1. CASE ~StillStale(Of(t))
  BY <1>1, EndingEmpty DEF MarkStale, Refuse, Answers
<1>2. CASE StillStale(Of(t))
  <2> DEFINE new == [Mine(t) EXCEPT !.status = "NEEDS_CONFIRMATION", !.version = Mine(t).version + 1]
  <2>1. Deciding(t)
    BY DEF MarkStale, Deciding
  <2>2. new \in Row /\ new.status = "NEEDS_CONFIRMATION" /\ new.closed = Mine(t).closed
          /\ new.version > Mine(t).version /\ new.terms = Mine(t).terms
    <3>1. Mine(t) \in Row /\ Mine(t).version + 1 \in Nat /\ Mine(t).version + 1 > Mine(t).version
      BY OwnRow
    <3>2. new = Turning(Mine(t), "NEEDS_CONFIRMATION", Mine(t).version + 1)
      BY DEF Turning
    <3> HIDE DEF new
    <3>3. "NEEDS_CONFIRMATION" \in Statuses
      BY NamedStatuses
    <3> QED BY <3>1, <3>2, <3>3, TurningRow
  <2>3. row' = [row EXCEPT ![Of(t)] = new] /\ UNCHANGED <<criteria, primaries>> /\ End(t, "written")
    BY <1>2 DEF MarkStale, Write
  <2>4. Mine(t).closed = FALSE
    <3>1. Mine(t).status \in {"ACTIVE"} \union StaleConvertible
      BY <1>2 DEF StillStale, GoneStale, Convertible
    <3>2. Mine(t).status # "CLOSED"
      BY <3>1 DEF StaleConvertible
    <3> QED BY <3>2, OwnRow DEF Row
  <2> HIDE DEF new
  <2> QED BY <2>1, <2>2, <2>3, <2>4, OwnRow, Updating
<1> QED BY <1>1, <1>2

(* What a reconfirmation leaves: the stamp, and for a request that waited  *)
(* for one, or a property, a status.                                       *)
LEMMA ReconfirmedRow ==
  ASSUME IInv, NEW t \in Actors, Deciding(t)
  PROVE  /\ Reconfirmed(t) \in Row /\ Reconfirmed(t).version > Mine(t).version
         /\ Reconfirmed(t).closed = Mine(t).closed /\ Reconfirmed(t).terms = Mine(t).terms
         /\ \/ Reconfirmed(t).status = Mine(t).status
            \/ Of(t) = "request" /\ Mine(t).status = "NEEDS_CONFIRMATION"
                 /\ Reconfirmed(t).status = "ACTIVE"
            \/ Of(t) = "property" /\ Reconfirmed(t).status = plan[t].to
<1>1. Stamp(t) \in Times \union {None}
  BY JobType DEF Stamp, IInv, TypeOK
<1>2. plan[t].to \in Statuses
  BY JobType DEF IInv
<1> DEFINE stamped == [Mine(t) EXCEPT !.confirmed = Stamp(t), !.version = Mine(t).version + 1]
<1>3. /\ Mine(t).version \in Nat /\ stamped \in Row
      /\ stamped.status = Mine(t).status /\ stamped.closed = Mine(t).closed
      /\ stamped.version = Mine(t).version + 1 /\ stamped.terms = Mine(t).terms
  <2>1. Mine(t) \in Row /\ Mine(t).version \in Nat /\ Mine(t).version + 1 \in Nat
    BY OwnRow
  <2>2. stamped = Stamping(Mine(t), Stamp(t), Mine(t).version + 1)
    BY DEF Stamping
  <2> HIDE DEF stamped
  <2> QED BY <1>1, <2>1, <2>2, StampingRow
<1>4. CASE Of(t) = "request" /\ seen[t].row.status = "NEEDS_CONFIRMATION"
             /\ Mine(t).status = "NEEDS_CONFIRMATION"
  <2> DEFINE n == stamped.version + 1
  <2>1. Reconfirmed(t) = Turning(stamped, "ACTIVE", n)
    BY <1>3, <1>4 DEF Reconfirmed, Row, Turning
  <2> HIDE DEF stamped
  <2>2. n \in Nat /\ n > Mine(t).version
    BY <1>3
  <2>3. "ACTIVE" \in Statuses
    BY NamedStatuses
  <2> HIDE DEF n
  <2>4. /\ Reconfirmed(t) \in Row /\ Reconfirmed(t).status = "ACTIVE"
        /\ Reconfirmed(t).closed = stamped.closed /\ Reconfirmed(t).version = n
        /\ Reconfirmed(t).terms = stamped.terms
    BY <1>3, <2>1, <2>2, <2>3, TurningRow, SMTT(30)
  <2> QED BY <1>3, <1>4, <2>2, <2>4
<1>5. CASE Of(t) = "property"
  <2>1. Reconfirmed(t) = [stamped EXCEPT !.status = plan[t].to]
    BY <1>3, <1>5 DEF Reconfirmed, Row
  <2> HIDE DEF stamped
  <2> QED BY <1>2, <1>3, <1>5, <2>1, Stated
<1>6. CASE ~(Of(t) = "request" /\ seen[t].row.status = "NEEDS_CONFIRMATION"
             /\ Mine(t).status = "NEEDS_CONFIRMATION") /\ Of(t) # "property"
  <2>1. Reconfirmed(t) = stamped
    BY <1>3, <1>6 DEF Reconfirmed, Row
  <2> HIDE DEF stamped
  <2> QED BY <1>3, <2>1
<1> QED BY <1>4, <1>5, <1>6

LEMMA ReconfirmStep ==
  ASSUME IInv, NEW t \in Actors, Reconfirm(t)
  PROVE  IInv'
<1> DEFINE new == Reconfirmed(t)
<1>1. Deciding(t) /\ row' = [row EXCEPT ![Of(t)] = new]
        /\ UNCHANGED <<criteria, primaries>> /\ End(t, "written")
  BY DEF Reconfirm, Deciding
<1>3. Of(t) = "property" => plan[t].to # "absent"
  BY JobTarget DEF IInv, Reconfirm
<1>4. /\ new \in Row /\ new.version > Mine(t).version
      /\ new.closed = Mine(t).closed /\ new.terms = Mine(t).terms
      /\ \/ new.status = Mine(t).status
         \/ Of(t) = "request" /\ Mine(t).status = "NEEDS_CONFIRMATION" /\ new.status = "ACTIVE"
         \/ Of(t) = "property" /\ new.status = plan[t].to
  BY <1>1, ReconfirmedRow
<1> HIDE DEF new
<1>5. new.status # "absent"
  BY <1>1, <1>3, <1>4, OwnRow
<1>6. new.closed <=> Of(t) = "request" /\ new.status = "CLOSED"
  BY <1>4, OwnRow DEF Row
<1> QED BY <1>1, <1>4, <1>5, <1>6, OwnRow, Updating

(* A criterion takes a slot that is still free, and touches its request.   *)
LEMMA PlaceCriterionStep ==
  ASSUME IInv, NEW t \in Actors, PlaceCriterion(t)
  PROVE  IInv'
<1>1. /\ Deciding(t) /\ plan[t].kind = "criterion" /\ Of(t) = "request"
      /\ plan[t].slot \in Slots /\ ~Taken(t, plan[t].criterion, criteria)
  BY JobType DEF PlaceCriterion, Deciding, IInv, ChecksStand
<1>2. PICK c \in Criteria :
        /\ Chosen(t, c)
        /\ IF Taken(t, c, criteria)
             THEN End(t, "constraint") /\ UNCHANGED tables
             ELSE /\ criteria' = [criteria EXCEPT ![c] = plan[t].slot]
                  /\ Touch(t)
                  /\ End(t, "written") /\ UNCHANGED primaries
  BY DEF PlaceCriterion
<1>3. ~Taken(t, c, criteria)
  BY <1>1, <1>2, NoneAssumption DEF Taken, Chosen
<1>4. /\ criteria' = [criteria EXCEPT ![c] = plan[t].slot]
      /\ Write(t, Mine(t)) /\ End(t, "written") /\ primaries' = primaries
  BY <1>2, <1>3 DEF Touch
<1> DEFINE new == [Mine(t) EXCEPT !.version = Mine(t).version + 1]
<1>5. row' = [row EXCEPT ![Of(t)] = new]
  BY <1>4 DEF Write
<1>6. new \in Row /\ new.status = Mine(t).status /\ new.closed = Mine(t).closed
        /\ new.version > Mine(t).version /\ new.terms = Mine(t).terms
  BY OwnRow DEF Row
<1> HIDE DEF new
<1>7. /\ row' \in [Rows -> Row] /\ row'[Of(t)] = new
      /\ \A r \in Rows \ {Of(t)} : row'[r] = row[r]
      /\ ClosedIsStamped(row') /\ TermsCoherent(row')
  BY <1>5, <1>6, OwnRow, UpdateStep DEF IInv
<1>8. criteria \in [Criteria -> Slots \union {None}] /\ SlotsDistinct(criteria)
        /\ primaries \subseteq Sources /\ OnePrimary(primaries)
  BY DEF IInv, TypeOK
<1>9. criteria' \in [Criteria -> Slots \union {None}]
  BY <1>1, <1>4, <1>8
<1>10. SlotsDistinct(criteria')
  <2> SUFFICES ASSUME NEW d \in Criteria, NEW e \in Criteria, d # e, criteria'[d] = criteria'[e]
               PROVE  criteria'[d] = None
    BY DEF SlotsDistinct
  <2>1. \A f \in Criteria \ {c} : criteria'[f] = criteria[f] /\ criteria[f] # plan[t].slot
    BY <1>3, <1>4, <1>8 DEF Taken
  <2>2. criteria'[c] = plan[t].slot
    BY <1>4, <1>8
  <2>3. d # c /\ e # c
    BY <2>1, <2>2
  <2> QED BY <1>8, <2>1, <2>3 DEF SlotsDistinct
<1>11. held[t][Of(t)] = Update /\ Mine(t).status # "absent"
  BY <1>1, OwnRow
<1>12. \A u \in Actors \ {t} : Deciding(u) => Of(u) # Of(t)
  BY <1>11, Alone
<1> QED
  BY <1>1, <1>4, <1>6, <1>7, <1>8, <1>9, <1>10, <1>11, <1>12, Ending DEF Answers

(* A source link leaves at most the source that is linked as a primary one.*)
LEMMA LinkSourceStep ==
  ASSUME IInv, NEW t \in Actors, LinkSource(t)
  PROVE  IInv'
<1> DEFINE kept == primaries \ cleared[t]
<1>1. Deciding(t) /\ plan[t].kind = "source" /\ Of(t) = "offer" /\ plan[t].source \in Sources
  BY JobType DEF LinkSource, Deciding, IInv
<1>2. plan[t].primary => cleared[t] = primaries \ {plan[t].source}
  BY <1>1 DEF LinkSource, IInv, ChecksStand
<1>3. primaries \subseteq Sources /\ OnePrimary(primaries)
  BY DEF IInv, TypeOK
<1>4. ~(plan[t].primary /\ kept \ {plan[t].source} # {})
  BY <1>2
<1>5. /\ primaries' = IF plan[t].primary THEN kept \union {plan[t].source}
                                         ELSE kept \ {plan[t].source}
      /\ End(t, "written") /\ row' = row /\ criteria' = criteria
  BY <1>4 DEF LinkSource
<1>6. primaries' \subseteq Sources /\ OnePrimary(primaries')
  <2>1. CASE plan[t].primary
    <3>1. kept \subseteq {plan[t].source}
      BY <1>2, <2>1
    <3> QED BY <1>1, <1>5, <2>1, <3>1 DEF OnePrimary
  <2>2. CASE ~plan[t].primary
    BY <1>3, <1>5, <2>2 DEF OnePrimary
  <2> QED BY <2>1, <2>2
<1>7. \A u \in Actors \ {t} : Deciding(u) => Of(u) # Of(t)
  BY <1>1, OwnRow, Alone
<1>8. /\ row' \in [Rows -> Row] /\ criteria' \in [Criteria -> Slots \union {None}]
      /\ ClosedIsStamped(row') /\ TermsCoherent(row') /\ SlotsDistinct(criteria')
      /\ row'[Of(t)] = Mine(t) /\ \A r \in Rows \ {Of(t)} : row'[r] = row[r]
  BY <1>5 DEF IInv, TypeOK
<1> QED
  BY <1>1, <1>5, <1>6, <1>7, <1>8, Ending DEF Answers

-----------------------------------------------------------------------------
(* The steps within a transaction.                                         *)
LEMMA NowReads ==
  ASSUME TypeOK, NEW t \in Actors
  PROVE  Now(t) \in Reads /\ Now(t).row = Mine(t) /\ Now(t).criteria = criteria
BY JobType, RowType DEF TypeOK, Reads

LEMMA BeginStep ==
  ASSUME IInv, NEW t \in Actors, Begin(t)
  PROVE  IInv'
<1>1. TypeOK /\ Compatible /\ Now(t) \in Reads /\ Now(t).row = Mine(t) /\ Now(t).criteria = criteria
  BY NowReads DEF IInv
<1>2. TypeOK' /\ Compatible'
  BY <1>1 DEF Begin, Goto, TypeOK, Steps, HeldType, Compatible, tables
<1>3. /\ at'[t] = IF Merges(t) THEN "merge" ELSE "lock"
      /\ plan[t].kind = "patch" => seen'[t] = Now(t)
      /\ \A u \in Actors \ {t} : /\ at'[u] = at[u] /\ held'[u] = held[u]
                                 /\ seen'[u] = seen[u] /\ cleared'[u] = cleared[u]
  BY <1>1 DEF Begin, Goto, TypeOK
<1>4. Mine(t).version \in Nat
  BY OwnRow
<1>5. plan' = plan /\ row' = row /\ criteria' = criteria /\ primaries' = primaries
  BY DEF Begin, tables
<1>6. Local(t)'
  BY <1>1, <1>3, <1>4, <1>5 DEF Begin, Local, LocksFirst, Deciding, SeenIsNow, Merges
<1>7. UNCHANGED <<plan, clock, tables, answer>>
  BY DEF Begin
<1> QED BY <1>2, <1>3, <1>6, <1>7, Moving

(* The budgets are coherent in the row as it is: if its version is the one *)
(* the caller has read, they are for as long as it is.                     *)
LEMMA CheckBudgetStep ==
  ASSUME IInv, NEW t \in Actors, CheckBudget(t)
  PROVE  IInv'
<1>1. CASE BudgetConflict(t)
  BY <1>1, EndingEmpty DEF CheckBudget, Refuse, Answers
<1>2. CASE ~BudgetConflict(t)
  <2>1. TypeOK /\ Compatible /\ Local(t) /\ at[t] = "merge" /\ Merges(t)
    BY Locally DEF IInv, CheckBudget, Local
  <2>2. Goto(t, "lock") /\ UNCHANGED <<plan, clock, tables, seen, cleared, held, answer>>
    BY <1>2 DEF CheckBudget
  <2>3. TypeOK' /\ Compatible'
    BY <2>1, <2>2 DEF Goto, TypeOK, Steps, HeldType, Compatible, tables
  <2>4. /\ at'[t] = "lock"
        /\ \A u \in Actors \ {t} : /\ at'[u] = at[u] /\ held'[u] = held[u]
                                   /\ seen'[u] = seen[u] /\ cleared'[u] = cleared[u]
    BY <2>1, <2>2 DEF Goto, TypeOK
  <2>5. plan' = plan /\ row' = row /\ criteria' = criteria /\ primaries' = primaries
          /\ seen' = seen /\ held' = held /\ cleared' = cleared
    BY <2>2 DEF tables
  <2>6. ~BudgetConflict(t)'
    BY <1>2, <2>5 DEF BudgetConflict, Merged
  <2>7. Local(t)'
    BY <2>1, <2>4, <2>5, <2>6 DEF Local, LocksFirst, LockFirst, Deciding, SeenIsNow, Merges
  <2> QED BY <2>2, <2>3, <2>4, <2>7, Moving
<1> QED BY <1>1, <1>2

LEMMA LockRowStep ==
  ASSUME IInv, NEW t \in Actors, LockRow(t)
  PROVE  IInv'
<1>1. TypeOK /\ Compatible /\ HeldType /\ Now(t) \in Reads /\ Now(t).row = Mine(t)
        /\ Now(t).criteria = criteria
  BY NowReads DEF IInv, TypeOK
<1>2. Of(t) \in Rows /\ Lock(t, Of(t), Update)
  BY OwnRow DEF LockRow, LockRank
<1>3. /\ HeldType' /\ Compatible' /\ held'[t][Of(t)] = Update
      /\ \A u \in Actors, q \in Rows : u # t \/ q # Of(t) => held'[u][q] = held[u][q]
  BY <1>1, <1>2, LockStep
<1>4. TypeOK'
  BY <1>1, <1>3 DEF LockRow, Goto, TypeOK, Steps, tables
<1>5. /\ at'[t] = IF plan[t].kind \in {"criterion", "source"} THEN "slot" ELSE "decide"
      /\ seen'[t] = IF plan[t].kind = "patch" THEN seen[t] ELSE Now(t)
      /\ \A u \in Actors \ {t} : /\ at'[u] = at[u] /\ held'[u] = held[u]
                                 /\ seen'[u] = seen[u] /\ cleared'[u] = cleared[u]
  BY <1>1 DEF LockRow, Goto, TypeOK, Lock, HeldType
<1>6. plan' = plan /\ row' = row /\ criteria' = criteria /\ primaries' = primaries
  BY DEF LockRow, tables
<1>7. at[t] = "lock" /\ Local(t)
  BY Locally DEF LockRow, IInv
<1>8. Local(t)'
  BY <1>1, <1>3, <1>5, <1>6, <1>7 DEF Local, LocksFirst, LockFirst, Deciding, SeenIsNow, Merges,
                                      Matches, BudgetConflict, Merged
<1>9. UNCHANGED <<plan, clock, tables, answer>>
  BY DEF LockRow
<1> QED BY <1>3, <1>4, <1>5, <1>8, <1>9, Moving

LEMMA ReadOfferStep ==
  ASSUME IInv, NEW t \in Actors, ReadOffer(t)
  PROVE  IInv'
<1>1. TypeOK /\ Compatible /\ Now(t) \in Reads
  BY NowReads DEF IInv
<1>2. TypeOK' /\ Compatible'
  BY <1>1 DEF ReadOffer, Goto, TypeOK, Steps, HeldType, Compatible, tables
<1>3. /\ at'[t] = "apply" /\ seen'[t] = Now(t)
      /\ \A u \in Actors \ {t} : /\ at'[u] = at[u] /\ held'[u] = held[u]
                                 /\ seen'[u] = seen[u] /\ cleared'[u] = cleared[u]
  BY <1>1 DEF ReadOffer, Goto, TypeOK
<1>4. plan' = plan /\ row' = row /\ criteria' = criteria /\ primaries' = primaries
  BY DEF ReadOffer, tables
<1>5. Local(t)'
  BY <1>1, <1>3, <1>4 DEF ReadOffer, Begins, Local, Deciding, MayMoveOffer
<1>6. UNCHANGED <<plan, clock, tables, answer>>
  BY DEF ReadOffer
<1> QED BY <1>2, <1>3, <1>5, <1>6, Moving

LEMMA CheckSlotStep ==
  ASSUME IInv, NEW t \in Actors, CheckSlot(t)
  PROVE  IInv'
<1>1. CASE Refuse(t)
  BY <1>1, EndingEmpty DEF Refuse, Answers
<1>2. CASE /\ ~Taken(t, plan[t].criterion, criteria)
           /\ Goto(t, "decide") /\ UNCHANGED <<plan, clock, tables, seen, cleared, held, answer>>
  <2>1. TypeOK /\ Compatible /\ Local(t) /\ at[t] = "slot" /\ plan[t].kind = "criterion"
          /\ Of(t) = "request"
    BY Locally, JobType DEF IInv, CheckSlot
  <2>2. TypeOK' /\ Compatible'
    BY <1>2, <2>1 DEF Goto, TypeOK, Steps, HeldType, Compatible, tables
  <2>3. /\ at'[t] = "decide"
        /\ \A u \in Actors \ {t} : /\ at'[u] = at[u] /\ held'[u] = held[u]
                                   /\ seen'[u] = seen[u] /\ cleared'[u] = cleared[u]
    BY <1>2, <2>1 DEF Goto, TypeOK
  <2>4. plan' = plan /\ row' = row /\ criteria' = criteria /\ primaries' = primaries
          /\ seen' = seen /\ held' = held /\ cleared' = cleared
    BY <1>2 DEF tables
  <2>5. Local(t)'
    BY <1>2, <2>1, <2>3, <2>4 DEF Local, LocksFirst, LockFirst, Deciding, SeenIsNow, Taken, Merges
  <2> QED BY <1>2, <2>2, <2>3, <2>5, Moving
<1> QED BY <1>1, <1>2 DEF CheckSlot

LEMMA ClearPrimaryStep ==
  ASSUME IInv, NEW t \in Actors, ClearPrimary(t)
  PROVE  IInv'
<1>1. TypeOK /\ Compatible /\ Local(t) /\ at[t] = "slot" /\ plan[t].kind = "source"
  BY Locally DEF IInv, ClearPrimary
<1>2. TypeOK' /\ Compatible'
  BY <1>1 DEF ClearPrimary, Goto, TypeOK, Steps, HeldType, Compatible, tables
<1>3. /\ at'[t] = "decide"
      /\ cleared'[t] = IF plan[t].primary THEN primaries \ {plan[t].source} ELSE {}
      /\ \A u \in Actors \ {t} : /\ at'[u] = at[u] /\ held'[u] = held[u]
                                 /\ seen'[u] = seen[u] /\ cleared'[u] = cleared[u]
  BY <1>1 DEF ClearPrimary, Goto, TypeOK
<1>4. plan' = plan /\ row' = row /\ criteria' = criteria /\ primaries' = primaries
        /\ seen' = seen /\ held' = held
  BY DEF ClearPrimary, tables
<1>5. Local(t)'
  BY <1>1, <1>3, <1>4 DEF Local, LocksFirst, LockFirst, Deciding, SeenIsNow, Merges
<1>6. UNCHANGED <<plan, clock, tables, answer>>
  BY DEF ClearPrimary
<1> QED BY <1>2, <1>3, <1>5, <1>6, Moving

LEMMA SampleStep ==
  ASSUME IInv, NEW t \in Actors, Sample(t)
  PROVE  IInv'
<1>1. CASE Refuse(t)
  BY <1>1, EndingEmpty DEF Refuse, Answers
<1>2. CASE Goto(t, "grab") /\ UNCHANGED <<plan, clock, tables, seen, cleared, held, answer>>
  <2>1. TypeOK /\ Compatible /\ plan[t].kind = "pass"
    BY DEF IInv, Sample, Begins
  <2>2. TypeOK' /\ Compatible'
    BY <1>2, <2>1 DEF Goto, TypeOK, Steps, HeldType, Compatible, tables
  <2>3. /\ at'[t] = "grab" /\ plan' = plan
        /\ \A u \in Actors \ {t} : /\ at'[u] = at[u] /\ held'[u] = held[u]
                                   /\ seen'[u] = seen[u] /\ cleared'[u] = cleared[u]
    BY <1>2, <2>1 DEF Goto, TypeOK
  <2>4. Local(t)'
    BY <2>1, <2>3 DEF Local, Deciding
  <2> QED BY <1>2, <2>2, <2>3, <2>4, Moving
<1> QED BY <1>1, <1>2 DEF Sample

LEMMA GrabStep ==
  ASSUME IInv, NEW t \in Actors, Grab(t)
  PROVE  IInv'
<1>1. CASE Refuse(t)
  BY <1>1, EndingEmpty DEF Refuse, Answers
<1>2. CASE /\ StillStale(Of(t)) /\ Lock(t, Of(t), Update)
           /\ seen' = [seen EXCEPT ![t] = Now(t)]
           /\ Goto(t, "decide")
           /\ UNCHANGED <<plan, clock, tables, cleared, answer>>
  <2>1. /\ TypeOK /\ Compatible /\ HeldType /\ Of(t) \in Rows /\ plan[t].kind = "pass"
        /\ Now(t) \in Reads /\ Now(t).row = Mine(t) /\ Now(t).criteria = criteria
    BY NowReads, OwnRow DEF IInv, TypeOK, Grab, StepsFit
  <2>2. Mine(t).status # "absent"
    BY <1>2 DEF StillStale, GoneStale, Convertible, StaleConvertible
  <2>3. /\ HeldType' /\ Compatible' /\ held'[t][Of(t)] = Update
        /\ \A u \in Actors, q \in Rows : u # t \/ q # Of(t) => held'[u][q] = held[u][q]
    BY <1>2, <2>1, LockStep
  <2>4. TypeOK'
    BY <1>2, <2>1, <2>3 DEF Goto, TypeOK, Steps, tables
  <2>5. /\ at'[t] = "decide" /\ seen'[t] = Now(t)
        /\ \A u \in Actors \ {t} : /\ at'[u] = at[u] /\ held'[u] = held[u]
                                   /\ seen'[u] = seen[u] /\ cleared'[u] = cleared[u]
    BY <1>2, <2>1 DEF Goto, TypeOK, Lock, HeldType
  <2>6. plan' = plan /\ row' = row /\ criteria' = criteria /\ primaries' = primaries
    BY <1>2 DEF tables
  <2>7. Local(t)'
    BY <2>1, <2>2, <2>3, <2>5, <2>6 DEF Local, Deciding, SeenIsNow, Merges
  <2> QED BY <1>2, <2>3, <2>4, <2>5, <2>7, Moving
<1> QED BY <1>1, <1>2 DEF Grab

(* A record is created in a status that is not closed and with terms that  *)
(* are coherent.                                                           *)
LEMMA Created ==
  ASSUME Create
  PROVE  \E r \in Rows, status \in Statuses \ {"CLOSED"}, terms \in Terms :
           Coherent(terms) /\ Insert(r, status, terms)
<1>1. ASSUME CreateRequest
      PROVE  \E terms \in Terms : Coherent(terms) /\ Insert("request", "RAW", terms)
  BY <1>1 DEF CreateRequest, Budgets, Coherent
<1>2. ASSUME CreateOffer
      PROVE  \E terms \in Terms : Coherent(terms) /\ Insert("offer", "DRAFT", terms)
  BY <1>2 DEF CreateOffer, Deals, Coherent, Conflict
<1>3. ASSUME CreateProperty
      PROVE  \E status \in Availability : Insert("property", status, NoTerms)
  BY <1>3 DEF CreateProperty
<1>4. NoTerms \in Terms /\ Coherent(NoTerms)
  BY DEF NoTerms, Terms, Coherent, Conflict
<1>5. Availability \subseteq Statuses \ {"CLOSED"} /\ {"RAW", "DRAFT"} \subseteq Statuses \ {"CLOSED"}
  BY NamedStatuses DEF Availability, StaleConvertible
<1>6. CASE CreateRequest
  BY <1>1, <1>5, <1>6 DEF Rows
<1>7. CASE CreateOffer
  BY <1>2, <1>5, <1>7 DEF Rows
<1>8. CASE CreateProperty
  BY <1>3, <1>4, <1>5, <1>8 DEF Rows
<1> QED BY <1>6, <1>7, <1>8 DEF Create

LEMMA InsertStep ==
  ASSUME IInv, NEW r \in Rows, NEW status \in Statuses \ {"CLOSED"}, NEW terms \in Terms,
         Coherent(terms), Insert(r, status, terms)
  PROVE  IInv'
<1>1. TypeOK /\ row[r].status = "absent" /\ row \in [Rows -> Row]
  BY DEF Insert, IInv, TypeOK
<1> DEFINE new == [status |-> status, confirmed |-> None, closed |-> FALSE,
                   terms |-> terms, version |-> 1]
<1>2. row' = [row EXCEPT ![r] = new]
  BY DEF Insert
<1>3. new \in Row /\ new.closed = FALSE /\ new.status = status /\ new.terms = terms
  BY DEF Row
<1> HIDE DEF new
<1>4. /\ row' \in [Rows -> Row] /\ row'[r] = new
      /\ \A q \in Rows \ {r} : row'[q] = row[q]
  BY <1>1, <1>2, <1>3
<1>5. /\ plan' = plan /\ clock' = clock /\ criteria' = criteria /\ primaries' = primaries /\ at' = at
      /\ seen' = seen /\ cleared' = cleared /\ held' = held /\ answer' = answer
  BY DEF Insert
<1>6. TypeOK'
  BY <1>1, <1>4, <1>5 DEF TypeOK, HeldType
<1>7. ClosedIsStamped(row') /\ TermsCoherent(row')
  BY <1>3, <1>4 DEF ClosedIsStamped, TermsCoherent, IInv
<1>8. ASSUME NEW u \in Actors PROVE Local(u)'
  <2>1. Local(u) /\ Of(u) \in Rows
    BY Locally, OwnRow DEF IInv
  <2>2. CASE Of(u) = r
    BY <1>1, <1>5, <2>1, <2>2 DEF Local, Deciding
  <2>3. CASE Of(u) # r
    BY <1>4, <1>5, <2>1, <2>3 DEF Local, LocksFirst, Deciding, SeenIsNow, Taken, MayMoveOffer, Merges,
                                  Matches, BudgetConflict, Merged
  <2> QED BY <2>2, <2>3
<1>9. (StepsFit /\ DecidersHold /\ SeenIsCurrent /\ VersionsName /\ BudgetsStand /\ ChecksStand)'
  BY <1>8 DEF Local, StepsFit, DecidersHold, SeenIsCurrent, VersionsName, BudgetsStand, ChecksStand
<1>10. (Compatible /\ SlotsDistinct(criteria) /\ OnePrimary(primaries) /\ ConstraintsUnreached)'
  BY <1>5 DEF IInv, Compatible, ConstraintsUnreached
<1> QED BY <1>6, <1>7, <1>9, <1>10 DEF IInv

LEMMA CreateStep ==
  ASSUME IInv, Create
  PROVE  IInv'
BY Created, InsertStep

(* The clock, and the end, change nothing an actor relies on.              *)
LEMMA QuietStep ==
  ASSUME IInv, Tick \/ UNCHANGED vars
  PROVE  IInv'
<1>1. /\ plan' = plan /\ row' = row /\ criteria' = criteria /\ primaries' = primaries /\ at' = at
      /\ seen' = seen /\ cleared' = cleared /\ held' = held /\ answer' = answer
  BY DEF Tick, vars, tables
<1>2. clock' \in Times
  BY TimeAssumption DEF Tick, vars, Times, IInv, TypeOK
<1>3. TypeOK'
  BY <1>1, <1>2 DEF IInv, TypeOK, HeldType
<1>4. ASSUME NEW u \in Actors PROVE Local(u)'
  <2>1. Local(u)
    BY Locally DEF IInv
  <2> QED BY <1>1, <2>1 DEF Local, LocksFirst, Deciding, SeenIsNow, Taken, MayMoveOffer, Merges,
                          Matches, BudgetConflict, Merged
<1>5. (StepsFit /\ DecidersHold /\ SeenIsCurrent /\ VersionsName /\ BudgetsStand /\ ChecksStand)'
  BY <1>4 DEF Local, StepsFit, DecidersHold, SeenIsCurrent, VersionsName, BudgetsStand, ChecksStand
<1>6. (Compatible /\ ClosedIsStamped(row) /\ TermsCoherent(row) /\ SlotsDistinct(criteria) /\ OnePrimary(primaries)
         /\ ConstraintsUnreached)'
  BY <1>1 DEF IInv, Compatible, ConstraintsUnreached
<1> QED BY <1>3, <1>5, <1>6 DEF IInv

-----------------------------------------------------------------------------
LEMMA Initially == Init => IInv
<1> SUFFICES ASSUME Init PROVE IInv
  OBVIOUS
<1>2. PICK s \in Settings : /\ plan = s.plan /\ row = s.world.row
                            /\ criteria = s.world.criteria /\ primaries = s.world.primaries
  BY DEF Init
<1>1. plan \in [Actors -> Calls]
  BY <1>2, SettingsAssumption
<1>3. /\ row \in [Rows -> Row] /\ criteria \in [Criteria -> Slots \union {None}]
      /\ primaries \subseteq Sources
      /\ ClosedIsStamped(row) /\ TermsCoherent(row)
      /\ SlotsDistinct(criteria) /\ OnePrimary(primaries)
  BY <1>2, SettingsAssumption DEF World
<1>4. clock \in Times
  BY TimeAssumption DEF Init, Times
<1>5. TypeOK /\ Compatible
  BY <1>1, <1>3, <1>4 DEF Init, TypeOK, Steps, HeldType, Unlocked, Compatible
<1>6. StepsFit /\ DecidersHold /\ SeenIsCurrent /\ VersionsName /\ BudgetsStand /\ ChecksStand /\ ConstraintsUnreached
  BY DEF Init, StepsFit, DecidersHold, SeenIsCurrent, VersionsName, BudgetsStand, ChecksStand,
         ConstraintsUnreached, Deciding
<1> QED BY <1>3, <1>5, <1>6 DEF IInv

LEMMA Inductive == IInv /\ [Next]_vars => IInv'
<1> SUFFICES ASSUME IInv, [Next]_vars PROVE IInv'
  OBVIOUS
<1>1. ASSUME NEW t \in Actors, Step(t) PROVE IInv'
  <2>1. CASE NotFound(t) \/ RefuseFuture(t) \/ RefuseOffer(t) \/ Fail(t)
    BY <2>1, NotFoundStep
  <2>2. CASE Begin(t)
    BY <2>2, BeginStep
  <2>3. CASE LockRow(t)
    BY <2>3, LockRowStep
  <2>4. CASE Patch(t)
    BY <2>4, PatchStep
  <2>5. CASE MoveRequest(t)
    BY <2>5, MoveRequestStep
  <2>6. CASE ReadOffer(t)
    BY <2>6, ReadOfferStep
  <2>7. CASE MoveOffer(t)
    BY <2>7, MoveOfferStep
  <2>8. CASE Reconfirm(t)
    BY <2>8, ReconfirmStep
  <2>9. CASE CheckSlot(t)
    BY <2>9, CheckSlotStep
  <2>10. CASE PlaceCriterion(t)
    BY <2>10, PlaceCriterionStep
  <2>11. CASE ClearPrimary(t)
    BY <2>11, ClearPrimaryStep
  <2>12. CASE LinkSource(t)
    BY <2>12, LinkSourceStep
  <2>13. CASE Sample(t)
    BY <2>13, SampleStep
  <2>14. CASE Grab(t)
    BY <2>14, GrabStep
  <2>15. CASE MarkStale(t)
    BY <2>15, MarkStaleStep
  <2>16. CASE CheckBudget(t)
    BY <2>16, CheckBudgetStep
  <2> QED
    BY <1>1, <2>1, <2>2, <2>3, <2>4, <2>5, <2>6, <2>7, <2>8, <2>9, <2>10, <2>11, <2>12,
       <2>13, <2>14, <2>15, <2>16 DEF Step
<1>2. CASE Tick \/ Over \/ UNCHANGED vars
  BY <1>2, QuietStep DEF Over
<1> QED BY <1>1, <1>2, CreateStep DEF Next

(* In every reachable state, for any number of concurrent commands: who    *)
(* decides holds the row and has read it as it is, equal versions mean     *)
(* equal records, and no unique index is ever run into.                    *)
THEOREM Invariance == Spec => []IInv
<1> QED BY Initially, Inductive, PTL DEF Spec

-----------------------------------------------------------------------------
(* Who can be answered that the command is done.                           *)
LEMMA Writers ==
  ASSUME IInv, [Next]_vars, NEW t \in Actors, Applied(t)
  PROVE  \/ Patch(t) /\ Matches(t) /\ ~PatchRefused(t)
         \/ MoveRequest(t) /\ MayMoveRequest(t)
         \/ MoveOffer(t) /\ StillExpected(t)
         \/ Reconfirm(t) \/ PlaceCriterion(t) \/ LinkSource(t)
         \/ MarkStale(t) /\ StillStale(Of(t))
<1>1. answer \in [Actors -> Answers] /\ answer'[t] = "written" /\ answer[t] = "none"
  BY DEF IInv, TypeOK, Answers, Applied
<1>2. answer' # answer
  BY <1>1
<1>3. PICK u \in Actors : Step(u)
  BY <1>2 DEF Next, Tick, Create, CreateRequest, CreateOffer, CreateProperty, Insert, Over, vars
<1>4. ASSUME NEW what, End(u, what)
      PROVE  u = t /\ what = "written"
  BY <1>1, <1>4 DEF End
<1>5. ~(Refuse(u) \/ Fail(u) \/ End(u, "constraint"))
  BY <1>4 DEF Refuse, Fail
<1>6. ~(NotFound(u) \/ RefuseFuture(u) \/ RefuseOffer(u))
  BY <1>5 DEF NotFound, RefuseFuture, RefuseOffer
<1>7. ~(Begin(u) \/ LockRow(u) \/ ReadOffer(u) \/ ClearPrimary(u))
  BY <1>2 DEF Begin, LockRow, ReadOffer, ClearPrimary
<1>8. ~(CheckSlot(u) \/ Sample(u) \/ Grab(u) \/ CheckBudget(u))
  BY <1>2, <1>5 DEF CheckSlot, Sample, Grab, CheckBudget
<1>9. CASE Patch(u)
  BY <1>4, <1>5, <1>9 DEF Patch
<1>10. CASE MoveRequest(u)
  BY <1>4, <1>5, <1>10 DEF MoveRequest
<1>11. CASE MoveOffer(u)
  BY <1>4, <1>5, <1>11 DEF MoveOffer
<1>12. CASE Reconfirm(u)
  BY <1>4, <1>12 DEF Reconfirm
<1>13. CASE PlaceCriterion(u)
  BY <1>4, <1>5, <1>13 DEF PlaceCriterion
<1>14. CASE LinkSource(u)
  BY <1>4, <1>5, <1>14 DEF LinkSource
<1>15. CASE MarkStale(u)
  BY <1>4, <1>5, <1>15 DEF MarkStale
<1> QED
  BY <1>3, <1>5, <1>6, <1>7, <1>8, <1>9, <1>10, <1>11, <1>12, <1>13, <1>14, <1>15 DEF Step

(* The freshness pass never marks a row that was confirmed, paused, closed *)
(* or made unavailable after it was sampled.                               *)
THEOREM PassSpares == Spec => PassSparesTheConfirmed
<1>1. ASSUME IInv, [Next]_vars, NEW t \in Actors, Applied(t), plan[t].kind = "pass"
      PROVE  GoneStale(Of(t))
  <2>1. at[t] # "apply"
    BY <1>1 DEF IInv, StepsFit
  <2> QED
    BY <1>1, <2>1, Writers DEF Patch, MoveRequest, MoveOffer, Reconfirm, PlaceCriterion, LinkSource,
                               StillStale
<1>2. IInv /\ [Next]_vars =>
        [\A t \in Actors : Applied(t) /\ plan[t].kind = "pass" => GoneStale(Of(t))]_vars
  BY <1>1
<1> QED BY <1>2, Invariance, PTL DEF Spec, PassSparesTheConfirmed

(* A PATCH is applied only to the very record its caller read.             *)
THEOREM PatchSees == Spec => PatchSeesEveryChange
<1>1. ASSUME IInv, [Next]_vars, NEW t \in Actors, Applied(t), plan[t].kind = "patch"
      PROVE  SeenIsNow(t)
  <2>1. at[t] # "apply"
    BY <1>1 DEF IInv, StepsFit
  <2>2. Patch(t) /\ Matches(t)
    BY <1>1, <2>1, Writers DEF MoveRequest, MoveOffer, Reconfirm, PlaceCriterion, LinkSource, MarkStale
  <2> QED BY <1>1, <2>2 DEF Patch, Matches, IInv, VersionsName
<1>2. IInv /\ [Next]_vars =>
        [\A t \in Actors : Applied(t) /\ plan[t].kind = "patch" => SeenIsNow(t)]_vars
  BY <1>1
<1> QED BY <1>2, Invariance, PTL DEF Spec, PatchSeesEveryChange

(* What one's own UPDATE leaves in the row.                                *)
LEMMA OwnWrite ==
  ASSUME IInv, NEW t \in Actors, NEW new, row' = [row EXCEPT ![Of(t)] = new]
  PROVE  row'[Of(t)] = new /\ \A r \in Rows \ {Of(t)} : row'[r] = row[r]
BY OwnRow DEF IInv, TypeOK

(* A request's move and an offer's move leave the status they aimed at.    *)
LEMMA RequestMoved ==
  ASSUME IInv, NEW t \in Actors, MoveRequest(t), MayMoveRequest(t)
  PROVE  /\ Of(t) = "request" /\ seen[t].row = Mine(t)
         /\ row'[Of(t)].status = plan[t].to
         /\ \A r \in Rows \ {Of(t)} : row'[r] = row[r]
<1>1. Deciding(t) /\ plan[t].kind = "move" /\ Of(t) = "request"
  BY DEF MoveRequest, Deciding, IInv, StepsFit, LocksFirst, LockFirst
<1>2. seen[t].row = Mine(t) /\ Mine(t) \in Row
  BY <1>1, OwnRow
<1> DEFINE new == [Mine(t) EXCEPT !.status = plan[t].to, !.closed = plan[t].to = "CLOSED",
                                  !.version = Mine(t).version + 1]
<1>3. row' = [row EXCEPT ![Of(t)] = new]
  BY <1>2 DEF MoveRequest, Write
<1>4. new.status = plan[t].to
  BY <1>2 DEF Row
<1> HIDE DEF new
<1> QED BY <1>1, <1>2, <1>3, <1>4, OwnWrite

LEMMA OfferMoved ==
  ASSUME IInv, NEW t \in Actors, MoveOffer(t), StillExpected(t)
  PROVE  /\ Of(t) = "offer" /\ MayMoveOffer(t, Mine(t).status)
         /\ at[t] = "apply" /\ at'[t] = "done"
         /\ row'[Of(t)].status = plan[t].to
         /\ \A r \in Rows \ {Of(t)} : row'[r] = row[r]
<1>1. Of(t) = "offer" /\ MayMoveOffer(t, seen[t].row.status) /\ at[t] = "apply"
  BY DEF MoveOffer, IInv, StepsFit
<1>2. MayMoveOffer(t, Mine(t).status)
  BY <1>1 DEF StillExpected
<1>3. at'[t] = "done"
  BY DEF MoveOffer, End, Goto, IInv, TypeOK
<1> DEFINE new == [Mine(t) EXCEPT !.status = plan[t].to, !.version = Mine(t).version + 1]
<1>4. row' = [row EXCEPT ![Of(t)] = new]
  BY DEF MoveOffer, Write
<1>5. new.status = plan[t].to
  BY OwnRow DEF Row
<1> HIDE DEF new
<1> QED BY <1>1, <1>2, <1>3, <1>4, <1>5, OwnWrite

(* What is answered as done was decided on the row that it replaces.       *)
THEOREM Decided == Spec => DecidedOnWhatItReplaces
<1> DEFINE Good(t) == /\ plan[t].kind \in {"reconfirm", "criterion"} => seen[t].row = Mine(t)
                      /\ plan[t].kind = "move" => /\ seen[t].row.status = Mine(t).status
                                                 /\ row'[Of(t)].status = plan[t].to
<1>1. ASSUME IInv, [Next]_vars, NEW t \in Actors, Applied(t) PROVE Good(t)
  <2>1. CASE plan[t].kind \in {"reconfirm", "criterion"}
    <3>1. at[t] # "apply"
      BY <1>1, <2>1 DEF IInv, StepsFit
    <3>2. at[t] = "decide"
      BY <1>1, <2>1, <3>1, Writers DEF Patch, MoveRequest, MoveOffer, Reconfirm, PlaceCriterion,
                                       LinkSource, MarkStale
    <3> QED BY <1>1, <2>1, <3>2, OwnRow DEF Deciding
  <2>2. CASE plan[t].kind = "move"
    <3>1. (MoveRequest(t) /\ MayMoveRequest(t)) \/ (MoveOffer(t) /\ StillExpected(t))
      BY <1>1, <2>2, Writers DEF Patch, Reconfirm, PlaceCriterion, LinkSource, MarkStale
    <3>2. seen[t].row.status = Mine(t).status /\ row'[Of(t)].status = plan[t].to
      BY <1>1, <3>1, RequestMoved, OfferMoved DEF StillExpected
    <3> QED BY <2>2, <3>2
  <2> QED BY <2>1, <2>2
<1>2. IInv /\ [Next]_vars => [\A t \in Actors : Applied(t) => Good(t)]_vars
  BY <1>1
<1> QED BY <1>2, Invariance, PTL DEF Spec, DecidedOnWhatItReplaces

-----------------------------------------------------------------------------
(* The status one step can give a record.                                  *)
ByMove(t, r) ==
  /\ r = Of(t)
  /\ \/ MoveRequest(t) /\ MayMoveRequest(t)
     \/ MoveOffer(t) /\ StillExpected(t)

ByItself(r) ==
  /\ r = "request"
  /\ \/ row[r].status = "NEEDS_CONFIRMATION" /\ row'[r].status = "ACTIVE"
     \/ row[r].status = "ACTIVE" /\ row'[r].status = "NEEDS_CONFIRMATION"

LEMMA Rewriting ==
  ASSUME IInv, NEW t \in Actors, Write(t, Mine(t))
  PROVE  \A r \in Rows : row'[r].status = row[r].status
<1> DEFINE new == [Mine(t) EXCEPT !.version = Mine(t).version + 1]
<1>1. row' = [row EXCEPT ![Of(t)] = new]
  BY DEF Write
<1>2. new.status = Mine(t).status
  BY OwnRow DEF Row
<1> HIDE DEF new
<1> QED BY <1>1, <1>2, OwnWrite

LEMMA StatusSteps ==
  ASSUME IInv, NEW t \in Actors, Step(t), NEW r \in {"request", "offer"}
  PROVE  row'[r].status = row[r].status \/ ByMove(t, r) \/ ByItself(r)
<1>1. CASE row' = row
  BY <1>1
<1>2. CASE Patch(t)
  <2> DEFINE merged == Merged(t, Mine(t).terms)
             new == [Mine(t) EXCEPT !.terms = merged, !.version = Mine(t).version + 1]
  <2>1. row' = row \/ Write(t, [Mine(t) EXCEPT !.terms = merged])
    BY <1>2 DEF Patch, Refuse, tables
  <2>2. CASE row' = row
    BY <2>2
  <2>3. CASE Write(t, [Mine(t) EXCEPT !.terms = merged])
    <3> HIDE DEF merged
    <3>1. row' = [row EXCEPT ![Of(t)] = new]
      BY <2>3, OwnRow DEF Write, Row
    <3>2. new.status = Mine(t).status
      BY OwnRow DEF Row
    <3> HIDE DEF new
    <3> QED BY <3>1, <3>2, OwnWrite DEF Rows
  <2> QED BY <2>1, <2>2, <2>3
<1>3. CASE MoveRequest(t)
  <2>1. CASE ~MayMoveRequest(t)
    BY <1>3, <2>1 DEF MoveRequest, Refuse, tables
  <2>2. CASE MayMoveRequest(t)
    BY <1>3, <2>2, RequestMoved DEF ByMove, Rows
  <2> QED BY <2>1, <2>2
<1>4. CASE MoveOffer(t)
  <2>1. CASE ~StillExpected(t)
    BY <1>4, <2>1 DEF MoveOffer, Refuse, tables
  <2>2. CASE StillExpected(t)
    BY <1>4, <2>2, OfferMoved DEF ByMove, Rows
  <2> QED BY <2>1, <2>2
<1>5. CASE Reconfirm(t)
  <2> DEFINE new == Reconfirmed(t)
  <2>1. Deciding(t) /\ row' = [row EXCEPT ![Of(t)] = new]
    BY <1>5 DEF Reconfirm, Deciding
  <2>2. \/ new.status = Mine(t).status
        \/ Of(t) = "request" /\ Mine(t).status = "NEEDS_CONFIRMATION" /\ new.status = "ACTIVE"
        \/ Of(t) = "property"
    BY <2>1, ReconfirmedRow
  <2> HIDE DEF new
  <2>3. row'[Of(t)] = new /\ \A q \in Rows \ {Of(t)} : row'[q] = row[q]
    BY <2>1, OwnWrite
  <2> QED BY <2>2, <2>3 DEF ByItself, Rows
<1>6. CASE PlaceCriterion(t)
  BY <1>6, Rewriting DEF PlaceCriterion, Touch, tables, Rows
<1>7. CASE LinkSource(t)
  BY <1>7 DEF LinkSource, tables
<1>8. CASE MarkStale(t)
  <2>1. CASE ~StillStale(Of(t))
    BY <1>8, <2>1 DEF MarkStale, Refuse, tables
  <2>2. CASE StillStale(Of(t))
    <3> DEFINE new == [Mine(t) EXCEPT !.status = "NEEDS_CONFIRMATION",
                                      !.version = Mine(t).version + 1]
    <3>1. row' = [row EXCEPT ![Of(t)] = new]
      BY <1>8, <2>2 DEF MarkStale, Write
    <3>2. new.status = "NEEDS_CONFIRMATION"
      BY OwnRow DEF Row
    <3> HIDE DEF new
    <3>3. row'[Of(t)] = new /\ \A q \in Rows \ {Of(t)} : row'[q] = row[q]
      BY <3>1, OwnWrite
    <3>4. Of(t) \in {"request", "property"}
      BY <1>8, JobType DEF MarkStale, IInv
    <3>5. Of(t) = "request" => Mine(t).status = "ACTIVE"
      BY <2>2 DEF StillStale, GoneStale, Convertible
    <3> QED BY <3>2, <3>3, <3>4, <3>5 DEF ByItself, Rows
  <2> QED BY <2>1, <2>2
<1>9. CASE NotFound(t) \/ Begin(t) \/ RefuseFuture(t) \/ LockRow(t) \/ ReadOffer(t)
             \/ RefuseOffer(t) \/ Fail(t)
  BY <1>1, <1>9 DEF NotFound, Begin, RefuseFuture, LockRow, ReadOffer, RefuseOffer, Fail, Refuse,
                    tables
<1>10. CASE CheckSlot(t) \/ ClearPrimary(t) \/ Sample(t) \/ Grab(t) \/ CheckBudget(t)
  BY <1>1, <1>10 DEF CheckSlot, ClearPrimary, Sample, Grab, CheckBudget, Refuse, tables
<1> QED
  BY <1>2, <1>3, <1>4, <1>5, <1>6, <1>7, <1>8, <1>9, <1>10 DEF Step

(* A request and an offer only ever take the edges of their machines,      *)
(* whoever moves them, and a request comes back only on a fresh            *)
(* confirmation.                                                           *)
THEOREM MachineFollowed == Spec => StatusFollowsMachine
<1> DEFINE RequestKeeps ==
             row'["request"].status # row["request"].status =>
               \/ row["request"].status = "absent"
               \/ /\ row'["request"].status \in RequestEdges[row["request"].status]
                  /\ row["request"].status \in ReactivationFrom => Fresh(row["request"].confirmed)
           OfferKeeps ==
             row'["offer"].status # row["offer"].status =>
               \/ row["offer"].status = "absent"
               \/ \E t \in Actors :
                    /\ at[t] = "apply" /\ at'[t] = "done"
                    /\ MayMoveOffer(t, row["offer"].status)
                    /\ row'["offer"].status = plan[t].to
<1>1. ASSUME IInv, NEW t \in Actors, Step(t) PROVE RequestKeeps /\ OfferKeeps
  <2>1. CASE ByMove(t, "request")
    <3>1. MoveRequest(t) /\ MayMoveRequest(t)
      BY <1>1, <2>1, OfferMoved DEF ByMove
    <3>2. /\ Of(t) = "request" /\ seen[t].row = row["request"]
          /\ row'["request"].status = plan[t].to
      BY <1>1, <3>1, RequestMoved
    <3>3. plan[t].to \in RequestEdges[row["request"].status]
      BY <3>1, <3>2 DEF MayMoveRequest
    <3>4. row["request"].status \in ReactivationFrom =>
            plan[t].to = "ACTIVE" /\ Fresh(row["request"].confirmed)
      <4>1. row["request"].status \in ReactivationFrom => plan[t].to = "ACTIVE"
        BY <3>3 DEF ReactivationFrom, RequestEdges
      <4> QED BY <3>1, <3>2, <4>1 DEF MayMoveRequest, Reactivates
    <3>5. row'["offer"] = row["offer"]
      BY <1>1, <3>1, <3>2, RequestMoved DEF Rows
    <3> QED BY <3>2, <3>3, <3>4, <3>5
  <2>2. CASE ByMove(t, "offer")
    <3>1. MoveOffer(t) /\ StillExpected(t)
      BY <1>1, <2>2, RequestMoved DEF ByMove
    <3>2. /\ Of(t) = "offer" /\ MayMoveOffer(t, row["offer"].status)
          /\ at[t] = "apply" /\ at'[t] = "done" /\ row'["offer"].status = plan[t].to
          /\ row'["request"] = row["request"]
      BY <1>1, <3>1, OfferMoved DEF Rows
    <3> QED BY <3>2
  <2>3. CASE ~ByMove(t, "request") /\ ~ByMove(t, "offer")
    <3>1. row'["offer"].status = row["offer"].status
      BY <1>1, <2>3, StatusSteps DEF ByItself
    <3>2. row'["request"].status = row["request"].status \/ ByItself("request")
      BY <1>1, <2>3, StatusSteps
    <3>3. ByItself("request") => RequestKeeps
      BY DEF ByItself, RequestEdges, ReactivationFrom
    <3> QED BY <3>1, <3>2, <3>3
  <2> QED BY <2>1, <2>2, <2>3
<1>2. ASSUME IInv, Create PROVE RequestKeeps /\ OfferKeeps
  <2>1. PICK r \in Rows : row[r].status = "absent" /\ \A q \in Rows \ {r} : row'[q] = row[q]
    BY <1>2, Created DEF Insert, IInv, TypeOK
  <2> QED BY <2>1 DEF Rows
<1>3. ASSUME row' = row PROVE RequestKeeps /\ OfferKeeps
  BY <1>3
<1>4. IInv /\ [Next]_vars => [RequestKeeps /\ OfferKeeps]_vars
  BY <1>1, <1>2, <1>3 DEF Next, Tick, Over, tables
<1> QED BY <1>4, Invariance, PTL DEF Spec, StatusFollowsMachine
====
