---------------------- MODULE PropertyIdentityProofs ------------------------
(* Proofs about PropertyIdentity, for every set of properties and actors   *)
(* and every workload.                                                     *)
EXTENDS PropertyIdentity, TLAPS

USE DEF Update, NoKeyUpdate, Share, KeyShare, ReviewMode, LockOrder

(* A workload gives every actor a kind, a pair and a target.               *)
LEMMA JobType ==
  ASSUME TypeOK, NEW t \in Actors
  PROVE  /\ plan[t] \in Job
         /\ Pair(t) \in Pairs /\ Pair(t)[1] \in Properties /\ Pair(t)[2] \in Properties
         /\ Pair(t)[1] # Pair(t)[2]
         /\ plan[t].kind \in Writing => plan[t].property \in Properties
         /\ plan[t].kind = "review" /\ plan[t].decision = "CONFIRMED_SAME" =>
              plan[t].property \in {Pair(t)[1], Pair(t)[2]}
<1>1. plan[t] \in Job
  BY PlansAssumption DEF TypeOK
<1>2. Pair(t) \in Pairs
  BY <1>1 DEF Job, Pair
<1>3. Pair(t)[1] \in Properties /\ Pair(t)[2] \in Properties /\ Pair(t)[1] < Pair(t)[2]
  BY <1>2 DEF Pairs
<1>4. Pair(t)[1] # Pair(t)[2]
  <2>1. Pair(t)[1] \in Nat /\ Pair(t)[2] \in Nat
    BY <1>3, PropertiesAssumption
  <2> QED BY <1>3, <2>1
<1>5. plan[t].kind \in Writing => plan[t].property \in Properties
  BY <1>1, PlansAssumption DEF Job, TypeOK
<1>6. plan[t].kind = "review" /\ plan[t].decision = "CONFIRMED_SAME" =>
              plan[t].property \in {Pair(t)[1], Pair(t)[2]}
  BY PlansAssumption DEF TypeOK, Pair
<1> QED BY <1>1, <1>2, <1>3, <1>4, <1>5, <1>6

(* The alias of a review is the other property of its pair.                *)
LEMMA AliasType ==
  ASSUME TypeOK, NEW t \in Actors, plan[t].kind = "review", plan[t].decision = "CONFIRMED_SAME"
  PROVE  /\ plan[t].property \in Properties /\ Alias(t) \in Properties
         /\ {Alias(t), plan[t].property} = {Pair(t)[1], Pair(t)[2]}
         /\ Alias(t) # plan[t].property
BY JobType DEF Alias

(* Taking a lock keeps conflicting modes apart and changes one entry.      *)
LEMMA LockStep ==
  ASSUME HeldType, Compatible, NEW t \in Actors, NEW r \in Properties, NEW mode \in 0..4,
         Lock(t, r, mode)
  PROVE  /\ HeldType' /\ Compatible'
         /\ held'[t][r] >= mode
         /\ held'[t][r] = mode \/ held'[t][r] = held[t][r]
         /\ \A u \in Actors, q \in Properties : held'[u][q] >= held[u][q]
         /\ \A u \in Actors, q \in Properties : u # t \/ q # r => held'[u][q] = held[u][q]
         /\ \A u \in Actors \ {t} : held[u][r] + mode <= 4
<1> USE DEF HeldType, Compatible, Lock
<1>1. \A u \in Actors \ {t} : held[u][r] + mode <= 4
  BY DEF Blockers
<1>2. HeldType'
  OBVIOUS
<1>3. \A u \in Actors, q \in Properties : u # t \/ q # r => held'[u][q] = held[u][q]
  OBVIOUS
<1>4. /\ held'[t][r] >= mode
      /\ held'[t][r] >= held[t][r]
      /\ held'[t][r] = mode \/ held'[t][r] = held[t][r]
  OBVIOUS
<1>5. \A u \in Actors, q \in Properties : held'[u][q] >= held[u][q]
  BY <1>3, <1>4
<1>6. \A u, v \in Actors, q \in Properties : u # v => held'[u][q] + held'[v][q] <= 4
  <2> SUFFICES ASSUME NEW u \in Actors, NEW v \in Actors, NEW q \in Properties, u # v
               PROVE  held'[u][q] + held'[v][q] <= 4
    OBVIOUS
  <2>1. CASE u = t /\ q = r
    BY <2>1, <1>1, <1>3, <1>4
  <2>2. CASE v = t /\ q = r
    BY <2>2, <1>1, <1>3, <1>4
  <2>3. CASE ~(u = t /\ q = r) /\ ~(v = t /\ q = r)
    BY <2>3, <1>3
  <2> QED BY <2>1, <2>2, <2>3
<1> QED BY <1>1, <1>2, <1>3, <1>4, <1>5, <1>6

(* Ending a transaction frees what it held and changes no other's.         *)
LEMMA EndStep ==
  ASSUME TypeOK, Compatible, NEW t \in Actors, NEW what \in {"written", "refused", "error"},
         End(t, what)
  PROVE  /\ at' \in [Actors -> Steps]
         /\ todo' \in [Actors -> SUBSET Pairs] /\ proposed' \in [Actors -> SUBSET Pairs]
         /\ raising' \in [Actors -> SUBSET Work]
         /\ answer' \in [Actors -> {"none", "written", "refused", "error"}]
         /\ HeldType' /\ Compatible'
         /\ at'[t] = "done" /\ proposed'[t] = {} /\ todo'[t] = {}
         /\ \A r \in Properties : held'[t][r] = 0
         /\ \A u \in Actors \ {t} : /\ at'[u] = at[u] /\ held'[u] = held[u]
                                    /\ todo'[u] = todo[u] /\ proposed'[u] = proposed[u]
                                    /\ raising'[u] = raising[u]
<1> USE DEF TypeOK, End, Goto, Release, HeldType
<1>1. at' \in [Actors -> Steps] /\ at'[t] = "done"
  BY DEF Steps
<1>2. /\ todo' \in [Actors -> SUBSET Pairs] /\ proposed' \in [Actors -> SUBSET Pairs]
      /\ raising' \in [Actors -> SUBSET Work]
      /\ answer' \in [Actors -> {"none", "written", "refused", "error"}]
      /\ proposed'[t] = {} /\ todo'[t] = {}
  OBVIOUS
<1>3. HeldType' /\ \A r \in Properties : held'[t][r] = 0
  OBVIOUS
<1>4. \A u \in Actors \ {t} : /\ at'[u] = at[u] /\ held'[u] = held[u]
                              /\ todo'[u] = todo[u] /\ proposed'[u] = proposed[u]
                              /\ raising'[u] = raising[u]
  OBVIOUS
<1>5. Compatible'
  <2> SUFFICES ASSUME NEW u \in Actors, NEW v \in Actors, NEW r \in Properties, u # v
               PROVE  held'[u][r] + held'[v][r] <= 4
    BY DEF Compatible
  <2>1. held[u][r] + held[v][r] <= 4 /\ held[u][r] \in 0..4 /\ held[v][r] \in 0..4
    BY DEF Compatible
  <2>2. held'[u][r] \in {0, held[u][r]} /\ held'[v][r] \in {0, held[v][r]}
    BY <1>3, <1>4
  <2> QED BY <2>1, <2>2
<1> QED BY <1>1, <1>2, <1>3, <1>4, <1>5

-----------------------------------------------------------------------------
(* What IInv says of one transaction.                                      *)
Own(t) == ReviewOK(t) /\ GenerateOK(t) /\ WriterOK(t) /\ ProposedOK(t)

(* A step of t that leaves the others' progress alone.                     *)
Alone(t) ==
  \A u \in Actors \ {t} : /\ at'[u] = at[u] /\ held'[u] = held[u] /\ todo'[u] = todo[u]
                          /\ proposed'[u] = proposed[u] /\ raising'[u] = raising[u]

(* A step of t that commits nothing keeps the invariant if t's own part is *)
(* kept, and t takes up no candidate that another one works on.            *)
LEMMA Uncommitted ==
  ASSUME IInv, NEW t \in Actors, TypeOK', Compatible', UNCHANGED <<plan, store>>, Alone(t),
         Own(t)',
         \A pr \in Pairs, u \in Actors \ {t} :
           HoldsCandidate(t, pr)' => HoldsCandidate(t, pr) \/ ~HoldsCandidate(u, pr),
         \A u \in Actors \ {t} : proposed'[t] \intersect proposed[u] = {}
  PROVE  IInv'
<1> USE DEF Alone, store
<1>1. NoChains'
  BY DEF IInv, NoChains, IsAlias
<1>2. ASSUME NEW u \in Actors, u # t PROVE ReviewOK(u)'
  BY <1>2 DEF IInv, ReviewOK, Pair, Alias, NotCanonical, IsAlias, Canonical, OpenOn
<1>3. ASSUME NEW u \in Actors, u # t PROVE GenerateOK(u)'
  BY <1>3 DEF IInv, GenerateOK, StillBlocked, Blocked, IsAlias
<1>4. ASSUME NEW u \in Actors, u # t PROVE WriterOK(u)'
  BY <1>4 DEF IInv, WriterOK, IsAlias
<1>5. ASSUME NEW u \in Actors, u # t PROVE ProposedOK(u)'
  BY <1>5 DEF IInv, ProposedOK
<1>6. CandidatesOK'
  <2>1. ASSUME NEW u \in Actors, u # t PROVE \A pr \in Pairs : HoldsCandidate(u, pr)' <=> HoldsCandidate(u, pr)
    BY <2>1 DEF HoldsCandidate, Pair
  <2>2. ASSUME NEW u \in Actors, NEW v \in Actors, u # v, NEW pr \in Pairs
        PROVE ~(HoldsCandidate(u, pr)' /\ HoldsCandidate(v, pr)')
    <3>1. ~(HoldsCandidate(u, pr) /\ HoldsCandidate(v, pr))
      BY <2>2 DEF IInv, CandidatesOK
    <3> QED BY <2>1, <2>2, <3>1
  <2>3. ASSUME NEW u \in Actors, NEW v \in Actors, u # v
        PROVE proposed'[u] \intersect proposed'[v] = {}
    BY <2>3 DEF IInv, CandidatesOK
  <2> QED BY <2>2, <2>3 DEF CandidatesOK
<1> QED BY <1>1, <1>2, <1>3, <1>4, <1>5, <1>6 DEF IInv, Own

(* A transaction that ends without a commit keeps the invariant.           *)
LEMMA Ended ==
  ASSUME IInv, NEW t \in Actors, NEW what \in {"written", "refused", "error"}, End(t, what),
         UNCHANGED <<plan, store>>
  PROVE  IInv'
<1>0. TypeOK /\ Compatible
  BY DEF IInv
<1>1. TypeOK' /\ Compatible'
  BY <1>0, EndStep DEF TypeOK, store
<1>2. Alone(t)
  BY <1>0, EndStep DEF Alone
<1>3. at'[t] = "done" /\ proposed'[t] = {} /\ \A r \in Properties : held'[t][r] = 0
  BY <1>0, EndStep
<1>4. Own(t)'
  BY <1>3 DEF Own, ReviewOK, GenerateOK, WriterOK, ProposedOK
<1>5. \A pr \in Pairs : ~HoldsCandidate(t, pr)'
  BY <1>3 DEF HoldsCandidate
<1> QED BY <1>1, <1>2, <1>3, <1>4, <1>5, Uncommitted

(* The worlds a run starts from satisfy the invariant.                     *)
LEMMA InitOK == Init => IInv
<1> SUFFICES ASSUME Init PROVE IInv
  OBVIOUS
<1>0. PICK w \in Worlds : place = w.place /\ aliasOf = w.aliasOf /\ status = w.status
  BY DEF Init
<1>1. /\ place \in [Properties -> Places \union {None}]
      /\ aliasOf \in [Properties -> Properties \union {None}]
      /\ status \in [Pairs -> Open \union Final \union {"none"}]
  BY <1>0, WorldsAssumption DEF World
<1>2. NoChains
  <2>1. ASSUME NEW p \in Properties, IsAlias(p) PROVE ~IsAlias(aliasOf[p])
    BY <2>1, <1>0, WorldsAssumption DEF IsAlias
  <2>2. ASSUME NEW pr \in Pairs
        PROVE status[pr] = "CONFIRMED_SAME"
                <=> aliasOf[pr[1]] = pr[2] \/ aliasOf[pr[2]] = pr[1]
    BY <2>2, <1>0, WorldsAssumption
  <2> QED BY <2>1, <2>2 DEF NoChains
<1>3. open \subseteq Work /\ tasks \subseteq Work
  BY DEF Init, Work
<1>4. TypeOK
  BY <1>1, <1>3 DEF Init, TypeOK, Steps, Unlocked, HeldType
<1>5. Compatible
  BY DEF Init, Unlocked, Compatible
<1>6. ASSUME NEW t \in Actors
      PROVE at[t] = "idle" /\ proposed[t] = {} /\ todo[t] = {} /\ \A p \in Properties : held[t][p] = 0
  BY DEF Init, Unlocked
<1>7. CandidatesOK
  BY <1>6 DEF CandidatesOK, HoldsCandidate
<1>8. ASSUME NEW t \in Actors PROVE Own(t)
  BY <1>6, <1>8 DEF Own, ReviewOK, GenerateOK, WriterOK, ProposedOK
<1> QED BY <1>2, <1>4, <1>5, <1>7, <1>8 DEF IInv, Own
-----------------------------------------------------------------------------
(* The steps that commit nothing, one lemma each.                          *)
LEMMA BeginStep == ASSUME IInv, NEW t \in Actors, Begin(t) PROVE IInv'
<1> USE DEF Begin, CanBegin, Goto, store, own
<1>0. TypeOK /\ Compatible /\ Own(t)
  BY DEF IInv, Own
<1>1. plan[t].kind \in Kinds /\ at[t] \in Steps
  BY <1>0, JobType DEF Job, TypeOK
<1>2. /\ plan[t].kind = "review" => at'[t] = "candidate"
      /\ plan[t].kind = "generate" => at'[t] = "read"
      /\ plan[t].kind \in CheckFirst => at'[t] = "check"
      /\ plan[t].kind \in LockFirst => at'[t] = "lock"
      /\ \A u \in Actors \ {t} : at'[u] = at[u]
      /\ at' \in [Actors -> Steps]
  BY <1>0, <1>1 DEF TypeOK, Kinds, Writing, CheckFirst, LockFirst, Steps
<1>3. TypeOK' /\ Compatible'
  BY <1>0, <1>2 DEF TypeOK, Compatible, HeldType
<1>4. Alone(t)
  BY <1>2 DEF Alone
<1>5. ReviewOK(t)' /\ GenerateOK(t)' /\ WriterOK(t)'
  <2>1. ReviewOK(t)'
    BY <1>2 DEF ReviewOK, Pair
  <2>2. GenerateOK(t)'
    BY <1>0, <1>2 DEF Own, GenerateOK
  <2>3. WriterOK(t)'
    BY <1>1, <1>2 DEF WriterOK, CheckFirst
  <2> QED BY <2>1, <2>2, <2>3
<1>6. ProposedOK(t)'
  BY <1>0 DEF Own, ProposedOK
<1>7. \A pr \in Pairs : ~HoldsCandidate(t, pr)'
  BY <1>2 DEF HoldsCandidate
<1>8. \A u \in Actors \ {t} : proposed'[t] \intersect proposed[u] = {}
  BY DEF IInv, CandidatesOK
<1> QED BY <1>3, <1>4, <1>5, <1>6, <1>7, <1>8, Uncommitted DEF Own

LEMMA LockCandidateStep == ASSUME IInv, NEW t \in Actors, LockCandidate(t) PROVE IInv'
<1> USE DEF LockCandidate, store, own
<1>0. TypeOK /\ Compatible /\ Own(t)
  BY DEF IInv, Own
<1>1. CASE Decided(t) /\ End(t, "refused")
  BY <1>1, Ended
<1>2. CASE ~Decided(t) /\ Goto(t, "first") /\ UNCHANGED <<own, held, answer>>
  <2>1. /\ at'[t] = "first" /\ at' \in [Actors -> Steps]
        /\ \A u \in Actors \ {t} : at'[u] = at[u]
    BY <1>0, <1>2 DEF TypeOK, Goto, Steps
  <2>2. TypeOK' /\ Compatible'
    BY <1>0, <1>2, <2>1 DEF TypeOK, Compatible, HeldType
  <2>3. Alone(t)
    BY <1>2, <2>1 DEF Alone
  <2>4. ReviewOK(t)'
    BY <1>0, <1>2, <2>1 DEF Own, ReviewOK, Pair, Decided
  <2>5. GenerateOK(t)' /\ WriterOK(t)' /\ ProposedOK(t)'
    BY <1>0, <1>2, <2>1 DEF Own, GenerateOK, WriterOK, ProposedOK, Writing
  <2>6. \A u \in Actors \ {t} : ~HoldsCandidate(u, Pair(t))
    OBVIOUS
  <2>7. \A pr \in Pairs : HoldsCandidate(t, pr)' => pr = Pair(t)
    BY DEF HoldsCandidate, Pair
  <2>8. \A u \in Actors \ {t} : proposed'[t] \intersect proposed[u] = {}
    BY <1>2 DEF IInv, CandidatesOK
  <2> QED BY <2>2, <2>3, <2>4, <2>5, <2>6, <2>7, <2>8, Uncommitted DEF Own
<1> QED BY <1>1, <1>2

LEMMA LockPairStep == ASSUME IInv, NEW t \in Actors, LockPair(t) PROVE IInv'
<1> USE DEF LockPair, store, own
<1>0. TypeOK /\ Compatible /\ Own(t) /\ HeldType
  BY DEF IInv, Own, TypeOK
<1>1. /\ Pair(t)[1] \in Properties /\ Pair(t)[2] \in Properties
      /\ Pair(t) \in Pairs
  BY <1>0, JobType
<1>2. /\ at[t] \in {"first", "second"} /\ at'[t] \in {"second", "check"}
      /\ at' \in [Actors -> Steps]
      /\ \A u \in Actors \ {t} : at'[u] = at[u]
  BY <1>0 DEF TypeOK, Goto, Steps
<1>3. /\ HeldType' /\ Compatible'
      /\ \A u \in Actors, q \in Properties : held'[u][q] >= held[u][q]
      /\ \A u \in Actors \ {t}, q \in Properties : held'[u][q] = held[u][q]
      /\ at'[t] = "second" => held'[t][Pair(t)[1]] >= Update
      /\ at'[t] = "check" => held'[t][Pair(t)[2]] >= Update /\ at[t] = "second"
  <2>1. CASE at[t] = "first" /\ Lock(t, Pair(t)[1], Update) /\ Goto(t, "second")
    BY <1>0, <1>1, <2>1, LockStep DEF Goto, TypeOK
  <2>2. CASE at[t] = "second" /\ Lock(t, Pair(t)[2], Update) /\ Goto(t, "check")
    BY <1>0, <1>1, <2>2, LockStep DEF Goto, TypeOK
  <2> QED BY <2>1, <2>2
<1>4. TypeOK'
  BY <1>0, <1>2, <1>3 DEF TypeOK
<1>5. Alone(t)
  BY <1>2, <1>3 DEF Alone, HeldType, Lock
<1>6. ReviewOK(t)'
  <2>1. at'[t] = "check" => held'[t][Pair(t)[1]] >= Update
    <3> SUFFICES ASSUME at'[t] = "check" PROVE held'[t][Pair(t)[1]] >= Update
      OBVIOUS
    <3>1. held[t][Pair(t)[1]] >= Update
      BY <1>0, <1>3 DEF Own, ReviewOK
    <3>2. held'[t][Pair(t)[1]] >= held[t][Pair(t)[1]]
      BY <1>1, <1>3
    <3>3. held'[t][Pair(t)[1]] \in 0..4 /\ held[t][Pair(t)[1]] \in 0..4
      <4> HIDE DEF LockPair
      <4>1. held \in [Actors -> [Properties -> 0..4]] /\ held' \in [Actors -> [Properties -> 0..4]]
        BY <1>0, <1>3 DEF HeldType
      <4> QED BY <1>1, <4>1
    <3> QED BY <3>1, <3>2, <3>3
  <2> QED BY <1>0, <1>2, <1>3, <2>1 DEF Own, ReviewOK, Pair
<1>7. GenerateOK(t)' /\ WriterOK(t)' /\ ProposedOK(t)'
  BY <1>0 DEF Own, GenerateOK, WriterOK, ProposedOK, Writing
<1>8. \A pr \in Pairs : HoldsCandidate(t, pr)' => HoldsCandidate(t, pr)
  BY <1>2 DEF HoldsCandidate, Pair
<1>9. \A u \in Actors \ {t} : proposed'[t] \intersect proposed[u] = {}
  BY DEF IInv, CandidatesOK
<1> QED BY <1>3, <1>4, <1>5, <1>6, <1>7, <1>8, <1>9, Uncommitted DEF Own

LEMMA CheckPairStep == ASSUME IInv, NEW t \in Actors, CheckPair(t) PROVE IInv'
<1> USE DEF CheckPair, store, own
<1>0. TypeOK /\ Compatible /\ Own(t)
  BY DEF IInv, Own
<1>1. CASE NotCanonical(t) /\ End(t, "refused")
  BY <1>1, Ended
<1>2. CASE ~NotCanonical(t) /\ Goto(t, "record") /\ UNCHANGED <<own, held, answer>>
  <2>1. /\ at'[t] = "record" /\ at' \in [Actors -> Steps]
        /\ \A u \in Actors \ {t} : at'[u] = at[u]
    BY <1>0, <1>2 DEF TypeOK, Goto, Steps
  <2>2. TypeOK' /\ Compatible'
    BY <1>0, <1>2, <2>1 DEF TypeOK, Compatible, HeldType
  <2>3. Alone(t)
    BY <1>2, <2>1 DEF Alone
  <2>4. ReviewOK(t)'
    BY <1>0, <1>2, <2>1 DEF Own, ReviewOK, Pair, NotCanonical, IsAlias, Canonical, Alias
  <2>5. GenerateOK(t)' /\ WriterOK(t)' /\ ProposedOK(t)'
    BY <1>0, <1>2, <2>1 DEF Own, GenerateOK, WriterOK, ProposedOK, Writing
  <2>6. \A pr \in Pairs : HoldsCandidate(t, pr)' => HoldsCandidate(t, pr)
    BY <2>1 DEF HoldsCandidate, Pair
  <2>7. \A u \in Actors \ {t} : proposed'[t] \intersect proposed[u] = {}
    BY <1>2 DEF IInv, CandidatesOK
  <2> QED BY <2>2, <2>3, <2>4, <2>5, <2>6, <2>7, Uncommitted DEF Own
<1> QED BY <1>1, <1>2
LEMMA RecordStep == ASSUME IInv, NEW t \in Actors, Record(t) PROVE IInv'
<1> USE DEF Record, store, own
<1>0. TypeOK /\ Compatible /\ Own(t)
  BY DEF IInv, Own
<1>1. /\ at[t] = "record" /\ at'[t] = "commit"
      /\ at' \in [Actors -> Steps]
      /\ \A u \in Actors \ {t} : at'[u] = at[u]
  BY <1>0 DEF TypeOK, Goto, Steps
<1>2. raising' \in [Actors -> SUBSET Work]
      /\ \A u \in Actors \ {t} : raising'[u] = raising[u]
      /\ plan[t].decision = "CONFIRMED_SAME" => raising'[t] = OpenOn(Alias(t))
  BY <1>0 DEF TypeOK, OpenOn
<1>3. TypeOK' /\ Compatible'
  BY <1>0, <1>1, <1>2 DEF TypeOK, Compatible, HeldType
<1>4. Alone(t)
  BY <1>1, <1>2 DEF Alone
<1>5. ReviewOK(t)'
  BY <1>0, <1>1, <1>2 DEF Own, ReviewOK, Pair, NotCanonical, IsAlias, Canonical, Alias, OpenOn
<1>6. ReviewOK(t)' /\ GenerateOK(t)' /\ WriterOK(t)' /\ ProposedOK(t)'
  BY <1>0, <1>5 DEF Own, GenerateOK, WriterOK, ProposedOK, Writing
<1>7. \A pr \in Pairs : HoldsCandidate(t, pr)' => HoldsCandidate(t, pr)
  BY <1>1 DEF HoldsCandidate, Pair
<1>8. \A u \in Actors \ {t} : proposed'[t] \intersect proposed[u] = {}
  BY DEF IInv, CandidatesOK
<1> QED BY <1>3, <1>4, <1>6, <1>7, <1>8, Uncommitted DEF Own

LEMMA ReadPairsStep == ASSUME IInv, NEW t \in Actors, ReadPairs(t) PROVE IInv'
<1> USE DEF ReadPairs, store, own
<1>0. TypeOK /\ Compatible /\ Own(t)
  BY DEF IInv, Own
<1>1. /\ at[t] = "read" /\ at'[t] = "lock"
      /\ at' \in [Actors -> Steps]
      /\ \A u \in Actors \ {t} : at'[u] = at[u]
  BY <1>0 DEF TypeOK, Goto, Steps
<1>2. todo' \in [Actors -> SUBSET Pairs] /\ \A u \in Actors \ {t} : todo'[u] = todo[u]
  BY <1>0 DEF TypeOK
<1>3. TypeOK' /\ Compatible'
  BY <1>0, <1>1, <1>2 DEF TypeOK, Compatible, HeldType
<1>4. Alone(t)
  BY <1>1, <1>2 DEF Alone
<1>6. ReviewOK(t)' /\ GenerateOK(t)' /\ WriterOK(t)' /\ ProposedOK(t)'
  BY <1>0, <1>1 DEF Own, ReviewOK, GenerateOK, WriterOK, ProposedOK, Writing
<1>7. \A pr \in Pairs : HoldsCandidate(t, pr)' => HoldsCandidate(t, pr)
  BY <1>1 DEF HoldsCandidate, Pair
<1>8. \A u \in Actors \ {t} : proposed'[t] \intersect proposed[u] = {}
  BY DEF IInv, CandidatesOK
<1> QED BY <1>3, <1>4, <1>6, <1>7, <1>8, Uncommitted DEF Own

LEMMA InsertCandidateStep == ASSUME IInv, NEW t \in Actors, InsertCandidate(t) PROVE IInv'
<1> USE DEF InsertCandidate, store, own
<1>0. TypeOK /\ Compatible /\ Own(t)
  BY DEF IInv, Own
<1>1. /\ at'[t] \in {"insert", "commit"} /\ at[t] = "insert"
      /\ at' \in [Actors -> Steps]
      /\ \A u \in Actors \ {t} : at'[u] = at[u]
  BY <1>0 DEF TypeOK, Goto, Steps
<1>2. /\ todo' \in [Actors -> SUBSET Pairs] /\ proposed' \in [Actors -> SUBSET Pairs]
      /\ \A u \in Actors \ {t} : todo'[u] = todo[u] /\ proposed'[u] = proposed[u]
      /\ \A pr \in proposed'[t] : pr \in proposed[t] \/
            (pr \in todo[t] /\ status[pr] = "none" /\ \A u \in Actors \ {t} : pr \notin proposed[u])
      /\ todo'[t] \subseteq todo[t]
  <2>1. CASE todo[t] = {} /\ UNCHANGED <<todo, proposed>>
    BY <1>0, <2>1 DEF TypeOK
  <2>2. CASE \E pr \in todo[t] :
               /\ \/ UNCHANGED proposed
                  \/ /\ status[pr] = "none"
                     /\ \A u \in Actors \ {t} : pr \notin proposed[u]
                     /\ proposed' = [proposed EXCEPT ![t] = @ \union {pr}]
               /\ todo' = [todo EXCEPT ![t] = @ \ {pr}]
    BY <1>0, <2>2 DEF TypeOK
  <2> QED BY <2>1, <2>2
<1>3. TypeOK' /\ Compatible'
  BY <1>0, <1>1, <1>2 DEF TypeOK, Compatible, HeldType
<1>4. Alone(t)
  BY <1>1, <1>2 DEF Alone
<1>6. ReviewOK(t)' /\ GenerateOK(t)' /\ WriterOK(t)' /\ ProposedOK(t)'
  <2>1. GenerateOK(t)'
    BY <1>0, <1>1, <1>2 DEF Own, GenerateOK, StillBlocked, Blocked, IsAlias
  <2>2. ProposedOK(t)'
    BY <1>0, <1>1, <1>2 DEF Own, ProposedOK
  <2> QED BY <1>0, <2>1, <2>2 DEF Own, ReviewOK, WriterOK, Writing
<1>7. \A pr \in Pairs : HoldsCandidate(t, pr)' => HoldsCandidate(t, pr)
  BY <1>1 DEF HoldsCandidate, Pair
<1>8. \A u \in Actors \ {t} : proposed'[t] \intersect proposed[u] = {}
  BY <1>2 DEF IInv, CandidatesOK
<1> QED BY <1>3, <1>4, <1>6, <1>7, <1>8, Uncommitted DEF Own
LEMMA LockInvolvedStep == ASSUME IInv, NEW t \in Actors, LockInvolved(t) PROVE IInv'
<1> USE DEF store, own
<1>0. TypeOK /\ Compatible /\ Own(t) /\ HeldType /\ plan[t].kind = "generate" /\ at[t] = "lock"
  BY DEF IInv, Own, TypeOK, LockInvolved
<1>1. UNCHANGED <<plan, store, own, answer>>
  BY DEF LockInvolved
<1>2. CASE Involved(t) \intersect {p \in Properties : held[t][p] = 0} = {} /\ Goto(t, "check") /\ UNCHANGED held
  <2>1. /\ at'[t] = "check" /\ at' \in [Actors -> Steps]
        /\ \A u \in Actors \ {t} : at'[u] = at[u]
    BY <1>0, <1>2 DEF TypeOK, Goto, Steps
  <2>2. TypeOK' /\ Compatible'
    BY <1>0, <1>1, <1>2, <2>1 DEF TypeOK, Compatible, HeldType
  <2>3. Alone(t)
    BY <1>1, <1>2, <2>1 DEF Alone
  <2>4. ASSUME NEW pr \in todo[t] \union proposed[t]
        PROVE held[t][pr[1]] >= Share /\ held[t][pr[2]] >= Share
    <3>1. pr \in Pairs /\ pr[1] \in Properties /\ pr[2] \in Properties
      BY <1>0 DEF TypeOK, Pairs
    <3>2. CASE pr \in todo[t]
      <4>1. held[t][pr[1]] # 0 /\ held[t][pr[2]] # 0
        BY <1>2, <3>1, <3>2 DEF Involved
      <4> QED BY <1>0, <3>1, <4>1 DEF Own, GenerateOK
    <3>3. CASE pr \in proposed[t]
      BY <1>0, <3>3 DEF Own, ProposedOK
    <3> QED BY <3>2, <3>3
  <2>5. GenerateOK(t)'
    BY <1>0, <1>1, <1>2, <2>1, <2>4 DEF Own, GenerateOK
  <2>6. ReviewOK(t)' /\ WriterOK(t)' /\ ProposedOK(t)'
    BY <1>0, <1>1 DEF Own, ReviewOK, WriterOK, ProposedOK, Writing
  <2>7. \A pr \in Pairs : ~HoldsCandidate(t, pr)'
    BY <1>0, <1>1 DEF HoldsCandidate
  <2>8. \A u \in Actors \ {t} : proposed'[t] \intersect proposed[u] = {}
    BY <1>1 DEF IInv, CandidatesOK
  <2> QED BY <1>1, <2>2, <2>3, <2>5, <2>6, <2>7, <2>8, Uncommitted DEF Own
<1>3. ASSUME NEW p \in Properties, Lock(t, p, Share), UNCHANGED at PROVE IInv'
  <2>1. /\ HeldType' /\ Compatible'
        /\ \A u \in Actors \ {t}, q \in Properties : held'[u][q] = held[u][q]
        /\ \A q \in Properties : held'[t][q] = held[t][q] \/ held'[t][q] = Share
    BY <1>0, <1>3, LockStep
  <2>2. TypeOK'
    BY <1>0, <1>1, <1>3, <2>1 DEF TypeOK
  <2>3. Alone(t)
    BY <1>0, <1>1, <1>3, <2>1 DEF Alone, HeldType, Lock
  <2>4. GenerateOK(t)'
    <3>1. \A q \in Properties : held'[t][q] = 0 \/ held'[t][q] >= Share
      BY <1>0, <2>1 DEF Own, GenerateOK
    <3> QED BY <1>0, <1>1, <1>3, <3>1 DEF GenerateOK
  <2>5. ReviewOK(t)' /\ WriterOK(t)' /\ ProposedOK(t)'
    BY <1>0, <1>1 DEF Own, ReviewOK, WriterOK, ProposedOK, Writing
  <2>6. \A pr \in Pairs : ~HoldsCandidate(t, pr)'
    BY <1>0, <1>1 DEF HoldsCandidate
  <2>7. \A u \in Actors \ {t} : proposed'[t] \intersect proposed[u] = {}
    BY <1>1 DEF IInv, CandidatesOK
  <2> QED BY <1>1, <2>1, <2>2, <2>3, <2>4, <2>5, <2>6, <2>7, Uncommitted DEF Own
<1>4. Involved(t) \subseteq Properties
  BY DEF Involved
<1> QED BY <1>2, <1>3, <1>4 DEF LockInvolved

LEMMA RecheckPairsStep == ASSUME IInv, NEW t \in Actors, RecheckPairs(t) PROVE IInv'
<1> USE DEF RecheckPairs, store, own
<1>0. TypeOK /\ Compatible /\ Own(t)
  BY DEF IInv, Own
<1>1. CASE End(t, "refused")
  BY <1>1, Ended
<1>2. CASE /\ todo' = [todo EXCEPT ![t] = {pr \in todo[t] : StillBlocked(pr)}]
           /\ Goto(t, "insert") /\ UNCHANGED <<proposed, raising, held, answer>>
  <2>1. /\ at'[t] = "insert" /\ at' \in [Actors -> Steps]
        /\ \A u \in Actors \ {t} : at'[u] = at[u] /\ todo'[u] = todo[u]
        /\ todo' \in [Actors -> SUBSET Pairs]
        /\ todo'[t] = {pr \in todo[t] : StillBlocked(pr)}
    BY <1>0, <1>2 DEF TypeOK, Goto, Steps
  <2>2. TypeOK' /\ Compatible'
    BY <1>0, <1>2, <2>1 DEF TypeOK, Compatible, HeldType
  <2>3. Alone(t)
    BY <1>2, <2>1 DEF Alone
  <2>4. proposed[t] = {}
    BY <1>0 DEF Own, ProposedOK
  <2>5. GenerateOK(t)'
    BY <1>0, <1>2, <2>1, <2>4 DEF Own, GenerateOK, StillBlocked, Blocked, IsAlias
  <2>6. ReviewOK(t)' /\ WriterOK(t)' /\ ProposedOK(t)'
    BY <1>0, <1>2 DEF Own, ReviewOK, WriterOK, ProposedOK, Writing
  <2>7. \A pr \in Pairs : ~HoldsCandidate(t, pr)'
    BY DEF HoldsCandidate
  <2>8. \A u \in Actors \ {t} : proposed'[t] \intersect proposed[u] = {}
    BY <1>2 DEF IInv, CandidatesOK
  <2> QED BY <1>2, <2>2, <2>3, <2>5, <2>6, <2>7, <2>8, Uncommitted DEF Own
<1> QED BY <1>1, <1>2

LEMMA LockTargetStep == ASSUME IInv, NEW t \in Actors, LockTarget(t) PROVE IInv'
<1> USE DEF store, own
<1>0. /\ TypeOK /\ Compatible /\ Own(t) /\ HeldType /\ plan[t].kind \in Writing /\ at[t] = "lock"
      /\ UNCHANGED <<plan, store, own, answer>>
      /\ plan[t].property \in Properties
  BY JobType DEF IInv, Own, TypeOK, LockTarget
<1>1. /\ at'[t] \in {"check", "commit"}
      /\ at'[t] = "commit" => plan[t].kind \notin LockFirst
      /\ at' \in [Actors -> Steps]
      /\ \A u \in Actors \ {t} : at'[u] = at[u]
  BY <1>0 DEF TypeOK, Goto, Steps, LockTarget
<1>2. WriterMode(plan[t].kind) \in 0..4
  BY DEF WriterMode
<1>3. Lock(t, plan[t].property, WriterMode(plan[t].kind))
  BY DEF LockTarget
<1>4. /\ HeldType' /\ Compatible'
      /\ \A u \in Actors \ {t}, q \in Properties : held'[u][q] = held[u][q]
      /\ held'[t][plan[t].property] >= WriterMode(plan[t].kind)
  BY <1>0, <1>2, <1>3, LockStep
<1>5. TypeOK'
  BY <1>0, <1>1, <1>4 DEF TypeOK
<1>6. Alone(t)
  BY <1>0, <1>1, <1>3 DEF Alone, HeldType, Lock
<1>7. WriterOK(t)'
  BY <1>0, <1>1, <1>4 DEF WriterOK
<1>8. ReviewOK(t)' /\ GenerateOK(t)' /\ ProposedOK(t)'
  BY <1>0 DEF Own, ReviewOK, GenerateOK, ProposedOK, Writing
<1>9. \A pr \in Pairs : ~HoldsCandidate(t, pr)'
  BY <1>0 DEF HoldsCandidate, Writing
<1>10. \A u \in Actors \ {t} : proposed'[t] \intersect proposed[u] = {}
  BY <1>0 DEF IInv, CandidatesOK
<1> QED BY <1>0, <1>4, <1>5, <1>6, <1>7, <1>8, <1>9, <1>10, Uncommitted DEF Own

LEMMA CheckTargetStep == ASSUME IInv, NEW t \in Actors, CheckTarget(t) PROVE IInv'
<1> USE DEF CheckTarget, store, own
<1>0. TypeOK /\ Compatible /\ Own(t)
  BY DEF IInv, Own
<1>1. CASE RefuseAlias(plan[t].property) /\ End(t, "refused")
  BY <1>1, Ended
<1>2. CASE /\ ~RefuseAlias(plan[t].property)
           /\ Goto(t, IF plan[t].kind \in LockFirst THEN "commit" ELSE "lock")
           /\ UNCHANGED <<own, held, answer>>
  <2>1. /\ at'[t] = IF plan[t].kind \in LockFirst THEN "commit" ELSE "lock"
        /\ at' \in [Actors -> Steps]
        /\ \A u \in Actors \ {t} : at'[u] = at[u]
    BY <1>0, <1>2 DEF TypeOK, Goto, Steps
  <2>2. TypeOK' /\ Compatible'
    BY <1>0, <1>2, <2>1 DEF TypeOK, Compatible, HeldType
  <2>3. Alone(t)
    BY <1>2, <2>1 DEF Alone
  <2>4. WriterOK(t)'
    BY <1>0, <1>2, <2>1 DEF Own, WriterOK, IsAlias, RefuseAlias
  <2>5. ReviewOK(t)' /\ GenerateOK(t)' /\ ProposedOK(t)'
    BY <1>0, <1>2 DEF Own, ReviewOK, GenerateOK, ProposedOK, Writing
  <2>6. \A pr \in Pairs : ~HoldsCandidate(t, pr)'
    BY <1>2 DEF HoldsCandidate, Writing
  <2>7. \A u \in Actors \ {t} : proposed'[t] \intersect proposed[u] = {}
    BY <1>2 DEF IInv, CandidatesOK
  <2> QED BY <1>2, <2>2, <2>3, <2>4, <2>5, <2>6, <2>7, Uncommitted DEF Own
<1> QED BY <1>1, <1>2

LEMMA FailStep == ASSUME IInv, NEW t \in Actors, Fail(t) PROVE IInv'
BY Ended DEF Fail
-----------------------------------------------------------------------------
(* The commits.  Two transactions never hold conflicting modes on one row. *)
LEMMA NoConflict ==
  ASSUME TypeOK, Compatible, NEW t \in Actors, NEW u \in Actors \ {t}, NEW p \in Properties,
         held[t][p] >= Update
  PROVE  held[u][p] = 0
<1>1. held[t][p] \in 0..4 /\ held[u][p] \in 0..4
  BY DEF TypeOK, HeldType
<1>2. held[t][p] + held[u][p] <= 4
  BY DEF Compatible
<1> QED BY <1>1, <1>2

(* What CommitReview changes: its own candidate, and the alias it makes.   *)
LEMMA CommitReviewStep == ASSUME IInv, NEW t \in Actors, CommitReview(t) PROVE IInv'
<1> DEFINE same == plan[t].decision = "CONFIRMED_SAME"
<1>0. /\ TypeOK /\ Compatible /\ Own(t) /\ NoChains /\ CandidatesOK
      /\ plan[t].kind = "review" /\ at[t] = "commit"
      /\ End(t, "written") /\ UNCHANGED <<plan, place, open>>
  BY DEF IInv, Own, CommitReview
<1>1. /\ Pair(t) \in Pairs /\ Pair(t)[1] \in Properties /\ Pair(t)[2] \in Properties
      /\ Pair(t)[1] # Pair(t)[2] /\ plan[t] \in Job
  BY <1>0, JobType
<1>2. same => /\ plan[t].property \in Properties /\ Alias(t) \in Properties
              /\ {Alias(t), plan[t].property} = {Pair(t)[1], Pair(t)[2]}
              /\ Alias(t) # plan[t].property
  BY <1>0, AliasType
<1>3. /\ status' = [status EXCEPT ![Pair(t)] = plan[t].decision]
      /\ aliasOf' = IF same THEN [aliasOf EXCEPT ![Alias(t)] = plan[t].property] ELSE aliasOf
      /\ tasks' = tasks \union raising[t]
  BY DEF CommitReview
<1>4. /\ held[t][Pair(t)[1]] >= Update /\ held[t][Pair(t)[2]] >= Update
      /\ ~NotCanonical(t) /\ status[Pair(t)] \notin Final
  BY <1>0 DEF Own, ReviewOK
<1>5. /\ ~IsAlias(Pair(t)[1]) /\ ~IsAlias(Pair(t)[2])
      /\ same => ~IsAlias(Alias(t)) /\ ~IsAlias(plan[t].property) /\ ~Canonical(Alias(t))
  BY <1>2, <1>4 DEF NotCanonical
<1>6. \A u \in Actors \ {t} : held[u][Pair(t)[1]] = 0 /\ held[u][Pair(t)[2]] = 0
  BY <1>0, <1>1, <1>4, NoConflict
<1>7. /\ at'[t] = "done" /\ proposed'[t] = {} /\ todo'[t] = {} /\ HeldType' /\ Compatible'
      /\ \A r \in Properties : held'[t][r] = 0
      /\ \A u \in Actors \ {t} : /\ at'[u] = at[u] /\ held'[u] = held[u] /\ todo'[u] = todo[u]
                                 /\ proposed'[u] = proposed[u] /\ raising'[u] = raising[u]
  BY <1>0, EndStep
<1>8. TypeOK'
  <2>1. /\ at' \in [Actors -> Steps]
        /\ todo' \in [Actors -> SUBSET Pairs] /\ proposed' \in [Actors -> SUBSET Pairs]
        /\ raising' \in [Actors -> SUBSET Work]
        /\ answer' \in [Actors -> {"none", "written", "refused", "error"}]
    BY <1>0, EndStep
  <2>2. status' \in [Pairs -> Open \union Final \union {"none"}]
    BY <1>0, <1>1, <1>3 DEF TypeOK, Job, Decisions, Open, Final
  <2>3. aliasOf' \in [Properties -> Properties \union {None}]
    BY <1>0, <1>2, <1>3 DEF TypeOK
  <2>4. tasks' \subseteq Work
    BY <1>0, <1>3 DEF TypeOK
  <2> QED BY <1>0, <1>7, <2>1, <2>2, <2>3, <2>4 DEF TypeOK
<1>9. None \notin Properties
  BY PropertiesAssumption
(* The alias it writes starts no chain, ends none, and names the pair.     *)
<1>10. NoChains'
  <2>1. ASSUME NEW p \in Properties, aliasOf'[p] # None PROVE aliasOf'[aliasOf'[p]] = None
    <3>1. CASE same /\ p = Alias(t)
      BY <1>0, <1>2, <1>3, <1>5, <1>9, <3>1 DEF TypeOK, IsAlias
    <3>2. CASE same /\ p # Alias(t)
      <4>1. aliasOf'[p] = aliasOf[p] /\ aliasOf[p] \in Properties
        BY <1>0, <1>3, <2>1, <3>2 DEF TypeOK
      <4>2. aliasOf[p] # Alias(t)
        BY <1>5, <3>2 DEF Canonical
      <4>3. aliasOf[aliasOf[p]] = None
        BY <1>0, <2>1, <4>1 DEF NoChains, IsAlias
      <4> QED BY <1>0, <1>3, <3>2, <4>1, <4>2, <4>3 DEF TypeOK
    <3>3. CASE ~same
      BY <1>0, <1>3, <2>1, <3>3 DEF NoChains, IsAlias
    <3> QED BY <3>1, <3>2, <3>3
  <2>2. ASSUME NEW pr \in Pairs
        PROVE status'[pr] = "CONFIRMED_SAME" <=> aliasOf'[pr[1]] = pr[2] \/ aliasOf'[pr[2]] = pr[1]
    <3>0. /\ pr[1] \in Properties /\ pr[2] \in Properties /\ pr = <<pr[1], pr[2]>>
          /\ pr[1] \in Nat /\ pr[2] \in Nat /\ pr[1] < pr[2]
      <4>1. pr \in Properties \X Properties /\ pr[1] < pr[2]
        BY <2>2 DEF Pairs
      <4>2. pr = <<pr[1], pr[2]>> /\ pr[1] \in Properties /\ pr[2] \in Properties
        BY <4>1
      <4> QED BY <4>1, <4>2, PropertiesAssumption
    <3>a. /\ Pair(t) = <<Pair(t)[1], Pair(t)[2]>> /\ Pair(t)[1] \in Nat /\ Pair(t)[2] \in Nat
          /\ Pair(t)[1] < Pair(t)[2]
      BY <1>1, PropertiesAssumption DEF Pairs
    <3>1. CASE pr = Pair(t)
      <4>1. status'[pr] = plan[t].decision
        BY <1>0, <1>1, <1>3, <3>1 DEF TypeOK
      <4>2. CASE same
        <5>1. aliasOf'[Alias(t)] = plan[t].property
          BY <1>0, <1>2, <1>3, <4>2 DEF TypeOK
        <5> QED BY <1>2, <3>1, <4>1, <4>2, <5>1
      <4>3. CASE ~same
        BY <1>3, <1>5, <1>9, <3>0, <3>1, <4>1, <4>3 DEF IsAlias
      <4> QED BY <4>2, <4>3
    <3>2. CASE pr # Pair(t) /\ same
      <4>1. status'[pr] = status[pr]
        BY <1>0, <1>3, <3>2 DEF TypeOK
      <4>2. \A p \in Properties : aliasOf'[p] = IF p = Alias(t) THEN plan[t].property ELSE aliasOf[p]
        BY <1>0, <1>3, <3>2 DEF TypeOK
      <4>3. ASSUME NEW p \in Properties, NEW q \in Properties, {p, q} = {pr[1], pr[2]}
            PROVE aliasOf'[p] = q <=> aliasOf[p] = q
        <5>1. CASE p = Alias(t)
          <6>1. aliasOf[p] # q
            BY <1>5, <1>9, <3>2, <5>1 DEF IsAlias
          <6>2. q # plan[t].property
            BY <1>2, <3>0, <3>a, <3>2, <4>3, <5>1
          <6> QED BY <4>2, <5>1, <6>1, <6>2
        <5>2. CASE p # Alias(t)
          BY <4>2, <5>2
        <5> QED BY <5>1, <5>2
      <4>4. aliasOf'[pr[1]] = pr[2] <=> aliasOf[pr[1]] = pr[2]
        BY <3>0, <4>3
      <4>5. aliasOf'[pr[2]] = pr[1] <=> aliasOf[pr[2]] = pr[1]
        BY <3>0, <4>3
      <4> QED BY <1>0, <4>1, <4>4, <4>5 DEF NoChains
    <3>3. CASE pr # Pair(t) /\ ~same
      BY <1>0, <1>3, <3>3 DEF NoChains, TypeOK
    <3> QED BY <3>1, <3>2, <3>3
  <2> QED BY <2>1, <2>2 DEF NoChains, IsAlias

(* The others see no change on what they hold.                             *)
<1>11. ASSUME NEW u \in Actors \ {t}, NEW p \in Properties, held[u][p] > 0 \/ aliasOf[p] # None
       PROVE  aliasOf'[p] = aliasOf[p]
  <2>1. CASE same
    <3>1. p # Alias(t)
      <4>1. CASE held[u][p] > 0
        <5>1. p # Pair(t)[1] /\ p # Pair(t)[2]
          BY <1>6, <4>1
        <5> QED BY <1>2, <2>1, <5>1
      <4>2. CASE aliasOf[p] # None
        BY <1>5, <2>1, <4>2 DEF IsAlias
      <4> QED BY <1>11, <4>1, <4>2
    <3> QED BY <1>0, <1>3, <2>1, <3>1 DEF TypeOK
  <2>2. CASE ~same
    BY <1>3, <2>2
  <2> QED BY <2>1, <2>2
<1>12. \A pr \in Pairs : pr # Pair(t) => status'[pr] = status[pr]
  BY <1>0, <1>3 DEF TypeOK
<1>13. status'[Pair(t)] = plan[t].decision /\ plan[t].decision # "none"
  BY <1>0, <1>1, <1>3 DEF TypeOK, Job, Decisions, Final
<1>14. ASSUME NEW u \in Actors \ {t} PROVE Own(u)
  BY <1>14 DEF IInv, Own
<1>15. ASSUME NEW u \in Actors \ {t}, plan[u].kind = "review" PROVE ReviewOK(u)'
  <2>0. /\ Pair(u) \in Pairs /\ Pair(u)[1] \in Properties /\ Pair(u)[2] \in Properties
        /\ plan[u] \in Job
    BY <1>0, JobType
  <2>1. /\ Pair(u)' = Pair(u) /\ Alias(u)' = Alias(u) /\ at'[u] = at[u] /\ held'[u] = held[u]
        /\ raising'[u] = raising[u] /\ plan' = plan /\ \A p : OpenOn(p)' = OpenOn(p)
    BY <1>0, <1>7 DEF Pair, Alias, OpenOn
  <2>2. ReviewOK(u)
    BY <1>14 DEF Own
  <2>3. at[u] \in {"first", "second", "check", "record", "commit"} => status'[Pair(u)] = status[Pair(u)]
    <3> SUFFICES ASSUME at[u] \in {"first", "second", "check", "record", "commit"}
                 PROVE Pair(u) # Pair(t)
      BY <1>12, <2>0
    <3>1. HoldsCandidate(u, Pair(u)) /\ HoldsCandidate(t, Pair(t))
      BY <1>0, <1>15 DEF HoldsCandidate
    <3> QED BY <1>0, <1>1, <3>1 DEF CandidatesOK
  <2>4. at[u] \notin {"idle", "done"} => status'[Pair(u)] # "none"
    BY <1>12, <1>13, <1>15, <2>0, <2>2 DEF ReviewOK
  <2>5. at[u] \in {"record", "commit"} => ~NotCanonical(u)'
    <3> SUFFICES ASSUME at[u] \in {"record", "commit"} PROVE ~NotCanonical(u)'
      OBVIOUS
    <3>1. held[u][Pair(u)[1]] > 0 /\ held[u][Pair(u)[2]] > 0 /\ ~NotCanonical(u)
      <4>1. held[u][Pair(u)[1]] \in 0..4 /\ held[u][Pair(u)[2]] \in 0..4
        BY <1>0, <2>0 DEF TypeOK, HeldType
      <4> QED BY <1>15, <2>2, <4>1 DEF ReviewOK
    <3>2. ~IsAlias(Pair(u)[1])' /\ ~IsAlias(Pair(u)[2])'
      BY <1>11, <2>0, <2>1, <3>1 DEF NotCanonical, IsAlias
    <3>3. CASE plan[u].decision = "CONFIRMED_SAME"
      <4>1. /\ Alias(u) \in {Pair(u)[1], Pair(u)[2]} /\ Alias(u) \in Properties
            /\ held[u][Alias(u)] > 0
        BY <1>0, <1>15, <2>0, <3>1, <3>3, AliasType DEF Alias
      <4>2. ASSUME NEW q \in Properties, aliasOf'[q] = Alias(u) PROVE FALSE
        <5>1. aliasOf[q] # Alias(u)
          BY <3>1, <3>3 DEF NotCanonical, Canonical
        <5>2. same /\ plan[t].property = Alias(u)
          BY <1>0, <1>2, <1>3, <4>2, <5>1 DEF TypeOK
        <5>3. Alias(u) \in {Pair(t)[1], Pair(t)[2]}
          BY <1>2, <5>2
        <5> QED BY <1>6, <4>1, <5>3
      <4> QED BY <2>1, <3>2, <4>2 DEF NotCanonical, Canonical
    <3>4. CASE plan[u].decision # "CONFIRMED_SAME"
      BY <2>1, <3>2, <3>4 DEF NotCanonical
    <3> QED BY <3>3, <3>4
  <2>6. /\ at'[u] \in {"second", "check", "record", "commit"} => held'[u][Pair(u)'[1]] >= Update
        /\ at'[u] \in {"check", "record", "commit"} => held'[u][Pair(u)'[2]] >= Update
        /\ at'[u] \notin {"idle", "done"} => status'[Pair(u)'] # "none"
        /\ at'[u] \in {"first", "second", "check", "record", "commit"} => status'[Pair(u)'] \notin Final
        /\ at'[u] \in {"record", "commit"} => ~NotCanonical(u)'
        /\ at'[u] = "commit" /\ plan'[u].decision = "CONFIRMED_SAME" =>
             OpenOn(Alias(u))' \subseteq raising'[u]
    BY <1>15, <2>1, <2>2, <2>3, <2>4, <2>5 DEF ReviewOK, OpenOn
  <2> QED BY <2>6 DEF ReviewOK
<1>16. ASSUME NEW u \in Actors \ {t} PROVE GenerateOK(u)' /\ WriterOK(u)' /\ ProposedOK(u)'
  <2>1. /\ at'[u] = at[u] /\ held'[u] = held[u] /\ todo'[u] = todo[u] /\ proposed'[u] = proposed[u]
        /\ plan' = plan /\ place' = place
    BY <1>0, <1>7
  <2>2. held[u] \in [Properties -> 0..4] /\ todo[u] \union proposed[u] \subseteq Pairs
    BY <1>0 DEF TypeOK, HeldType
  <2>3. ASSUME NEW pr \in todo[u] \union proposed[u], plan[u].kind = "generate",
               at[u] \in {"insert", "commit"}
        PROVE  StillBlocked(pr)' /\ pr # Pair(t)
    <3>1. pr[1] \in Properties /\ pr[2] \in Properties
      BY <2>2 DEF Pairs
    <3>2. held[u][pr[1]] > 0 /\ held[u][pr[2]] > 0 /\ StillBlocked(pr)
      BY <1>14, <2>2, <2>3, <3>1 DEF Own, GenerateOK
    <3> QED BY <1>6, <1>11, <2>1, <3>1, <3>2 DEF StillBlocked, Blocked, IsAlias
  <2>4. GenerateOK(u)'
    BY <1>14, <2>1, <2>3 DEF Own, GenerateOK
  <2>5. WriterOK(u)'
    <3>1. plan[u].kind \in Writing => plan[u].property \in Properties
      BY <1>0, JobType
    <3>2. plan[u].kind \in Writing /\ at[u] = "commit" => held[u][plan[u].property] > 0
      <4>1. WriterMode(plan[u].kind) \in 1..4
        BY DEF WriterMode
      <4> QED BY <1>14, <2>2, <3>1, <4>1 DEF Own, WriterOK
    <3> QED BY <1>11, <1>14, <2>1, <3>1, <3>2 DEF Own, WriterOK, IsAlias
  <2>6. ProposedOK(u)'
    BY <1>12, <1>14, <2>1, <2>2, <2>3 DEF Own, ProposedOK
  <2> QED BY <2>4, <2>5, <2>6
<1>17. Own(t)'
  BY <1>7 DEF Own, ReviewOK, GenerateOK, WriterOK, ProposedOK
<1>18. CandidatesOK'
  <2>1. ASSUME NEW u \in Actors PROVE /\ \A pr \in Pairs : HoldsCandidate(u, pr)' => HoldsCandidate(u, pr)
                                      /\ proposed'[u] \subseteq proposed[u]
    BY <1>0, <1>7 DEF HoldsCandidate, Pair
  <2> QED BY <1>0, <2>1 DEF CandidatesOK
<1>19. ASSUME NEW u \in Actors PROVE Own(u)'
  <2>1. CASE u # t /\ plan[u].kind = "review"
    BY <1>15, <1>16, <2>1 DEF Own
  <2>2. CASE u # t /\ plan[u].kind # "review"
    BY <1>0, <1>16, <2>2 DEF Own, ReviewOK
  <2> QED BY <1>17, <2>1, <2>2
<1> QED BY <1>7, <1>8, <1>10, <1>18, <1>19 DEF IInv, Own
LEMMA CommitGenerateStep == ASSUME IInv, NEW t \in Actors, CommitGenerate(t) PROVE IInv'
<1>0. /\ TypeOK /\ Compatible /\ Own(t) /\ NoChains /\ CandidatesOK
      /\ plan[t].kind = "generate" /\ at[t] = "commit"
      /\ End(t, "written") /\ UNCHANGED <<plan, place, aliasOf, open, tasks>>
      /\ status' = [pr \in Pairs |-> IF pr \in proposed[t] THEN "PENDING_REVIEW" ELSE status[pr]]
  BY DEF IInv, Own, CommitGenerate
<1>1. /\ at'[t] = "done" /\ proposed'[t] = {} /\ todo'[t] = {} /\ HeldType' /\ Compatible'
      /\ \A r \in Properties : held'[t][r] = 0
      /\ \A u \in Actors \ {t} : /\ at'[u] = at[u] /\ held'[u] = held[u] /\ todo'[u] = todo[u]
                                 /\ proposed'[u] = proposed[u] /\ raising'[u] = raising[u]
  BY <1>0, EndStep
<1>2. TypeOK'
  <2>1. /\ at' \in [Actors -> Steps]
        /\ todo' \in [Actors -> SUBSET Pairs] /\ proposed' \in [Actors -> SUBSET Pairs]
        /\ raising' \in [Actors -> SUBSET Work]
        /\ answer' \in [Actors -> {"none", "written", "refused", "error"}]
    BY <1>0, EndStep
  <2>2. status' \in [Pairs -> Open \union Final \union {"none"}]
    BY <1>0 DEF TypeOK, Open
  <2> QED BY <1>0, <1>1, <2>1, <2>2 DEF TypeOK
<1>3. \A pr \in Pairs : /\ status[pr] # "none" => status'[pr] = status[pr]
                        /\ pr \notin proposed[t] => status'[pr] = status[pr]
                        /\ status'[pr] = "CONFIRMED_SAME" <=> status[pr] = "CONFIRMED_SAME"
  BY <1>0 DEF Own, ProposedOK
<1>4. NoChains'
  BY <1>0, <1>3 DEF NoChains, IsAlias
<1>5. ASSUME NEW u \in Actors \ {t} PROVE Own(u)'
  <2>0. Own(u) /\ Pair(u) \in Pairs
    BY <1>0, JobType DEF IInv, Own
  <2>1. ReviewOK(u)'
    BY <1>0, <1>1, <1>3, <2>0 DEF Own, ReviewOK, Pair, Alias, NotCanonical, IsAlias, Canonical, OpenOn
  <2>2. GenerateOK(u)' /\ WriterOK(u)'
    BY <1>0, <1>1, <2>0 DEF Own, GenerateOK, WriterOK, StillBlocked, Blocked, IsAlias
  <2>3. ProposedOK(u)'
    <3>1. proposed[u] \intersect proposed[t] = {} /\ proposed[u] \subseteq Pairs
      BY <1>0 DEF CandidatesOK, TypeOK
    <3> QED BY <1>0, <1>1, <1>3, <2>0, <3>1 DEF Own, ProposedOK
  <2> QED BY <2>1, <2>2, <2>3 DEF Own
<1>6. Own(t)'
  BY <1>1 DEF Own, ReviewOK, GenerateOK, WriterOK, ProposedOK
<1>7. CandidatesOK'
  <2>1. ASSUME NEW u \in Actors PROVE /\ \A pr \in Pairs : HoldsCandidate(u, pr)' => HoldsCandidate(u, pr)
                                      /\ proposed'[u] \subseteq proposed[u]
    BY <1>0, <1>1 DEF HoldsCandidate, Pair
  <2> QED BY <1>0, <2>1 DEF CandidatesOK
<1> QED BY <1>1, <1>2, <1>4, <1>5, <1>6, <1>7 DEF IInv, Own

LEMMA CommitWriteStep == ASSUME IInv, NEW t \in Actors, CommitWrite(t) PROVE IInv'
<1> DEFINE p == plan[t].property
<1>0. /\ TypeOK /\ Compatible /\ Own(t) /\ NoChains /\ CandidatesOK
      /\ plan[t].kind \in Writing /\ at[t] = "commit" /\ p \in Properties /\ plan[t] \in Job
      /\ End(t, "written") /\ UNCHANGED <<plan, aliasOf, status, tasks>>
  BY JobType DEF IInv, Own, CommitWrite
<1>1. /\ place' = IF plan[t].kind = "patch" THEN [place EXCEPT ![p] = plan[t].place] ELSE place
      /\ open' = IF plan[t].kind \in {"match", "opportunity"} THEN open \union {<<p, t>>} ELSE open
  BY DEF CommitWrite
<1>2. /\ at'[t] = "done" /\ proposed'[t] = {} /\ todo'[t] = {} /\ HeldType' /\ Compatible'
      /\ \A r \in Properties : held'[t][r] = 0
      /\ \A u \in Actors \ {t} : /\ at'[u] = at[u] /\ held'[u] = held[u] /\ todo'[u] = todo[u]
                                 /\ proposed'[u] = proposed[u] /\ raising'[u] = raising[u]
  BY <1>0, EndStep
<1>3. TypeOK'
  <2>1. /\ at' \in [Actors -> Steps]
        /\ todo' \in [Actors -> SUBSET Pairs] /\ proposed' \in [Actors -> SUBSET Pairs]
        /\ raising' \in [Actors -> SUBSET Work]
        /\ answer' \in [Actors -> {"none", "written", "refused", "error"}]
    BY <1>0, EndStep
  <2>2. place' \in [Properties -> Places \union {None}]
    BY <1>0, <1>1 DEF TypeOK, Job
  <2>3. open' \subseteq Work
    BY <1>0, <1>1 DEF TypeOK, Work
  <2> QED BY <1>0, <1>2, <2>1, <2>2, <2>3 DEF TypeOK
<1>4. NoChains'
  BY <1>0 DEF NoChains, IsAlias
<1>5. held[t][p] >= WriterMode(plan[t].kind)
  BY <1>0 DEF Own, WriterOK
<1>6. ASSUME NEW u \in Actors \ {t} PROVE Own(u)'
  <2>0. Own(u)
    BY DEF IInv, Own
  <2>1. ReviewOK(u)'
    <3>1. ASSUME plan[u].kind = "review", at[u] = "commit", plan[u].decision = "CONFIRMED_SAME"
          PROVE  OpenOn(Alias(u))' \subseteq raising[u]
      <4>1. Alias(u) \in Properties /\ Alias(u) \in {Pair(u)[1], Pair(u)[2]}
        BY <1>0, <3>1, AliasType DEF Alias
      <4>2. held[u][Alias(u)] >= Update /\ OpenOn(Alias(u)) \subseteq raising[u]
        BY <2>0, <3>1, <4>1 DEF Own, ReviewOK
      <4>3. held[t][Alias(u)] = 0
        BY <1>0, <4>1, <4>2, NoConflict
      <4>4. p # Alias(u)
        <5>1. WriterMode(plan[t].kind) \in 1..4
          BY DEF WriterMode
        <5> QED BY <1>5, <4>3, <5>1
      <4>5. OpenOn(Alias(u))' = OpenOn(Alias(u))
        BY <1>0, <1>1, <4>4 DEF OpenOn, Alias, Pair
      <4> QED BY <4>2, <4>5
    <3> QED BY <1>0, <1>2, <2>0, <3>1
            DEF Own, ReviewOK, Pair, NotCanonical, IsAlias, Canonical, Alias, OpenOn
  <2>2. GenerateOK(u)'
    <3>1. ASSUME plan[u].kind = "generate", at[u] \in {"insert", "commit"},
                 NEW pr \in todo[u] \union proposed[u]
          PROVE  StillBlocked(pr)'
      <4>1. pr[1] \in Properties /\ pr[2] \in Properties
        BY <1>0 DEF TypeOK, Pairs
      <4>2. held[u][pr[1]] >= Share /\ held[u][pr[2]] >= Share /\ StillBlocked(pr)
        BY <2>0, <3>1 DEF Own, GenerateOK
      <4>3. CASE plan[t].kind = "patch"
        <5>1. held[t][p] >= Update
          BY <1>5, <4>3 DEF WriterMode, CheckFirst, Writing, LockFirst
        <5>2. held[u][p] = 0
          BY <1>0, <5>1, NoConflict
        <5>3. p # pr[1] /\ p # pr[2]
          BY <4>2, <5>2
        <5> QED BY <1>0, <1>1, <4>1, <4>2, <5>3 DEF StillBlocked, Blocked, IsAlias, TypeOK
      <4>4. CASE plan[t].kind # "patch"
        BY <1>0, <1>1, <4>2, <4>4 DEF StillBlocked, Blocked, IsAlias
      <4> QED BY <4>3, <4>4
    <3> QED BY <1>0, <1>2, <2>0, <3>1 DEF Own, GenerateOK
  <2>3. WriterOK(u)' /\ ProposedOK(u)'
    BY <1>0, <1>2, <2>0 DEF Own, WriterOK, ProposedOK, IsAlias
  <2> QED BY <2>1, <2>2, <2>3 DEF Own
<1>7. Own(t)'
  BY <1>2 DEF Own, ReviewOK, GenerateOK, WriterOK, ProposedOK
<1>8. CandidatesOK'
  <2>1. ASSUME NEW u \in Actors PROVE /\ \A pr \in Pairs : HoldsCandidate(u, pr)' => HoldsCandidate(u, pr)
                                      /\ proposed'[u] \subseteq proposed[u]
    BY <1>0, <1>2 DEF HoldsCandidate, Pair
  <2> QED BY <1>0, <2>1 DEF CandidatesOK
<1> QED BY <1>2, <1>3, <1>4, <1>6, <1>7, <1>8 DEF IInv, Own

-----------------------------------------------------------------------------
LEMMA Inductive == IInv /\ [Next]_vars => IInv'
<1> SUFFICES ASSUME IInv, [Next]_vars PROVE IInv'
  OBVIOUS
<1>1. CASE UNCHANGED vars
  BY <1>1 DEF vars, store, own, IInv, TypeOK, HeldType, Compatible, NoChains, CandidatesOK, ReviewOK,
     GenerateOK, WriterOK, ProposedOK, HoldsCandidate, Pair, Alias, IsAlias, Canonical, NotCanonical,
     OpenOn, StillBlocked, Blocked
<1>2. CASE Finished
  BY <1>1, <1>2 DEF Finished
<1>3. ASSUME NEW t \in Actors, Begin(t) \/ Run(t) \/ Fail(t) PROVE IInv'
  BY <1>3, BeginStep, FailStep, LockCandidateStep, LockPairStep, CheckPairStep, RecordStep,
     CommitReviewStep, ReadPairsStep, LockInvolvedStep, RecheckPairsStep, InsertCandidateStep,
     CommitGenerateStep, LockTargetStep, CheckTargetStep, CommitWriteStep DEF Run
<1> QED BY <1>1, <1>2, <1>3 DEF Next

(* The invariant holds of every behaviour: in particular no alias names an *)
(* alias (NoChains), however many reviews, generates and writers overlap   *)
(* (identity.review and generate under the properties' row locks).         *)
THEOREM Invariance == Spec => []IInv
<1> QED BY InitOK, Inductive, PTL DEF Spec

(* No alias chains, and CONFIRMED_SAME exactly where an alias was written. *)
THEOREM ChainFree == Spec => []NoChains
<1>1. IInv => NoChains
  BY DEF IInv
<1> QED BY Invariance, <1>1, PTL
-----------------------------------------------------------------------------
(* Only the two commits change a candidate's status, and each has checked  *)
(* under its locks what the properties below state.                        *)
LEMMA StatusStep ==
  ASSUME IInv, [Next]_vars, NEW pr \in Pairs, status'[pr] # status[pr]
  PROVE  /\ ~IsAlias(pr[1]) /\ ~IsAlias(pr[2])
         /\ status[pr] \notin Final
         /\ status[pr] = "none" => Blocked(pr)
<1>1. PICK t \in Actors : CommitReview(t) \/ CommitGenerate(t)
  BY DEF Next, Begin, Run, Fail, Finished, vars, store, LockCandidate, LockPair, CheckPair, Record,
     ReadPairs, LockInvolved, RecheckPairs, InsertCandidate, LockTarget, CheckTarget, CommitWrite
<1>2. CASE CommitReview(t)
  <2>1. status' = [status EXCEPT ![Pair(t)] = plan[t].decision] /\ Pair(t) \in Pairs
    BY <1>2, JobType DEF CommitReview, IInv
  <2>2. pr = Pair(t)
    BY <2>1 DEF IInv, TypeOK
  <2> QED BY <1>2, <2>2 DEF IInv, CommitReview, ReviewOK, NotCanonical
<1>3. CASE CommitGenerate(t)
  <2>1. pr \in proposed[t]
    BY <1>3 DEF CommitGenerate
  <2>2. status[pr] = "none" /\ StillBlocked(pr)
    BY <1>3, <2>1 DEF IInv, CommitGenerate, GenerateOK, ProposedOK
  <2> QED BY <2>2 DEF StillBlocked, Final
<1> QED BY <1>1, <1>2, <1>3

(* No decision is ever overwritten and none is taken on an alias, whatever *)
(* reviews overlap (identity.review, _lock_pair_and_check).                *)
THEOREM DecisionsStand == Spec => DecidedOnce
<1>1. IInv /\ [Next]_vars =>
        [\A pr \in Pairs :
           status'[pr] # status[pr] =>
             /\ status[pr] \notin Final
             /\ ~IsAlias(pr[1]) /\ ~IsAlias(pr[2])]_vars
  BY StatusStep
<1> QED BY Invariance, <1>1, PTL DEF Spec, DecidedOnce

(* Every candidate written is a pair of canonical properties of one type   *)
(* and place when it is written (generate, _lock_and_recheck).             *)
THEOREM ProposalsCurrent == Spec => ProposedAsIs
<1>1. IInv /\ [Next]_vars =>
        [\A pr \in Pairs :
           status[pr] = "none" /\ status'[pr] # "none" =>
             /\ place[pr[1]] # None /\ place[pr[1]] = place[pr[2]]
             /\ ~IsAlias(pr[1]) /\ ~IsAlias(pr[2])]_vars
  BY StatusStep DEF Blocked
<1> QED BY Invariance, <1>1, PTL DEF Spec, ProposedAsIs

(* No match or opportunity slips between a review's reading of the work on *)
(* the alias and its commit (raise_review_work).                           *)
THEOREM NothingStranded == Spec => WorkSurfaced
<1>1. ASSUME IInv, [Next]_vars, NEW p \in Properties, aliasOf'[p] # aliasOf[p]
      PROVE OpenOn(p) \subseteq tasks'
  <2>1. PICK t \in Actors : CommitReview(t)
    BY <1>1 DEF Next, Begin, Run, Fail, Finished, vars, store, LockCandidate, LockPair, CheckPair,
       Record, ReadPairs, LockInvolved, RecheckPairs, InsertCandidate, LockTarget, CheckTarget,
       CommitWrite, CommitGenerate
  <2>2. /\ plan[t].kind = "review" /\ at[t] = "commit" /\ plan[t].decision = "CONFIRMED_SAME"
        /\ aliasOf' = [aliasOf EXCEPT ![Alias(t)] = plan[t].property]
        /\ tasks' = tasks \union raising[t]
    BY <1>1, <2>1 DEF CommitReview
  <2>3. p = Alias(t)
    BY <1>1, <2>2 DEF IInv, TypeOK
  <2> QED BY <1>1, <2>2, <2>3 DEF IInv, ReviewOK
<1>2. IInv /\ [Next]_vars =>
        [\A p \in Properties : aliasOf'[p] # aliasOf[p] => OpenOn(p) \subseteq tasks']_vars
  BY <1>1
<1> QED BY Invariance, <1>2, PTL DEF Spec, WorkSurfaced

(* A writer that takes the property's row before it reads the aliases      *)
(* never writes to an alias (currency._lock, patch_property,               *)
(* reconfirm_availability).                                                *)
THEOREM LockedWritersRefuse == Spec => LockedWritesCanonical
<1>1. ASSUME IInv, [Next]_vars, NEW t \in Actors,
             plan[t].kind \in {"opportunity", "reconfirm", "patch"},
             answer[t] = "none", answer'[t] = "written"
      PROVE ~IsAlias(plan[t].property)
  <2>1. PICK u \in Actors : CommitReview(u) \/ CommitGenerate(u) \/ CommitWrite(u)
    BY <1>1 DEF Next, Begin, Run, Fail, Finished, vars, own, LockCandidate, LockPair, CheckPair,
       Record, ReadPairs, LockInvolved, RecheckPairs, InsertCandidate, LockTarget, CheckTarget, End,
       IInv, TypeOK
  <2>2. u = t
    BY <1>1, <2>1 DEF CommitReview, CommitGenerate, CommitWrite, End, IInv, TypeOK
  <2>3. CommitWrite(t) /\ plan[t].kind \in LockFirst
    BY <1>1, <2>1, <2>2 DEF CommitReview, CommitGenerate, LockFirst
  <2> QED BY <1>1, <2>3 DEF CommitWrite, IInv, WriterOK
<1>2. IInv /\ [Next]_vars =>
        [\A t \in Actors :
           plan[t].kind \in {"opportunity", "reconfirm", "patch"}
             /\ answer[t] = "none" /\ answer'[t] = "written"
             => ~IsAlias(plan[t].property)]_vars
  BY <1>1
<1> QED BY Invariance, <1>2, PTL DEF Spec, LockedWritesCanonical
=============================================================================
