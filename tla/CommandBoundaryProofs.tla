----------------------- MODULE CommandBoundaryProofs ------------------------
(* Proofs about CommandBoundary, for every set of calls, keys and bodies.  *)
EXTENDS CommandBoundary, TLAPS

USE DEF Steps, Open, Kinds, Keyed, Deciding, Unanswered, Answer, Key, Live,
        Reply, Applied

(* A workload gives every call a kind, a key, a body and a version.        *)
LEMMA CallType ==
  ASSUME TypeOK, NEW c \in Calls
  PROVE  call[c] \in Call
BY PlansAssumption DEF TypeOK

(* COMMIT and ROLLBACK keep the types of what they write.                  *)
LEMMA EndType ==
  ASSUME TypeOK, NEW c \in Calls, NEW what \in {"applied", "replayed", "conflict", "refused", "error"},
         NEW by \in Calls \union {None}, End(c, what, by)
  PROVE  /\ pc' \in [Calls -> Steps] /\ answer' \in [Calls -> Answer]
         /\ lock' \in Calls \union {None} /\ claimant' \in [Keys -> Calls \union {None}]
<1>1. pc' \in [Calls -> Steps]
  BY DEF End, Goto, TypeOK
<1>2. answer' \in [Calls -> Answer]
  BY DEF End, TypeOK
<1>3. lock' \in Calls \union {None} /\ claimant' \in [Keys -> Calls \union {None}]
  BY DEF End, Freed, TypeOK
<1> QED BY <1>1, <1>2, <1>3

(* A call's key is a key, and the rows it reads there are calls or None.   *)
LEMMA KeyType ==
  ASSUME TypeOK, NEW c \in Calls
  PROVE  /\ Key(c) \in Keys
         /\ record[Key(c)] \in Calls \union {None}
         /\ View(c)[Key(c)] \in Calls \union {None}
BY CallType DEF Call, TypeOK, View

(* Initially nothing is stored, locked or answered.                        *)
LEMMA InitOK == Init => IInv
<1> SUFFICES ASSUME Init PROVE IInv
  OBVIOUS
<1>1. TypeOK
  BY DEF Init, AInit, TypeOK
<1>2. Applied = {}
  BY DEF Init, AInit
<1>3. LocksOK
  BY PlansAssumption DEF Init, AInit, LocksOK, LockHeld, ClaimHeld, StepOK
<1>4. RecordsOK
  BY <1>2, PlansAssumption DEF Init, AInit, RecordsOK, Stored
<1>5. NoLostUpdate
  BY <1>2 DEF NoLostUpdate
<1> QED BY <1>1, <1>3, <1>4, <1>5 DEF IInv

(* Every step keeps each variable in its set.                              *)
LEMMA TypeStep ==
  ASSUME TypeOK, [Next]_vars
  PROVE  TypeOK'
<1> USE DEF TypeOK
<1>1. ASSUME NEW c \in Calls, Begin(c) PROVE TypeOK'
  BY <1>1 DEF Begin, Goto, tables, resource
<1>2. ASSUME NEW c \in Calls, ReadKey(c) PROVE TypeOK'
  <2> DEFINE r == View(c)[Key(c)]
  <2>0. UNCHANGED <<call, record, expired, stored, decided, version, snapshot>>
    BY <1>2 DEF ReadKey, tables, resource
  <2>1. CASE (End(c, "replayed", r) \/ End(c, "conflict", None)) /\ UNCHANGED saw
    BY <2>0, <2>1, KeyType, EndType
  <2>2. CASE /\ saw' = [saw EXCEPT ![c] = r]
             /\ Goto(c, IF call[c].kind = "decide" THEN "prepare" ELSE "claim")
             /\ UNCHANGED <<answer, claimant, lock>>
    BY <2>0, <2>2, KeyType DEF Goto
  <2> QED BY <1>2, <2>1, <2>2 DEF ReadKey
<1>3. ASSUME NEW c \in Calls, Prepare(c) PROVE TypeOK'
  BY <1>3 DEF Prepare, Goto, tables, resource
<1>4. ASSUME NEW c \in Calls, Recheck(c) PROVE TypeOK'
  BY <1>4, KeyType, EndType DEF Recheck, tables, resource
<1>5. ASSUME NEW c \in Calls, Claim(c) PROVE TypeOK'
  <2>1. CASE End(c, "error", None)
    BY <1>5, <2>1, EndType DEF Claim, tables, resource
  <2>2. CASE ~End(c, "error", None)
    <3>1. UNCHANGED <<call, record, expired, stored, decided, version, snapshot, saw, answer, lock>>
      BY <1>5, <2>2 DEF Claim, tables, resource
    <3>2. claimant' = [claimant EXCEPT ![Key(c)] = c] \/ claimant' = claimant
      BY <1>5, <2>2 DEF Claim
    <3>3. claimant' \in [Keys -> Calls \union {None}]
      BY <3>2, KeyType
    <3>4. pc' \in [Calls -> Steps]
      BY <1>5, <2>2 DEF Claim, Goto
    <3> QED BY <3>1, <3>3, <3>4
  <2> QED BY <2>1, <2>2
<1>6. ASSUME NEW c \in Calls, Taken(c) PROVE TypeOK'
  BY <1>6, KeyType, EndType DEF Taken, tables, resource
<1>7. ASSUME NEW c \in Calls, Guard(c) PROVE TypeOK'
  <2>1. CASE End(c, "refused", None)
    BY <1>7, <2>1, EndType DEF Guard, tables, resource
  <2>2. CASE ~End(c, "refused", None)
    BY <1>7, <2>2 DEF Guard, LockRow, Goto, tables, resource
  <2> QED BY <2>1, <2>2
<1>8. ASSUME NEW c \in Calls, Handle(c) PROVE TypeOK'
  <2>1. CASE End(c, "refused", None)
    BY <1>8, <2>1, EndType DEF Handle, Complete, resource
  <2>2. CASE ~End(c, "refused", None)
    BY <1>8, <2>2 DEF Handle, LockRow, Complete, Goto, resource
  <2> QED BY <2>1, <2>2
<1>9. ASSUME NEW c \in Calls, Commit(c) PROVE TypeOK'
  <2>1. record' \in [Keys -> Calls \union {None}]
    BY <1>9, KeyType DEF Commit
  <2>2. End(c, "applied", c)
    BY <1>9 DEF Commit
  <2> QED BY <1>9, <2>1, <2>2, EndType DEF Commit
<1>10. ASSUME NEW c \in Calls, Fail(c) PROVE TypeOK'
  <2>1. End(c, "error", None)
    BY <1>10 DEF Fail
  <2> QED BY <1>10, <2>1, EndType DEF Fail, Undo, resource
<1>11. ASSUME NEW k \in Keys, Expire(k) PROVE TypeOK'
  BY <1>11 DEF Expire, resource
<1>12. CASE UNCHANGED vars
  BY <1>12 DEF vars
<1> QED
  BY <1>1, <1>2, <1>3, <1>4, <1>5, <1>6, <1>7, <1>8, <1>9, <1>10, <1>11, <1>12
  DEF Next, Run, Finished
(* A transaction that ends without COMMIT releases what it held and leaves *)
(* every record, snapshot and answer of the others as it was.              *)
LEMMA EndKeeps ==
  ASSUME IInv, NEW c \in Calls, pc[c] \in Open,
         NEW what \in {"replayed", "conflict", "refused", "error"},
         NEW by \in Calls \union {None}, End(c, what, by),
         UNCHANGED <<call, record, expired, decided, version, snapshot, saw>>,
         stored' = stored \/ stored' = stored \ {c}
  PROVE  LocksOK' /\ RecordsOK' /\ NoLostUpdate'
<1> USE DEF IInv
<1>1. /\ pc' = [pc EXCEPT ![c] = "done"]
      /\ answer' = [answer EXCEPT ![c] = [is |-> what, by |-> by]]
      /\ answer[c] = Unanswered
  BY DEF End, Goto
<1>2. /\ lock' # None => lock' = lock /\ lock # c
      /\ lock # c => lock' = lock
      /\ \A k \in Keys : /\ claimant'[k] # None => claimant'[k] = claimant[k] /\ claimant[k] # c
                         /\ claimant[k] # c => claimant'[k] = claimant[k]
  BY PlansAssumption DEF End, Freed, TypeOK
<1>3. Applied' = Applied /\ c \notin Applied
  BY <1>1 DEF TypeOK
<1>4. LockHeld'
  BY <1>1, <1>2 DEF LocksOK, LockHeld, TypeOK
<1>5. ASSUME NEW k \in Keys PROVE ClaimHeld(k)'
  BY <1>1, <1>2 DEF LocksOK, ClaimHeld, TypeOK
<1>6. ASSUME NEW d \in Calls PROVE StepOK(d)'
  <2>1. CASE d = c
    BY <1>1, <2>1 DEF StepOK, TypeOK
  <2>2. CASE d # c
    <3>1. Key(d) \in Keys /\ pc'[d] = pc[d] /\ StepOK(d)
      BY <1>1, <2>2, KeyType DEF TypeOK, LocksOK
    <3> QED BY <1>2, <2>2, <3>1 DEF StepOK
  <2> QED BY <2>1, <2>2
<1>7. RecordsOK'
  <2>1. \A r, k : Stored(r, k) => Stored(r, k)'
    BY <1>3 DEF Stored
  <2> QED BY <1>1, <1>3, <2>1 DEF RecordsOK, TypeOK
<1>8. NoLostUpdate'
  BY <1>3 DEF NoLostUpdate
<1> QED BY <1>4, <1>5, <1>6, <1>7, <1>8 DEF LocksOK

(* A step inside a transaction answers nobody and commits nothing, so the  *)
(* records and the answers stay consistent.                                *)
LEMMA MoveKeeps ==
  ASSUME IInv, NEW c \in Calls, pc[c] # "done", NEW s \in Steps, Goto(c, s),
         UNCHANGED <<call, record, expired, version, answer>>,
         stored \subseteq stored',
         \/ UNCHANGED snapshot
         \/ snapshot' = [snapshot EXCEPT ![c] = record],
         \/ UNCHANGED saw
         \/ \E r \in expired \union {None} : saw' = [saw EXCEPT ![c] = r]
  PROVE  RecordsOK' /\ NoLostUpdate'
<1> USE DEF IInv
<1>1. Applied' = Applied
  OBVIOUS
<1>2. \A r, k : Stored(r, k) => Stored(r, k)'
  BY <1>1 DEF Stored
<1>3. ASSUME NEW d \in Calls, NEW k \in Keys
      PROVE  (snapshot[d][k] # None => Stored(snapshot[d][k], k))'
  <2>1. snapshot'[d] = snapshot[d] \/ snapshot'[d] = record
    BY DEF TypeOK
  <2>2. snapshot'[d][k] # None => Stored(snapshot'[d][k], k)
    BY <2>1 DEF RecordsOK
  <2> QED BY <1>2, <2>2
<1>4. \A d \in Calls : saw'[d] = None \/ saw'[d] \in expired'
  BY DEF RecordsOK, TypeOK
<1>5. \A d \in Calls : pc'[d] = "done" \/ answer'[d] = Unanswered
  BY DEF RecordsOK, TypeOK, Goto
<1>6. ASSUME NEW k \in Keys
      PROVE  (record[k] # None => Stored(record[k], k))'
  BY <1>2 DEF RecordsOK
<1>7. NoLostUpdate'
  BY <1>1 DEF NoLostUpdate
<1>8. ASSUME NEW d \in Calls, d \in Applied'
      PROVE  /\ (call[d].kind \in Keyed => record[Key(d)] = d \/ d \in expired)'
             /\ (call[d].kind = "patch" => call[d].expects < version)'
  BY <1>1, <1>8 DEF RecordsOK
<1> QED BY <1>3, <1>4, <1>5, <1>6, <1>7, <1>8 DEF RecordsOK

(* One step per action: each keeps the locks and the records consistent.   *)
LEMMA BeginStep ==
  ASSUME IInv, NEW c \in Calls, Begin(c)
  PROVE  LocksOK' /\ RecordsOK' /\ NoLostUpdate'
<1> USE DEF IInv
<1>1. RecordsOK' /\ NoLostUpdate'
  BY MoveKeeps DEF Begin, tables, resource
<1>2. /\ pc[c] = "idle" /\ pc' = [pc EXCEPT ![c] = IF call[c].kind = "patch" THEN "guard" ELSE "lookup"]
      /\ UNCHANGED <<call, record, expired, stored, decided, version, answer, claimant, lock>>
  BY DEF Begin, Goto, tables, resource
<1>3. LockHeld' /\ \A k \in Keys : ClaimHeld(k)'
  BY <1>2 DEF LocksOK, LockHeld, ClaimHeld, TypeOK
<1>4. ASSUME NEW d \in Calls PROVE StepOK(d)'
  BY <1>2, CallType DEF LocksOK, StepOK, TypeOK, Call
<1> QED BY <1>1, <1>3, <1>4 DEF LocksOK

(* `lookup` replays, refuses the body, or remembers an expired record.     *)
LEMMA ReadKeyStep ==
  ASSUME IInv, NEW c \in Calls, ReadKey(c)
  PROVE  LocksOK' /\ RecordsOK' /\ NoLostUpdate'
<1> USE DEF IInv
<1> DEFINE r == View(c)[Key(c)]
<1>0. /\ pc[c] = "lookup"
      /\ UNCHANGED <<call, record, expired, stored, decided, version, snapshot>>
  BY DEF ReadKey, tables, resource
<1>1. CASE (End(c, "replayed", r) \/ End(c, "conflict", None)) /\ UNCHANGED saw
  BY <1>0, <1>1, EndKeeps, KeyType
<1>2. CASE /\ Lookup(c, r) \in {"absent", "expired"}
           /\ saw' = [saw EXCEPT ![c] = r]
           /\ Goto(c, IF call[c].kind = "decide" THEN "prepare" ELSE "claim")
           /\ UNCHANGED <<answer, claimant, lock>>
  <2>1. r = None \/ r \in expired
    BY <1>2 DEF Lookup
  <2>2. RecordsOK' /\ NoLostUpdate'
    BY <1>0, <1>2, <2>1, MoveKeeps
  <2>3. LockHeld' /\ \A k \in Keys : ClaimHeld(k)'
    BY <1>0, <1>2 DEF LocksOK, LockHeld, ClaimHeld, TypeOK, Goto
  <2>4. ASSUME NEW d \in Calls PROVE StepOK(d)'
    BY <1>0, <1>2 DEF LocksOK, StepOK, TypeOK, Goto
  <2> QED BY <2>2, <2>3, <2>4 DEF LocksOK
<1> QED BY <1>1, <1>2 DEF ReadKey

(* `prepare` takes the row lock and keeps what it read true until it ends. *)
LEMMA PrepareStep ==
  ASSUME IInv, NEW c \in Calls, Prepare(c)
  PROVE  LocksOK' /\ RecordsOK' /\ NoLostUpdate'
<1> USE DEF IInv
<1>1. RecordsOK' /\ NoLostUpdate'
  BY MoveKeeps DEF Prepare, tables, resource
<1>2. /\ pc[c] = "prepare" /\ lock = None /\ lock' = c
      /\ pc' = [pc EXCEPT ![c] = IF decided = None THEN "claim" ELSE "recheck"]
      /\ UNCHANGED <<call, record, expired, stored, decided, version, answer, claimant>>
  BY DEF Prepare, Goto, tables, resource
<1>3. LockHeld' /\ \A k \in Keys : ClaimHeld(k)'
  BY <1>2 DEF LocksOK, LockHeld, ClaimHeld, TypeOK
<1>4. ASSUME NEW d \in Calls PROVE StepOK(d)'
  BY <1>2, PlansAssumption DEF LocksOK, StepOK, TypeOK
<1> QED BY <1>1, <1>3, <1>4 DEF LocksOK

(* A granted claim finds no live record under its key.                    *)
LEMMA ClaimStep ==
  ASSUME IInv, NEW c \in Calls, Claim(c)
  PROVE  LocksOK' /\ RecordsOK' /\ NoLostUpdate'
<1> USE DEF IInv
<1>0. /\ pc[c] = "claim" /\ claimant[Key(c)] = None
      /\ UNCHANGED <<call, record, expired, stored, decided, version, snapshot, saw>>
      /\ Key(c) \in Keys /\ call[c].kind \in Keyed
  BY KeyType DEF Claim, tables, resource, LocksOK, StepOK
<1>1. CASE End(c, "error", None)
  BY <1>0, <1>1, EndKeeps
<1>2. CASE /\ KeyFree(c) /\ claimant' = [claimant EXCEPT ![Key(c)] = c]
           /\ Goto(c, "handle") /\ UNCHANGED <<answer, lock>>
  <2>1. RecordsOK' /\ NoLostUpdate'
    BY <1>0, <1>2, MoveKeeps
  <2>2. ~Live(Key(c))
    BY <1>2 DEF KeyFree, RecordsOK
  <2>3. LockHeld' /\ \A k \in Keys : ClaimHeld(k)'
    BY <1>0, <1>2 DEF LocksOK, LockHeld, ClaimHeld, TypeOK, Goto
  <2>4. ASSUME NEW d \in Calls PROVE StepOK(d)'
    <3>1. Key(d) \in Keys
      BY KeyType
    <3> QED BY <1>0, <1>2, <2>2, <3>1, PlansAssumption DEF LocksOK, StepOK, TypeOK, Goto
  <2> QED BY <2>1, <2>3, <2>4 DEF LocksOK
<1>3. CASE ~KeyFree(c) /\ Goto(c, "taken") /\ UNCHANGED <<answer, claimant, lock>>
  <2>1. RecordsOK' /\ NoLostUpdate'
    BY <1>0, <1>3, MoveKeeps
  <2>2. LockHeld' /\ \A k \in Keys : ClaimHeld(k)'
    BY <1>0, <1>3 DEF LocksOK, LockHeld, ClaimHeld, TypeOK, Goto
  <2>3. ASSUME NEW d \in Calls PROVE StepOK(d)'
    BY <1>0, <1>3 DEF LocksOK, StepOK, TypeOK, Goto, KeyFree
  <2> QED BY <2>1, <2>2, <2>3 DEF LocksOK
<1> QED BY <1>1, <1>2, <1>3 DEF Claim

(* The version guard locks the row it compared.                            *)
LEMMA GuardStep ==
  ASSUME IInv, NEW c \in Calls, Guard(c)
  PROVE  LocksOK' /\ RecordsOK' /\ NoLostUpdate'
<1> USE DEF IInv
<1>0. /\ pc[c] = "guard" /\ call[c].kind = "patch"
      /\ UNCHANGED <<call, record, expired, stored, decided, version, snapshot, saw>>
  BY DEF Guard, tables, resource, LocksOK, StepOK
<1>1. CASE End(c, "refused", None)
  BY <1>0, <1>1, EndKeeps
<1>2. CASE /\ version = call[c].expects /\ lock = None /\ lock' = c
           /\ Goto(c, "handle") /\ UNCHANGED <<answer, claimant>>
  <2>1. RecordsOK' /\ NoLostUpdate'
    BY <1>0, <1>2, MoveKeeps
  <2>2. LockHeld' /\ \A k \in Keys : ClaimHeld(k)'
    BY <1>0, <1>2 DEF LocksOK, LockHeld, ClaimHeld, TypeOK, Goto
  <2>3. ASSUME NEW d \in Calls PROVE StepOK(d)'
    BY <1>0, <1>2, PlansAssumption DEF LocksOK, StepOK, TypeOK, Goto
  <2> QED BY <2>1, <2>2, <2>3 DEF LocksOK
<1> QED BY <1>1, <1>2 DEF Guard, LockRow

(* The handler takes the row if `prepare` did not, and stores the result.  *)
LEMMA HandleStep ==
  ASSUME IInv, NEW c \in Calls, Handle(c)
  PROVE  LocksOK' /\ RecordsOK' /\ NoLostUpdate'
<1> USE DEF IInv
<1>0. /\ pc[c] = "handle"
      /\ UNCHANGED <<call, record, expired, decided, version, snapshot, saw>>
  BY DEF Handle, resource
<1>1. CASE End(c, "refused", None) /\ UNCHANGED stored
  BY <1>0, <1>1, EndKeeps
<1>2. CASE /\ IF call[c].kind = "transition"
              THEN decided = None /\ lock = None /\ lock' = c
              ELSE UNCHANGED lock
           /\ Complete(c) /\ Goto(c, "commit") /\ UNCHANGED <<answer, claimant>>
  <2>1. RecordsOK' /\ NoLostUpdate'
    BY <1>0, <1>2, MoveKeeps DEF Complete
  <2>2. LockHeld' /\ \A k \in Keys : ClaimHeld(k)'
    BY <1>0, <1>2 DEF LocksOK, LockHeld, ClaimHeld, TypeOK, Goto
  <2>3. ASSUME NEW d \in Calls PROVE StepOK(d)'
    BY <1>0, <1>2, PlansAssumption DEF LocksOK, StepOK, TypeOK, Goto, Complete
  <2> QED BY <2>1, <2>2, <2>3 DEF LocksOK
<1> QED BY <1>1, <1>2 DEF Handle, LockRow

(* COMMIT publishes one record, one decision and one version bump.         *)
LEMMA CommitStep ==
  ASSUME IInv, NEW c \in Calls, Commit(c)
  PROVE  LocksOK' /\ RecordsOK' /\ NoLostUpdate'
<1> USE DEF IInv
<1>0. /\ pc[c] = "commit" /\ StepOK(c) /\ Key(c) \in Keys /\ call[c] \in Call
      /\ UNCHANGED <<call, expired, stored, snapshot, saw>>
      /\ pc' = [pc EXCEPT ![c] = "done"]
      /\ answer' = [answer EXCEPT ![c] = [is |-> "applied", by |-> c]]
  BY KeyType, CallType DEF Commit, LocksOK, End, Goto
<1>1. /\ lock' # None => lock' = lock /\ lock # c
      /\ lock # c => lock' = lock
      /\ \A k \in Keys : /\ claimant'[k] # None => claimant'[k] = claimant[k] /\ claimant[k] # c
                         /\ claimant[k] # c => claimant'[k] = claimant[k]
  BY PlansAssumption DEF Commit, End, Freed, TypeOK
<1>2. Applied' = Applied \union {c} /\ c \notin Applied
  BY <1>0, SMTT(30) DEF TypeOK, RecordsOK
<1>3. LockHeld' /\ \A k \in Keys : ClaimHeld(k)'
  BY <1>0, <1>1 DEF LocksOK, LockHeld, ClaimHeld, TypeOK
<1>4. ASSUME NEW d \in Calls PROVE StepOK(d)'
  <2>1. CASE d = c
    BY <1>0, <2>1 DEF StepOK, TypeOK
  <2>2. CASE d # c
    <3>1. Key(d) \in Keys /\ pc'[d] = pc[d] /\ StepOK(d)
      BY <1>0, <2>2, KeyType DEF TypeOK, LocksOK
    <3>2. \/ UNCHANGED <<decided, version>>
          \/ lock = c /\ (decided' = c \/ decided' = decided)
      BY <1>0 DEF Commit, StepOK
    <3>3. /\ record'[Key(d)] # None \/ record'[Key(d)] = record[Key(d)]
          /\ claimant[Key(d)] = d => record'[Key(d)] = record[Key(d)]
      BY <1>0, <2>2, <3>1, PlansAssumption DEF Commit, StepOK, TypeOK
    <3> QED
      BY <1>0, <1>1, <2>2, <3>1, <3>2, <3>3, PlansAssumption DEF StepOK, LocksOK, TypeOK
  <2> QED BY <2>1, <2>2
<1>5. c \in stored \/ call[c].kind = "patch"
  BY <1>0 DEF StepOK, Call
<1>6. \A r, k : Stored(r, k) => Stored(r, k)'
  BY <1>0, <1>2 DEF Stored
<1>7. ASSUME NEW k \in Keys
      PROVE  (record[k] # None => Stored(record[k], k))'
  <2>1. CASE record'[k] = record[k]
    BY <1>6, <2>1 DEF RecordsOK
  <2>2. CASE record'[k] # record[k]
    <3>1. call[c].kind \in Keyed /\ k = Key(c) /\ record'[k] = c
      BY <1>0, <2>2 DEF Commit, TypeOK
    <3> QED BY <1>0, <1>2, <1>5, <3>1 DEF Stored
  <2> QED BY <2>1, <2>2
<1>8. ASSUME NEW d \in Calls, NEW k \in Keys
      PROVE  (snapshot[d][k] # None => Stored(snapshot[d][k], k))'
  BY <1>0, <1>6 DEF RecordsOK
<1>9. ASSUME NEW d \in Calls, d \in Applied'
      PROVE  (call[d].kind \in Keyed => record[Key(d)] = d \/ d \in expired)'
  <2>1. CASE d = c
    BY <1>0, <2>1 DEF Commit, TypeOK
  <2>2. CASE d # c
    <3>1. d \in Applied /\ (call[d].kind \in Keyed => record[Key(d)] = d \/ d \in expired)
      BY <1>2, <1>9, <2>2 DEF RecordsOK
    <3>2. call[c].kind \in Keyed => ~Live(Key(c))
      BY <1>0 DEF StepOK
    <3> QED BY <1>0, <3>1, <3>2, PlansAssumption DEF Commit, TypeOK
  <2> QED BY <2>1, <2>2
<1>10. call[c].kind = "patch" => version = call[c].expects /\ version' = version + 1
  BY <1>0 DEF StepOK, Commit
<1>11. version' = version \/ version' = version + 1
  BY DEF Commit
<1>12. ASSUME NEW d \in Calls, d \in Applied'
       PROVE  (call[d].kind = "patch" => call[d].expects < version)'
  <2>1. call[d].expects \in Nat /\ version \in Nat
    BY CallType DEF Call, TypeOK
  <2> QED BY <1>0, <1>2, <1>10, <1>11, <1>12, <2>1 DEF RecordsOK
<1>13. NoLostUpdate'
  <2> SUFFICES ASSUME NEW d \in Applied, call[c].kind = "patch", call[d].kind = "patch"
               PROVE  call[d].expects # call[c].expects
    BY <1>0, <1>2 DEF NoLostUpdate
  <2>1. call[d].expects < version /\ call[d].expects \in Nat
    BY CallType DEF RecordsOK, Call
  <2> QED BY <1>10, <2>1 DEF TypeOK
<1>14. ASSUME NEW d \in Calls
       PROVE  /\ (saw[d] = None \/ saw[d] \in expired)'
              /\ (pc[d] = "done" \/ answer[d] = Unanswered)'
  BY <1>0 DEF RecordsOK, TypeOK
<1>15. RecordsOK'
  BY <1>7, <1>8, <1>9, <1>12, <1>14 DEF RecordsOK
<1> QED BY <1>3, <1>4, <1>13, <1>15 DEF LocksOK

(* An expiry only makes a key free sooner.                                 *)
LEMMA ExpireStep ==
  ASSUME IInv, NEW k \in Keys, Expire(k)
  PROVE  LocksOK' /\ RecordsOK' /\ NoLostUpdate'
<1> USE DEF IInv
<1>1. /\ expired \subseteq expired'
      /\ UNCHANGED <<call, record, stored, decided, version, answer, pc, snapshot, saw, claimant, lock>>
  BY DEF Expire, resource
<1>2. LockHeld' /\ \A j \in Keys : ClaimHeld(j)'
  BY <1>1 DEF LocksOK, LockHeld, ClaimHeld
<1>3. ASSUME NEW d \in Calls PROVE StepOK(d)'
  BY <1>1 DEF LocksOK, StepOK
<1>4. RecordsOK' /\ NoLostUpdate'
  BY <1>1 DEF RecordsOK, Stored, NoLostUpdate
<1> QED BY <1>2, <1>3, <1>4 DEF LocksOK

(* Nothing changes when nothing happens.                                   *)
LEMMA StutterStep ==
  ASSUME IInv, UNCHANGED vars
  PROVE  LocksOK' /\ RecordsOK' /\ NoLostUpdate'
<1>1. LocksOK'
  BY DEF IInv, vars, LocksOK, LockHeld, ClaimHeld, StepOK
<1>2. RecordsOK' /\ NoLostUpdate'
  BY DEF IInv, vars, RecordsOK, Stored, NoLostUpdate
<1> QED BY <1>1, <1>2

(* IInv is inductive: locks, claims, snapshots and answers stay tied to    *)
(* the committed records through every step of every call.                 *)
LEMMA Inductive == IInv /\ [Next]_vars => IInv'
<1> SUFFICES ASSUME IInv, [Next]_vars PROVE IInv'
  OBVIOUS
<1>1. TypeOK'
  BY TypeStep DEF IInv
<1>2. ASSUME NEW c \in Calls, Begin(c) PROVE LocksOK' /\ RecordsOK' /\ NoLostUpdate'
  BY <1>2, BeginStep
<1>3. ASSUME NEW c \in Calls, Run(c) PROVE LocksOK' /\ RecordsOK' /\ NoLostUpdate'
  <2>1. CASE Recheck(c)
    <3>1. /\ pc[c] = "recheck" /\ record[Key(c)] \in Calls \union {None}
          /\ UNCHANGED <<call, record, expired, stored, decided, version, snapshot, saw>>
      BY <2>1, KeyType DEF Recheck, tables, resource, IInv
    <3> QED BY <2>1, <3>1, EndKeeps DEF Recheck
  <2>2. CASE Taken(c)
    <3>1. /\ pc[c] = "taken" /\ record[Key(c)] \in Calls \union {None}
          /\ UNCHANGED <<call, record, expired, stored, decided, version, snapshot, saw>>
      BY <2>2, KeyType DEF Taken, tables, resource, IInv
    <3> QED BY <2>2, <3>1, EndKeeps DEF Taken
  <2> QED BY <1>3, <2>1, <2>2, ReadKeyStep, PrepareStep, ClaimStep, GuardStep,
             HandleStep, CommitStep DEF Run
<1>4. ASSUME NEW c \in Calls, Fail(c) PROVE LocksOK' /\ RecordsOK' /\ NoLostUpdate'
  <2>1. /\ pc[c] \in Open /\ End(c, "error", None) /\ stored' = stored \ {c}
        /\ UNCHANGED <<call, record, expired, decided, version, snapshot, saw>>
    BY <1>4 DEF Fail, Undo, resource
  <2> QED BY <2>1, EndKeeps
<1>5. ASSUME NEW k \in Keys, Expire(k) PROVE LocksOK' /\ RecordsOK' /\ NoLostUpdate'
  BY <1>5, ExpireStep
<1>6. ASSUME UNCHANGED vars PROVE LocksOK' /\ RecordsOK' /\ NoLostUpdate'
  BY <1>6, StutterStep
<1>7. LocksOK' /\ RecordsOK' /\ NoLostUpdate'
  BY <1>2, <1>3, <1>4, <1>5, <1>6 DEF Next, Finished
<1> QED BY <1>1, <1>7 DEF IInv

(* IInv holds in every reachable state, whatever the workload.             *)
THEOREM Invariance == Spec => []IInv
BY InitOK, Inductive, PTL DEF Spec

(* A key takes effect at most once until its record expires: every claim,  *)
(* wait, crash and isolation level of run() included.                      *)
THEOREM AtMostOnce == Spec => []AtMostOncePerKey
<1>1. IInv => AtMostOncePerKey
  BY DEF IInv, RecordsOK, AtMostOncePerKey
<1> QED BY <1>1, Invariance, PTL

(* No two applied PATCH calls expected the same version.                   *)
THEOREM LostUpdateFree == Spec => []NoLostUpdate
<1>1. IInv => NoLostUpdate
  BY DEF IInv
<1> QED BY <1>1, Invariance, PTL

(* Every step of a call is a step of AtomicCommands or none at all: what   *)
(* is live is the record the call read, so the answer is the atomic one.   *)
LEMMA StepRefines == IInv /\ [Next]_vars => [ANext]_avars
<1> SUFFICES ASSUME IInv, [Next]_vars PROVE [ANext]_avars
  OBVIOUS
<1> USE DEF IInv
<1>0. ASSUME NEW c \in Calls PROVE Key(c) \in Keys
  BY KeyType
<1>1. ASSUME NEW c \in Calls, Begin(c) PROVE UNCHANGED avars
  BY <1>1 DEF Begin, tables, resource, avars
<1>2. ASSUME NEW c \in Calls, ReadKey(c) PROVE ANext \/ UNCHANGED avars
  <2> DEFINE r == View(c)[Key(c)]
  <2>0. pc[c] = "lookup" /\ call[c].kind \in Keyed /\ UNCHANGED <<call, record, expired, decided, version>>
    BY <1>2 DEF ReadKey, LocksOK, StepOK, tables, resource
  <2>1. r # None /\ r \notin expired => record[Key(c)] = r /\ r \in stored
    BY <1>0 DEF View, RecordsOK, Stored
  <2>2. CASE Lookup(c, r) = "replay" /\ End(c, "replayed", r)
    <3>1. r # None /\ r \notin expired /\ call[r].body = call[c].body
      BY <2>2 DEF Lookup
    <3>2. AReplay(c)
      BY <2>0, <2>1, <2>2, <3>1 DEF AReplay, End
    <3> QED BY <3>2 DEF ANext
  <2>3. CASE Lookup(c, r) = "conflict" /\ End(c, "conflict", None)
    <3>1. r # None /\ r \notin expired /\ call[r].body # call[c].body
      BY <2>1, <2>3 DEF Lookup
    <3>2. AConflict(c)
      BY <2>0, <2>1, <2>3, <3>1 DEF AConflict, End
    <3> QED BY <3>2 DEF ANext
  <2>4. CASE UNCHANGED answer
    BY <2>0, <2>4 DEF avars
  <2> QED BY <1>2, <2>2, <2>3, <2>4 DEF ReadKey
<1>3. ASSUME NEW c \in Calls, Prepare(c) PROVE UNCHANGED avars
  BY <1>3 DEF Prepare, tables, resource, avars
<1>4. ASSUME NEW c \in Calls, Recheck(c) PROVE ANext
  <2> DEFINE r == record[Key(c)]
  <2>0. /\ call[c].kind = "decide" /\ decided # None
        /\ UNCHANGED <<call, record, expired, decided, version>>
        /\ r # None => r \in stored
    BY <1>0, <1>4 DEF Recheck, LocksOK, StepOK, tables, resource, RecordsOK, Stored
  <2>1. CASE Lookup(c, r) = "replay" /\ End(c, "replayed", r)
    <3>1. AReplay(c)
      BY <2>0, <2>1 DEF AReplay, End, Lookup
    <3> QED BY <3>1 DEF ANext
  <2>2. CASE Lookup(c, r) = "conflict" /\ End(c, "conflict", None)
    <3>1. AConflict(c)
      BY <2>0, <2>2 DEF AConflict, End, Lookup
    <3> QED BY <3>1 DEF ANext
  <2>3. CASE Lookup(c, r) \in {"absent", "expired"} /\ End(c, "refused", None)
    <3>1. r = None \/ r \in expired
      BY <2>3 DEF Lookup
    <3>2. ARefuse(c)
      BY <2>0, <2>3, <3>1 DEF ARefuse, End
    <3> QED BY <3>2 DEF ANext
  <2> QED BY <1>4, <2>1, <2>2, <2>3 DEF Recheck, CommittedIfAny
<1>5. ASSUME NEW c \in Calls, Claim(c) PROVE ANext \/ UNCHANGED avars
  <2>0. UNCHANGED <<call, record, expired, decided, version>>
    BY <1>5 DEF Claim, tables, resource
  <2>1. CASE End(c, "error", None)
    BY <2>0, <2>1 DEF AFail, ANext, End
  <2>2. CASE UNCHANGED answer
    BY <2>0, <2>2 DEF avars
  <2> QED BY <1>5, <2>1, <2>2 DEF Claim
<1>6. ASSUME NEW c \in Calls, Taken(c) PROVE ANext
  <2> DEFINE r == record[Key(c)]
  <2>0. /\ call[c].kind \in Keyed /\ r # None /\ r \in stored
        /\ UNCHANGED <<call, record, expired, decided, version>>
    BY <1>0, <1>6 DEF Taken, LocksOK, StepOK, tables, resource, RecordsOK, Stored
  <2>1. CASE Lookup(c, r) = "replay"
    <3>1. AReplay(c)
      BY <1>6, <2>0, <2>1 DEF Taken, AReplay, End, Lookup
    <3> QED BY <3>1 DEF ANext
  <2>2. CASE Lookup(c, r) # "replay"
    <3>1. AConflict(c)
      BY <1>6, <2>0, <2>2 DEF Taken, AConflict, End, Lookup
    <3> QED BY <3>1 DEF ANext
  <2> QED BY <2>1, <2>2
<1>7. ASSUME NEW c \in Calls, Guard(c) PROVE ANext \/ UNCHANGED avars
  <2>0. call[c].kind = "patch" /\ UNCHANGED <<call, record, expired, decided, version>>
    BY <1>7 DEF Guard, LocksOK, StepOK, tables, resource
  <2>1. CASE version # call[c].expects /\ End(c, "refused", None)
    BY <2>0, <2>1 DEF ARefuse, ANext, End
  <2>2. CASE UNCHANGED answer
    BY <2>0, <2>2 DEF avars
  <2> QED BY <1>7, <2>1, <2>2 DEF Guard
<1>8. ASSUME NEW c \in Calls, Handle(c) PROVE ANext \/ UNCHANGED avars
  <2>0. pc[c] = "handle" /\ StepOK(c) /\ UNCHANGED <<call, record, expired, decided, version>>
    BY <1>8 DEF Handle, LocksOK, resource
  <2>1. CASE call[c].kind = "transition" /\ decided # None /\ End(c, "refused", None)
    BY <2>0, <2>1 DEF ARefuse, ANext, End, StepOK
  <2>2. CASE UNCHANGED answer
    BY <2>0, <2>2 DEF avars
  <2> QED BY <1>8, <2>1, <2>2 DEF Handle
<1>9. ASSUME NEW c \in Calls, Commit(c) PROVE ANext
  <2>1. pc[c] = "commit" /\ StepOK(c) /\ call[c].kind \in Kinds
    BY <1>9, CallType DEF Commit, LocksOK, Call
  <2>2. AApply(c)
    BY <1>9, <2>1 DEF Commit, End, AApply, StepOK
  <2> QED BY <2>2 DEF ANext
<1>10. ASSUME NEW c \in Calls, Fail(c) PROVE ANext
  BY <1>10 DEF Fail, Undo, resource, End, AFail, ANext
<1>11. ASSUME NEW k \in Keys, Expire(k) PROVE ANext
  BY <1>11 DEF Expire, resource, AExpire, ANext
<1>12. CASE UNCHANGED vars
  BY <1>12 DEF vars, avars
<1> QED
  BY <1>1, <1>2, <1>3, <1>4, <1>5, <1>6, <1>7, <1>8, <1>9, <1>10, <1>11, <1>12
  DEF Next, Run, Finished

(* The transactions of run() implement atomic, keyed commands: every reply *)
(* is the one a caller would get if calls were executed one at a time.     *)
THEOREM Implements == Spec => Atomic
<1>1. Init => AInit
  BY DEF Init
<1> QED BY <1>1, StepRefines, Invariance, PTL DEF Spec, Atomic, ASpec
=============================================================================
