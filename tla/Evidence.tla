------------------------------ MODULE Evidence ------------------------------
(***************************************************************************)
(* What staff record and what is decided from it: consents and what they   *)
(* are bound to, observations, claims of fact and their verification, the  *)
(* resolved values, and the tasks that cite an observation as evidence.    *)
(*                                                                         *)
(* A fact is a row of the table claims: something said of one attribute of *)
(* one property.  (A claim of a record, in Accounts, is another matter.)   *)
(***************************************************************************)
EXTENDS Relations

CONSTANTS
  Consents, Observations, Facts, Tasks, Attributes,
  ConsentParty,  \* whose consent it is
  ConsentScope,  \* the purpose it is given for
  FactOn,        \* the <<property, attribute>> a fact is about
  Vocabulary,    \* the attributes that are registered for the property's type
  Levels         \* DECLARED is 0, the strongest one the greatest

Scopes   == {"MATCHING", "CONTENT_ARCHIVE", "PUBLIC_LISTING_ALLOWED"}
Subjects == Properties \X Attributes

ConsentJob  == [kind : {"consent"}, account : Accts, consent : Consents]
RevokeJob   == [kind : {"revoke"}, account : Accts, consent : Consents]
BindJob     == [kind : {"bind"}, account : Accts, consent : Consents, purpose : Scopes,
                record : Records \union Offers]
ObserveJob  == [kind : {"observe"}, account : Accts, observation : Observations]
AssertJob   == [kind : {"assert"}, account : Accts, fact : Facts,
                cites : Observations \union {None}]
VerifyJob   == [kind : {"verify"}, account : Accts, fact : Facts, level : Levels,
                outcome : {"CONFIRMED", "CONFLICT_FOUND", "INCONCLUSIVE"}]
ResolveJob  == [kind : {"resolve"}, account : Accts, on : Subjects,
                fact : Facts \union {None}, given : Nat \union {None}]
CompleteJob == [kind : {"complete"}, account : Accts, task : Tasks,
                cites : Observations \union {None}]
AmendJob    == [kind : {"amend"}, observation : Observations, deletes : BOOLEAN]
EvidenceJobs == ConsentJob \union RevokeJob \union BindJob \union ObserveJob \union AssertJob
                  \union VerifyJob \union ResolveJob \union CompleteJob
                  \union AmendJob

ASSUME EvidenceAssumption ==
  /\ ConsentParty \in [Consents -> Parties]
  /\ ConsentScope \in [Consents -> Scopes]
  /\ FactOn \in [Facts -> Subjects]
  /\ Vocabulary \subseteq Subjects
  /\ Levels \subseteq Nat /\ 0 \in Levels
  /\ Consents \union Observations \union Facts \union Tasks \subseteq Rows
  /\ None \notin Nat \union Facts \union Observations \union Actors

VARIABLES
  grants,    \* of each consent: absent, GRANTED or REVOKED
  revoker,   \* whose revocation stands: its time, its reason, its evidence
  bindings,  \* <<consent, purpose, record>>
  body,      \* of each observation: its version, 0 where there is none
  level,     \* of each fact, None where there is none
  conflicts, \* the facts whose status is CONFLICTING
  confirmed, \* the CONFIRMED verification events: <<fact, level>>
  resolved,  \* the resolved values of each subject: from, to, and who resolved
  projected, \* of each subject, whose value property_attributes holds
  todo,      \* of each task: OPEN, IN_PROGRESS, DONE or CANCELLED
  completed, \* the completion events: <<task, observation, its version, who>>
  view       \* what each actor's last unlocked or locked read returned

evidence == <<grants, revoker, bindings, body, level, conflicts, confirmed,
              resolved, projected, todo, completed, view, clock>>

Value == [from : Nat, to : Nat \union {None}, by : Actors \union {None}]

(* The grant's state as a revocation read it, the version of the evidence  *)
(* a completion cites, a resolution's time and the current value it closes,*)
(* known by its own time.                                                  *)
Views == [grant : {"absent", "GRANTED", "REVOKED"}, version : Nat,
          start : Nat, last : Nat \union {None}]
NothingSeen == [grant |-> "absent", version |-> 0, start |-> 0, last |-> None]

EvidenceTypeOK ==
  /\ grants \in [Consents -> {"absent", "GRANTED", "REVOKED"}]
  /\ revoker \in [Consents -> Actors \union {None}]
  /\ bindings \subseteq Consents \X Scopes \X (Records \union Offers)
  /\ body \in [Observations -> Nat]
  /\ level \in [Facts -> Levels \union {None}]
  /\ conflicts \subseteq Facts
  /\ confirmed \subseteq Facts \X Levels
  /\ resolved \in [Subjects -> SUBSET Value]
  /\ projected \in [Subjects -> Actors \union {None}]
  /\ todo \in [Tasks -> {"OPEN", "IN_PROGRESS", "DONE", "CANCELLED"}]
  /\ completed \subseteq Tasks \X (Observations \union {None}) \X Nat \X Actors
  /\ view \in [Actors -> Views]

Notes(t, what) == view' = [view EXCEPT ![t] = what]

Reject(t, why) == End(t, why) /\ UNCHANGED evidence

(* A step that waits for a row and leaves everything else alone.           *)
Await(t, row, mode, step) == LockAnd(t, row, mode, step) /\ UNCHANGED evidence

consents == <<grants, revoker, bindings>>
facts    == <<level, conflicts, confirmed>>
values   == <<resolved, projected, clock>>
tasks    == <<todo, completed>>

-----------------------------------------------------------------------------
(* Consents.                                                               *)
GrantConsent(t) ==
  /\ at[t] = "give"
  /\ grants[plan[t].consent] = "absent"
  /\ grants' = [grants EXCEPT ![plan[t].consent] = "GRANTED"]
  /\ End(t, "written")
  /\ UNCHANGED <<revoker, bindings, body, facts, values, tasks, view>>

(* The grant is read without a lock; a REVOKED one is the answer already.  *)
Fault_NoReplay(c) == FALSE
AlreadyRevoked(c) == grants[c] = "REVOKED"

ReadGrant(t) ==
  LET c == plan[t].consent
  IN /\ at[t] = "grant"
     /\ IF grants[c] = "absent" \/ AlreadyRevoked(c)
          THEN Reject(t, IF grants[c] = "absent" THEN "refused" ELSE "replayed")
          ELSE /\ Notes(t, [view[t] EXCEPT !.grant = grants[c]]) /\ Continue(t, "revoke")
               /\ UNCHANGED <<consents, body, facts, values, tasks>>

Revoke(t) ==
  /\ at[t] = "revoke"
  /\ Blockers(t, plan[t].consent, NoKeyUpdate) = {}
  /\ grants' = [grants EXCEPT ![plan[t].consent] = "REVOKED"]
  /\ revoker' = [revoker EXCEPT ![plan[t].consent] = t]
  /\ End(t, "written")
  /\ UNCHANGED <<bindings, body, facts, values, tasks, view>>

(* enforce_consent_binding: GRANTED, for this purpose, and the resource is *)
(* the consent's party's own.                                              *)
OfParty(r, p, now) ==
  CASE r \in Requests   -> RequestParty[r] = p
    [] r \in Offers     -> OfferParty[r] = p
    [] r \in Properties -> Related(p, r, now)

MayBind(t) ==
  LET c == plan[t].consent
  IN /\ grants[c] = "GRANTED"
     /\ ConsentScope[c] = plan[t].purpose
     /\ OfParty(plan[t].record, ConsentParty[c], began[t])

CheckBinding(t) ==
  /\ at[t] = "binding"
  /\ IF MayBind(t)
       THEN Continue(t, "bind") /\ UNCHANGED evidence
       ELSE Reject(t, "refused")

(* The INSERT waits for the same binding by another one, and is refused.   *)
Bind(t) ==
  LET b == <<plan[t].consent, plan[t].purpose, plan[t].record>>
  IN /\ at[t] = "bind"
     /\ IF b \in bindings
          THEN Reject(t, "refused")
          ELSE /\ bindings' = bindings \union {b}
               /\ End(t, "written")
               /\ UNCHANGED <<grants, revoker, body, facts, values, tasks, view>>

-----------------------------------------------------------------------------
(* Observations and what is said of a property.                            *)
Observe(t) ==
  /\ at[t] = "observe"
  /\ body[plan[t].observation] = 0
  /\ body' = [body EXCEPT ![plan[t].observation] = 1]
  /\ End(t, "written")
  /\ UNCHANGED <<consents, facts, values, tasks, view>>

(* record_claim looks at the subject and the observation without a lock.   *)
CheckFact(t) ==
  LET s == FactOn[plan[t].fact]
      o == plan[t].cites
  IN /\ at[t] = "subject"
     /\ IF /\ canonical[s[1]] = s[1]
           /\ s \in Vocabulary
           /\ o # None => body[o] # 0
          THEN Continue(t, "assert") /\ UNCHANGED evidence
          ELSE Reject(t, "refused")

(* Its INSERT waits for whoever holds the subject or the observation, whose*)
(* rows its foreign keys name.                                             *)
AssertFact(t) ==
  LET c == plan[t].fact
      o == plan[t].cites
  IN /\ at[t] = "assert"
     /\ level[c] = None
     /\ Blockers(t, FactOn[c][1], KeyShare) = {}
     /\ o # None => Blockers(t, o, KeyShare) = {}
     /\ IF o # None /\ body[o] = 0
          THEN Reject(t, "error")
          ELSE /\ level' = [level EXCEPT ![c] = 0]
               /\ End(t, "written")
               /\ UNCHANGED <<consents, body, conflicts, confirmed, values,
                              tasks, view>>

(* record_verification: the event, and the trigger's UPDATE of the fact.   *)
LockFact(t) ==
  /\ at[t] = "fact"
  /\ IF level[plan[t].fact] = None
       THEN Reject(t, "refused")
       ELSE Await(t, plan[t].fact, NoKeyUpdate, "verify")

Fault_LastConfirmed(old, new) == new
Greatest(old, new) == IF new > old THEN new ELSE old

Verify(t) ==
  LET c == plan[t].fact
      l == plan[t].level
  IN /\ at[t] = "verify"
     /\ CASE plan[t].outcome = "CONFIRMED" ->
               /\ level' = [level EXCEPT ![c] = Greatest(@, l)]
               /\ confirmed' = confirmed \union {<<c, l>>}
               /\ UNCHANGED conflicts
          [] plan[t].outcome = "CONFLICT_FOUND" ->
               /\ conflicts' = conflicts \union {c}
               /\ UNCHANGED <<level, confirmed>>
          [] OTHER -> UNCHANGED facts
     /\ End(t, "written")
     /\ UNCHANGED <<consents, body, values, tasks, view>>

-----------------------------------------------------------------------------
(* resolve: the subject's row, then the fact's, then the value there is.   *)
Fault_SubjectUnlocked == 0
SubjectMode == Update

LockSubject(t) ==
  /\ at[t] = "lockSubject"
  /\ Await(t, plan[t].on[1], SubjectMode, "lineage")

(* An alias, an attribute that is not the property's, a fact of another    *)
(* subject.                                                                *)
CheckLineage(t) ==
  LET c == plan[t].fact
      s == plan[t].on
  IN /\ at[t] = "lineage"
     /\ c # None => Blockers(t, c, Share) = {}
     /\ IF \/ canonical[s[1]] # s[1] \/ s \notin Vocabulary
           \/ c # None /\ (level[c] = None \/ FactOn[c] # s)
           \/ plan[t].given # None /\ plan[t].given > clock
          THEN Reject(t, "refused")
          ELSE IF c = None THEN Continue(t, "current") /\ UNCHANGED evidence
                           ELSE Await(t, c, Share, "current")

Current(s) == {v \in resolved[s] : v.to = None}

(* The time is the one given or a reading of the clock, and must be later  *)
(* than the current value's.                                               *)
ReadCurrent(t) ==
  LET start == IF plan[t].given = None THEN clock + 1 ELSE plan[t].given
      now   == Current(plan[t].on)
  IN /\ at[t] = "current"
     /\ IF \E v \in now : start <= v.from
          THEN Reject(t, "refused")
          ELSE /\ Notes(t, [view[t] EXCEPT
                           !.start = start,
                           !.last = IF now = {} THEN None ELSE (CHOOSE v \in now : TRUE).from])
               /\ Continue(t, "resolve")
               /\ clock' = IF plan[t].given = None THEN start ELSE clock
               /\ UNCHANGED <<consents, body, facts, resolved, projected, tasks>>

(* The value that was read is closed, the new one written and projected.   *)
(* The unique index admits one current value of a subject.                 *)
Resolve(t) ==
  LET s    == plan[t].on
      kept == {[v EXCEPT !.to = IF v.from = view[t].last THEN view[t].start ELSE @] :
                 v \in resolved[s]}
      mine == [from |-> view[t].start, to |-> None, by |-> t]
  IN /\ at[t] = "resolve"
     /\ IF \E v \in kept : v.to = None
          THEN Reject(t, "index")
          ELSE /\ resolved' = [resolved EXCEPT ![s] = kept \union {mine}]
               /\ projected' = [projected EXCEPT ![s] = t]
               /\ End(t, "written")
               /\ UNCHANGED <<consents, body, facts, clock, tasks, view>>

-----------------------------------------------------------------------------
(* Completing a task: its row, then the evidence's row, then both writes.  *)
Completable == {"OPEN", "IN_PROGRESS"}

LockTask(t) ==
  /\ at[t] = "lockTask"
  /\ Blockers(t, plan[t].task, Update) = {}
  /\ IF todo[plan[t].task] \in Completable
       THEN Await(t, plan[t].task, Update, "evidence")
       ELSE Reject(t, "refused")

(* The foreign key alone would hold the row only against its deletion.     *)
Fault_ForeignKeyOnly == KeyShare
EvidenceMode == Share

LockEvidence(t) ==
  LET o == plan[t].cites
  IN /\ at[t] = "evidence"
     /\ o # None => Blockers(t, o, EvidenceMode) = {}
     /\ CASE o = None    -> Continue(t, "complete") /\ UNCHANGED evidence
          [] o # None /\ body[o] = 0 -> Reject(t, "refused")
          [] OTHER -> /\ LockAnd(t, o, EvidenceMode, "complete")
                      /\ Notes(t, [view[t] EXCEPT !.version = body[o]])
                      /\ UNCHANGED <<consents, body, facts, values, tasks>>

CompleteTask(t) ==
  LET o == plan[t].cites
  IN /\ at[t] = "complete"
     /\ completed' = completed \union {<<plan[t].task, o, view[t].version, t>>}
     /\ todo' = [todo EXCEPT ![plan[t].task] = "DONE"]
     /\ End(t, "written")
     /\ UNCHANGED <<consents, body, facts, values, view>>

(* Someone corrects or deletes an observation with SQL: no code of the     *)
(* repository does.  Once the row is locked, the trigger refuses it for an *)
(* observation that is cited.                                              *)
Cited(o) == \E c \in completed : c[2] = o

Amend(t) ==
  LET o == plan[t].observation
  IN /\ at[t] = "idle" /\ plan[t].kind = "amend"
     /\ Blockers(t, o, IF plan[t].deletes THEN Update ELSE NoKeyUpdate) = {}
     /\ IF body[o] = 0 \/ Cited(o)
          THEN Reject(t, "refused")
          ELSE /\ body' = [body EXCEPT ![o] = IF plan[t].deletes THEN 0 ELSE @ + 1]
               /\ End(t, "written")
               /\ UNCHANGED <<consents, facts, values, tasks, view>>

-----------------------------------------------------------------------------
EvidenceStart ==
  [consent |-> "give", revoke |-> "grant", observe |-> "observe",
   assert |-> "subject", verify |-> "fact", resolve |-> "lockSubject",
   complete |-> "lockTask"]

EvidenceOpen == {"give", "revoke", "bind", "assert", "verify", "current", "resolve",
                 "evidence", "complete"}

EvidenceStep(t) ==
  \/ GrantConsent(t) \/ ReadGrant(t) \/ Revoke(t) \/ CheckBinding(t) \/ Bind(t)
  \/ Observe(t) \/ CheckFact(t) \/ AssertFact(t) \/ LockFact(t) \/ Verify(t)
  \/ LockSubject(t) \/ CheckLineage(t) \/ ReadCurrent(t) \/ Resolve(t)
  \/ LockTask(t) \/ LockEvidence(t) \/ CompleteTask(t) \/ Amend(t)
=============================================================================
