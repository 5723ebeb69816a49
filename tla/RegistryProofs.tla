--------------------------- MODULE RegistryProofs ---------------------------
(* What Registry promises, for every set of accounts, records and actors,  *)
(* every contract and every workload: first that its tables keep their     *)
(* types, then what they say.                                              *)
EXTENDS Registry, TLAPS

(* The kinds of jobs, and that each kind has the fields its steps use.     *)
LEMMA JobKinds ==
  ASSUME NEW job \in Jobs
  PROVE  /\ job.kind \in {"otp", "code", "grant", "attach", "claim", "act", "suspend", "alias",
                          "relate", "part", "consent", "revoke", "bind", "observe", "assert",
                          "verify", "resolve", "complete", "amend", "myParty", "me", "read",
                          "internal", "match", "diagnostic", "list", "public", "capture",
                          "convert", "change"}
BY DEF Jobs, AccountJobs, OtpJob, CodeJob, GrantJob, AttachJob, ClaimJob, ActJob, SuspendJob,
       AliasJob, RelationJobs, RelateJob, PartJob, EvidenceJobs, ConsentJob, RevokeJob, BindJob,
       ObserveJob, AssertJob, VerifyJob, ResolveJob, CompleteJob, AmendJob, DisclosureJobs,
       MyPartyJob, MeJob, ReadJobs, ReadParty, ReadRequest, ReadProperty, ReadOpportunity,
       ReadMatch, DiagnosticJob, ListJobs, ListOf, ListRelations, PartyTimeline, ListTasks,
       ListCandidates, RequestQueue, PropertyQueue, MatchQueue, OpportunityQueue, LeadQueue,
       PublicJob, CaptureJob, ConvertJob, ChangeJob

(* A call of each kind begins with its own step.                           *)
LEMMA Beginnings ==
  ASSUME NEW job \in Jobs, job.kind \notin Unauthorised
  PROVE  /\ Start(job) \in Steps
         /\ Start(job) \notin {"idle", "done", "part", "mark", "activate", "insert", "create", "clear", "link",
                               "claims", "revoke", "verify", "lineage", "current", "resolve",
                               "evidence", "complete", "bind"}
         /\ Start(job) = "contact" => job.kind = "attach"
         /\ Start(job) = "lock" => job.kind = "claim"
         /\ Start(job) = "act" => job.kind = "act"
         /\ Start(job) = "grant" => job.kind = "revoke"
         /\ Start(job) = "lockSubject" => job.kind = "resolve"
<1> USE DEF Start, AccountsStart, RelationsStart, EvidenceStart, DisclosureStart, MeStart,
            Unauthorised, Steps, AccountsOpen, RelationsOpen, EvidenceOpen, DisclosureOpen, Reading
<1>1. CASE job.kind \in {"attach", "claim", "act"}
  BY <1>1
<1>2. CASE job.kind \in {"relate", "part", "bind"}
  BY <1>2
<1>3. CASE job.kind \in {"consent", "revoke", "observe", "assert", "verify", "resolve", "complete"}
  BY <1>3
<1>4. CASE job.kind \in {"myParty", "me", "read", "internal", "match", "diagnostic", "list",
                         "capture", "convert"}
  BY <1>4
<1> QED BY JobKinds, <1>1, <1>2, <1>3, <1>4

(* What the steps use of a job, by its kind.                               *)
LEMMA AccountFields ==
  ASSUME NEW job \in Jobs
  PROVE  /\ job.kind \in {"otp", "code"} => job.phone \in Phones /\ job.purpose \in Purposes
         /\ job.kind \notin Unauthorised => job.account \in Accts
         /\ job.kind \in {"grant", "suspend"} => job.account \in Accts
         /\ job.kind = "grant" => job.role \in Roles
         /\ job.kind = "attach" => job.party \in Parties /\ job.phone \in Phones
                                     /\ job.primary \in BOOLEAN
         /\ job.kind = "claim" => job.record \in Records /\ job.contact \in Phones
         /\ job.kind = "act" => job.record \in Records \union Offers
         /\ job.kind = "alias" => job.of \in Properties /\ job.to \in Properties
BY DEF Jobs, AccountJobs, OtpJob, CodeJob, GrantJob, AttachJob, ClaimJob, ActJob, SuspendJob,
       AliasJob, RelationJobs, RelateJob, PartJob, EvidenceJobs, ConsentJob, RevokeJob, BindJob,
       ObserveJob, AssertJob, VerifyJob, ResolveJob, CompleteJob, AmendJob, DisclosureJobs,
       MyPartyJob, MeJob, ReadJobs, ReadParty, ReadRequest, ReadProperty, ReadOpportunity,
       ReadMatch, DiagnosticJob, ListJobs, ListOf, ListRelations, PartyTimeline, ListTasks,
       ListCandidates, RequestQueue, PropertyQueue, MatchQueue, OpportunityQueue, LeadQueue,
       PublicJob, CaptureJob, ConvertJob, ChangeJob, Unauthorised

(* What the other calls carry.                                             *)
LEMMA EvidenceFields ==
  ASSUME NEW job \in Jobs
  PROVE  /\ job.kind = "relate" => job.tie \in Ties /\ job.from \in Nat \union {None}
         /\ job.kind = "part" => job.tie \in Ties /\ job.to \in Nat \union {None}
         /\ job.kind \in {"consent", "revoke"} => job.consent \in Consents
         /\ job.kind = "bind" => job.consent \in Consents /\ job.purpose \in Scopes
                                   /\ job.record \in Records \union Offers
         /\ job.kind = "observe" => job.observation \in Observations
         /\ job.kind = "assert" => job.fact \in Facts /\ job.cites \in Observations \union {None}
         /\ job.kind = "verify" => job.fact \in Facts /\ job.level \in Levels
         /\ job.kind = "resolve" => job.on \in Subjects /\ job.fact \in Facts \union {None}
                                      /\ job.given \in Nat \union {None}
         /\ job.kind = "complete" => job.task \in Tasks /\ job.cites \in Observations \union {None}
         /\ job.kind = "amend" => job.observation \in Observations /\ job.deletes \in BOOLEAN
BY DEF Jobs, AccountJobs, OtpJob, CodeJob, GrantJob, AttachJob, ClaimJob, ActJob, SuspendJob,
       AliasJob, RelationJobs, RelateJob, PartJob, EvidenceJobs, ConsentJob, RevokeJob, BindJob,
       ObserveJob, AssertJob, VerifyJob, ResolveJob, CompleteJob, AmendJob, DisclosureJobs,
       MyPartyJob, MeJob, ReadJobs, ReadParty, ReadRequest, ReadProperty, ReadOpportunity,
       ReadMatch, DiagnosticJob, ListJobs, ListOf, ListRelations, PartyTimeline, ListTasks,
       ListCandidates, RequestQueue, PropertyQueue, MatchQueue, OpportunityQueue, LeadQueue,
       PublicJob, CaptureJob, ConvertJob, ChangeJob

(* What a read carries.                                                    *)
LEMMA DisclosureFields ==
  ASSUME NEW job \in Jobs
  PROVE  /\ job.kind = "me" => job.of \in Requests \union Properties \union Opportunities \union {None}
         /\ job.kind = "read" => job.of \in Parties \union Requests \union Properties \union {None}
         /\ job.kind \in {"internal", "match"} => job.of \in Opportunities \union {None}
         /\ job.kind = "diagnostic" => job.of \in Requests \union {None}
         /\ job.kind \in {"capture", "convert"} => job.lead \in Leads
         /\ job.kind = "change" => job.of \in Properties \union Offers \union Opportunities
BY DEF Jobs, AccountJobs, OtpJob, CodeJob, GrantJob, AttachJob, ClaimJob, ActJob, SuspendJob,
       AliasJob, RelationJobs, RelateJob, PartJob, EvidenceJobs, ConsentJob, RevokeJob, BindJob,
       ObserveJob, AssertJob, VerifyJob, ResolveJob, CompleteJob, AmendJob, DisclosureJobs,
       MyPartyJob, MeJob, ReadJobs, ReadParty, ReadRequest, ReadProperty, ReadOpportunity,
       ReadMatch, DiagnosticJob, ListJobs, ListOf, ListRelations, PartyTimeline, ListTasks,
       ListCandidates, RequestQueue, PropertyQueue, MatchQueue, OpportunityQueue, LeadQueue,
       PublicJob, CaptureJob, ConvertJob, ChangeJob

-----------------------------------------------------------------------------
(* Whose step it can be: where an actor stands, and what it is doing.      *)
Fits(job, step) ==
  /\ step \in {"mark", "activate"} => job.kind = "otp"
  /\ step = "insert" => job.kind = "grant"
  /\ step \in {"contact", "create", "clear", "link"} => job.kind = "attach"
  /\ step \in {"lock", "claims"} => job.kind = "claim"
  /\ step = "act" => job.kind = "act"
  /\ step = "now" => job.kind \in {"relate", "part", "bind"}
  /\ step \in {"property", "relate"} => job.kind = "relate"
  /\ step \in {"tie", "part"} => job.kind = "part"
  /\ step \in {"binding", "bind"} => job.kind = "bind"
  /\ step = "give" => job.kind = "consent"
  /\ step \in {"grant", "revoke"} => job.kind = "revoke"
  /\ step = "observe" => job.kind = "observe"
  /\ step \in {"subject", "assert"} => job.kind = "assert"
  /\ step \in {"fact", "verify"} => job.kind = "verify"
  /\ step \in {"lockSubject", "lineage", "current", "resolve"} => job.kind = "resolve"
  /\ step \in {"lockTask", "evidence", "complete"} => job.kind = "complete"
  /\ step = "capture" => job.kind = "capture"
  /\ step = "convert" => job.kind = "convert"
  /\ step = "myParty" => job.kind = "myParty" /\ PartyOf[job.account] # None
  /\ step = "canonical" => job.kind \in {"me", "read"} /\ job.of \in Properties
  /\ step = "contest" => job.kind = "me" /\ job.of \in Requests \union Properties
  /\ step = "row" => job.kind = "me"
  /\ step \in {"opportunity", "render"} => job.kind = "me" /\ job.of \in Opportunities
  /\ step = "staffRow" => job.kind \in {"read", "diagnostic"}
  /\ step = "internal" => job.kind = "internal"
  /\ step = "match" => job.kind = "match"
  /\ step = "diagnostic" => job.kind = "diagnostic"
  /\ step = "list" => job.kind = "list"
  /\ step \notin {"idle", "done"} => job.kind \notin Unauthorised \ {"otp", "grant"}

TxnInv ==
  /\ contract \in {p.of : p \in Policies}
  /\ plan \in [Actors -> Jobs]
  /\ at \in [Actors -> Steps]
  /\ HeldType
  /\ answer \in [Actors -> Answers]
  /\ \A t \in Actors : Fits(plan[t], at[t])

(* A call of each kind begins with a step of its own.                      *)
LEMMA StartFits ==
  ASSUME NEW job \in Jobs, job.kind \notin Unauthorised,
         job.kind = "myParty" => PartyOf[job.account] # None
  PROVE  Fits(job, Start(job))
<1> USE DEF Start, AccountsStart, RelationsStart, EvidenceStart, DisclosureStart, MeStart,
            Unauthorised, Fits
<1>1. CASE job.kind \in {"attach", "claim", "act"}
  BY <1>1
<1>2. CASE job.kind \in {"relate", "part", "bind"}
  BY <1>2
<1>3. CASE job.kind \in {"consent", "revoke", "observe", "assert", "verify", "resolve", "complete"}
  BY <1>3
<1>4. CASE job.kind = "me"
  BY <1>4, DisclosureFields, DisclosureAssumption, AccountsAssumption DEF Objects, Records
<1>5. CASE job.kind \in {"myParty", "read", "internal", "match", "diagnostic", "list",
                         "capture", "convert"}
  BY <1>5
<1> QED BY JobKinds, <1>1, <1>2, <1>3, <1>4, <1>5

-----------------------------------------------------------------------------
(* What one actor's step does to where the actors stand.                   *)
Alone(t, step) ==
  /\ contract' = contract /\ plan' = plan
  /\ at'[t] = step
  /\ \A u \in Actors \ {t} : at'[u] = at[u] /\ held'[u] = held[u] /\ answer'[u] = answer[u]

(* A step that goes on, ends or locks keeps the types of the whole.        *)
LEMMA Continues ==
  ASSUME TxnInv, NEW t \in Actors, NEW step \in Steps, Continue(t, step), Fits(plan[t], step)
  PROVE  TxnInv' /\ Alone(t, step) /\ held' = held /\ answer' = answer
<1>1. Alone(t, step) /\ held' = held /\ answer' = answer /\ at' \in [Actors -> Steps]
  BY DEF TxnInv, HeldType, Continue, Goto, Alone
<1>2. \A u \in Actors : Fits(plan'[u], at'[u])
  BY <1>1 DEF TxnInv, Alone
<1> QED BY <1>1, <1>2 DEF TxnInv, HeldType, Alone, Fits

(* The end of a call.                                                      *)
LEMMA Ends ==
  ASSUME TxnInv, NEW t \in Actors, NEW what \in Answers, End(t, what)
  PROVE  /\ TxnInv' /\ Alone(t, "done")
         /\ answer'[t] = what /\ held'[t] = [r \in Rows |-> 0]
<1>1. /\ Alone(t, "done") /\ answer'[t] = what /\ held'[t] = [r \in Rows |-> 0]
      /\ at' \in [Actors -> Steps] /\ HeldType' /\ answer' \in [Actors -> Answers]
  BY DEF TxnInv, HeldType, End, Goto, Release, Alone, Steps, Update
<1>2. \A u \in Actors : Fits(plan'[u], at'[u])
  <2>1. Fits(plan[t], "done")
    BY DEF Fits
  <2> QED BY <1>1, <2>1 DEF TxnInv, Alone
<1> QED BY <1>1, <1>2 DEF TxnInv, Alone, Fits

(* A lock that is taken.                                                   *)
LEMMA Locks ==
  ASSUME TxnInv, NEW t \in Actors, NEW row \in Rows, NEW mode \in 1..Update,
         NEW step \in Steps, LockAnd(t, row, mode, step), Fits(plan[t], step)
  PROVE  /\ TxnInv' /\ Alone(t, step) /\ answer' = answer
         /\ Blockers(t, row, mode) = {}
         /\ \A r \in Rows \ {row} : held'[t][r] = held[t][r]
         /\ held'[t][row] = IF mode > held[t][row] THEN mode ELSE held[t][row]
<1>1. /\ Alone(t, step) /\ answer' = answer
      /\ Blockers(t, row, mode) = {}
      /\ \A r \in Rows \ {row} : held'[t][r] = held[t][r]
      /\ held'[t][row] = IF mode > held[t][row] THEN mode ELSE held[t][row]
      /\ at' \in [Actors -> Steps] /\ HeldType'
  BY DEF TxnInv, HeldType, LockAnd, Lock, Goto, Alone, Update
<1>2. \A u \in Actors : Fits(plan'[u], at'[u])
  BY <1>1 DEF TxnInv, Alone
<1> QED BY <1>1, <1>2 DEF TxnInv, Alone, Fits

(* Where the commands and the reads go next.                               *)
LEMMA StepNames ==
  {"idle", "done", "mark", "activate", "insert", "create", "clear", "link", "claims",
   "property", "tie", "binding", "relate", "part", "bind", "revoke", "assert", "verify",
   "lineage", "current", "resolve", "evidence", "complete", "contest", "row", "staffRow",
   "render", "diagnostic"} \subseteq Steps
BY DEF Steps, AccountsOpen, RelationsOpen, EvidenceOpen, DisclosureOpen, Reading

-----------------------------------------------------------------------------
(* The commands of Accounts keep the types.                                *)
AccountsInv == TxnInv /\ AccountsTypeOK

(* Case by case, as the steps are defined.                                 *)
LEMMA AccountsTyped ==
  ASSUME AccountsInv, NEW t \in Actors, AccountsStep(t)
  PROVE  AccountsInv' /\ \E step \in Steps : Alone(t, step)
<1> USE AccountsAssumption DEF AccountsInv
<1>0. plan[t] \in Jobs /\ Fits(plan[t], at[t]) /\ saw[t] \in Read
  BY DEF TxnInv, AccountsTypeOK
<1>a. /\ \A step \in Steps : Alone(t, step) => \E u \in Steps : Alone(t, u)
      /\ "done" \in Steps /\ {"written", "refused", "index", "replayed"} \subseteq Answers
      /\ {NoKeyUpdate, Update} \subseteq 1..Update
  BY StepNames DEF Answers, NoKeyUpdate, Update
<1>1. CASE StartVerification(t)
  <2>1. TxnInv' /\ \E step \in Steps : Alone(t, step)
    BY <1>1, <1>0, <1>a, StepNames, AccountFields, Ends
    DEF StartVerification, Fits, Unauthorised
  <2>2. AccountsTypeOK'
    BY <1>1, <1>0, AccountFields DEF StartVerification, AccountsTypeOK, registry, Fits, Unauthorised, Read, Statuses, Kinds
  <2> QED BY <2>1, <2>2
<1>2. CASE CheckCode(t)
  <2>1. TxnInv' /\ \E step \in Steps : Alone(t, step)
    BY <1>2, <1>0, <1>a, StepNames, AccountFields, Continues, Ends
    DEF CheckCode, Refuse, Fits, Unauthorised
  <2>2. AccountsTypeOK'
    BY <1>2, <1>0, AccountFields DEF CheckCode, Refuse, AccountsTypeOK, registry, Fits, Unauthorised, Read, Statuses, Kinds
  <2> QED BY <2>1, <2>2
<1>3. CASE MarkControl(t)
  <2>0. plan[t].phone \in Rows /\ Fits(plan[t], "activate") /\ "activate" \in Steps
    BY <1>3, <1>0, StepNames, AccountFields DEF MarkControl, Fits, Unauthorised
  <2>1. TxnInv' /\ \E step \in Steps : Alone(t, step)
    BY <1>3, <1>a, <2>0, Locks DEF MarkControl
  <2>2. AccountsTypeOK'
    BY <1>3, <1>0, AccountFields, ZenonT(60) DEF MarkControl, Sees, Owner, AccountsTypeOK, registry, Fits, Unauthorised, Read, Statuses, Kinds
  <2> QED BY <2>1, <2>2
<1>4. CASE Activate(t)
  <2>1. TxnInv' /\ \E step \in Steps : Alone(t, step)
    BY <1>4, <1>0, <1>a, StepNames, AccountFields, Ends
    DEF Activate, Fits, Unauthorised
  <2>2. AccountsTypeOK'
    BY <1>4, <1>0, AccountFields DEF Activate, AccountsTypeOK, registry, Fits, Unauthorised, Read, Statuses, Kinds
  <2> QED BY <2>1, <2>2
<1>5. CASE Suspend(t)
  <2>1. TxnInv' /\ \E step \in Steps : Alone(t, step)
    BY <1>5, <1>0, <1>a, StepNames, AccountFields, Ends
    DEF Suspend, Fits, Unauthorised
  <2>2. AccountsTypeOK'
    BY <1>5, <1>0, AccountFields DEF Suspend, AccountsTypeOK, registry, Fits, Unauthorised, Read, Statuses, Kinds
  <2> QED BY <2>1, <2>2
<1>6. CASE ReadRoles(t)
  <2>1. TxnInv' /\ \E step \in Steps : Alone(t, step)
    BY <1>6, <1>0, <1>a, StepNames, AccountFields, Continues
    DEF ReadRoles, Fits, Unauthorised
  <2>2. AccountsTypeOK'
    BY <1>6, <1>0, AccountFields DEF ReadRoles, Sees, AccountsTypeOK, registry, Fits, Unauthorised, Read, Statuses, Kinds
  <2> QED BY <2>1, <2>2
<1>7. CASE InsertRole(t)
  <2>1. TxnInv' /\ \E step \in Steps : Alone(t, step)
    BY <1>7, <1>0, <1>a, StepNames, AccountFields, Ends
    DEF InsertRole, Refuse, Fits, Unauthorised
  <2>2. AccountsTypeOK'
    <3>1. plan[t].account \in Accts /\ plan[t].role \in Roles
      BY <1>7, <1>0, AccountFields DEF InsertRole, Fits
    <3>2. roles' \in [Accts -> SUBSET Roles]
      BY <1>7, <3>1 DEF InsertRole, Refuse, registry, AccountsTypeOK
    <3> QED BY <1>7, <3>2 DEF InsertRole, Refuse, registry, AccountsTypeOK
  <2> QED BY <2>1, <2>2
<1>8. CASE ReadContact(t)
  <2>1. TxnInv' /\ \E step \in Steps : Alone(t, step)
    BY <1>8, <1>0, <1>a, StepNames, AccountFields, Continues
    DEF ReadContact, Fits, Unauthorised
  <2>2. AccountsTypeOK'
    BY <1>8, <1>0, AccountFields DEF ReadContact, Sees, AccountsTypeOK, registry, Fits, Unauthorised, Read, Statuses, Kinds
  <2> QED BY <2>1, <2>2
<1>9. CASE CreateContact(t)
  <2>1. TxnInv' /\ \E step \in Steps : Alone(t, step)
    BY <1>9, <1>0, <1>a, StepNames, AccountFields, Ends, Locks
    DEF CreateContact, Fits, Unauthorised
  <2>2. AccountsTypeOK'
    BY <1>9, <1>0, AccountFields DEF CreateContact, AccountsTypeOK, registry, Fits, Unauthorised, Read, Statuses, Kinds
  <2> QED BY <2>1, <2>2
<1>10. CASE ClearPrimaries(t)
  <2>1. TxnInv' /\ \E step \in Steps : Alone(t, step)
    BY <1>10, <1>0, <1>a, StepNames, AccountFields, Continues
    DEF ClearPrimaries, Fits, Unauthorised
  <2>2. AccountsTypeOK'
    BY <1>10, <1>0, AccountFields DEF ClearPrimaries, Sees, ToClear, Primaries, AccountsTypeOK, registry, Fits, Unauthorised, Read, Statuses, Kinds
  <2> QED BY <2>1, <2>2
<1>11. CASE LinkPhone(t)
  <2>1. TxnInv' /\ \E step \in Steps : Alone(t, step)
    BY <1>11, <1>0, <1>a, StepNames, AccountFields, Ends
    DEF LinkPhone, Fits, Unauthorised
  <2>2. AccountsTypeOK'
    <3>1. plan[t].party \in Parties /\ plan[t].phone \in Phones
      BY <1>11, <1>0, AccountFields DEF LinkPhone, Fits
    <3>2. links' \in [Parties -> [Phones -> {"none", "plain", "primary"}]]
      <4> DEFINE p    == plan[t].party
                   kept == [ph \in Phones |-> IF ph \in saw[t].cleared /\ links[p][ph] # "none"
                                                THEN "plain" ELSE links[p][ph]]
                   new  == [kept EXCEPT ![plan[t].phone] = IF plan[t].primary THEN "primary"
                                                                             ELSE "plain"]
      <4>2. links' = links \/ links' = [links EXCEPT ![p] = new]
        BY <1>11 DEF LinkPhone, registry
      <4>3. kept \in [Phones -> {"none", "plain", "primary"}]
        BY <3>1 DEF AccountsTypeOK
      <4>4. new \in [Phones -> {"none", "plain", "primary"}]
        BY <3>1, <4>3
      <4> QED BY <3>1, <4>2, <4>4, ZenonT(60) DEF AccountsTypeOK
    <3>3. control' \in [Phones -> {"absent", "UNVERIFIED", "VERIFIED_CONTROL"}]
      BY <1>11, <3>1 DEF LinkPhone, registry, AccountsTypeOK
    <3> QED BY <1>11, <3>2, <3>3 DEF LinkPhone, registry, AccountsTypeOK
  <2> QED BY <2>1, <2>2
<1>12. CASE LockRecord(t)
  <2>1. TxnInv' /\ \E step \in Steps : Alone(t, step)
    BY <1>12, <1>0, <1>a, StepNames, AccountFields, Ends, Locks
    DEF LockRecord, Outcome, Fits, Unauthorised
  <2>2. AccountsTypeOK'
    BY <1>12, <1>0, AccountFields DEF LockRecord, AccountsTypeOK, registry, Fits, Unauthorised, Read, Statuses, Kinds
  <2> QED BY <2>1, <2>2
<1>13. CASE Claim(t)
  <2>1. TxnInv' /\ \E step \in Steps : Alone(t, step)
    BY <1>13, <1>0, <1>a, StepNames, AccountFields, Ends
    DEF Claim, Fits, Unauthorised
  <2>2. AccountsTypeOK'
    BY <1>13, <1>0, AccountFields DEF Claim, AccountsTypeOK, registry, Fits, Unauthorised, Read, Statuses, Kinds
  <2> QED BY <2>1, <2>2
<1>14. CASE Act(t)
  <2>1. TxnInv' /\ \E step \in Steps : Alone(t, step)
    BY <1>14, <1>0, <1>a, StepNames, AccountFields, Ends
    DEF Act, NotAlias, Fits, Unauthorised
  <2>2. AccountsTypeOK'
    BY <1>14, <1>0, AccountFields DEF Act, AccountsTypeOK, registry, Fits, Unauthorised, Read, Statuses, Kinds
  <2> QED BY <2>1, <2>2
<1>15. CASE Alias(t)
  <2>1. TxnInv' /\ \E step \in Steps : Alone(t, step)
    BY <1>15, <1>0, <1>a, StepNames, AccountFields, Ends
    DEF Alias, Refuse, Fits, Unauthorised
  <2>2. AccountsTypeOK'
    BY <1>15, <1>0, AccountFields DEF Alias, Refuse, AccountsTypeOK, registry, Fits, Unauthorised, Read, Statuses, Kinds
  <2> QED BY <2>1, <2>2
<1> QED BY <1>1, <1>2, <1>3, <1>4, <1>5, <1>6, <1>7, <1>8, <1>9, <1>10, <1>11, <1>12, <1>13, <1>14, <1>15 DEF AccountsStep

-----------------------------------------------------------------------------
(* The commands of Relations keep the types.  A relation that is about to  *)
(* end exists.                                                             *)
RelationsInv ==
  /\ TxnInv /\ RelationsTypeOK
  /\ \A t \in Actors : at[t] = "part" => period[plan[t].tie] \in Period

(* The commands of Relations keep the types.                               *)
LEMMA RelationsTyped ==
  ASSUME RelationsInv, NEW t \in Actors, RelationStep(t)
  PROVE  RelationsInv' /\ \E step \in Steps : Alone(t, step)
<1> USE RelationsAssumption DEF RelationsInv
<1>0. plan[t] \in Jobs /\ Fits(plan[t], at[t])
  BY DEF TxnInv
<1>a. /\ \A step \in Steps : Alone(t, step) => \E u \in Steps : Alone(t, u)
      /\ "done" \in Steps /\ {"written", "refused"} \subseteq Answers
      /\ {Update} \subseteq 1..Update
  BY StepNames DEF Answers, Update
<1>b. \A u \in Actors \ {t}, step \in Steps :
        Alone(t, step) => plan' = plan /\ at'[u] = at[u]
  BY DEF Alone
<1>1. CASE BeginAt(t)
  <2>0. plan[t].kind \in {"relate", "part", "bind"}
    BY <1>1, <1>0 DEF BeginAt, Fits
  <2>1. PICK step \in {"property", "tie", "binding"} :
          Continue(t, step) /\ Fits(plan[t], step)
    BY <1>1, <1>0, <2>0 DEF BeginAt, Fits, Unauthorised
  <2>2. TxnInv' /\ Alone(t, step)
    BY <2>1, Continues, StepNames
  <2>3. RelationsTypeOK'
    BY <1>1, <1>0 DEF BeginAt, RelationsTypeOK
  <2>4. \A u \in Actors : at'[u] = "part" => u # t
    BY <2>2, <2>1 DEF Alone
  <2> QED BY <1>1, <1>b, <2>2, <2>1, <2>3, <2>4, StepNames DEF BeginAt
<1>2. CASE CheckTie(t)
  <2>1. PICK step \in {"relate", "done"} : TxnInv' /\ Alone(t, step)
    BY <1>2, <1>0, <1>a, StepNames, Continues, Ends DEF CheckTie, Declined, Fits, Unauthorised
  <2>2. RelationsTypeOK' /\ period' = period
    BY <1>2, <1>0 DEF CheckTie, Declined, relations, RelationsTypeOK
  <2>3. \A u \in Actors : at'[u] = "part" => u # t
    BY <2>1 DEF Alone
  <2> QED BY <1>b, <2>1, <2>2, <2>3, StepNames
<1>3. CASE Relate(t)
  <2>0. plan[t].tie \in Ties /\ plan[t].from \in Nat \union {None}
    BY <1>3, <1>0, EvidenceFields DEF Relate, Fits
  <2>1. TxnInv' /\ Alone(t, "done")
    BY <1>3, <1>a, Ends DEF Relate, Declined
  <2> DEFINE d == [from |-> IF plan[t].from = None THEN began[t] ELSE plan[t].from, to |-> None]
  <2>2. d \in Period
    BY <2>0 DEF RelationsTypeOK, Period
  <2>3. period' = period \/ period' = [period EXCEPT ![plan[t].tie] = d]
    BY <1>3 DEF Relate, Declined, relations
  <2>4. period' \in [Ties -> Period \union {None}] /\ \A x \in Ties : period[x] \in Period => period'[x] \in Period
    BY <2>0, <2>2, <2>3 DEF RelationsTypeOK
  <2>5. RelationsTypeOK'
    BY <1>3, <2>4 DEF Relate, Declined, relations, RelationsTypeOK
  <2>6. \A u \in Actors : at'[u] = "part" => u # t /\ at[u] = "part" /\ plan[u].tie \in Ties
    BY <1>b, <2>1, StepNames, EvidenceFields DEF Alone, TxnInv, Fits
  <2> QED BY <1>a, <1>b, <2>1, <2>4, <2>5, <2>6
<1>4. CASE LockTie(t)
  <2>0. plan[t].tie \in Ties /\ plan[t].tie \in Rows
    BY <1>4, <1>0, EvidenceFields DEF LockTie, Fits
  <2>1. CASE LockAnd(t, plan[t].tie, Update, "part") /\ UNCHANGED <<relations, clock>>
             /\ period[plan[t].tie] # None
    <3>1. TxnInv' /\ Alone(t, "part")
      BY <1>4, <1>0, <1>a, <2>0, <2>1, StepNames, Locks DEF LockTie, Fits, Unauthorised
    <3>2. RelationsTypeOK' /\ period' = period /\ period[plan[t].tie] \in Period
      BY <2>0, <2>1 DEF relations, RelationsTypeOK
    <3> QED BY <1>b, <3>1, <3>2, StepNames DEF Alone
  <2>2. CASE Declined(t)
    <3>1. TxnInv' /\ Alone(t, "done")
      BY <1>a, <2>2, Ends DEF Declined
    <3>2. RelationsTypeOK' /\ period' = period
      BY <2>2 DEF Declined, relations, RelationsTypeOK
    <3> QED BY <1>b, <3>1, <3>2, StepNames DEF Alone
  <2> QED BY <1>4, <2>1, <2>2 DEF LockTie
<1>5. CASE Part(t)
  <2>0. plan[t].tie \in Ties /\ plan[t].to \in Nat \union {None} /\ period[plan[t].tie] \in Period
    BY <1>5, <1>0, EvidenceFields DEF Part, Fits
  <2>1. TxnInv' /\ Alone(t, "done")
    BY <1>5, <1>a, Ends DEF Part
  <2>2. Ending(t) \in Nat
    BY <2>0 DEF Ending, RelationsTypeOK
  <2>3. [period[plan[t].tie] EXCEPT !.to = Ending(t)] \in Period
    BY <2>0, <2>2 DEF Period
  <2>4. period' \in [Ties -> Period \union {None}] /\ \A x \in Ties : period[x] \in Period => period'[x] \in Period
    BY <1>5, <2>0, <2>3 DEF Part, RelationsTypeOK
  <2>5. RelationsTypeOK'
    BY <1>5, <2>4 DEF Part, RelationsTypeOK
  <2>6. \A u \in Actors : at'[u] = "part" => u # t /\ at[u] = "part" /\ plan[u].tie \in Ties
    BY <1>b, <2>1, StepNames, EvidenceFields DEF Alone, TxnInv, Fits
  <2> QED BY <1>a, <1>b, <2>1, <2>4, <2>5, <2>6
<1> QED BY <1>1, <1>2, <1>3, <1>4, <1>5 DEF RelationStep

-----------------------------------------------------------------------------
(* The commands of Evidence keep the types.                                *)
EvidenceInv == TxnInv /\ EvidenceTypeOK /\ clock \in Nat

(* The commands of Evidence keep the types.                                *)
LEMMA EvidenceTyped ==
  ASSUME EvidenceInv, NEW t \in Actors, EvidenceStep(t)
  PROVE  EvidenceInv' /\ \E step \in Steps : Alone(t, step)
<1> USE EvidenceAssumption DEF EvidenceInv
<1>0. plan[t] \in Jobs /\ Fits(plan[t], at[t]) /\ view[t] \in Views
  BY DEF TxnInv, EvidenceTypeOK
<1>a. /\ \A step \in Steps : Alone(t, step) => \E u \in Steps : Alone(t, u)
      /\ "done" \in Steps /\ {"written", "refused", "replayed", "error", "index"} \subseteq Answers
      /\ {Share, NoKeyUpdate, Update} \subseteq 1..Update
      /\ SubjectMode = Update /\ EvidenceMode = Share
  BY StepNames DEF Answers, Share, NoKeyUpdate, Update, SubjectMode, EvidenceMode
<1>1. CASE GrantConsent(t)
  <2>1. TxnInv' /\ \E step \in Steps : Alone(t, step)
    BY <1>1, <1>0, <1>a, StepNames, EvidenceFields, Ends
    DEF GrantConsent, Reject, Fits, Unauthorised
  <2>2. EvidenceTypeOK' /\ clock' \in Nat
    BY <1>1, <1>0, EvidenceFields
    DEF GrantConsent, Reject, Fits, Unauthorised, evidence, consents, facts, values, tasks, EvidenceTypeOK, Views
  <2> QED BY <2>1, <2>2
<1>2. CASE ReadGrant(t)
  <2>1. TxnInv' /\ \E step \in Steps : Alone(t, step)
    BY <1>2, <1>0, <1>a, StepNames, EvidenceFields, Ends, Continues
    DEF ReadGrant, Reject, Fits, Unauthorised
  <2>2. EvidenceTypeOK' /\ clock' \in Nat
    BY <1>2, <1>0, EvidenceFields
    DEF ReadGrant, Reject, Notes, Fits, Unauthorised, evidence, consents, facts, values, tasks, EvidenceTypeOK, Views
  <2> QED BY <2>1, <2>2
<1>3. CASE Revoke(t)
  <2>1. TxnInv' /\ \E step \in Steps : Alone(t, step)
    BY <1>3, <1>0, <1>a, StepNames, EvidenceFields, Ends
    DEF Revoke, Fits, Unauthorised
  <2>2. EvidenceTypeOK' /\ clock' \in Nat
    BY <1>3, <1>0, EvidenceFields
    DEF Revoke, Fits, Unauthorised, evidence, consents, facts, values, tasks, EvidenceTypeOK, Views
  <2> QED BY <2>1, <2>2
<1>4. CASE CheckBinding(t)
  <2>1. TxnInv' /\ \E step \in Steps : Alone(t, step)
    BY <1>4, <1>0, <1>a, StepNames, EvidenceFields, Ends, Continues
    DEF CheckBinding, Reject, Fits, Unauthorised
  <2>2. EvidenceTypeOK' /\ clock' \in Nat
    BY <1>4, <1>0, EvidenceFields
    DEF CheckBinding, Reject, Fits, Unauthorised, evidence, consents, facts, values, tasks, EvidenceTypeOK, Views
  <2> QED BY <2>1, <2>2
<1>5. CASE Bind(t)
  <2>1. TxnInv' /\ \E step \in Steps : Alone(t, step)
    BY <1>5, <1>0, <1>a, StepNames, EvidenceFields, Ends
    DEF Bind, Reject, Fits, Unauthorised
  <2>2. EvidenceTypeOK' /\ clock' \in Nat
    BY <1>5, <1>0, EvidenceFields
    DEF Bind, Reject, Fits, Unauthorised, evidence, consents, facts, values, tasks, EvidenceTypeOK, Views
  <2> QED BY <2>1, <2>2
<1>6. CASE Observe(t)
  <2>1. TxnInv' /\ \E step \in Steps : Alone(t, step)
    BY <1>6, <1>0, <1>a, StepNames, EvidenceFields, Ends
    DEF Observe, Fits, Unauthorised
  <2>2. EvidenceTypeOK' /\ clock' \in Nat
    BY <1>6, <1>0, EvidenceFields
    DEF Observe, Fits, Unauthorised, evidence, consents, facts, values, tasks, EvidenceTypeOK, Views
  <2> QED BY <2>1, <2>2
<1>7. CASE CheckFact(t)
  <2>1. TxnInv' /\ \E step \in Steps : Alone(t, step)
    BY <1>7, <1>0, <1>a, StepNames, EvidenceFields, Ends, Continues
    DEF CheckFact, Reject, Fits, Unauthorised
  <2>2. EvidenceTypeOK' /\ clock' \in Nat
    BY <1>7, <1>0, EvidenceFields
    DEF CheckFact, Reject, Fits, Unauthorised, evidence, consents, facts, values, tasks, EvidenceTypeOK, Views
  <2> QED BY <2>1, <2>2
<1>8. CASE AssertFact(t)
  <2>1. TxnInv' /\ \E step \in Steps : Alone(t, step)
    BY <1>8, <1>0, <1>a, StepNames, EvidenceFields, Ends
    DEF AssertFact, Reject, Fits, Unauthorised
  <2>2. EvidenceTypeOK' /\ clock' \in Nat
    BY <1>8, <1>0, EvidenceFields
    DEF AssertFact, Reject, Fits, Unauthorised, evidence, consents, facts, values, tasks, EvidenceTypeOK, Views
  <2> QED BY <2>1, <2>2
<1>9. CASE LockFact(t)
  <2>1. TxnInv' /\ \E step \in Steps : Alone(t, step)
    BY <1>9, <1>0, <1>a, StepNames, EvidenceFields, Ends, Locks
    DEF LockFact, Reject, Await, Fits, Unauthorised
  <2>2. EvidenceTypeOK' /\ clock' \in Nat
    BY <1>9, <1>0, EvidenceFields
    DEF LockFact, Reject, Await, Fits, Unauthorised, evidence, consents, facts, values, tasks, EvidenceTypeOK, Views
  <2> QED BY <2>1, <2>2
<1>10. CASE Verify(t)
  <2>1. TxnInv' /\ \E step \in Steps : Alone(t, step)
    BY <1>10, <1>0, <1>a, StepNames, EvidenceFields, Ends
    DEF Verify, Fits, Unauthorised
  <2>2. EvidenceTypeOK' /\ clock' \in Nat
    BY <1>10, <1>0, EvidenceFields
    DEF Verify, Greatest, Fits, Unauthorised, evidence, consents, facts, values, tasks, EvidenceTypeOK, Views
  <2> QED BY <2>1, <2>2
<1>11. CASE LockSubject(t)
  <2>0. plan[t].on[1] \in Rows /\ Fits(plan[t], "lineage") /\ "lineage" \in Steps
    BY <1>11, <1>0, StepNames, EvidenceFields, AccountsAssumption
    DEF LockSubject, Fits, Unauthorised, Subjects, Records
  <2>1. TxnInv' /\ \E step \in Steps : Alone(t, step)
    BY <1>11, <1>a, <2>0, Locks DEF LockSubject, Await
  <2>2. EvidenceTypeOK' /\ clock' \in Nat
    BY <1>11, <1>0, EvidenceFields
    DEF LockSubject, Await, Subjects, Fits, Unauthorised, evidence, consents, facts, values, tasks, EvidenceTypeOK, Views
  <2> QED BY <2>1, <2>2
<1>12. CASE CheckLineage(t)
  <2>1. TxnInv' /\ \E step \in Steps : Alone(t, step)
    BY <1>12, <1>0, <1>a, StepNames, EvidenceFields, Ends, Continues, Locks, SMTT(30)
    DEF CheckLineage, Reject, Await, Fits, Unauthorised
  <2>2. EvidenceTypeOK' /\ clock' \in Nat
    BY <1>12, <1>0, EvidenceFields
    DEF CheckLineage, Reject, Await, Fits, Unauthorised, evidence, consents, facts, values, tasks, EvidenceTypeOK, Views
  <2> QED BY <2>1, <2>2
<1>13. CASE ReadCurrent(t)
  <2>1. TxnInv' /\ \E step \in Steps : Alone(t, step)
    BY <1>13, <1>0, <1>a, StepNames, EvidenceFields, Ends, Continues
    DEF ReadCurrent, Reject, Fits, Unauthorised
  <2>2. EvidenceTypeOK' /\ clock' \in Nat
    <3>1. CASE Reject(t, "refused")
      BY <3>1 DEF Reject, evidence, EvidenceTypeOK
    <3>2. CASE ~Reject(t, "refused")
      <4> DEFINE start == IF plan[t].given = None THEN clock + 1 ELSE plan[t].given
                 now   == Current(plan[t].on)
                 last  == IF now = {} THEN None ELSE (CHOOSE v \in now : TRUE).from
      <4>1. start \in Nat /\ plan[t].on \in Subjects
        BY <1>13, <1>0, EvidenceFields DEF ReadCurrent, Fits
      <4>2. \A v \in now : v.from \in Nat
        BY <4>1 DEF Current, EvidenceTypeOK, Value
      <4>3. last \in Nat \union {None}
        BY <4>2
      <4>4. view' = [view EXCEPT ![t] = [view[t] EXCEPT !.start = start, !.last = last]]
        BY <1>13, <3>2 DEF ReadCurrent, Notes
      <4>5. view' \in [Actors -> Views]
        BY <4>1, <4>3, <4>4, <1>0 DEF Views, EvidenceTypeOK
      <4>6. clock' \in Nat
        BY <1>13, <3>2, <4>1 DEF ReadCurrent
      <4> QED BY <1>13, <3>2, <4>5, <4>6 DEF ReadCurrent, consents, facts, tasks, EvidenceTypeOK
    <3> QED BY <3>1, <3>2
  <2> QED BY <2>1, <2>2
<1>14. CASE Resolve(t)
  <2>1. TxnInv' /\ \E step \in Steps : Alone(t, step)
    BY <1>14, <1>a, Ends DEF Resolve, Reject
  <2>2. EvidenceTypeOK' /\ clock' \in Nat
    <3> DEFINE s    == plan[t].on
               kept == {[v EXCEPT !.to = IF v.from = view[t].last THEN view[t].start ELSE @] :
                          v \in resolved[s]}
               mine == [from |-> view[t].start, to |-> None, by |-> t]
    <3>1. s \in Subjects /\ resolved[s] \subseteq Value /\ view[t].start \in Nat
      BY <1>14, <1>0, EvidenceFields DEF Resolve, Fits, EvidenceTypeOK, Views
    <3>2. \A v \in Value : [v EXCEPT !.to = IF v.from = view[t].last THEN view[t].start ELSE @] \in Value
      BY <3>1 DEF Value
    <3>3. kept \subseteq Value
      BY <3>1, <3>2
    <3>4. mine \in Value
      BY <3>1 DEF Value
    <3>5. CASE Reject(t, "index")
      BY <3>5 DEF Reject, evidence, EvidenceTypeOK
    <3>6. CASE resolved' = [resolved EXCEPT ![s] = kept \union {mine}]
                 /\ projected' = [projected EXCEPT ![s] = t]
                 /\ UNCHANGED <<consents, body, facts, clock, tasks, view>>
      BY <3>1, <3>3, <3>4, <3>6 DEF consents, facts, tasks, EvidenceTypeOK
    <3> QED BY <1>14, <3>5, <3>6 DEF Resolve
  <2> QED BY <2>1, <2>2
<1>15. CASE LockTask(t)
  <2>1. TxnInv' /\ \E step \in Steps : Alone(t, step)
    BY <1>15, <1>0, <1>a, StepNames, EvidenceFields, Ends, Locks
    DEF LockTask, Reject, Await, Fits, Unauthorised
  <2>2. EvidenceTypeOK' /\ clock' \in Nat
    BY <1>15, <1>0, EvidenceFields
    DEF LockTask, Reject, Await, Fits, Unauthorised, evidence, consents, facts, values, tasks, EvidenceTypeOK, Views
  <2> QED BY <2>1, <2>2
<1>16. CASE LockEvidence(t)
  <2>0. /\ plan[t].cites \in Observations \union {None} /\ Fits(plan[t], "complete")
        /\ "complete" \in Steps
    BY <1>16, <1>0, StepNames, EvidenceFields DEF LockEvidence, Fits, Unauthorised
  <2>a. \/ Continue(t, "complete")
        \/ End(t, "refused")
        \/ plan[t].cites # None /\ LockAnd(t, plan[t].cites, Share, "complete")
    BY <1>16, <1>a DEF LockEvidence, Reject
  <2>1. TxnInv' /\ \E step \in Steps : Alone(t, step)
    <3>1. CASE Continue(t, "complete")
      BY <1>a, <2>0, <3>1, Continues
    <3>2. CASE End(t, "refused")
      BY <1>a, <3>2, Ends
    <3>3. CASE plan[t].cites # None /\ LockAnd(t, plan[t].cites, Share, "complete")
      BY <1>a, <2>0, <3>3, Locks
    <3> QED BY <2>a, <3>1, <3>2, <3>3
  <2>2. EvidenceTypeOK' /\ clock' \in Nat
    BY <1>16, <1>0, EvidenceFields
    DEF LockEvidence, Reject, Await, Notes, Fits, Unauthorised, evidence, consents, facts, values, tasks, EvidenceTypeOK, Views
  <2> QED BY <2>1, <2>2
<1>17. CASE CompleteTask(t)
  <2>1. TxnInv' /\ \E step \in Steps : Alone(t, step)
    BY <1>17, <1>0, <1>a, StepNames, EvidenceFields, Ends
    DEF CompleteTask, Fits, Unauthorised
  <2>2. EvidenceTypeOK' /\ clock' \in Nat
    BY <1>17, <1>0, EvidenceFields
    DEF CompleteTask, Fits, Unauthorised, evidence, consents, facts, values, tasks, EvidenceTypeOK, Views
  <2> QED BY <2>1, <2>2
<1>18. CASE Amend(t)
  <2>1. TxnInv' /\ \E step \in Steps : Alone(t, step)
    BY <1>18, <1>0, <1>a, StepNames, EvidenceFields, Ends
    DEF Amend, Reject, Fits, Unauthorised
  <2>2. EvidenceTypeOK' /\ clock' \in Nat
    BY <1>18, <1>0, EvidenceFields
    DEF Amend, Reject, Fits, Unauthorised, evidence, consents, facts, values, tasks, EvidenceTypeOK, Views
  <2> QED BY <2>1, <2>2
<1> QED BY <1>1, <1>2, <1>3, <1>4, <1>5, <1>6, <1>7, <1>8, <1>9, <1>10, <1>11, <1>12, <1>13, <1>14, <1>15, <1>16, <1>17, <1>18 DEF EvidenceStep

-----------------------------------------------------------------------------
(* The reads of Disclosure keep the types.                                 *)
DisclosureInv == TxnInv /\ DisclosureTypeOK

(* One row's fields, as they are shown.                                    *)
LEMMA Shows ==
  ASSUME NEW r \in Objects \union Offers, NEW fs \in SUBSET Fields, area \in [Properties -> Nat]
  PROVE  Show(r, fs) \in SUBSET Shown
BY DEF Show, ValueOf, Shown

(* The access records.                                                     *)
LEMMA Emits ==
  ASSUME DisclosureTypeOK, NEW t \in Actors, NEW records \in Seq(Recorded), Emit(t, records)
  PROVE  trail' \in [Actors -> Seq(Recorded)]
BY DEF Emit, DisclosureTypeOK

(* A read's answer.                                                        *)
LEMMA Replies ==
  ASSUME DisclosureInv, NEW t \in Actors, NEW what \in Answers, NEW shows \in SUBSET Shown,
         NEW records \in Seq(Recorded), Reply(t, what, shows, records)
  PROVE  DisclosureInv' /\ Alone(t, "done")
BY Ends, Emits DEF DisclosureInv, Reply, DisclosureTypeOK, things

(* What a read records.                                                    *)
LEMMA RecordSequences ==
  /\ \A e \in Recorded : <<e>> \in Seq(Recorded)
  /\ <<>> \in Seq(Recorded)
  /\ \A t \in Actors : ReadRecord(t) \in Seq(Recorded)
<1>1. (\A e \in Recorded : <<e>> \in Seq(Recorded)) /\ <<>> \in Seq(Recorded)
  OBVIOUS
<1>2. "READ" \in Recorded
  BY DEF Recorded
<1> QED BY <1>1, <1>2 DEF ReadRecord

(* The columns that are loaded are fields.                                 *)
LEMMA ColumnsAreFields ==
  /\ Loaded.party \subseteq Fields /\ Loaded.request \subseteq Fields
  /\ Loaded.property \subseteq Fields
  /\ StaffColumns.party \subseteq Fields /\ StaffColumns.request \subseteq Fields
  /\ StaffColumns.property \subseteq Fields
  /\ PublicView \subseteq Fields
BY DEF Loaded, StaffColumns, PublicView, Fields

(* What a read, a list and the public list show is of the right form.      *)
LEMMA RowShown ==
  ASSUME NEW r \in Parties \union Requests \union Properties, area \in [Properties -> Nat],
         NEW view_ \in {CustomerView, InternalView}
  PROVE  /\ Show(r, Loaded[Kind(r)] \intersect view_[Kind(r)]) \in SUBSET Shown
         /\ Show(r, StaffColumns[Kind(r)] \intersect view_[Kind(r)]) \in SUBSET Shown
<1>1. Kind(r) \in {"party", "request", "property"}
  BY DEF Kind
<1>2. Loaded[Kind(r)] \subseteq Fields /\ StaffColumns[Kind(r)] \subseteq Fields
  BY <1>1, ColumnsAreFields
<1> QED BY <1>2, Shows DEF Objects

(* An opportunity shows itself and its property.                           *)
LEMMA OpportunityShown ==
  ASSUME NEW o \in Opportunities, area \in [Properties -> Nat]
  PROVE  ShowOpportunity(o) \in SUBSET Shown
<1> USE DisclosureAssumption
<1>1. ScopeView(o) \subseteq Fields
  BY DEF ScopeView, Fields
<1>2. Show(OpportunityOn[o][2], ScopeView(o)) \in SUBSET Shown
  BY <1>1, Shows DEF Objects
<1>3. {<<o, "status", 0>>, <<o, "entry", Evaluated[o]>>} \subseteq Shown
  BY DEF Shown, Fields, Objects
<1> QED BY <1>2, <1>3 DEF ShowOpportunity

(* A staff list shows ids alone.                                           *)
LEMMA ListShown ==
  ASSUME DisclosureInv, NEW t \in Actors
  PROVE  Listed(t) \in SUBSET Shown
BY DEF Listed, Backlog, Shown, Fields

(* The public page shows its properties and their offers.                  *)
LEMMA PublicShown ==
  ASSUME DisclosureInv
  PROVE  UNION ({Show(p, PublicView) : p \in Page} \union
              {Show(o, PublicOffer(o)) : o \in {o \in ListableOffers : OfferOn[o] \in Page}})
            \in SUBSET Shown
<1>1. Page \subseteq Objects /\ ListableOffers \subseteq Offers
  BY DEF Page, ListableOffers, Objects, DisclosureInv, DisclosureTypeOK
<1>2. \A o \in Offers : PublicOffer(o) \subseteq Fields
  BY DEF PublicOffer, Fields
<1>3. \A p \in Page : Show(p, PublicView) \in SUBSET Shown
  BY <1>1, Shows, ColumnsAreFields DEF DisclosureInv, DisclosureTypeOK
<1>4. \A o \in ListableOffers : Show(o, PublicOffer(o)) \in SUBSET Shown
  BY <1>1, <1>2, Shows DEF DisclosureInv, DisclosureTypeOK
<1> QED BY <1>3, <1>4

(* The reads keep the types.                                               *)
LEMMA DisclosureTyped ==
  ASSUME DisclosureInv, NEW t \in Actors, DisclosureStep(t), canonical \in [Properties -> Properties]
  PROVE  DisclosureInv' /\ \E step \in Steps : Alone(t, step)
<1> USE DisclosureAssumption
<1>0. /\ plan[t] \in Jobs /\ Fits(plan[t], at[t]) /\ target[t] \in Properties \union {None}
      /\ area \in [Properties -> Nat] /\ TxnInv /\ DisclosureTypeOK
  BY DEF DisclosureInv, TxnInv, DisclosureTypeOK
<1>a. /\ \A step \in Steps : Alone(t, step) => \E u \in Steps : Alone(t, u)
      /\ {"done", "row", "contest", "staffRow", "render", "diagnostic"} \subseteq Steps
      /\ {"written", "refused", "shown", "concealed", "contested", "denied", "unknown"} \subseteq Answers
      /\ {} \in SUBSET Shown
  BY StepNames DEF Answers
<1>b. /\ <<"READ">> \in Seq(Recorded) /\ <<"LIST">> \in Seq(Recorded)
      /\ <<"DENIED">> \in Seq(Recorded) /\ <<"CONFLICT">> \in Seq(Recorded)
      /\ <<"CONFLICT_TOLD">> \in Seq(Recorded) /\ <<>> \in Seq(Recorded)
      /\ ReadRecord(t) \in Seq(Recorded)
  BY RecordSequences DEF Recorded
<1>c. \A what \in Answers, shows \in SUBSET Shown, records \in Seq(Recorded) :
        Reply(t, what, shows, records) => DisclosureInv' /\ \E step \in Steps : Alone(t, step)
  BY <1>a, Replies
(* A step that shows nothing yet and keeps what it read.                   *)
<1>d. ASSUME NEW step \in Steps, Continue(t, step), Fits(plan[t], step), DisclosureTypeOK'
      PROVE  DisclosureInv' /\ \E s \in Steps : Alone(t, s)
  BY <1>0, <1>a, <1>d, Continues DEF DisclosureInv
<1>e. ASSUME NEW step \in Steps, Continue(t, step), Fits(plan[t], step),
             Emit(t, <<"READ">>) \/ Emit(t, ReadRecord(t)), UNCHANGED <<things, target, sight>>
      PROVE  DisclosureInv' /\ \E s \in Steps : Alone(t, s)
  <2>1. trail' \in [Actors -> Seq(Recorded)]
    BY <1>0, <1>b, <1>e, Emits
  <2>2. DisclosureTypeOK'
    BY <1>0, <1>e, <2>1 DEF things, DisclosureTypeOK
  <2> QED BY <1>d, <1>e, <2>2
<1>f. \A event \in {"DENIED", "CONFLICT"} :
        Conceal(t, event) => DisclosureInv' /\ \E step \in Steps : Alone(t, step)
  BY <1>a, <1>b, <1>c DEF Conceal
<1>1. CASE ReadMyParty(t)
  <2>1. plan[t].account \in Accts /\ PartyOf[plan[t].account] \in Parties
    BY <1>1, <1>0, AccountFields, AccountsAssumption DEF ReadMyParty, Fits, Unauthorised
  <2>2. Show(PartyOf[plan[t].account], Loaded.party \intersect CustomerView.party) \in SUBSET Shown
    BY <1>0, <2>1, Shows, ColumnsAreFields DEF Objects
  <2> QED BY <1>1, <1>a, <1>b, <1>c, <2>2 DEF ReadMyParty
<1>2. CASE Canonical(t)
  <2>1. plan[t].of \in Properties /\ plan[t].kind \in {"me", "read"}
    BY <1>2, <1>0 DEF Canonical, Fits
  <2>2. DisclosureTypeOK'
    BY <1>2, <1>0, <2>1 DEF Canonical, things, DisclosureTypeOK
  <2>3. PICK step \in {"contest", "staffRow"} : Continue(t, step) /\ Fits(plan[t], step)
    BY <1>2, <2>1 DEF Canonical, Fits, Unauthorised
  <2> QED BY <1>a, <1>d, <2>2, <2>3
<1>3. CASE GuardContest(t)
  <2>1. Fits(plan[t], "row")
    BY <1>3, <1>0 DEF GuardContest, Fits, Unauthorised
  <2>2. CASE Proceed(t, "row")
    <3>1. DisclosureTypeOK'
      BY <1>0, <2>2 DEF Proceed, disclosure, things, DisclosureTypeOK
    <3> QED BY <1>a, <1>d, <2>1, <2>2, <3>1 DEF Proceed
  <2> QED BY <1>3, <1>a, <1>b, <1>c, <1>f, <2>2 DEF GuardContest
<1>4. CASE LoadRow(t)
  <2>1. CASE Conceal(t, "DENIED")
    BY <1>f, <2>1
  <2>2. CASE ~Conceal(t, "DENIED")
    <3>1. Subject(t) \in Requests \union Properties
      BY <1>4, <2>2 DEF LoadRow, Loads
    <3>2. Show(Subject(t), Loaded[Kind(Subject(t))] \intersect CustomerView[Kind(Subject(t))])
            \in SUBSET Shown
      BY <1>0, <3>1, RowShown
    <3> QED BY <1>4, <1>a, <1>b, <1>c, <2>2, <3>2 DEF LoadRow
  <2> QED BY <2>1, <2>2
<1>5. CASE LoadOpportunity(t)
  <2>1. Fits(plan[t], "render")
    BY <1>5, <1>0 DEF LoadOpportunity, Fits, Unauthorised
  <2> QED BY <1>5, <1>a, <1>e, <1>f, <2>1 DEF LoadOpportunity
<1>6. CASE RenderOpportunity(t)
  <2>1. plan[t].of \in Opportunities
    BY <1>6, <1>0 DEF RenderOpportunity, Fits
  <2> QED BY <1>6, <1>0, <1>a, <1>b, <1>c, <2>1, OpportunityShown DEF RenderOpportunity
<1>7. CASE StaffRow(t)
  <2>1. plan[t].kind \in {"read", "diagnostic"}
    BY <1>7, <1>0 DEF StaffRow, Fits
  <2>2. CASE Subject(t) = None
    BY <1>7, <1>a, <1>b, <1>c, <2>2 DEF StaffRow
  <2>3. CASE Subject(t) # None /\ plan[t].kind = "diagnostic"
    <3>1. Fits(plan[t], "diagnostic")
      BY <2>3 DEF Fits, Unauthorised
    <3> QED BY <1>7, <1>a, <1>e, <2>3, <3>1 DEF StaffRow
  <2>4. CASE Subject(t) # None /\ plan[t].kind # "diagnostic"
    <3>1. Subject(t) \in Parties \union Requests \union Properties
      BY <1>0, <2>1, <2>4, DisclosureFields DEF Subject
    <3>2. Show(Subject(t), StaffColumns[Kind(Subject(t))] \intersect InternalView[Kind(Subject(t))])
            \in SUBSET Shown
      BY <1>0, <3>1, RowShown
    <3> QED BY <1>7, <1>a, <1>b, <1>c, <2>4, <3>2 DEF StaffRow
  <2> QED BY <2>2, <2>3, <2>4
<1>8. CASE InternalOpportunity(t)
  <2>1. plan[t].of \in Opportunities \union {None}
    BY <1>8, <1>0, DisclosureFields DEF InternalOpportunity, Fits
  <2>2. plan[t].of # None =>
          {<<plan[t].of, "status", 0>>, <<plan[t].of, "entry", Evaluated[plan[t].of]>>} \in SUBSET Shown
    BY <2>1 DEF Shown, Fields, Objects
  <2> QED BY <1>8, <1>a, <1>b, <1>c, <2>2 DEF InternalOpportunity
<1>9. CASE StoredMatch(t)
  <2>1. plan[t].of \in Opportunities \union {None}
    BY <1>9, <1>0, DisclosureFields DEF StoredMatch, Fits
  <2>2. plan[t].of # None => {<<plan[t].of, "entry", Evaluated[plan[t].of]>>} \in SUBSET Shown
    BY <2>1 DEF Shown, Fields, Objects
  <2> QED BY <1>9, <1>a, <1>b, <1>c, <2>2 DEF StoredMatch
<1>10. CASE LatestDiagnostic(t)
  <2>1. plan[t].of \in Diagnosed => {<<plan[t].of, "entry", 0>>} \in SUBSET Shown
    BY DEF Shown, Fields, Objects
  <2> QED BY <1>10, <1>a, <1>b, <1>c, <2>1 DEF LatestDiagnostic
<1>11. CASE ReadList(t)
  <2>1. Listed(t) \in SUBSET Shown
    BY ListShown
  <2> QED BY <1>11, <1>a, <1>b, <1>c, <2>1 DEF ReadList
<1>12. CASE ListPublic(t)
  BY <1>12, <1>a, <1>b, <1>c, PublicShown DEF ListPublic
<1>13. CASE Capture(t)
  <2>1. TxnInv' /\ \E step \in Steps : Alone(t, step)
    BY <1>13, <1>0, <1>a, Ends DEF Capture
  <2>2. DisclosureTypeOK'
    BY <1>13, <1>0 DEF Capture, DisclosureTypeOK
  <2> QED BY <2>1, <2>2 DEF DisclosureInv
<1>14. CASE RefuseConversion(t)
  <2>1. TxnInv' /\ \E step \in Steps : Alone(t, step)
    BY <1>14, <1>0, <1>a, Ends DEF RefuseConversion
  <2>2. DisclosureTypeOK'
    BY <1>14, <1>0 DEF RefuseConversion, disclosure, things, DisclosureTypeOK
  <2> QED BY <2>1, <2>2 DEF DisclosureInv
<1>15. CASE Change(t)
  <2>1. TxnInv' /\ \E step \in Steps : Alone(t, step)
    BY <1>15, <1>0, <1>a, Ends DEF Change, MovesOffer, ConfirmsAvailability, PatchesArea, SharesIt
  <2>2. DisclosureTypeOK'
    <3>1. plan[t].of \in Offers => Toggle(active, plan[t].of) \subseteq Offers
      BY <1>0 DEF Toggle, DisclosureTypeOK
    <3>2. plan[t].of \in Properties =>
            /\ Toggle(listable, plan[t].of) \subseteq Properties
            /\ [area EXCEPT ![plan[t].of] = @ + 1] \in [Properties -> Nat]
      BY <1>0 DEF Toggle, DisclosureTypeOK
    <3>3. UNCHANGED <<leads, target, sight, trail>>
      BY <1>15 DEF Change, MovesOffer, ConfirmsAvailability, PatchesArea, SharesIt
    <3>4. active' \subseteq Offers /\ listable' \subseteq Properties
          /\ area' \in [Properties -> Nat] /\ shared' \subseteq Opportunities
      BY <1>15, <1>0, <3>1, <3>2 DEF Change,
            MovesOffer, ConfirmsAvailability, PatchesArea, SharesIt, DisclosureTypeOK
    <3> QED BY <1>0, <3>3, <3>4 DEF DisclosureTypeOK
  <2> QED BY <2>1, <2>2 DEF DisclosureInv
<1> QED BY <1>1, <1>2, <1>3, <1>4, <1>5, <1>6, <1>7, <1>8, <1>9, <1>10, <1>11, <1>12, <1>13,
           <1>14, <1>15 DEF DisclosureStep

-----------------------------------------------------------------------------
(* The types of the whole, with what the steps need of one another.        *)
Typed ==
  /\ TypeOK
  /\ \A t \in Actors : Fits(plan[t], at[t])
  /\ \A t \in Actors : at[t] = "part" => period[plan[t].tie] \in Period

(* The tables that are found are of their types.                           *)
LEMMA InitTyped == Init => Typed
<1> SUFFICES ASSUME Init PROVE Typed
  OBVIOUS
<1>1. PICK s \in Starts :
        /\ s.document \in {p.of : p \in Policies} /\ contract = s.document
        /\ plan = s.plan
        /\ status = s.tables.status /\ roles = s.tables.roles
        /\ control = s.tables.control /\ links = s.tables.links
        /\ codes = s.tables.codes
        /\ events = s.tables.claimed
        /\ claimed = s.tables.selfServed \union {c[1] : c \in s.tables.claimed}
        /\ grants = s.tables.grants
        /\ body = [o \in Observations |-> IF o \in s.tables.written THEN 1 ELSE 0]
        /\ level = [f \in Facts |-> IF f \in s.tables.said THEN 0 ELSE None]
        /\ resolved = [i \in Subjects |-> IF i \in s.tables.valued
                         THEN {[from |-> 1, to |-> None, by |-> None]} ELSE {}]
        /\ todo = s.tables.todo
        /\ period = s.tables.ties
        /\ active = s.tables.active /\ listable = s.tables.listable
        /\ shared = s.tables.shared /\ leads = s.tables.leads
  BY DEF Init
<1>2. s.tables \in Tables /\ s.plan \in [Actors -> Jobs]
  BY StartsAssumption DEF Sensible
<1>3. /\ contract \in {p.of : p \in Policies} /\ plan \in [Actors -> Jobs]
      /\ at \in [Actors -> Steps] /\ HeldType /\ answer \in [Actors -> Answers]
  BY <1>1, <1>2, StepNames DEF Init, Unlocked, HeldType, Update, Answers
<1>4. AccountsTypeOK
  <2>1. events \subseteq Records \X Accts /\ claimed \subseteq Records
    BY <1>1, <1>2 DEF Tables
  <2>2. NothingRead \in Read
    BY DEF NothingRead, Read
  <2>3. saw \in [Actors -> Read] /\ canonical \in [Properties -> Properties]
    BY <2>2 DEF Init
  <2> QED BY <1>1, <1>2, <2>1, <2>3 DEF Tables, AccountsTypeOK
<1>5. RelationsTypeOK
  BY <1>1, <1>2 DEF Init, Tables, RelationsTypeOK
<1>6. EvidenceTypeOK
  BY <1>1, <1>2, EvidenceAssumption DEF Init, Tables, EvidenceTypeOK, Views, NothingSeen, Value
<1>7. DisclosureTypeOK
  BY <1>1, <1>2 DEF Init, Tables, DisclosureTypeOK
<1>8. \A t \in Actors : Fits(plan[t], at[t]) /\ at[t] # "part"
  BY DEF Init, Fits
<1> QED BY <1>3, <1>4, <1>5, <1>6, <1>7, <1>8 DEF Typed, TypeOK

(* What the routes' checks record, and that a failure leaves the tables.   *)
LEMMA AuthoriseTyped ==
  ASSUME Typed, NEW t \in Actors, Authorise(t)
  PROVE  TxnInv' /\ AccountsTypeOK' /\ RelationsTypeOK' /\ EvidenceTypeOK' /\ DisclosureTypeOK'
         /\ (Alone(t, Start(plan[t])) \/ Alone(t, "done"))
<1>0. /\ TxnInv /\ plan[t] \in Jobs /\ plan[t].kind \notin Unauthorised /\ saw[t] \in Read
      /\ plan[t].account \in Accts
  BY AccountFields DEF Typed, TypeOK, TxnInv, AccountsTypeOK, Authorise
<1>1. CASE Verdict(t)[1] = "none"
  <2>1. plan[t].kind = "myParty" => PartyOf[plan[t].account] # None
    BY <1>1 DEF Verdict
  <2>2. Fits(plan[t], Start(plan[t])) /\ Start(plan[t]) \in Steps
    BY <1>0, <2>1, StartFits, Beginnings
  <2>3. TxnInv' /\ Alone(t, Start(plan[t]))
    BY <1>0, <1>1, <2>2, Continues DEF Authorise
  <2>4. Parent(plan[t].record) \in Properties \union {None}
    BY AccountsAssumption DEF Parent, Typed, TypeOK, AccountsTypeOK
  <2>5. saw' \in [Actors -> Read]
    <3> DEFINE a == plan[t].account
               p == IF plan[t].kind = "act" THEN Parent(plan[t].record) ELSE None
    <3>1. saw' = [saw EXCEPT ![t] = [saw[t] EXCEPT !.roles = roles[a], !.parent = p]]
      BY <1>1 DEF Authorise, Sees
    <3>2. roles[a] \in SUBSET Roles /\ p \in Properties \union {None}
      BY <1>0, <2>4 DEF Typed, TypeOK, AccountsTypeOK
    <3>3. [saw[t] EXCEPT !.roles = roles[a], !.parent = p] \in Read
      BY <1>0, <3>2 DEF Read
    <3> QED BY <3>1, <3>3 DEF Typed, TypeOK, AccountsTypeOK
  <2>6. AccountsTypeOK'
    BY <1>1, <2>5 DEF Authorise, Typed, TypeOK, AccountsTypeOK
  <2>7. RelationsTypeOK'
    BY <1>1 DEF Authorise, evidence, Typed, TypeOK, RelationsTypeOK
  <2>8. EvidenceTypeOK'
    BY <1>1 DEF Authorise, evidence, Typed, TypeOK, EvidenceTypeOK
  <2>9. DisclosureTypeOK'
    BY <1>1 DEF Authorise, things, Typed, TypeOK, DisclosureTypeOK
  <2> QED BY <2>3, <2>6, <2>7, <2>8, <2>9
<1>2. CASE Verdict(t)[1] # "none"
  <2>1. Verdict(t)[1] \in Answers /\ Verdict(t)[2] \in Seq(Recorded)
    <3>1. /\ <<"ANOMALY">> \in Seq(Recorded) /\ <<"DENIED">> \in Seq(Recorded)
          /\ <<"CONFLICT">> \in Seq(Recorded) /\ <<"CONFLICT_TOLD">> \in Seq(Recorded)
          /\ <<>> \in Seq(Recorded)
      BY RecordSequences DEF Recorded
    <3> QED BY <3>1 DEF Verdict, Answers
  <2>2. TxnInv' /\ Alone(t, "done")
    BY <1>0, <1>2, <2>1, Ends DEF Authorise
  <2>3. trail' \in [Actors -> Seq(Recorded)]
    BY <1>2, <2>1, Emits DEF Authorise, Typed, TypeOK
  <2>4. AccountsTypeOK'
    BY <1>2 DEF Authorise, registry, Typed, TypeOK, AccountsTypeOK
  <2>5. RelationsTypeOK'
    BY <1>2 DEF Authorise, evidence, Typed, TypeOK, RelationsTypeOK
  <2>6. EvidenceTypeOK'
    BY <1>2 DEF Authorise, evidence, Typed, TypeOK, EvidenceTypeOK
  <2>7. DisclosureTypeOK'
    BY <1>2, <2>3 DEF Authorise, things, Typed, TypeOK, DisclosureTypeOK
  <2> QED BY <2>2, <2>4, <2>5, <2>6, <2>7
<1> QED BY <1>1, <1>2

(* Only the steps of Relations are steps of a call that ends a relation.   *)
LEMMA OtherCalls ==
  ASSUME TxnInv, NEW t \in Actors, AccountsStep(t) \/ EvidenceStep(t) \/ DisclosureStep(t)
  PROVE  plan[t].kind # "part"
<1>0. Fits(plan[t], at[t])
  BY DEF TxnInv
<1>1. CASE AccountsStep(t)
  BY <1>0, <1>1
  DEF Fits, AccountsStep, StartVerification, CheckCode, MarkControl, Activate, Suspend, ReadRoles,
      InsertRole, ReadContact, CreateContact, ClearPrimaries, LinkPhone, LockRecord, Claim, Act, Alias
<1>2. CASE EvidenceStep(t)
  BY <1>0, <1>2
  DEF Fits, EvidenceStep, GrantConsent, ReadGrant, Revoke, CheckBinding, Bind, Observe, CheckFact,
      AssertFact, LockFact, Verify, LockSubject, CheckLineage, ReadCurrent, Resolve, LockTask,
      LockEvidence, CompleteTask, Amend
<1>3. CASE DisclosureStep(t)
  BY <1>0, <1>3
  DEF Fits, DisclosureStep, ReadMyParty, Canonical, GuardContest, LoadRow, LoadOpportunity,
      RenderOpportunity, StaffRow, InternalOpportunity, StoredMatch, LatestDiagnostic, ReadList,
      ListPublic, Capture, RefuseConversion, Change,
      MovesOffer, ConfirmsAvailability, PatchesArea, SharesIt
<1> QED BY <1>1, <1>2, <1>3

(* A failure keeps the types.                                              *)
LEMMA FailTyped ==
  ASSUME Typed, NEW t \in Actors, Fail(t)
  PROVE  TxnInv' /\ AccountsTypeOK' /\ RelationsTypeOK' /\ EvidenceTypeOK' /\ DisclosureTypeOK'
         /\ Alone(t, "done")
<1>1. TxnInv /\ "error" \in Answers
  BY DEF Typed, TypeOK, TxnInv, Answers
<1>2. TxnInv' /\ Alone(t, "done")
  BY <1>1, Ends DEF Fail
<1>3. AccountsTypeOK'
  BY DEF Fail, registry, Typed, TypeOK, AccountsTypeOK
<1>4. RelationsTypeOK'
  BY DEF Fail, relations, evidence, Typed, TypeOK, RelationsTypeOK
<1>5. EvidenceTypeOK'
  BY DEF Fail, evidence, Typed, TypeOK, EvidenceTypeOK
<1>6. DisclosureTypeOK'
  BY DEF Fail, disclosure, things, Typed, TypeOK, DisclosureTypeOK
<1> QED BY <1>2, <1>3, <1>4, <1>5, <1>6

(* A step of an actor keeps all of it, and is that actor's alone.          *)
LEMMA StepTyped ==
  ASSUME Typed, NEW t \in Actors, Step(t)
  PROVE  Typed' /\ \E step : Alone(t, step)
<1>0. /\ TxnInv /\ AccountsTypeOK /\ RelationsTypeOK /\ EvidenceTypeOK /\ DisclosureTypeOK
      /\ \A u \in Actors : at[u] = "part" => period[plan[u].tie] \in Period
  BY DEF Typed, TypeOK, TxnInv
<1>1. ASSUME NEW step, Alone(t, step), TxnInv', step = "part" => plan[t].kind # "part",
             period' = period
      PROVE  \A u \in Actors : at'[u] = "part" => period'[plan'[u].tie] \in Period
  <2>1. at'[t] = "part" => plan[t].kind = "part"
    BY <1>1 DEF Alone, TxnInv, Fits
  <2> QED BY <1>0, <1>1, <2>1 DEF Alone
<1>2. CASE Authorise(t)
  <2>1. Start(plan[t]) # "part" /\ period' = period
    BY <1>0, <1>2, Beginnings DEF Authorise, TxnInv
  <2>2. /\ TxnInv' /\ AccountsTypeOK' /\ RelationsTypeOK' /\ EvidenceTypeOK' /\ DisclosureTypeOK'
        /\ Alone(t, Start(plan[t])) \/ Alone(t, "done")
    BY <1>2, AuthoriseTyped
  <2>3. \A u \in Actors : at'[u] = "part" => period'[plan'[u].tie] \in Period
    BY <1>1, <2>1, <2>2
  <2> QED BY <2>2, <2>3 DEF Typed, TypeOK, TxnInv
<1>3. CASE AccountsStep(t) /\ UNCHANGED <<relations, evidence, disclosure>>
  <2>1. AccountsInv' /\ \E step \in Steps : Alone(t, step)
    BY <1>0, <1>3, AccountsTyped DEF AccountsInv
  <2>2. RelationsTypeOK' /\ EvidenceTypeOK' /\ DisclosureTypeOK' /\ period' = period
    BY <1>0, <1>3 DEF relations, evidence, disclosure, things, RelationsTypeOK, EvidenceTypeOK,
                      DisclosureTypeOK
  <2>3. \A u \in Actors : at'[u] = "part" => period'[plan'[u].tie] \in Period
    BY <1>0, <1>1, <1>3, <2>1, <2>2, OtherCalls DEF AccountsInv
  <2> QED BY <2>1, <2>2, <2>3 DEF AccountsInv, Typed, TypeOK, TxnInv
<1>4. CASE RelationStep(t) /\ UNCHANGED <<registry, consents, body, facts, resolved, projected,
                                          tasks, view, disclosure>>
  <2>1. RelationsInv' /\ \E step \in Steps : Alone(t, step)
    BY <1>0, <1>4, RelationsTyped DEF RelationsInv
  <2>2. AccountsTypeOK'
    BY <1>0, <1>4 DEF registry, AccountsTypeOK
  <2>3. EvidenceTypeOK'
    BY <1>0, <1>4 DEF consents, facts, tasks, EvidenceTypeOK
  <2>4. DisclosureTypeOK'
    BY <1>0, <1>4 DEF disclosure, things, DisclosureTypeOK
  <2> QED BY <2>1, <2>2, <2>3, <2>4 DEF RelationsInv, Typed, TypeOK, TxnInv
<1>5. CASE EvidenceStep(t) /\ UNCHANGED <<registry, relations, disclosure>>
  <2>1. EvidenceInv' /\ \E step \in Steps : Alone(t, step)
    BY <1>0, <1>5, EvidenceTyped DEF EvidenceInv, RelationsTypeOK
  <2>2. AccountsTypeOK'
    BY <1>0, <1>5 DEF registry, AccountsTypeOK
  <2>3. RelationsTypeOK' /\ period' = period
    BY <1>0, <1>5, <2>1 DEF relations, RelationsTypeOK, EvidenceInv
  <2>4. DisclosureTypeOK'
    BY <1>0, <1>5 DEF disclosure, things, DisclosureTypeOK
  <2>5. \A u \in Actors : at'[u] = "part" => period'[plan'[u].tie] \in Period
    BY <1>0, <1>1, <1>5, <2>1, <2>3, OtherCalls DEF EvidenceInv
  <2> QED BY <2>1, <2>2, <2>3, <2>4, <2>5 DEF EvidenceInv, Typed, TypeOK, TxnInv
<1>6. CASE DisclosureStep(t) /\ UNCHANGED <<registry, relations, evidence>>
  <2>1. DisclosureInv' /\ \E step \in Steps : Alone(t, step)
    BY <1>0, <1>6, DisclosureTyped DEF DisclosureInv, AccountsTypeOK
  <2>2. AccountsTypeOK'
    BY <1>0, <1>6 DEF registry, AccountsTypeOK
  <2>3. RelationsTypeOK' /\ period' = period
    BY <1>0, <1>6 DEF relations, evidence, RelationsTypeOK
  <2>4. EvidenceTypeOK'
    BY <1>0, <1>6 DEF evidence, EvidenceTypeOK
  <2>5. \A u \in Actors : at'[u] = "part" => period'[plan'[u].tie] \in Period
    BY <1>0, <1>1, <1>6, <2>1, <2>3, OtherCalls DEF DisclosureInv
  <2> QED BY <2>1, <2>2, <2>3, <2>4, <2>5 DEF DisclosureInv, Typed, TypeOK, TxnInv
<1>7. CASE Fail(t)
  <2>1. /\ TxnInv' /\ AccountsTypeOK' /\ RelationsTypeOK' /\ EvidenceTypeOK' /\ DisclosureTypeOK'
        /\ Alone(t, "done")
    BY <1>7, FailTyped
  <2>2. period' = period
    BY <1>7 DEF Fail, relations
  <2>3. \A u \in Actors : at'[u] = "part" => period'[plan'[u].tie] \in Period
    BY <1>1, <2>1, <2>2
  <2> QED BY <2>1, <2>3 DEF Typed, TypeOK, TxnInv
<1> QED BY <1>2, <1>3, <1>4, <1>5, <1>6, <1>7 DEF Step

(* So does a step of nothing.                                              *)
LEMMA IdleTyped ==
  ASSUME Typed, UNCHANGED vars
  PROVE  Typed'
<1> USE DEF vars, txn, registry, relations, evidence, disclosure, things, Typed, TypeOK
<1>1. HeldType' /\ AccountsTypeOK'
  BY DEF HeldType, AccountsTypeOK
<1>2. RelationsTypeOK' /\ EvidenceTypeOK'
  BY DEF RelationsTypeOK, EvidenceTypeOK
<1>3. DisclosureTypeOK'
  BY DEF DisclosureTypeOK
<1> QED BY <1>1, <1>2, <1>3 DEF Fits

(* Everything is of its type, and each call is where a call of its kind    *)
(* can be, for every contract, every workload and every set of records.    *)
THEOREM TypeCorrect == Spec => []Typed
<1>1. Typed /\ [Next]_vars => Typed'
  BY StepTyped, IdleTyped DEF Next, Over
<1> QED BY InitTyped, <1>1, PTL DEF Spec

-----------------------------------------------------------------------------
(* The steps that take a lock, go on or end.                               *)
Locking(t, row, mode, step) == LockAnd(t, row, mode, step) /\ mode \in 1..Update

(* There are no other steps.                                               *)
LEMMA StepForms ==
  ASSUME NEW t \in Actors, Step(t)
  PROVE  \/ \E step : Continue(t, step)
         \/ \E what : End(t, what)
         \/ \E row, mode, step : Locking(t, row, mode, step)
<1>0. /\ {Share, NoKeyUpdate, Update} \subseteq 1..Update
      /\ SubjectMode = Update /\ EvidenceMode = Share
  BY DEF Share, NoKeyUpdate, Update, SubjectMode, EvidenceMode
<1>1. CASE Authorise(t)
  BY <1>1 DEF Authorise
<1>2. CASE AccountsStep(t)
  BY <1>0, <1>2
  DEF AccountsStep, StartVerification, CheckCode, MarkControl, Activate, Suspend, ReadRoles, Refuse,
      InsertRole, ReadContact, CreateContact, ClearPrimaries, LinkPhone, LockRecord, Claim, Act,
      Alias, Locking
<1>3. CASE RelationStep(t)
  BY <1>0, <1>3 DEF RelationStep, BeginAt, CheckTie, Relate, LockTie, Part, Declined, Locking
<1>4. CASE EvidenceStep(t)
  BY <1>0, <1>4
  DEF EvidenceStep, GrantConsent, ReadGrant, Revoke, CheckBinding, Bind, Observe, CheckFact,
      AssertFact, LockFact, Verify, LockSubject, CheckLineage, ReadCurrent, Resolve, LockTask,
      LockEvidence, CompleteTask, Amend, Reject, Await, Locking
<1>5. CASE DisclosureStep(t)
  BY <1>5
  DEF DisclosureStep, ReadMyParty, Canonical, GuardContest, LoadRow, LoadOpportunity,
      RenderOpportunity, StaffRow, InternalOpportunity, StoredMatch, LatestDiagnostic, ReadList,
      ListPublic, Capture, RefuseConversion, Change,
      MovesOffer, ConfirmsAvailability, PatchesArea, SharesIt, Reply, Conceal, Proceed
<1>6. CASE Fail(t)
  BY <1>6 DEF Fail
<1> QED BY <1>1, <1>2, <1>3, <1>4, <1>5, <1>6 DEF Step

(* Conflicting modes are never held together, and a lock is held until the *)
(* transaction ends.                                                       *)
LEMMA LocksStep ==
  ASSUME Typed, Compatible, NEW t \in Actors, Step(t)
  PROVE  /\ Compatible'
         /\ \A u \in Actors : at'[u] # "done" => \A r \in Rows : held'[u][r] >= held[u][r]
<1>0. HeldType /\ at \in [Actors -> Steps] /\ Update = 4
  BY DEF Typed, TypeOK, Update
<1>1. CASE \E step : Continue(t, step)
  BY <1>0, <1>1 DEF Continue, Compatible, HeldType
<1>2. CASE \E what : End(t, what)
  <2>1. /\ held' = [held EXCEPT ![t] = [r \in Rows |-> 0]] /\ at'[t] = "done"
    BY <1>0, <1>2 DEF End, Release, Goto
  <2>2. /\ \A u \in Actors \ {t} : held'[u] = held[u]
        /\ \A r \in Rows : held'[t][r] = 0
    BY <1>0, <2>1 DEF HeldType
  <2>3. Compatible'
    <3> SUFFICES ASSUME NEW u \in Actors, NEW v \in Actors, NEW r \in Rows, u # v
                 PROVE  held'[u][r] + held'[v][r] <= Update
      BY DEF Compatible
    <3>1. held[u][r] + held[v][r] <= 4 /\ held[u][r] \in 0..4 /\ held[v][r] \in 0..4
      BY <1>0 DEF Compatible, HeldType
    <3> QED BY <1>0, <2>2, <3>1
  <2> QED BY <1>0, <2>1, <2>2, <2>3 DEF HeldType
<1>3. CASE \E row, mode, step : Locking(t, row, mode, step)
  <2>1. PICK row, mode : /\ mode \in 1..4 /\ Blockers(t, row, mode) = {}
                         /\ held' = [held EXCEPT ![t][row] = IF mode > @ THEN mode ELSE @]
    BY <1>0, <1>3 DEF Locking, LockAnd, Lock
  <2>2. \A u \in Actors \ {t} : held'[u] = held[u]
    BY <1>0, <2>1 DEF HeldType
  <2>3. \A r \in Rows : held'[t][r] = IF r = row /\ mode > held[t][r] THEN mode ELSE held[t][r]
    BY <1>0, <2>1 DEF HeldType
  <2>4. \A u \in Actors \ {t} : row \in Rows => held[u][row] + mode <= 4
    BY <1>0, <2>1 DEF Blockers, HeldType
  <2>5. Compatible'
    <3> SUFFICES ASSUME NEW u \in Actors, NEW v \in Actors, NEW r \in Rows, u # v
                 PROVE  held'[u][r] + held'[v][r] <= Update
      BY DEF Compatible
    <3>1. held[u][r] + held[v][r] <= 4 /\ held[u][r] \in 0..4 /\ held[v][r] \in 0..4
      BY <1>0 DEF Compatible, HeldType
    <3> QED BY <1>0, <2>1, <2>2, <2>3, <2>4, <3>1
  <2>6. \A u \in Actors, r \in Rows : held'[u][r] >= held[u][r]
    BY <1>0, <2>1, <2>2, <2>3 DEF HeldType
  <2> QED BY <2>5, <2>6
<1> QED BY <1>1, <1>2, <1>3, StepForms

-----------------------------------------------------------------------------
(* Which steps change what.                                                *)
LEMMA AccountsChange ==
  ASSUME NEW t \in Actors, Step(t)
  PROVE  /\ Activate(t) \/ Suspend(t) \/ status' = status
         /\ InsertRole(t) \/ roles' = roles
         /\ Activate(t) \/ LinkPhone(t) \/ control' = control
         /\ LinkPhone(t) \/ links' = links
         /\ Claim(t) \/ (events' = events /\ claimed' = claimed)
         /\ Alias(t) \/ canonical' = canonical
<1>1. CASE AccountsStep(t)
  BY <1>1
  DEF AccountsStep, StartVerification, CheckCode, MarkControl, Activate, Suspend, ReadRoles, Refuse,
      InsertRole, ReadContact, CreateContact, ClearPrimaries, LinkPhone, LockRecord, Claim, Act,
      Alias, registry
<1>2. CASE ~AccountsStep(t)
  BY <1>2 DEF Step, Authorise, Fail, registry
<1> QED BY <1>1, <1>2

(* What an actor has read is its own.                                      *)
LEMMA ReadsChange ==
  ASSUME Typed, NEW t \in Actors, Step(t)
  PROVE  /\ \A u \in Actors \ {t} : saw'[u] = saw[u] /\ view'[u] = view[u] /\ began'[u] = began[u]
         /\ Authorise(t) \/ AccountsStep(t) \/ saw' = saw
         /\ EvidenceStep(t) \/ view' = view
<1>0. saw \in [Actors -> Read] /\ view \in [Actors -> Views] /\ began \in [Actors -> Nat]
  BY DEF Typed, TypeOK, AccountsTypeOK, RelationsTypeOK, EvidenceTypeOK
<1>1. CASE AccountsStep(t) /\ UNCHANGED <<relations, evidence, disclosure>>
  BY <1>0, <1>1
  DEF AccountsStep, StartVerification, CheckCode, MarkControl, Activate, Suspend, ReadRoles, Refuse,
      InsertRole, ReadContact, CreateContact, ClearPrimaries, LinkPhone, LockRecord, Claim, Act,
      Alias, registry, Sees, relations, evidence
<1>2. CASE EvidenceStep(t) /\ UNCHANGED <<registry, relations, disclosure>>
  BY <1>0, <1>2
  DEF EvidenceStep, GrantConsent, ReadGrant, Revoke, CheckBinding, Bind, Observe, CheckFact,
      AssertFact, LockFact, Verify, LockSubject, CheckLineage, ReadCurrent, Resolve, LockTask,
      LockEvidence, CompleteTask, Amend, Reject, Await, Notes, evidence, registry, relations
<1>3. CASE RelationStep(t) /\ UNCHANGED <<registry, consents, body, facts, resolved, projected,
                                          tasks, view, disclosure>>
  BY <1>0, <1>3 DEF RelationStep, BeginAt, CheckTie, Relate, LockTie, Part, Declined, relations,
                    registry
<1>4. CASE DisclosureStep(t) /\ UNCHANGED <<registry, relations, evidence>>
  BY <1>4 DEF registry, relations, evidence
<1>5. CASE Authorise(t) \/ Fail(t)
  BY <1>0, <1>5 DEF Authorise, Fail, Sees, registry, relations, evidence
<1> QED BY <1>1, <1>2, <1>3, <1>4, <1>5 DEF Step

(* Where a step can lead to.                                               *)
LEMMA Enters ==
  ASSUME Typed, NEW t \in Actors, Step(t)
  PROVE  /\ at'[t] = "act" => Authorise(t)
         /\ at'[t] = "activate" => MarkControl(t)
         /\ at'[t] = "create" => ReadContact(t)
         /\ at'[t] = "clear" => ReadContact(t) \/ CreateContact(t)
         /\ at'[t] = "link" => ClearPrimaries(t)
         /\ at'[t] = "claims" => LockRecord(t)
         /\ at'[t] = "part" => LockTie(t)
         /\ at'[t] = "revoke" => ReadGrant(t)
         /\ at'[t] = "verify" => LockFact(t)
         /\ at'[t] = "lineage" => LockSubject(t)
         /\ at'[t] = "current" => CheckLineage(t)
         /\ at'[t] = "resolve" => ReadCurrent(t)
         /\ at'[t] = "evidence" => LockTask(t)
         /\ at'[t] = "complete" => LockEvidence(t)
<1>0. at \in [Actors -> Steps] /\ plan[t] \in Jobs
  BY DEF Typed, TypeOK
<1> USE DEF Continue, Goto, End, LockAnd
<1>1. CASE AccountsStep(t)
  BY <1>0, <1>1
  DEF AccountsStep, StartVerification, CheckCode, MarkControl, Activate, Suspend, ReadRoles, Refuse,
      InsertRole, ReadContact, CreateContact, ClearPrimaries, LinkPhone, LockRecord, Claim, Act, Alias
<1>2. CASE EvidenceStep(t)
  BY <1>0, <1>2
  DEF EvidenceStep, GrantConsent, ReadGrant, Revoke, CheckBinding, Bind, Observe, CheckFact,
      AssertFact, LockFact, Verify, LockSubject, CheckLineage, ReadCurrent, Resolve, LockTask,
      LockEvidence, CompleteTask, Amend, Reject, Await
<1>3. CASE RelationStep(t)
  <2>1. BeginAt(t) => plan[t].kind \in {"relate", "part", "bind"}
    BY DEF BeginAt, Typed, Fits
  <2> QED BY <1>0, <1>3, <2>1 DEF RelationStep, BeginAt, CheckTie, Relate, LockTie, Part, Declined
<1>4. CASE DisclosureStep(t)
  BY <1>0, <1>4
  DEF DisclosureStep, ReadMyParty, Canonical, GuardContest, LoadRow, LoadOpportunity,
      RenderOpportunity, StaffRow, InternalOpportunity, StoredMatch, LatestDiagnostic, ReadList,
      ListPublic, Capture, RefuseConversion, Change,
      MovesOffer, ConfirmsAvailability, PatchesArea, SharesIt, Reply, Conceal, Proceed
<1>5. CASE Authorise(t)
  BY <1>0, <1>5, Beginnings DEF Authorise
<1>6. CASE Fail(t)
  BY <1>0, <1>6 DEF Fail
<1> QED BY <1>1, <1>2, <1>3, <1>4, <1>5, <1>6 DEF Step

-----------------------------------------------------------------------------
(* A revocation that goes on has read a grant in force.                    *)
RevocationRead == \A t \in Actors : at[t] = "revoke" => view[t].grant = "GRANTED"

(* It has read it in the step before.                                      *)
LEMMA RevocationReadStep ==
  ASSUME Typed, RevocationRead, NEW t \in Actors, Step(t)
  PROVE  RevocationRead'
<1>1. PICK step : Alone(t, step)
  BY StepTyped
<1>2. \A u \in Actors \ {t} : at'[u] = at[u] /\ view'[u] = view[u]
  BY <1>1, ReadsChange DEF Alone
<1>3. ASSUME at'[t] = "revoke" PROVE view'[t].grant = "GRANTED"
  <2>1. ReadGrant(t) /\ at[t] = "grant"
    BY <1>3, Enters DEF ReadGrant
  <2>2. plan[t].consent \in Consents /\ view \in [Actors -> Views] /\ view[t] \in Views
    BY <2>1, EvidenceFields DEF Typed, TypeOK, EvidenceTypeOK, Fits
  <2>3. grants[plan[t].consent] = "GRANTED"
    BY <1>3, <2>1, <2>2 DEF ReadGrant, Reject, End, Goto, AlreadyRevoked, Typed, TypeOK, EvidenceTypeOK
  <2>4. view' = [view EXCEPT ![t] = [view[t] EXCEPT !.grant = grants[plan[t].consent]]]
    BY <2>1, <2>3 DEF ReadGrant, Notes, AlreadyRevoked
  <2> QED BY <2>2, <2>3, <2>4 DEF Views
<1> QED BY <1>2, <1>3 DEF RevocationRead

(* Only such a revocation replaces a time.                                 *)
LEMMA RevocationStep ==
  ASSUME Typed, RevocationRead, NEW t \in Actors, Step(t), NEW c \in Consents,
         grants[c] = "REVOKED"
  PROVE  /\ grants'[c] = "REVOKED"
         /\ revoker'[c] # revoker[c] => at[t] = "revoke" /\ view[t].grant = "GRANTED"
<1>0. grants \in [Consents -> {"absent", "GRANTED", "REVOKED"}]
  BY DEF Typed, TypeOK, EvidenceTypeOK
<1>1. GrantConsent(t) \/ Revoke(t) \/ (grants' = grants /\ revoker' = revoker)
  <2>1. CASE EvidenceStep(t)
    BY <2>1
    DEF EvidenceStep, GrantConsent, ReadGrant, Revoke, CheckBinding, Bind, Observe, CheckFact,
        AssertFact, LockFact, Verify, LockSubject, CheckLineage, ReadCurrent, Resolve, LockTask,
        LockEvidence, CompleteTask, Amend, Reject, Await, evidence, consents
  <2>2. CASE ~EvidenceStep(t)
    BY <2>2 DEF Step, Authorise, Fail, evidence, consents
  <2> QED BY <2>1, <2>2
<1>2. CASE GrantConsent(t)
  BY <1>0, <1>2 DEF GrantConsent
<1>3. CASE Revoke(t)
  BY <1>0, <1>3 DEF Revoke, RevocationRead
<1> QED BY <1>1, <1>2, <1>3

(* A retried revocation leaves the first one's time, reason and evidence.  *)
THEOREM RevocationsKept == Spec => RevocationKept
<1>1. Init => RevocationRead
  BY DEF Init, RevocationRead
<1>2. Typed /\ RevocationRead /\ [Next]_vars => RevocationRead'
  <2>1. RevocationRead /\ UNCHANGED vars => RevocationRead'
    BY DEF RevocationRead, vars, txn, evidence
  <2> QED BY <2>1, RevocationReadStep DEF Next, Over
<1>3. Typed /\ RevocationRead /\ [Next]_vars =>
        [\A c \in Consents : grants[c] = "REVOKED" =>
           /\ grants'[c] = "REVOKED"
           /\ revoker'[c] # revoker[c] =>
                \E t \in Actors : at[t] = "revoke" /\ view[t].grant = "GRANTED"]_vars
  BY RevocationStep DEF Next, Over
<1> QED BY TypeCorrect, <1>1, <1>2, <1>3, PTL DEF Spec, RevocationKept

-----------------------------------------------------------------------------
(* A customer's authority, from the check to the command: the claims of a  *)
(* property never change, a request that is claimed stays so, and what has *)
(* become an alias stays one.                                              *)
ClaimsOfRequests == \A t \in Actors : at[t] = "claims" => plan[t].record \in Requests

Entitled(a, r, q) ==
  /\ r \in Requests => PartyOf[a] = RequestParty[r]
  /\ r \notin Requests => q \in Properties
  /\ r \in Properties => LoadProperty(a, q) /\ (q = r \/ canonical[r] # r)
  /\ r \in Offers => LoadOffer(a, r, q)

Authorised ==
  \A t \in Actors : at[t] = "act" /\ ~IsStaff(saw[t].roles) =>
    Entitled(plan[t].account, plan[t].record, saw[t].parent)

(* The object check, by the kind of the record.                            *)
LEMMA OwnRecords ==
  ASSUME NEW a \in Accts, NEW r \in Records \union Offers, NEW q
  PROVE  /\ r \in Requests => (OwnRecord(a, r, q) <=> PartyOf[a] = RequestParty[r])
         /\ r \in Properties => (OwnRecord(a, r, q) <=> LoadProperty(a, q))
         /\ r \in Offers => (OwnRecord(a, r, q) <=> LoadOffer(a, r, q))
BY AccountsAssumption DEF OwnRecord, Records

(* A claim of another record ends before its lock.                         *)
LEMMA ClaimsOfRequestsStep ==
  ASSUME Typed, ClaimsOfRequests, NEW t \in Actors, Step(t)
  PROVE  ClaimsOfRequests'
<1>1. PICK step : Alone(t, step)
  BY StepTyped
<1>2. ASSUME at'[t] = "claims" PROVE plan[t].record \in Requests
  <2>1. LockRecord(t)
    BY <1>2, Enters
  <2>2. Outcome(plan[t].account, plan[t].record, plan[t].contact) = "claims"
    BY <1>2, <2>1 DEF LockRecord, End, Goto, Typed, TypeOK
  <2> QED BY <2>2 DEF Outcome, Eligible
<1> QED BY <1>1, <1>2 DEF ClaimsOfRequests, Alone

(* The claims of a property stay as they are, and an alias an alias.       *)
LEMMA PropertyClaims ==
  ASSUME Typed, ClaimsOfRequests, NEW t \in Actors, Step(t)
  PROVE  /\ \A q \in Properties, b \in Accts : <<q, b>> \in events' <=> <<q, b>> \in events
         /\ claimed \subseteq claimed'
         /\ \A q \in Properties : canonical[q] # q => canonical'[q] = canonical[q]
<1>1. CASE Claim(t)
  <2>1. plan[t].record \in Requests /\ plan[t].record \notin Properties
    BY <1>1, AccountsAssumption DEF ClaimsOfRequests, Claim
  <2>2. events' = events \union {<<plan[t].record, plan[t].account>>}
        /\ claimed' = claimed \union {plan[t].record} /\ canonical' = canonical
    BY <1>1 DEF Claim
  <2> QED BY <2>1, <2>2
<1>2. CASE Alias(t)
  <2>1. canonical \in [Properties -> Properties]
    BY DEF Typed, TypeOK, AccountsTypeOK
  <2>2. events' = events /\ claimed' = claimed
    BY <1>2 DEF Alias, Refuse, registry
  <2>3. canonical' = canonical \/ (canonical[plan[t].of] = plan[t].of
                                   /\ canonical' = [canonical EXCEPT ![plan[t].of] = plan[t].to])
    BY <1>2 DEF Alias, Refuse, registry
  <2> QED BY <2>1, <2>2, <2>3
<1> QED BY <1>1, <1>2, AccountsChange

(* What entitled before a step entitles after it.                          *)
LEMMA EntitledStep ==
  ASSUME Typed, ClaimsOfRequests, NEW t \in Actors, Step(t),
         NEW a \in Accts, NEW r \in Records \union Offers, NEW q, Entitled(a, r, q)
  PROVE  Entitled(a, r, q)'
<1>1. /\ \A p \in Properties, b \in Accts : <<p, b>> \in events' <=> <<p, b>> \in events
      /\ claimed \subseteq claimed'
      /\ r \in Properties /\ canonical[r] # r => canonical'[r] # r
  BY PropertyClaims
<1>2. CASE r \in Requests
  BY <1>2, AccountsAssumption DEF Entitled, Records
<1>3. CASE r \notin Requests
  <2>1. q \in Properties
    BY <1>3 DEF Entitled
  <2>2. {b \in Accts : <<q, b>> \in events'} = {b \in Accts : <<q, b>> \in events}
    BY <1>1, <2>1
  <2>3. r \in Properties => LoadProperty(a, q)'
    BY <2>2 DEF Entitled, LoadProperty, Created, Holders
  <2>4. r \in Offers => LoadOffer(a, r, q)'
    BY <1>1, <2>2 DEF Entitled, LoadOffer, Created, Holders
  <2> QED BY <1>1, <1>3, <2>1, <2>3, <2>4 DEF Entitled
<1> QED BY <1>2, <1>3

(* What the check found stays true until the command commits.              *)
LEMMA AuthorisedStep ==
  ASSUME Typed, ClaimsOfRequests, Authorised, NEW t \in Actors, Step(t)
  PROVE  Authorised'
<1>1. PICK step : Alone(t, step)
  BY StepTyped
<1>2. SUFFICES ASSUME NEW u \in Actors, at'[u] = "act", ~IsStaff(saw'[u].roles)
               PROVE  Entitled(plan[u].account, plan[u].record, saw[u].parent)'
  BY DEF Authorised
<1>3. plan' = plan /\ plan[u].kind = "act" /\ plan[u].account \in Accts
      /\ plan[u].record \in Records \union Offers
  <2>1. plan[u] \in Jobs /\ plan' = plan /\ Typed'
    BY <1>1, StepTyped DEF Typed, TypeOK, Alone
  <2>2. plan[u].kind = "act"
    BY <1>2, <2>1 DEF Typed, Fits
  <2> QED BY <2>1, <2>2, AccountFields DEF Unauthorised
<1>4. PICK a \in Accts, r \in Records \union Offers : a = plan[u].account /\ r = plan[u].record
  BY <1>3
<1>5. ASSUME NEW q, q = saw'[u].parent, Entitled(a, r, q)'
      PROVE  Entitled(plan[u].account, plan[u].record, saw[u].parent)'
  BY <1>3, <1>4, <1>5 DEF Entitled, LoadProperty, LoadOffer, Created, Holders
<1>6. CASE u # t
  <2>1. at[u] = "act" /\ saw'[u] = saw[u]
    BY <1>1, <1>2, <1>6, ReadsChange DEF Alone
  <2>2. Entitled(a, r, saw[u].parent)
    BY <1>2, <1>4, <2>1 DEF Authorised
  <2>3. PICK q : q = saw[u].parent
    OBVIOUS
  <2>4. Entitled(a, r, q)'
    BY <2>2, <2>3, EntitledStep
  <2> QED BY <1>5, <2>1, <2>3, <2>4
<1>7. CASE u = t
  <2>1. Authorise(t) /\ at[t] = "idle"
    BY <1>2, <1>7, Enters DEF Authorise
  <2>2. Verdict(t)[1] = "none"
    BY <1>2, <1>7, <2>1 DEF Authorise, End, Goto, Typed, TypeOK
  <2>3. /\ saw'[u].roles = roles[a] /\ saw'[u].parent = Parent(r)
        /\ events' = events /\ claimed' = claimed /\ canonical' = canonical
    <3>1. saw' = [saw EXCEPT ![t] = [saw[t] EXCEPT !.roles = roles[a], !.parent = Parent(r)]]
      BY <1>3, <1>4, <1>7, <2>1, <2>2 DEF Authorise, Sees
    <3>2. saw \in [Actors -> Read] /\ saw[t] \in Read
      BY DEF Typed, TypeOK, AccountsTypeOK
    <3> QED BY <1>7, <2>1, <2>2, <3>1, <3>2 DEF Authorise, Read
  <2>4. PICK q : q = Parent(r)
    OBVIOUS
  <2>5. OwnRecord(a, r, q)
    BY <1>2, <1>3, <1>4, <1>7, <2>2, <2>3, <2>4 DEF Verdict, Own, OwnAccounts, IsStaff
  <2>6. r \notin Requests => q \in Properties
    BY <2>4, AccountsAssumption DEF Parent, Records, Typed, TypeOK, AccountsTypeOK
  <2>7. r \in Properties => q = canonical[r]
    BY <2>4 DEF Parent
  <2>8. Entitled(a, r, q)
    BY <2>5, <2>6, <2>7, OwnRecords DEF Entitled
  <2>9. Entitled(a, r, q)'
    BY <2>3, <2>8 DEF Entitled, LoadProperty, LoadOffer, Created, Holders
  <2> QED BY <1>5, <2>3, <2>4, <2>9
<1> QED BY <1>6, <1>7

(* A command on a record is authorised, then it acts, or it fails.         *)
LEMMA ActCalls ==
  ASSUME Typed, NEW t \in Actors, Step(t), plan[t].kind = "act"
  PROVE  Authorise(t) \/ Act(t) \/ Fail(t)
<1>0. Fits(plan[t], at[t])
  BY DEF Typed
<1>1. CASE AccountsStep(t)
  BY <1>0, <1>1
  DEF Fits, AccountsStep, StartVerification, CheckCode, MarkControl, Activate, Suspend, ReadRoles,
      InsertRole, ReadContact, CreateContact, ClearPrimaries, LinkPhone, LockRecord, Claim, Alias
<1>2. CASE RelationStep(t)
  BY <1>0, <1>2 DEF Fits, RelationStep, BeginAt, CheckTie, Relate, LockTie, Part
<1>3. CASE EvidenceStep(t)
  BY <1>0, <1>3
  DEF Fits, EvidenceStep, GrantConsent, ReadGrant, Revoke, CheckBinding, Bind, Observe, CheckFact,
      AssertFact, LockFact, Verify, LockSubject, CheckLineage, ReadCurrent, Resolve, LockTask,
      LockEvidence, CompleteTask, Amend
<1>4. CASE DisclosureStep(t)
  BY <1>0, <1>4
  DEF Fits, DisclosureStep, ReadMyParty, Canonical, GuardContest, LoadRow, LoadOpportunity,
      RenderOpportunity, StaffRow, InternalOpportunity, StoredMatch, LatestDiagnostic, ReadList,
      ListPublic, Capture, RefuseConversion, Change,
      MovesOffer, ConfirmsAvailability, PatchesArea, SharesIt
<1> QED BY <1>1, <1>2, <1>3, <1>4 DEF Step

(* So the check would pass again, but for an offer's property.             *)
LEMMA AuthorityStep ==
  ASSUME Typed, Authorised, NEW u \in Actors, Step(u), NEW t \in Actors,
         plan[t].kind = "act", Applied(t), ~IsStaff(saw[t].roles)
  PROVE  LET a == plan[t].account
             r == plan[t].record
         IN OwnRecord(a, r, Parent(r)) \/ (r \in Offers /\ Parent(r) # saw[t].parent)
<1>1. u = t
  BY StepTyped DEF Applied, Alone
<1>2. plan[t].record \in Records \union Offers /\ plan[t].account \in Accts
  BY AccountFields DEF Typed, TypeOK, Unauthorised
<1>3. Act(t) /\ at[t] = "act" /\ NotAlias(plan[t].record)
  <2>0. answer \in [Actors -> Answers] /\ answer[t] = "none" /\ answer'[t] = "written"
    BY DEF Applied, Typed, TypeOK
  <2>1. ~Authorise(t)
    <3>1. Verdict(t)[1] # "written"
      BY DEF Verdict
    <3> QED BY <2>0, <3>1 DEF Authorise, Continue, End
  <2>2. ~Fail(t)
    BY <2>0 DEF Fail, End
  <2>3. Act(t)
    BY <1>1, <2>1, <2>2, ActCalls
  <2> QED BY <2>0, <2>3 DEF Act, End
<1>4. PICK a \in Accts, r \in Records \union Offers : a = plan[t].account /\ r = plan[t].record
  BY <1>2
<1>5. Entitled(a, r, saw[t].parent)
  BY <1>3, <1>4 DEF Authorised
<1>6. r \in Properties => Parent(r) = r /\ saw[t].parent = r
  BY <1>3, <1>4, <1>5 DEF NotAlias, Entitled, Parent
<1> QED BY <1>4, <1>5, <1>6, OwnRecords DEF Entitled, Records

(* A command that a customer's check let through would be let through again*)
(* when it commits, an offer whose property was joined to another aside.   *)
THEOREM AuthoritiesStand == Spec => AuthorityStands
<1>1. Init => ClaimsOfRequests /\ Authorised
  BY DEF Init, ClaimsOfRequests, Authorised
<1>2. Typed /\ ClaimsOfRequests /\ Authorised /\ [Next]_vars => (ClaimsOfRequests /\ Authorised)'
  <2>1. ClaimsOfRequests /\ Authorised /\ UNCHANGED vars => (ClaimsOfRequests /\ Authorised)'
    BY DEF ClaimsOfRequests, Authorised, Entitled, LoadProperty, LoadOffer, Created, Holders,
           vars, txn, registry
  <2> QED BY <2>1, ClaimsOfRequestsStep, AuthorisedStep DEF Next, Over
<1>3. Typed /\ Authorised /\ [Next]_vars =>
        [\A t \in Actors :
           plan[t].kind = "act" /\ Applied(t) /\ ~IsStaff(saw[t].roles) =>
             LET a == plan[t].account
                 r == plan[t].record
             IN OwnRecord(a, r, Parent(r)) \/ (r \in Offers /\ Parent(r) # saw[t].parent)]_vars
  BY AuthorityStep DEF Next, Over
<1> QED BY TypeCorrect, <1>1, <1>2, <1>3, PTL DEF Spec, AuthorityStands

-----------------------------------------------------------------------------
(* The holders.  Between the lock of a claim and its COMMIT, what the claim*)
(* was allowed on stays as it is: the record is locked, no link is removed,*)
(* and a phone that is verified never becomes unverified, as an attachment *)
(* that creates a phone holds its place in the index.                      *)
Evident(r, a) ==
  /\ PartyOf[a] # None /\ RequestParty[r] = PartyOf[a]
  /\ LoginOf[a] # None
  /\ control[LoginOf[a]] = "VERIFIED_CONTROL"
  /\ links[RequestParty[r]][LoginOf[a]] # "none"

ClaimReady(t) ==
  LET r == plan[t].record
  IN /\ held[t][r] = Update /\ r \in Requests /\ r \notin claimed
     /\ \A b \in Accts : <<r, b>> \notin events
     /\ Evident(r, plan[t].account)

PhoneReady(t) ==
  IF saw[t].new THEN control[plan[t].phone] = "absent" /\ held[t][plan[t].phone] = Update
                ELSE control[plan[t].phone] # "absent"

HoldersInv ==
  /\ Compatible /\ OneHolder /\ HoldersProved /\ OnePrimary
  /\ \A t \in Actors :
       /\ at[t] = "claims" => ClaimReady(t)
       /\ at[t] = "create" => saw[t].new
       /\ at[t] \in {"clear", "link"} => PhoneReady(t)
       /\ at[t] = "activate" => held[t][plan[t].phone] >= NoKeyUpdate

(* Whoever changes a phone's control has it locked, and nobody takes it or *)
(* a link away.                                                            *)
LEMMA EvidenceGrows ==
  ASSUME Typed, HoldersInv, NEW t \in Actors, Step(t)
  PROVE  /\ \A f \in Phones : control'[f] # control[f] => held[t][f] >= NoKeyUpdate
         /\ \A f \in Phones : control[f] # "absent" => control'[f] # "absent"
         /\ \A f \in Phones : control[f] = "VERIFIED_CONTROL" => control'[f] = "VERIFIED_CONTROL"
         /\ \A p \in Parties, f \in Phones : links[p][f] # "none" => links'[p][f] # "none"
<1>0. /\ control \in [Phones -> {"absent", "UNVERIFIED", "VERIFIED_CONTROL"}]
      /\ links \in [Parties -> [Phones -> {"none", "plain", "primary"}]]
      /\ plan[t] \in Jobs /\ Fits(plan[t], at[t])
  BY DEF Typed, TypeOK, AccountsTypeOK
<1>1. CASE Activate(t)
  <2>1. held[t][plan[t].phone] >= NoKeyUpdate
    BY <1>1 DEF Activate, HoldersInv
  <2> QED BY <1>0, <1>1, <2>1 DEF Activate
<1>2. CASE LinkPhone(t)
  <2>1. plan[t].phone \in Phones /\ plan[t].party \in Parties /\ PhoneReady(t)
    BY <1>0, <1>2, AccountFields DEF LinkPhone, Fits, HoldersInv
  <2>2. control' = control \/ (control' = [control EXCEPT ![plan[t].phone] = "UNVERIFIED"]
                               /\ control[plan[t].phone] = "absent"
                               /\ held[t][plan[t].phone] = Update)
    BY <1>2, <2>1 DEF LinkPhone, PhoneReady, registry
  <2>3. \A q \in Parties, f \in Phones : links[q][f] # "none" => links'[q][f] # "none"
    <3> DEFINE p    == plan[t].party
               kept == [ph \in Phones |-> IF ph \in saw[t].cleared /\ links[p][ph] # "none"
                                            THEN "plain" ELSE links[p][ph]]
               new  == [kept EXCEPT ![plan[t].phone] = IF plan[t].primary THEN "primary"
                                                                         ELSE "plain"]
    <3>1. links' = links \/ links' = [links EXCEPT ![p] = new]
      BY <1>2 DEF LinkPhone, registry
    <3>2. \A f \in Phones : links[p][f] # "none" => new[f] # "none"
      OBVIOUS
    <3> QED BY <1>0, <2>1, <3>1, <3>2
  <2> QED BY <1>0, <2>1, <2>2, <2>3 DEF Update, NoKeyUpdate
<1> QED BY <1>1, <1>2, AccountsChange

(* A phone is made primary where the others were cleared, under the index. *)
LEMMA OnePrimaryStep ==
  ASSUME Typed, HoldersInv, NEW t \in Actors, Step(t)
  PROVE  OnePrimary'
<1>0. /\ control \in [Phones -> {"absent", "UNVERIFIED", "VERIFIED_CONTROL"}]
      /\ links \in [Parties -> [Phones -> {"none", "plain", "primary"}]]
      /\ plan[t] \in Jobs /\ Fits(plan[t], at[t]) /\ OnePrimary
  BY DEF Typed, TypeOK, AccountsTypeOK, HoldersInv
<1>1. \A f \in Phones : control[f] # "absent" => control'[f] # "absent"
  BY EvidenceGrows
<1>2. CASE LinkPhone(t) /\ links' # links
  <2>1. plan[t].phone \in Phones /\ plan[t].party \in Parties /\ PhoneReady(t)
    BY <1>0, <1>2, AccountFields DEF LinkPhone, Fits, HoldersInv
  <2> DEFINE p    == plan[t].party
             kept == [ph \in Phones |-> IF ph \in saw[t].cleared /\ links[p][ph] # "none"
                                          THEN "plain" ELSE links[p][ph]]
             new  == [kept EXCEPT ![plan[t].phone] = IF plan[t].primary THEN "primary"
                                                                       ELSE "plain"]
  <2>2. /\ links' = [links EXCEPT ![p] = new]
        /\ plan[t].primary => \A f \in Phones \ {plan[t].phone} : kept[f] # "primary"
        /\ control' = IF saw[t].new THEN [control EXCEPT ![plan[t].phone] = "UNVERIFIED"]
                                    ELSE control
    BY <1>2 DEF LinkPhone, registry
  <2>3. \A f, g \in Phones : new[f] = "primary" /\ new[g] = "primary" => f = g
    <3>1. CASE plan[t].primary
      BY <2>2, <3>1
    <3>2. CASE ~plan[t].primary
      <4>1. \A f \in Phones : new[f] = "primary" => links[p][f] = "primary"
        BY <3>2
      <4> QED BY <1>0, <2>1, <4>1 DEF OnePrimary, Primaries
    <3> QED BY <3>1, <3>2
  <2>4. control'[plan[t].phone] # "absent"
    BY <1>0, <2>1, <2>2 DEF PhoneReady
  <2>5. \A f \in Phones : new[f] # "none" => f = plan[t].phone \/ links[p][f] # "none"
    BY <1>0, <2>1
  <2>6. \A q \in Parties : links'[q] = IF q = p THEN new ELSE links[q]
    BY <1>0, <2>1, <2>2
  <2>7. ASSUME NEW q \in Parties
        PROVE  /\ \A f, g \in Phones : links'[q][f] = "primary" /\ links'[q][g] = "primary" => f = g
               /\ \A f \in Phones : links'[q][f] # "none" => control'[f] # "absent"
    <3>1. CASE q = p
      BY <1>0, <1>1, <2>1, <2>3, <2>4, <2>5, <2>6, <3>1 DEF OnePrimary
    <3>2. CASE q # p
      <4>1. links'[q] = links[q]
        BY <2>6, <3>2
      <4>2. /\ \A f, g \in Phones : links[q][f] = "primary" /\ links[q][g] = "primary" => f = g
            /\ \A f \in Phones : links[q][f] # "none" => control[f] # "absent"
        BY <1>0 DEF OnePrimary, Primaries
      <4> QED BY <1>1, <4>1, <4>2
    <3> QED BY <3>1, <3>2
  <2> QED BY <2>7 DEF OnePrimary, Primaries
<1>3. CASE links' = links
  BY <1>0, <1>1, <1>3 DEF OnePrimary, Primaries
<1> QED BY <1>2, <1>3, AccountsChange

(* A claim adds the one holder, whose evidence stands.                     *)
LEMMA HoldersStep ==
  ASSUME Typed, HoldersInv, NEW t \in Actors, Step(t)
  PROVE  OneHolder' /\ HoldersProved'
<1>0. /\ plan[t] \in Jobs /\ Fits(plan[t], at[t]) /\ OneHolder /\ HoldersProved
      /\ events \subseteq Records \X Accts
  BY DEF Typed, TypeOK, AccountsTypeOK, HoldersInv
<1>1. ASSUME NEW r \in Requests, NEW a \in Accts, Evident(r, a) PROVE Evident(r, a)'
  <2>1. LoginOf[a] \in Phones /\ RequestParty[r] \in Parties
    BY <1>1, AccountsAssumption DEF Evident
  <2> QED BY <1>1, <2>1, EvidenceGrows DEF Evident
<1>4. /\ HoldersProved <=>
           \A c \in events : c[1] \in Requests \ Doubled => Evident(c[1], c[2])
      /\ HoldersProved' <=>
           \A c \in events' : c[1] \in Requests \ Doubled => Evident(c[1], c[2])'
  BY DEF HoldersProved, Proved, Evident
<1>5. \A c \in events : c[1] \in Requests \ Doubled => Evident(c[1], c[2])'
  BY <1>0, <1>1, <1>4
<1>2. CASE Claim(t)
  <2> DEFINE r == plan[t].record
             a == plan[t].account
  <2>1. /\ ClaimReady(t) /\ r \in Requests /\ a \in Accts
        /\ events' = events \union {<<r, a>>} /\ claimed' = claimed \union {r}
    BY <1>0, <1>2, AccountFields DEF Claim, HoldersInv, Fits, ClaimReady, Unauthorised
  <2>2. OneHolder'
    BY <1>0, <2>1 DEF OneHolder, Holders, ClaimReady
  <2>3. HoldersProved'
    <3>1. Evident(r, a)'
      <4>1. PICK r0 \in Requests, a0 \in Accts : r0 = r /\ a0 = a
        BY <2>1
      <4>2. Evident(r0, a0)'
        BY <1>1, <2>1, <4>1 DEF ClaimReady
      <4>3. plan' = plan
        BY StepTyped DEF Alone
      <4> QED BY <4>1, <4>2, <4>3 DEF Evident
    <3>2. \A c \in events' : c \in events \/ (c[1] = r /\ c[2] = a)
      BY <2>1
    <3>3. plan' = plan
      BY StepTyped DEF Alone
    <3> QED BY <1>0, <1>4, <1>5, <3>1, <3>2, <3>3 DEF Evident
  <2> QED BY <2>2, <2>3
<1>3. CASE events' = events /\ claimed' = claimed
  <2>1. OneHolder'
    BY <1>0, <1>3 DEF OneHolder, Holders
  <2>2. HoldersProved'
    BY <1>3, <1>4, <1>5
  <2> QED BY <2>1, <2>2
<1> QED BY <1>2, <1>3, AccountsChange

(* A phone that is to be linked, and a phone that is to be marked.         *)
LEMMA PhonesStep ==
  ASSUME Typed, HoldersInv, NEW t \in Actors, Step(t)
  PROVE  \A u \in Actors :
           /\ at'[u] = "create" => saw'[u].new
           /\ at'[u] \in {"clear", "link"} => PhoneReady(u)'
           /\ at'[u] = "activate" => held'[u][plan'[u].phone] >= NoKeyUpdate
<1>0. /\ plan \in [Actors -> Jobs] /\ \A u \in Actors : Fits(plan[u], at[u])
      /\ HeldType /\ saw \in [Actors -> Read] /\ Compatible
  BY DEF Typed, TypeOK, AccountsTypeOK, HoldersInv
<1>1. PICK step : Alone(t, step)
  BY StepTyped
<1>2. /\ plan' = plan
      /\ \A u \in Actors \ {t} : at'[u] = at[u] /\ held'[u] = held[u] /\ saw'[u] = saw[u]
  BY <1>1, ReadsChange DEF Alone
<1>3. \A u \in Actors : at'[u] # "done" => \A r \in Rows : held'[u][r] >= held[u][r]
  BY LocksStep, <1>0
<1>4. HeldType' /\ \A u \in Actors : Fits(plan[u], at'[u])
  BY <1>2, StepTyped DEF Typed, TypeOK
<1>5. ASSUME NEW u \in Actors, u # t, at'[u] \in {"clear", "link"} PROVE PhoneReady(u)'
  <2>1. PhoneReady(u) /\ plan[u].phone \in Phones /\ plan[u].phone \in Rows
    BY <1>0, <1>2, <1>5, AccountFields, AccountsAssumption DEF HoldersInv, Fits
  <2>2. saw[u].new => control'[plan[u].phone] = control[plan[u].phone]
    <3>1. saw[u].new => ~(held[t][plan[u].phone] >= NoKeyUpdate)
      BY <1>0, <1>5, <2>1 DEF PhoneReady, Compatible, HeldType, Update, NoKeyUpdate
    <3> QED BY <2>1, <3>1, EvidenceGrows
  <2> QED BY <1>2, <1>5, <2>1, <2>2, EvidenceGrows DEF PhoneReady
<1>6. ASSUME at'[t] \in {"clear", "link"} PROVE PhoneReady(t)'
  <2>0. plan[t].phone \in Phones /\ plan[t].phone \in Rows /\ saw[t] \in Read
    BY <1>0, <1>4, <1>6, AccountFields, AccountsAssumption DEF Fits
  <2>1. CASE ReadContact(t)
    <3>1. control[plan[t].phone] # "absent" /\ control' = control
      BY <1>0, <1>6, <2>1 DEF ReadContact, Continue, Goto, Typed, TypeOK
    <3>2. saw'[t].new = FALSE
      BY <1>0, <2>0, <2>1, <3>1 DEF ReadContact, Sees, Read
    <3> QED BY <1>2, <3>1, <3>2 DEF PhoneReady
  <2>2. CASE CreateContact(t)
    <3>1. /\ control[plan[t].phone] = "absent" /\ control' = control /\ saw' = saw
          /\ held' = [held EXCEPT ![t][plan[t].phone] = IF Update > @ THEN Update ELSE @]
      BY <1>0, <1>6, <2>2 DEF CreateContact, End, Goto, LockAnd, Lock, registry, Typed, TypeOK
    <3>2. held'[t][plan[t].phone] = Update
      BY <1>0, <2>0, <3>1 DEF HeldType, Update
    <3>3. saw[t].new = TRUE
      BY <2>2 DEF CreateContact, HoldersInv
    <3> QED BY <1>2, <3>1, <3>2, <3>3 DEF PhoneReady
  <2>3. CASE ClearPrimaries(t)
    <3>1. control' = control /\ held' = held /\ saw'[t].new = saw[t].new /\ PhoneReady(t)
      BY <1>0, <2>0, <2>3 DEF ClearPrimaries, Continue, Sees, Read, HoldersInv
    <3> QED BY <1>2, <3>1 DEF PhoneReady
  <2> QED BY <1>6, <2>1, <2>2, <2>3, Enters
<1>7. ASSUME NEW u \in Actors, at'[u] = "activate"
      PROVE  held'[u][plan'[u].phone] >= NoKeyUpdate
  <2>0. plan[u].phone \in Rows
    BY <1>0, <1>4, <1>7, AccountFields, AccountsAssumption DEF Fits
  <2>1. CASE u # t
    BY <1>2, <1>7, <2>1 DEF HoldersInv
  <2>2. CASE u = t
    <3>1. held' = [held EXCEPT ![t][plan[t].phone] = IF NoKeyUpdate > @ THEN NoKeyUpdate ELSE @]
      BY <1>7, <2>2, Enters DEF MarkControl, LockAnd, Lock
    <3> QED BY <1>0, <1>2, <2>0, <2>2, <3>1 DEF HeldType, NoKeyUpdate, Update
  <2> QED BY <2>1, <2>2
<1>8. ASSUME NEW u \in Actors, at'[u] = "create" PROVE saw'[u].new
  <2>1. CASE u # t
    BY <1>2, <1>8, <2>1 DEF HoldersInv
  <2>2. CASE u = t
    <3>1. ReadContact(t) /\ control[plan[t].phone] = "absent"
      BY <1>8, <2>2, Enters DEF ReadContact, Continue, Goto, Typed, TypeOK
    <3> QED BY <1>0, <2>2, <3>1 DEF ReadContact, Sees, Read
  <2> QED BY <2>1, <2>2
<1> QED BY <1>5, <1>6, <1>7, <1>8

(* A claim under way.                                                      *)
LEMMA ClaimsStep ==
  ASSUME Typed, HoldersInv, NEW t \in Actors, Step(t)
  PROVE  \A u \in Actors : at'[u] = "claims" => ClaimReady(u)'
<1>0. /\ plan \in [Actors -> Jobs] /\ \A u \in Actors : Fits(plan[u], at[u])
      /\ HeldType /\ Compatible /\ OneHolder
      /\ events \subseteq Records \X Accts /\ claimed \subseteq Records
  BY DEF Typed, TypeOK, AccountsTypeOK, HoldersInv
<1>1. PICK step : Alone(t, step)
  BY StepTyped
<1>2. /\ plan' = plan
      /\ \A u \in Actors \ {t} : at'[u] = at[u] /\ held'[u] = held[u]
  BY <1>1 DEF Alone
<1>3. ASSUME NEW u \in Actors, u # t, at'[u] = "claims" PROVE ClaimReady(u)'
  <2> DEFINE r == plan[u].record
  <2>1. at[u] = "claims" /\ ClaimReady(u) /\ plan[u].account \in Accts /\ r \in Rows
    BY <1>0, <1>2, <1>3, AccountFields, AccountsAssumption DEF HoldersInv, Fits, Unauthorised
  <2>2. Evident(r, plan[u].account)'
    <3>1. Evident(r, plan[u].account)
      BY <2>1 DEF ClaimReady
    <3>2. LoginOf[plan[u].account] \in Phones /\ RequestParty[r] \in Parties
      BY <2>1, <3>1, AccountsAssumption DEF Evident, ClaimReady
    <3> QED BY <1>2, <3>1, <3>2, EvidenceGrows DEF Evident
  <2>3. Claim(t) => plan[t].record # r
    <3>1. Claim(t) => held[t][plan[t].record] = Update
      BY DEF Claim, HoldersInv, ClaimReady
    <3> QED BY <1>0, <1>3, <2>1, <3>1 DEF Compatible, ClaimReady, Update
  <2>4. r \notin claimed' /\ \A b \in Accts : <<r, b>> \notin events'
    <3>1. r \notin claimed /\ \A b \in Accts : <<r, b>> \notin events
      BY <2>1 DEF ClaimReady
    <3>2. CASE Claim(t)
      BY <2>3, <3>1, <3>2 DEF Claim
    <3> QED BY <3>1, <3>2, AccountsChange
  <2> QED BY <1>2, <1>3, <2>1, <2>2, <2>4 DEF ClaimReady
<1>4. ASSUME at'[t] = "claims" PROVE ClaimReady(t)'
  <2> DEFINE r == plan[t].record
             a == plan[t].account
  <2>1. /\ LockRecord(t) /\ at[t] = "lock" /\ r \in Rows /\ r \in Records /\ a \in Accts
    BY <1>0, <1>4, Enters, AccountFields, AccountsAssumption DEF LockRecord, Fits, Unauthorised
  <2>2. Outcome(a, r, plan[t].contact) = "claims"
    BY <1>4, <2>1 DEF LockRecord, End, Goto, Typed, TypeOK
  <2>3. Eligible(a, r, plan[t].contact) /\ Holders(r) \ {a} = {} /\ Holders(r) # {a} /\ r \notin claimed
    BY <2>2 DEF Outcome
  <2>4. Evident(r, a)
    <3>1. plan[t].contact \in Phones
      BY <1>0, <2>1, AccountFields DEF Fits
    <3> QED BY <2>1, <2>3, <3>1, AccountsAssumption DEF Eligible, Evident
  <2>5. /\ held' = [held EXCEPT ![t][r] = IF Update > @ THEN Update ELSE @]
        /\ UNCHANGED registry
    BY <2>1, <2>2 DEF LockRecord, LockAnd, Lock
  <2>6. held'[t][r] = Update
    BY <1>0, <2>1, <2>5 DEF HeldType, Update
  <2>7. \A b \in Accts : <<r, b>> \notin events
    BY <2>3 DEF Holders
  <2> QED BY <1>2, <2>3, <2>4, <2>5, <2>6, <2>7 DEF ClaimReady, Evident, Eligible, registry
<1> QED BY <1>3, <1>4

(* The four together.                                                      *)
LEMMA HoldersInvStep ==
  ASSUME Typed, HoldersInv, NEW t \in Actors, Step(t)
  PROVE  HoldersInv'
<1>1. Compatible'
  BY LocksStep DEF HoldersInv
<1> QED BY <1>1, HoldersStep, OnePrimaryStep, PhonesStep, ClaimsStep DEF HoldersInv

-----------------------------------------------------------------------------
(* The relations.  One that is about to end is in force still, and locked. *)
LEMMA RelationsChange ==
  ASSUME NEW t \in Actors, Step(t)
  PROVE  Relate(t) \/ Part(t) \/ period' = period
<1>1. CASE RelationStep(t)
  BY <1>1 DEF RelationStep, BeginAt, CheckTie, Relate, LockTie, Part, Declined, relations
<1>2. CASE ~RelationStep(t)
  BY <1>2 DEF Step, Authorise, Fail, relations
<1> QED BY <1>1, <1>2

PartReady(t) ==
  LET x == plan[t].tie
  IN /\ held[t][x] = Update
     /\ period[x].to = None
     /\ period[x].from = None \/ period[x].from < Ending(t)

PeriodsInv == PeriodsApart /\ \A t \in Actors : at[t] = "part" => PartReady(t)

(* A relation that ends overlaps nothing that it did not overlap before.   *)
LEMMA Shortened ==
  ASSUME NEW d \in Period, d.to = None, NEW e \in Period, NEW to \in Nat
  PROVE  /\ Overlap([d EXCEPT !.to = to], e) => Overlap(d, e)
         /\ Overlap(e, [d EXCEPT !.to = to]) => Overlap(e, d)
BY RelationsAssumption DEF Period, Overlap, Since

(* A new relation collides with none; one that ends only shrinks.          *)
LEMMA ApartStep ==
  ASSUME Typed, PeriodsInv, NEW t \in Actors, Step(t)
  PROVE  PeriodsApart'
<1>0. /\ plan[t] \in Jobs /\ Fits(plan[t], at[t])
      /\ period \in [Ties -> Period \union {None}] /\ began[t] \in Nat
  BY DEF Typed, TypeOK, RelationsTypeOK
<1>a. \A d \in Period : d # None
  BY RelationsAssumption
<1> SUFFICES ASSUME NEW x \in Ties, NEW y \in Ties, period'[x] # None, period'[y] # None
             PROVE  /\ x # y /\ TieOf[x] = TieOf[y] => ~Overlap(period'[x], period'[y])
                    /\ period'[x].to # None => period'[x].from = None
                                               \/ period'[x].from < period'[x].to
  BY DEF PeriodsApart, Apart
<1>1. \A v, w \in Ties : period[v] # None /\ period[w] # None =>
        /\ v # w /\ TieOf[v] = TieOf[w] => ~Overlap(period[v], period[w])
        /\ period[v].to # None => period[v].from = None \/ period[v].from < period[v].to
  BY DEF PeriodsInv, PeriodsApart, Apart
<1>2. CASE Relate(t) /\ period' # period
  <2> DEFINE z == plan[t].tie
             d == [from |-> IF plan[t].from = None THEN began[t] ELSE plan[t].from, to |-> None]
  <2>1. /\ z \in Ties /\ period[z] = None /\ Colliding(z, d) = {}
        /\ period' = [period EXCEPT ![z] = d]
    BY <1>0, <1>2, EvidenceFields DEF Relate, Declined, relations, Fits
  <2>2. \A w \in Ties : period'[w] = IF w = z THEN d ELSE period[w]
    BY <1>0, <2>1
  <2>3. \A w \in Ties \ {z} : TieOf[w] = TieOf[z] /\ period[w] # None => ~Overlap(period[w], d)
    BY <2>1 DEF Colliding
  <2>4. \A e : Overlap(d, e) <=> Overlap(e, d)
    BY DEF Overlap
  <2> QED BY <1>1, <2>1, <2>2, <2>3, <2>4
<1>3. CASE Part(t)
  <2> DEFINE z == plan[t].tie
             d == [period[z] EXCEPT !.to = Ending(t)]
  <2>1. /\ z \in Ties /\ period[z] \in Period /\ PartReady(t)
        /\ plan[t].to \in Nat \union {None} /\ period' = [period EXCEPT ![z].to = Ending(t)]
    BY <1>0, <1>3, EvidenceFields DEF Part, Fits, Typed, PeriodsInv
  <2>2. Ending(t) \in Nat /\ period[z].to = None
    BY <1>0, <2>1 DEF Ending, PartReady
  <2>3. \A w \in Ties : period'[w] = IF w = z THEN d ELSE period[w]
    BY <1>0, <2>1
  <2>4. \A w \in Ties : period[w] # None =>
          /\ Overlap(d, period[w]) => Overlap(period[z], period[w])
          /\ Overlap(period[w], d) => Overlap(period[w], period[z])
    BY <1>0, <2>1, <2>2, Shortened
  <2>5. d.to = Ending(t) /\ d.from = period[z].from /\ period[z] # None
    BY <1>a, <2>1 DEF Period
  <2>6. d.from = None \/ d.from < d.to
    BY <2>1, <2>5 DEF PartReady
  <2> QED BY <1>1, <2>1, <2>3, <2>4, <2>5, <2>6
<1>4. CASE period' = period
  BY <1>1, <1>4
<1> QED BY <1>2, <1>3, <1>4, RelationsChange

(* Nobody ends a relation that another one has locked.                     *)
LEMMA PartsStep ==
  ASSUME Typed, Compatible, PeriodsInv, NEW t \in Actors, Step(t)
  PROVE  \A u \in Actors : at'[u] = "part" => PartReady(u)'
<1>0. /\ plan \in [Actors -> Jobs] /\ \A u \in Actors : Fits(plan[u], at[u])
      /\ HeldType /\ period \in [Ties -> Period \union {None}] /\ began \in [Actors -> Nat]
      /\ \A u \in Actors : at[u] = "part" => period[plan[u].tie] \in Period
  BY DEF Typed, TypeOK, RelationsTypeOK
<1>1. PICK step : Alone(t, step)
  BY StepTyped
<1>2. /\ plan' = plan
      /\ \A u \in Actors \ {t} : at'[u] = at[u] /\ held'[u] = held[u] /\ began'[u] = began[u]
  BY <1>1, ReadsChange DEF Alone
<1>3. ASSUME NEW u \in Actors, u # t, at'[u] = "part" PROVE PartReady(u)'
  <2> DEFINE x == plan[u].tie
  <2>1. at[u] = "part" /\ PartReady(u) /\ x \in Ties /\ x \in Rows /\ period[x] \in Period
    BY <1>0, <1>2, <1>3, EvidenceFields, RelationsAssumption DEF PeriodsInv, Fits
  <2>2. period'[x] = period[x]
    <3>1. CASE Relate(t)
      <4>1. plan[t].tie \in Ties /\ (plan[t].tie = x => period'[x] = period[x])
        BY <1>0, <2>1, <3>1, EvidenceFields, RelationsAssumption DEF Relate, Fits
      <4>2. period' = period \/ \E d : period' = [period EXCEPT ![plan[t].tie] = d]
        BY <3>1 DEF Relate, Declined, relations
      <4>3. CASE plan[t].tie # x
        BY <1>0, <2>1, <4>1, <4>2, <4>3
      <4> QED BY <4>1, <4>3
    <3>2. CASE Part(t)
      <4>1. plan[t].tie \in Ties /\ held[t][plan[t].tie] = Update
        BY <1>0, <3>2, EvidenceFields DEF Part, Fits, PeriodsInv, PartReady
      <4>2. plan[t].tie # x
        BY <1>0, <1>3, <2>1, <4>1 DEF Compatible, PartReady, Update
      <4> QED BY <1>0, <3>2, <4>1, <4>2 DEF Part
    <3> QED BY <3>1, <3>2, RelationsChange
  <2> QED BY <1>2, <1>3, <2>1, <2>2 DEF PartReady, Ending
<1>4. ASSUME at'[t] = "part" PROVE PartReady(t)'
  <2> DEFINE x == plan[t].tie
  <2>1. LockTie(t) /\ x \in Ties /\ x \in Rows
    BY <1>0, <1>4, Enters, EvidenceFields, RelationsAssumption DEF LockTie, Fits
  <2>2. /\ period[x].to = None /\ (period[x].from = None \/ period[x].from < Ending(t))
        /\ LockAnd(t, x, Update, "part") /\ UNCHANGED relations
    BY <1>4, <2>1 DEF LockTie, Declined, End, Goto, Typed, TypeOK
  <2>3. held'[t][x] = Update
    BY <1>0, <2>1, <2>2 DEF LockAnd, Lock, HeldType, Update
  <2> QED BY <1>2, <2>2, <2>3 DEF PartReady, Ending, relations
<1> QED BY <1>3, <1>4

(* The two together.                                                       *)
LEMMA PeriodsInvStep ==
  ASSUME Typed, Compatible, PeriodsInv, NEW t \in Actors, Step(t)
  PROVE  PeriodsInv'
BY ApartStep, PartsStep DEF PeriodsInv

-----------------------------------------------------------------------------
(* What Evidence keeps, and which of its steps change it.                  *)
LEMMA EvidenceChange ==
  ASSUME NEW t \in Actors, Step(t)
  PROVE  /\ AssertFact(t) \/ Verify(t) \/ level' = level
         /\ Verify(t) \/ confirmed' = confirmed
         /\ Observe(t) \/ Amend(t) \/ body' = body
         /\ CompleteTask(t) \/ (todo' = todo /\ completed' = completed)
         /\ Resolve(t) \/ (resolved' = resolved /\ projected' = projected)
<1>1. CASE EvidenceStep(t)
  BY <1>1
  DEF EvidenceStep, GrantConsent, ReadGrant, Revoke, CheckBinding, Bind, Observe, CheckFact,
      AssertFact, LockFact, Verify, LockSubject, CheckLineage, ReadCurrent, Resolve, LockTask,
      LockEvidence, CompleteTask, Amend, Reject, Await, evidence, facts, values, tasks
<1>2. CASE ~EvidenceStep(t)
  BY <1>2 DEF Step, Authorise, Fail, evidence, facts, tasks
<1> QED BY <1>1, <1>2

(* A fact that is being verified exists.                                   *)
FactsInv == LevelIsStrongest /\ \A t \in Actors : at[t] = "verify" => level[plan[t].fact] # None

(* A level grows to the strongest confirmation and is never taken back.    *)
LEMMA FactsInvStep ==
  ASSUME Typed, FactsInv, NEW t \in Actors, Step(t)
  PROVE  FactsInv'
<1>0. /\ plan \in [Actors -> Jobs] /\ \A u \in Actors : Fits(plan[u], at[u])
      /\ level \in [Facts -> Levels \union {None}] /\ confirmed \subseteq Facts \X Levels
      /\ Levels \subseteq Nat /\ None \notin Nat /\ 0 \in Levels /\ LevelIsStrongest
  BY EvidenceAssumption DEF Typed, TypeOK, EvidenceTypeOK, FactsInv
<1>1. PICK step : Alone(t, step)
  BY StepTyped
<1>2. LevelIsStrongest' /\ \A f \in Facts : level[f] # None => level'[f] # None
  <2>1. CASE AssertFact(t) /\ level' # level
    <3>1. /\ plan[t].fact \in Facts /\ level[plan[t].fact] = None
          /\ level' = [level EXCEPT ![plan[t].fact] = 0] /\ confirmed' = confirmed
      BY <1>0, <2>1, EvidenceFields DEF AssertFact, Reject, evidence, Fits
    <3> QED BY <1>0, <3>1 DEF LevelIsStrongest
  <2>2. CASE Verify(t)
    <3> DEFINE c == plan[t].fact
               l == plan[t].level
    <3>1. c \in Facts /\ l \in Levels /\ level[c] \in Levels
      BY <1>0, <2>2, EvidenceFields DEF Verify, Fits, FactsInv
    <3>2. CASE plan[t].outcome = "CONFIRMED"
      <4>1. /\ level' = [level EXCEPT ![c] = Greatest(@, l)]
            /\ confirmed' = confirmed \union {<<c, l>>}
        BY <2>2, <3>2 DEF Verify
      <4>2. \A f \in Facts : level'[f] = IF f = c THEN Greatest(level[c], l) ELSE level[f]
        BY <1>0, <3>1, <4>1
      <4>3. /\ Greatest(level[c], l) \in {level[c], l} /\ l <= Greatest(level[c], l)
            /\ level[c] <= Greatest(level[c], l)
        <5>1. level[c] \in Nat /\ l \in Nat
          BY <1>0, <3>1
        <5>2. ASSUME NEW a \in Nat, NEW b \in Nat
              PROVE  Greatest(a, b) \in {a, b} /\ b <= Greatest(a, b) /\ a <= Greatest(a, b)
          BY DEF Greatest
        <5> QED BY <5>1, <5>2
      <4>4. ASSUME NEW d \in confirmed' PROVE level'[d[1]] # None /\ d[2] <= level'[d[1]]
        <5>1. CASE d = <<c, l>>
          BY <1>0, <3>1, <4>2, <4>3, <5>1
        <5>2. CASE d \in confirmed
          <6>1. d[1] \in Facts /\ d[2] \in Nat /\ level[d[1]] \in Nat /\ d[2] <= level[d[1]]
            BY <1>0, <5>2 DEF LevelIsStrongest
          <6>2. level'[d[1]] \in Nat /\ level[d[1]] <= level'[d[1]]
            <7>1. CASE d[1] = c
              <8>1. level'[d[1]] = Greatest(level[c], l)
                BY <4>2, <6>1, <7>1
              <8> QED BY <1>0, <3>1, <4>3, <6>1, <7>1, <8>1
            <7>2. CASE d[1] # c
              <8>1. level'[d[1]] = level[d[1]]
                BY <4>2, <6>1, <7>2
              <8> QED BY <6>1, <8>1
            <7> QED BY <7>1, <7>2
          <6> QED BY <1>0, <6>1, <6>2
        <5> QED BY <4>1, <5>1, <5>2
      <4>5. ASSUME NEW f \in Facts PROVE level'[f] \in {None, 0} \/ <<f, level'[f]>> \in confirmed'
        BY <1>0, <3>1, <4>1, <4>2, <4>3 DEF LevelIsStrongest
      <4> QED BY <1>0, <3>1, <4>2, <4>3, <4>4, <4>5 DEF LevelIsStrongest
    <3>3. CASE plan[t].outcome # "CONFIRMED"
      <4>1. level' = level /\ confirmed' = confirmed
        BY <2>2, <3>3 DEF Verify, facts
      <4> QED BY <1>0, <4>1 DEF LevelIsStrongest
    <3> QED BY <3>2, <3>3
  <2>3. CASE level' = level /\ confirmed' = confirmed
    BY <1>0, <2>3 DEF LevelIsStrongest
  <2> QED BY <2>1, <2>2, <2>3, EvidenceChange
<1>3. ASSUME NEW u \in Actors, at'[u] = "verify" PROVE level'[plan'[u].fact] # None
  <2>0. plan' = plan /\ plan[u].fact \in Facts
    <3>1. Typed' /\ plan' = plan
      BY <1>1, StepTyped DEF Alone
    <3> QED BY <1>0, <1>3, <3>1, EvidenceFields DEF Typed, Fits
  <2>1. level[plan[u].fact] # None
    <3>1. CASE u # t
      BY <1>1, <1>3, <3>1 DEF Alone, FactsInv
    <3>2. CASE u = t
      BY <1>3, <3>2, Enters DEF LockFact, Reject, End, Goto, Typed, TypeOK
    <3> QED BY <3>1, <3>2
  <2> QED BY <1>2, <2>0, <2>1
<1> QED BY <1>2, <1>3 DEF FactsInv

-----------------------------------------------------------------------------
(* The tasks.  One that is being completed is locked, and so is what it    *)
(* cites, as it was read.                                                  *)
CompletionReady(t) ==
  /\ todo[plan[t].task] \in Completable /\ held[t][plan[t].task] = Update
  /\ at[t] = "complete" /\ plan[t].cites # None =>
       LET o == plan[t].cites
       IN held[t][o] >= Share /\ body[o] = view[t].version /\ body[o] # 0

TasksInv ==
  /\ CompletedOnce /\ CitedUnchanged
  /\ \A t \in Actors : at[t] \in {"evidence", "complete"} => CompletionReady(t)

(* An observation that is cited, or is about to be, stays as it is.        *)
LEMMA CitedStep ==
  ASSUME Typed, TasksInv, NEW t \in Actors, Step(t), NEW o \in Observations, body'[o] # body[o]
  PROVE  /\ ~Cited(o) \/ body[o] = 0
         /\ \A u \in Actors \ {t} : ~(held[u][o] >= Share) \/ body[o] = 0
<1>0. /\ plan[t] \in Jobs /\ body \in [Observations -> Nat] /\ o \in Rows /\ HeldType
  BY EvidenceAssumption DEF Typed, TypeOK, EvidenceTypeOK
<1>1. CASE Observe(t)
  <2>1. body' = [body EXCEPT ![plan[t].observation] = 1] /\ body[plan[t].observation] = 0
    BY <1>1 DEF Observe
  <2> QED BY <1>0, <2>1
<1>2. CASE Amend(t)
  <2>1. /\ plan[t].observation = o /\ ~Cited(o) /\ body[o] # 0
        /\ Blockers(t, o, IF plan[t].deletes THEN Update ELSE NoKeyUpdate) = {}
    BY <1>0, <1>2, EvidenceFields DEF Amend, Reject, evidence
  <2>2. \A u \in Actors \ {t} : held[u][o] + 3 <= 4
    BY <1>0, <2>1 DEF Blockers, HeldType, Update, NoKeyUpdate
  <2> QED BY <1>0, <2>1, <2>2 DEF HeldType, Share, Update
<1> QED BY <1>1, <1>2, EvidenceChange

(* A completion finds its task open and what it cites as it was read.      *)
LEMMA CompletedStep ==
  ASSUME Typed, Compatible, TasksInv, NEW t \in Actors, Step(t)
  PROVE  CompletedOnce' /\ CitedUnchanged'
<1>0. /\ plan[t] \in Jobs /\ Fits(plan[t], at[t]) /\ CompletedOnce /\ CitedUnchanged
      /\ todo \in [Tasks -> {"OPEN", "IN_PROGRESS", "DONE", "CANCELLED"}]
      /\ completed \subseteq Tasks \X (Observations \union {None}) \X Nat \X Actors
  BY DEF Typed, TypeOK, EvidenceTypeOK, TasksInv
<1>1. CASE CompleteTask(t)
  <2> DEFINE k == plan[t].task
             o == plan[t].cites
             e == <<k, o, view[t].version, t>>
  <2>1. /\ k \in Tasks /\ CompletionReady(t) /\ at[t] = "complete"
        /\ completed' = completed \union {e} /\ todo' = [todo EXCEPT ![k] = "DONE"]
    BY <1>0, <1>1, EvidenceFields DEF CompleteTask, Fits, TasksInv
  <2>2. body' = body
    BY <1>1 DEF CompleteTask
  <2>3. \A c \in completed : c[1] # k
    BY <1>0, <2>1 DEF CompletedOnce, CompletionReady, Completable
  <2>4. CompletedOnce'
    <3>1. \A c, d \in completed' : c[1] = d[1] => c = d
      BY <1>0, <2>1, <2>3 DEF CompletedOnce
    <3>2. ASSUME NEW j \in Tasks PROVE todo'[j] = "DONE" <=> \E c \in completed' : c[1] = j
      <4>1. CASE j = k
        <5>1. e \in completed' /\ e[1] = k
          BY <2>1
        <5>2. todo'[k] = "DONE"
          BY <1>0, <2>1
        <5> QED BY <4>1, <5>1, <5>2
      <4>2. CASE j # k
        <5>1. todo'[j] = todo[j] /\ \A c \in completed' : c[1] = j => c \in completed
          BY <1>0, <2>1, <4>2
        <5>2. completed \subseteq completed' /\ (todo[j] = "DONE" <=> \E c \in completed : c[1] = j)
          BY <1>0, <2>1 DEF CompletedOnce
        <5> QED BY <5>1, <5>2
      <4> QED BY <4>1, <4>2
    <3> QED BY <3>1, <3>2 DEF CompletedOnce
  <2>5. CitedUnchanged'
    BY <1>0, <2>1, <2>2 DEF CitedUnchanged, CompletionReady
  <2> QED BY <2>4, <2>5
<1>2. CASE todo' = todo /\ completed' = completed
  <2>1. CompletedOnce'
    BY <1>0, <1>2 DEF CompletedOnce
  <2>2. CitedUnchanged'
    <3> SUFFICES ASSUME NEW c \in completed, c[2] # None PROVE body'[c[2]] = c[3] /\ c[3] # 0
      BY <1>2 DEF CitedUnchanged
    <3>1. c[2] \in Observations /\ body[c[2]] = c[3] /\ c[3] # 0 /\ Cited(c[2])
      BY <1>0 DEF CitedUnchanged, Cited
    <3> QED BY <3>1, CitedStep
  <2> QED BY <2>1, <2>2
<1> QED BY <1>1, <1>2, EvidenceChange

(* Until then both are locked.                                             *)
LEMMA CompletionsStep ==
  ASSUME Typed, Compatible, TasksInv, NEW t \in Actors, Step(t)
  PROVE  \A u \in Actors : at'[u] \in {"evidence", "complete"} => CompletionReady(u)'
<1>0. /\ plan \in [Actors -> Jobs] /\ \A u \in Actors : Fits(plan[u], at[u])
      /\ HeldType /\ view \in [Actors -> Views] /\ body \in [Observations -> Nat]
      /\ todo \in [Tasks -> {"OPEN", "IN_PROGRESS", "DONE", "CANCELLED"}]
  BY DEF Typed, TypeOK, EvidenceTypeOK
<1>1. PICK step : Alone(t, step)
  BY StepTyped
<1>2. /\ plan' = plan
      /\ \A u \in Actors \ {t} : at'[u] = at[u] /\ held'[u] = held[u] /\ view'[u] = view[u]
  BY <1>1, ReadsChange DEF Alone
<1>3. HeldType' /\ \A u \in Actors : Fits(plan[u], at'[u])
  BY <1>2, StepTyped DEF Typed, TypeOK
<1>4. ASSUME NEW u \in Actors, u # t, at'[u] \in {"evidence", "complete"}
      PROVE  CompletionReady(u)'
  <2> DEFINE k == plan[u].task
             o == plan[u].cites
  <2>1. /\ at[u] \in {"evidence", "complete"} /\ CompletionReady(u)
        /\ k \in Tasks /\ k \in Rows /\ o \in Observations \union {None}
    BY <1>0, <1>2, <1>4, EvidenceFields, EvidenceAssumption DEF TasksInv, Fits
  <2>2. todo'[k] = todo[k]
    <3>1. CASE CompleteTask(t)
      <4>1. held[t][plan[t].task] = Update /\ plan[t].task \in Tasks
        BY <1>0, <3>1, EvidenceFields DEF CompleteTask, Fits, TasksInv, CompletionReady
      <4>2. plan[t].task # k
        BY <1>0, <1>4, <2>1, <4>1 DEF Compatible, CompletionReady, Update
      <4> QED BY <1>0, <3>1, <4>1, <4>2 DEF CompleteTask
    <3> QED BY <3>1, EvidenceChange
  <2>3. at[u] = "complete" /\ o # None => body'[o] = body[o]
    BY <1>4, <2>1, CitedStep DEF CompletionReady
  <2> QED BY <1>2, <1>4, <2>1, <2>2, <2>3 DEF CompletionReady
<1>5. ASSUME at'[t] \in {"evidence", "complete"} PROVE CompletionReady(t)'
  <2> DEFINE k == plan[t].task
             o == plan[t].cites
  <2>0. k \in Tasks /\ k \in Rows /\ o \in Observations \union {None} /\ (o # None => o \in Rows)
    BY <1>0, <1>3, <1>5, EvidenceFields, EvidenceAssumption DEF Fits
  <2>1. CASE at'[t] = "evidence"
    <3>1. LockTask(t) /\ todo[k] \in Completable /\ LockAnd(t, k, Update, "evidence") /\ todo' = todo
      BY <2>1, Enters DEF LockTask, Await, Reject, End, Goto, Typed, TypeOK, evidence
    <3>2. held'[t][k] = Update
      BY <1>0, <2>0, <3>1 DEF LockAnd, Lock, HeldType, Update
    <3> QED BY <1>2, <2>1, <3>1, <3>2 DEF CompletionReady
  <2>2. CASE at'[t] = "complete"
    <3>1. LockEvidence(t) /\ at[t] = "evidence" /\ CompletionReady(t)
      BY <2>2, Enters DEF LockEvidence, TasksInv
    <3>2. todo' = todo /\ body' = body
      BY <3>1 DEF LockEvidence, Reject, evidence, tasks
    <3>3. held'[t][k] = Update
      <4>1. held'[t][k] >= held[t][k]
        BY <2>0, <2>2, LocksStep
      <4> QED BY <1>3, <2>0, <3>1, <4>1 DEF CompletionReady, HeldType, Update
    <3>4. ASSUME o # None PROVE held'[t][o] >= Share /\ body[o] = view'[t].version /\ body[o] # 0
      <4>1. /\ LockAnd(t, o, EvidenceMode, "complete") /\ body[o] # 0
            /\ view' = [view EXCEPT ![t] = [view[t] EXCEPT !.version = body[o]]]
        BY <2>2, <3>1, <3>4 DEF LockEvidence, Reject, End, Goto, Notes, Typed, TypeOK
      <4>2. held'[t][o] >= Share
        BY <1>0, <2>0, <3>4, <4>1 DEF LockAnd, Lock, HeldType, EvidenceMode, Share, Update
      <4> QED BY <1>0, <4>1, <4>2 DEF Views
    <3> QED BY <1>2, <3>1, <3>2, <3>3, <3>4 DEF CompletionReady
  <2> QED BY <1>5, <2>1, <2>2
<1> QED BY <1>4, <1>5

(* The two together.                                                       *)
LEMMA TasksInvStep ==
  ASSUME Typed, Compatible, TasksInv, NEW t \in Actors, Step(t)
  PROVE  TasksInv'
BY CompletedStep, CompletionsStep DEF TasksInv

-----------------------------------------------------------------------------
(* The resolved values.  The property is locked from the first statement   *)
(* of a resolution on, so the value it read as current is so at the end.   *)
ResolutionReady(t) ==
  /\ held[t][plan[t].on[1]] = Update
  /\ at[t] = "resolve" =>
       \/ resolved[plan[t].on] = {}
       \/ \E c \in Current(plan[t].on) : view[t].last = c.from /\ c.from < view[t].start

(* One subject's values.                                                   *)
Chain(S) ==
  /\ \A v, w \in S : v # w => v.from # w.from /\ v.to # w.to
  /\ \A v \in S : v.to # None => v.from < v.to /\ \E w \in S : w.from = v.to
  /\ S # {} => \E v \in S : v.to = None
  /\ \A v, c \in S : c.to = None => v.from <= c.from

ValuesInv ==
  /\ \A s \in Subjects : Chain(resolved[s])
  /\ \A s \in Subjects : \A v \in Current(s) : projected[s] = v.by
  /\ \A t \in Actors : at[t] \in {"lineage", "current", "resolve"} => ResolutionReady(t)

(* What a run checks of the values follows.                                *)
LEMMA ValuesAreChained == ValuesInv => ValuesChained
BY DEF ValuesInv, Chain, ValuesChained, Current

Shut(v, last, start) == [v EXCEPT !.to = IF v.from = last THEN start ELSE @]

(* The current value is closed at the time at which the new one starts.    *)
LEMMA Closed ==
  ASSUME NEW S \in SUBSET Value, Chain(S), NEW c \in S, c.to = None,
         NEW start \in Nat, c.from < start, NEW by \in Actors,
         NEW kept, \A d \in kept : \E v \in S : d = Shut(v, c.from, start),
         \A v \in S : Shut(v, c.from, start) \in kept
  PROVE  /\ Chain(kept \union {[from |-> start, to |-> None, by |-> by]})
         /\ \A v \in kept : v.to # None
<1> DEFINE f(v) == Shut(v, c.from, start)
           mine == [from |-> start, to |-> None, by |-> by]
<1>0. None \notin Nat /\ \A v \in S : v.from \in Nat /\ v.to \in Nat \union {None}
  BY EvidenceAssumption DEF Value
<1>1. \A v \in S : /\ f(v).from = v.from
                   /\ f(v).to = IF v = c THEN start ELSE v.to
  BY DEF Chain, Value, Shut
<1>2. \A v \in S : v.to = None => v = c
  BY DEF Chain
<1>3. \A v \in S : f(v).to \in Nat
  BY <1>0, <1>1, <1>2
<1>4. \A v \in S : v.from < start
  BY <1>0 DEF Chain
<1>5. \A v \in S : v # c => v.to < start
  BY <1>0, <1>2, <1>4 DEF Chain
<1>6. /\ \A d \in kept : \E v \in S : d = f(v)
      /\ \A v \in S : f(v) \in kept
  OBVIOUS
<1>7. mine.from = start /\ mine.to = None
  OBVIOUS
<1> HIDE DEF f, mine
<1>8. \A v, w \in kept \union {mine} : v # w => v.from # w.from /\ v.to # w.to
  <2>1. ASSUME NEW v \in S, NEW w \in S, f(v) # f(w)
        PROVE  f(v).from # f(w).from /\ f(v).to # f(w).to
    <3>1. v # w
      BY <2>1
    <3>2. v.from # w.from /\ v.to # w.to
      BY <2>1, <3>1 DEF Chain
    <3>3. f(v).from # f(w).from
      BY <1>1, <2>1, <3>2
    <3>4. f(v).to # f(w).to
      <4>1. CASE v = c
        BY <1>0, <1>1, <1>2, <1>5, <2>1, <3>1, <4>1
      <4>2. CASE w = c
        BY <1>0, <1>1, <1>2, <1>5, <2>1, <3>1, <4>2
      <4>3. CASE v # c /\ w # c
        BY <1>1, <2>1, <3>2, <4>3
      <4> QED BY <4>1, <4>2, <4>3
    <3> QED BY <3>3, <3>4
  <2>2. ASSUME NEW v \in S PROVE f(v).from # mine.from /\ f(v).to # mine.to
    BY <1>0, <1>1, <1>3, <1>4, <1>7, <2>2
  <2>3. ASSUME NEW v \in kept, NEW w \in kept, v # w PROVE v.from # w.from /\ v.to # w.to
    <3>1. PICK x \in S : v = f(x)
      BY <1>6
    <3>2. PICK y \in S : w = f(y)
      BY <1>6
    <3> QED BY <2>1, <2>3, <3>1, <3>2
  <2>4. ASSUME NEW v \in kept PROVE v.from # mine.from /\ v.to # mine.to
    BY <1>6, <2>2, <2>4
  <2> QED BY <2>3, <2>4
<1>9. \A v \in kept \union {mine} : v.to # None =>
        v.from < v.to /\ \E w \in kept \union {mine} : w.from = v.to
  <2>1. ASSUME NEW v \in S, v # c
        PROVE  f(v).from < f(v).to /\ \E w \in kept : w.from = f(v).to
    <3>1. PICK w \in S : w.from = v.to
      BY <1>2, <2>1 DEF Chain
    <3>2. f(w).from = f(v).to /\ f(w) \in kept
      BY <1>1, <1>6, <2>1, <3>1
    <3> QED BY <1>1, <1>2, <2>1, <3>2 DEF Chain
  <2>2. f(c).from < f(c).to /\ mine.from = f(c).to
    BY <1>1, <1>7
  <2>3. ASSUME NEW v \in kept
        PROVE  v.from < v.to /\ \E w \in kept \union {mine} : w.from = v.to
    <3>1. PICK x \in S : v = f(x)
      BY <1>6
    <3>2. CASE x = c
      BY <2>2, <3>1, <3>2
    <3>3. CASE x # c
      BY <2>1, <3>1, <3>3
    <3> QED BY <3>2, <3>3
  <2> QED BY <1>7, <2>3
<1>10. \A v, d \in kept \union {mine} : d.to = None => v.from <= d.from
  <2>1. \A d \in kept \union {mine} : d.to = None => d = mine
    BY <1>0, <1>3, <1>6
  <2>2. ASSUME NEW v \in kept PROVE v.from <= start
    <3>1. PICK x \in S : v = f(x)
      BY <1>6
    <3> QED BY <1>0, <1>1, <1>4, <3>1
  <2> QED BY <1>7, <2>1, <2>2
<1>11. \A v \in kept : v.to # None
  BY <1>0, <1>3, <1>6
<1>12. Chain(kept \union {mine})
  BY <1>7, <1>8, <1>9, <1>10 DEF Chain
<1> QED BY <1>11, <1>12 DEF mine

(* A resolution closes the current value and adds the next one.            *)
LEMMA ValuesStep ==
  ASSUME Typed, ValuesInv, NEW t \in Actors, Step(t)
  PROVE  /\ \A s \in Subjects : Chain(resolved'[s])
         /\ \A s \in Subjects : \A v \in resolved'[s] : v.to = None => projected'[s] = v.by
<1>0. /\ plan[t] \in Jobs /\ Fits(plan[t], at[t]) /\ view[t] \in Views
      /\ resolved \in [Subjects -> SUBSET Value] /\ projected \in [Subjects -> Actors \union {None}]
      /\ \A s \in Subjects : Chain(resolved[s])
      /\ \A s \in Subjects : \A v \in resolved[s] : v.to = None => projected[s] = v.by
  BY DEF Typed, TypeOK, EvidenceTypeOK, ValuesInv, Current
<1>1. CASE Resolve(t) /\ ~(resolved' = resolved /\ projected' = projected)
  <2> DEFINE s    == plan[t].on
             kept == {[v EXCEPT !.to = IF v.from = view[t].last THEN view[t].start ELSE @] :
                        v \in resolved[s]}
             mine == [from |-> view[t].start, to |-> None, by |-> t]
  <2>1. /\ s \in Subjects /\ ResolutionReady(t) /\ at[t] = "resolve"
        /\ resolved' = [resolved EXCEPT ![s] = kept \union {mine}]
        /\ projected' = [projected EXCEPT ![s] = t]
    BY <1>0, <1>1, EvidenceFields DEF Resolve, Fits, ValuesInv, Reject, evidence
  <2>2. view[t].start \in Nat /\ mine.to = None /\ mine.by = t
    BY <1>0 DEF Views
  <2>3. Chain(kept \union {mine}) /\ \A v \in kept : v.to # None
    <3>1. CASE resolved[s] = {}
      <4>1. kept = {}
        BY <3>1
      <4>2. Chain({mine})
        BY <2>2 DEF Chain
      <4> QED BY <4>1, <4>2
    <3>2. CASE resolved[s] # {}
      <4>1. PICK c \in resolved[s] : /\ c.to = None /\ view[t].last = c.from
                                    /\ c.from < view[t].start
        BY <2>1, <3>2 DEF ResolutionReady, Current
      <4>2. resolved[s] \in SUBSET Value /\ Chain(resolved[s])
        BY <1>0, <2>1
      <4>3. /\ \A d \in kept : \E v \in resolved[s] : d = Shut(v, c.from, view[t].start)
            /\ \A v \in resolved[s] : Shut(v, c.from, view[t].start) \in kept
        BY <4>1 DEF Shut
      <4> HIDE DEF kept
      <4> QED BY <2>2, <4>1, <4>2, <4>3, Closed
    <3> QED BY <3>1, <3>2
  <2> HIDE DEF kept, mine
  <2>4. resolved'[s] = kept \union {mine} /\ projected'[s] = t
    BY <1>0, <2>1
  <2>5. \A i \in Subjects \ {s} : resolved'[i] = resolved[i] /\ projected'[i] = projected[i]
    BY <1>0, <2>1
  <2> QED BY <1>0, <2>2, <2>3, <2>4, <2>5
<1>2. CASE resolved' = resolved /\ projected' = projected
  BY <1>0, <1>2
<1> QED BY <1>1, <1>2, EvidenceChange

(* A resolution that goes on keeps the property locked.                    *)
LEMMA ResolutionsStep ==
  ASSUME Typed, Compatible, ValuesInv, NEW t \in Actors, Step(t)
  PROVE  \A u \in Actors : at'[u] \in {"lineage", "current", "resolve"} => ResolutionReady(u)'
<1>0. /\ plan \in [Actors -> Jobs] /\ \A u \in Actors : Fits(plan[u], at[u])
      /\ HeldType /\ view \in [Actors -> Views] /\ resolved \in [Subjects -> SUBSET Value]
  BY DEF Typed, TypeOK, EvidenceTypeOK
<1>1. PICK step : Alone(t, step)
  BY StepTyped
<1>2. /\ plan' = plan
      /\ \A u \in Actors \ {t} : at'[u] = at[u] /\ held'[u] = held[u] /\ view'[u] = view[u]
  BY <1>1, ReadsChange DEF Alone
<1>3. HeldType' /\ \A u \in Actors : Fits(plan[u], at'[u])
  BY <1>2, StepTyped DEF Typed, TypeOK
<1>4. \A u \in Actors : plan[u].kind = "resolve" =>
        plan[u].on \in Subjects /\ plan[u].on[1] \in Rows
  BY <1>0, EvidenceFields, AccountsAssumption DEF Subjects, Records
<1>5. ASSUME NEW u \in Actors, u # t, at'[u] \in {"lineage", "current", "resolve"}
      PROVE  ResolutionReady(u)'
  <2>1. /\ at[u] = at'[u] /\ ResolutionReady(u)
        /\ plan[u].on \in Subjects /\ plan[u].on[1] \in Rows
    BY <1>0, <1>2, <1>4, <1>5 DEF Fits, ValuesInv
  <2>2. resolved'[plan[u].on] = resolved[plan[u].on]
    <3>1. CASE Resolve(t)
      <4>1. held[t][plan[t].on[1]] = Update /\ plan[t].on \in Subjects
        BY <1>0, <1>4, <3>1 DEF Resolve, Fits, ValuesInv, ResolutionReady
      <4>2. plan[t].on # plan[u].on
        BY <1>0, <1>5, <2>1, <4>1 DEF Compatible, ResolutionReady, Update
      <4>3. resolved' = resolved \/ \E S : resolved' = [resolved EXCEPT ![plan[t].on] = S]
        BY <3>1 DEF Resolve, Reject, evidence
      <4> QED BY <1>0, <2>1, <4>1, <4>2, <4>3
    <3> QED BY <3>1, EvidenceChange
  <2> QED BY <1>2, <1>5, <2>1, <2>2 DEF ResolutionReady, Current
<1>6. ASSUME at'[t] \in {"lineage", "current", "resolve"} PROVE ResolutionReady(t)'
  <2> DEFINE r == plan[t].on[1]
  <2>0. plan[t].on \in Subjects /\ r \in Rows
    BY <1>3, <1>4, <1>6 DEF Fits
  <2>1. held'[t][r] = Update
    <3>1. CASE at'[t] = "lineage"
      <4>1. LockAnd(t, r, Update, "lineage")
        BY <3>1, Enters DEF LockSubject, Await, SubjectMode
      <4> QED BY <1>0, <2>0, <4>1 DEF LockAnd, Lock, HeldType, Update
    <3>2. CASE at'[t] \in {"current", "resolve"}
      <4>1. ResolutionReady(t)
        BY <3>2, Enters DEF CheckLineage, ReadCurrent, ValuesInv
      <4>2. held'[t][r] >= held[t][r]
        BY <2>0, <3>2, LocksStep
      <4> QED BY <1>3, <2>0, <4>1, <4>2 DEF ResolutionReady, HeldType, Update
    <3> QED BY <1>6, <3>1, <3>2
  <2>2. ASSUME at'[t] = "resolve"
        PROVE  \/ resolved'[plan[t].on] = {}
               \/ \E c \in Current(plan[t].on)' : view'[t].last = c.from /\ c.from < view'[t].start
    <3> DEFINE start == IF plan[t].given = None THEN clock + 1 ELSE plan[t].given
               now   == Current(plan[t].on)
               last  == IF now = {} THEN None ELSE (CHOOSE v \in now : TRUE).from
    <3>1. /\ ReadCurrent(t) /\ \A v \in now : ~(start <= v.from)
          /\ view' = [view EXCEPT ![t] = [view[t] EXCEPT !.start = start, !.last = last]]
          /\ resolved' = resolved
      BY <2>2, Enters DEF ReadCurrent, Notes, Reject, End, Goto, Typed, TypeOK
    <3>2. view'[t].start = start /\ view'[t].last = last
      BY <1>0, <3>1 DEF Views
    <3>3. CASE resolved[plan[t].on] = {}
      BY <3>1, <3>3
    <3>4. CASE resolved[plan[t].on] # {}
      <4>1. PICK v \in resolved[plan[t].on] : v.to = None
        BY <2>0, <3>4 DEF ValuesInv, Chain
      <4>2. PICK c \in now : last = c.from
        BY <4>1 DEF Current
      <4>3. c.from \in Nat /\ start \in Nat
        <5>1. c \in Value /\ c.from \in Nat
          BY <1>0, <2>0, <4>2 DEF Current, Value
        <5>2. clock \in Nat /\ plan[t].given \in Nat \union {None}
          BY <1>0, <1>3, <2>2, EvidenceFields DEF Fits, Typed, TypeOK, RelationsTypeOK
        <5> QED BY <5>1, <5>2
      <4>4. c.from < start
        BY <3>1, <4>2, <4>3
      <4>5. c \in Current(plan[t].on)'
        BY <1>2, <3>1, <4>2 DEF Current
      <4> QED BY <3>2, <4>2, <4>4, <4>5
    <3> QED BY <3>3, <3>4
  <2> QED BY <1>2, <2>1, <2>2 DEF ResolutionReady
<1> QED BY <1>5, <1>6

(* The two together.                                                       *)
LEMMA ValuesInvStep ==
  ASSUME Typed, Compatible, ValuesInv, NEW t \in Actors, Step(t)
  PROVE  ValuesInv'
BY ValuesStep, ResolutionsStep DEF ValuesInv, Current

-----------------------------------------------------------------------------
(* The beginning, where nobody does anything yet, and the tables that were *)
(* found are consistent.                                                   *)
LEMMA InitKeeps == Init => HoldersInv /\ PeriodsInv /\ FactsInv /\ TasksInv /\ ValuesInv
<1> SUFFICES ASSUME Init PROVE HoldersInv /\ PeriodsInv /\ FactsInv /\ TasksInv /\ ValuesInv
  OBVIOUS
<1>1. PICK s \in Starts :
        /\ control = s.tables.control /\ links = s.tables.links
        /\ events = s.tables.claimed
        /\ claimed = s.tables.selfServed \union {c[1] : c \in s.tables.claimed}
        /\ level = [f \in Facts |-> IF f \in s.tables.said THEN 0 ELSE None]
        /\ resolved = [i \in Subjects |-> IF i \in s.tables.valued
                         THEN {[from |-> 1, to |-> None, by |-> None]} ELSE {}]
        /\ todo = s.tables.todo
        /\ period = s.tables.ties
  BY DEF Init
<1>2. s.tables \in Tables /\ Consistent(s.tables)
  BY <1>1, StartsAssumption
<1>3. at = [t \in Actors |-> "idle"] /\ confirmed = {} /\ completed = {}
  BY DEF Init
<1>4. HoldersInv
  <2>1. Compatible
    BY DEF Init, Unlocked, Compatible, Update
  <2>2. events \subseteq Records \X Accts
    BY <1>1, <1>2 DEF Tables
  <2>3. OneHolder
    <3>1. ASSUME NEW r \in Records \ Doubled, NEW a \in Holders(r), NEW b \in Holders(r) PROVE a = b
      <4>1. <<r, a>> \in s.tables.claimed /\ <<r, b>> \in s.tables.claimed
        BY <1>1, <3>1 DEF Holders
      <4> QED BY <1>2, <4>1 DEF Consistent
    <3>2. ASSUME NEW r \in Records, Holders(r) # {} PROVE r \in claimed
      <4>1. PICK a : <<r, a>> \in s.tables.claimed
        BY <1>1, <3>2 DEF Holders
      <4> QED BY <1>1, <4>1
    <3> QED BY <3>1, <3>2 DEF OneHolder
  <2>4. HoldersProved
    BY <1>1, <1>2 DEF HoldersProved, Consistent, Proved
  <2>5. OnePrimary
    BY <1>1, <1>2 DEF OnePrimary, Consistent, Primaries
  <2> QED BY <1>3, <2>1, <2>3, <2>4, <2>5 DEF HoldersInv
<1>5. PeriodsInv
  BY <1>1, <1>2, <1>3 DEF PeriodsInv, PeriodsApart, Consistent
<1>6. FactsInv
  BY <1>1, <1>3 DEF FactsInv, LevelIsStrongest
<1>7. TasksInv
  <2>1. \A k \in Tasks : todo[k] # "DONE"
    BY <1>1, <1>2 DEF Tables
  <2> QED BY <1>3, <2>1 DEF TasksInv, CompletedOnce, CitedUnchanged
<1>8. ValuesInv
  <2>1. ASSUME NEW i \in Subjects
        PROVE  Chain(resolved[i]) /\ \A v \in Current(i) : projected[i] = v.by
    <3>1. Chain({}) /\ Chain({[from |-> 1, to |-> None, by |-> None]})
      BY DEF Chain
    <3>2. projected[i] = None
      BY DEF Init
    <3>3. \A v \in resolved[i] : v.by = None
      BY <1>1
    <3> QED BY <1>1, <3>1, <3>2, <3>3 DEF Current
  <2> QED BY <1>3, <2>1 DEF ValuesInv
<1> QED BY <1>4, <1>5, <1>6, <1>7, <1>8

(* A step of nothing keeps all of it.                                      *)
LEMMA IdleKeeps ==
  ASSUME HoldersInv, PeriodsInv, FactsInv, TasksInv, ValuesInv, UNCHANGED vars
  PROVE  (HoldersInv /\ PeriodsInv /\ FactsInv /\ TasksInv /\ ValuesInv)'
<1> USE DEF vars, txn, registry, relations, evidence
<1>1. HoldersInv'
  BY DEF HoldersInv, Compatible, OneHolder, HoldersProved, OnePrimary, ClaimReady, Evident,
         PhoneReady, Holders, Primaries
<1>2. PeriodsInv'
  BY DEF PeriodsInv, PeriodsApart, PartReady, Ending
<1>3. FactsInv'
  BY DEF FactsInv, LevelIsStrongest
<1>4. TasksInv'
  BY DEF TasksInv, CompletedOnce, CitedUnchanged, CompletionReady
<1>5. ValuesInv'
  BY DEF ValuesInv, ResolutionReady, Current
<1> QED BY <1>1, <1>2, <1>3, <1>4, <1>5

-----------------------------------------------------------------------------
(* The contract.  What starts has been judged, and what was judged keeps to*)
(* the package.                                                            *)
LEMMA OneOperation ==
  ASSUME NEW name \in DOMAIN Documents, NEW doc, doc = Documents[name], AddendaStand(doc),
         NEW o \in Declared(doc)
  PROVE  /\ \A p \in Declared(doc) : p.id = o.id => p = o
         /\ o \in doc.frozen => Named(doc, o.id) = o
         /\ o \in Added(doc) => o.id \notin IdsOf(doc.frozen)
<1>1. \A p, q \in doc.frozen : p.id = q.id => p = q
  BY DocumentsAssumption
<1>2. \A p, q \in Added(doc) : p.id = q.id => p = q
  BY DEF AddendaStand, Distinct, IdOf
<1>3. \A p \in Added(doc), q \in doc.frozen : p.id # q.id
  BY DEF AddendaStand, IdsOf
<1> QED BY <1>1, <1>2, <1>3 DEF Declared, Named, IdsOf

(* An operation is open to what its declaration names, or less.            *)
LEMMA RolesKept ==
  ASSUME NEW name \in DOMAIN Documents, NEW doc, doc = Documents[name], Deployable(doc),
         NEW o \in Declared(doc)
  PROVE  LET given == PolicyTable(doc)[o.id].roles
         IN \/ o.open /\ given = {}
            \/ o.roles = {} /\ given = RoleExceptions[o.id]
            \/ ~o.open /\ given # {} /\ given \subseteq o.roles /\ (o \in Added(doc) => given = o.roles)
<1>1. AddendaStand(doc) /\ Founded(doc) /\ CorrectionsLoad(doc) /\ Ruled(o)
  BY DEF Deployable, Founded
<1>2. PolicyTable(doc)[o.id].roles = RolesOf(doc, o)
  <2>1. o.id \in IdsOf(Declared(doc)) /\ (CHOOSE p \in Declared(doc) : p.id = o.id) = o
    BY <1>1, OneOperation DEF IdsOf
  <2> QED BY <2>1 DEF PolicyTable
<1>3. CASE o.open
  BY <1>2, <1>3 DEF RolesOf
<1>4. CASE ~o.open /\ o.roles = {}
  BY <1>2, <1>4 DEF RolesOf
<1>5. CASE ~o.open /\ o.roles # {}
  <2>1. PolicyTable(doc)[o.id].roles = CorrectedRoles(doc, o)
    BY <1>2, <1>5 DEF RolesOf
  <2>2. CASE \E c \in doc.corrections : c.of = o.id
    <3>1. PICK c \in doc.corrections : c.of = o.id /\ CorrectedRoles(doc, o) = c.corrected
      BY <2>2 DEF CorrectedRoles
    <3>2. c.corrected # {} /\ c.corrected \subseteq c.frozen /\ StillDescribes(doc, c)
      BY <1>1 DEF CorrectionsLoad, Narrows, Founded
    <3>3. o \in doc.frozen /\ o \notin Added(doc)
      BY <3>1, <3>2 DEF StillDescribes, Declared, IdsOf
    <3>4. Named(doc, c.of) = o
      BY <1>1, <3>1, <3>3, OneOperation
    <3> QED BY <1>5, <2>1, <3>1, <3>2, <3>3, <3>4 DEF StillDescribes
  <2>3. CASE ~\E c \in doc.corrections : c.of = o.id
    BY <1>5, <2>1, <2>3 DEF CorrectedRoles
  <2> QED BY <2>2, <2>3
<1> QED BY <1>3, <1>4, <1>5

(* A narrowed body admits less, and reads what it admits as before.        *)
LEMMA NarrowedAdmits ==
  ASSUME NEW n, NEW schema,
         n.require \subseteq DOMAIN schema.fields,
         \A f \in n.nonNull : f \in DOMAIN schema.fields /\ NonNullAllowed(schema.fields[f]),
         \A f \in DOMAIN n.enum : f \in DOMAIN schema.fields
                                    /\ EnumAllowed(schema.fields[f], n.enum[f]),
         NEW request \in Submissions(schema), Admits(Narrowed(n, schema), request)
  PROVE  /\ Admits(schema, request)
         /\ Meaning(Narrowed(n, schema), request) = Meaning(schema, request)
         /\ \A f \in n.nonNull : request[f] # "null"
<1> DEFINE tight == Narrowed(n, schema)
<1>1. /\ tight.required = schema.required \union n.require
      /\ tight.allOf = schema.allOf \union n.allOf
      /\ DOMAIN tight.fields = DOMAIN schema.fields
      /\ DOMAIN request = DOMAIN schema.fields
  BY DEF Narrowed, Submissions
<1>2. \A f \in DOMAIN schema.fields :
        /\ tight.fields[f].values = IF f \in DOMAIN n.enum THEN n.enum[f] ELSE schema.fields[f].values
        /\ tight.fields[f].default = IF f \in n.require THEN None ELSE schema.fields[f].default
        /\ tight.fields[f].null = IF \/ f \in DOMAIN n.enum
                                     \/ f \in n.nonNull /\ schema.fields[f].null # "elsewhere"
                                  THEN "no" ELSE schema.fields[f].null
  BY DEF Narrowed
<1> HIDE DEF tight
<1>3. /\ \A f \in DOMAIN tight.fields :
           /\ request[f] = "absent" => f \notin tight.required
           /\ request[f] = "null" => tight.fields[f].null # "no"
           /\ request[f] \notin {"absent", "null"} => request[f] \in tight.fields[f].values
      /\ \A b \in tight.allOf : request[b.field] = b.value => request[b.needs] # "absent"
  BY DEF Admits, tight
<1>4. Admits(schema, request)
  <2>1. ASSUME NEW f \in DOMAIN schema.fields
        PROVE  /\ request[f] = "absent" => f \notin schema.required
               /\ request[f] = "null" => schema.fields[f].null # "no"
               /\ request[f] \notin {"absent", "null"} => request[f] \in schema.fields[f].values
    BY <1>1, <1>2, <1>3 DEF EnumAllowed
  <2> QED BY <1>1, <1>3, <2>1 DEF Admits
<1>5. Meaning(tight, request) = Meaning(schema, request)
  <2>1. ASSUME NEW f \in DOMAIN request, request[f] = "absent"
        PROVE  tight.fields[f].default = schema.fields[f].default
    BY <1>1, <1>2, <1>3, <2>1
  <2> QED BY <2>1 DEF Meaning
<1>6. \A f \in n.nonNull : request[f] # "null"
  BY <1>1, <1>2, <1>3 DEF NonNullAllowed
<1> QED BY <1>4, <1>5, <1>6 DEF tight

(* And so it is for the effective body of each operation.                  *)
LEMMA BodiesKept ==
  ASSUME NEW name \in DOMAIN Documents, NEW doc, doc = Documents[name], Deployable(doc),
         NEW o \in doc.frozen, NEW request \in Submissions(BodyOf(doc, o)),
         Admits(EffectiveBody(doc, o), request)
  PROVE  /\ Admits(BodyOf(doc, o), request)
         /\ Meaning(EffectiveBody(doc, o), request) = Meaning(BodyOf(doc, o), request)
         /\ \A n \in doc.narrowings : n.of = o.id => \A f \in n.nonNull : request[f] # "null"
<1>1. AddendaStand(doc) /\ NarrowingsLoad(doc) /\ o \in Declared(doc)
  BY DEF Deployable, Founded, Declared
<1>2. CASE \E n \in doc.narrowings : n.of = o.id
  <2>1. PICK n \in doc.narrowings : /\ n.of = o.id
                                    /\ EffectiveBody(doc, o) = Narrowed(n, BodyOf(doc, o))
    BY <1>2 DEF EffectiveBody
  <2>2. \A m \in doc.narrowings : m.of = o.id => m = n
    BY <1>1, <2>1 DEF NarrowingsLoad, Distinct, OfOf
  <2>3. Named(doc, n.of) = o
    BY <1>1, <2>1, OneOperation
  <2>4. LET schema == BodyOf(doc, o)
        IN /\ n.require \subseteq DOMAIN schema.fields
           /\ n.nonNull \subseteq DOMAIN schema.fields
           /\ \A f \in n.nonNull : NonNullAllowed(schema.fields[f])
           /\ DOMAIN n.enum \subseteq DOMAIN schema.fields
           /\ \A f \in DOMAIN n.enum : EnumAllowed(schema.fields[f], n.enum[f])
    BY <1>1, <2>3 DEF NarrowingsLoad
  <2>5. /\ Admits(BodyOf(doc, o), request)
        /\ Meaning(EffectiveBody(doc, o), request) = Meaning(BodyOf(doc, o), request)
        /\ \A f \in n.nonNull : request[f] # "null"
    BY <2>1, <2>4, NarrowedAdmits
  <2> QED BY <2>2, <2>5
<1>3. CASE ~\E n \in doc.narrowings : n.of = o.id
  BY <1>3 DEF EffectiveBody
<1> QED BY <1>2, <1>3

(* The contract of a process that started is one that keeps.               *)
LEMMA StartedIsKept == Typed => ContractKept
<1> SUFFICES ASSUME Typed PROVE ContractKept
  OBVIOUS
<1>1. PICK p \in Policies : contract = p.of
  BY DEF Typed, TypeOK
<1>2. p.of \in DOMAIN Documents /\ Deployable(Documents[p.of])
  BY DEF Policies
<1>3. Keeps(Documents[p.of])
  <2> DEFINE doc == Documents[p.of]
  <2>1. \A o \in Declared(doc) :
          LET given == PolicyTable(doc)[o.id].roles
          IN \/ o.open /\ given = {}
             \/ o.roles = {} /\ given = RoleExceptions[o.id]
             \/ ~o.open /\ given # {} /\ given \subseteq o.roles
                  /\ (o \in Added(doc) => given = o.roles)
    BY <1>2, RolesKept
  <2>2. \A o \in doc.frozen : \A request \in Submissions(BodyOf(doc, o)) :
          Admits(EffectiveBody(doc, o), request) =>
            /\ Admits(BodyOf(doc, o), request)
            /\ Meaning(EffectiveBody(doc, o), request) = Meaning(BodyOf(doc, o), request)
            /\ \A n \in doc.narrowings : n.of = o.id => \A f \in n.nonNull : request[f] # "null"
    BY <1>2, BodiesKept
  <2> QED BY <2>1, <2>2 DEF Keeps
<1> QED BY <1>1, <1>3 DEF ContractKept, Kept

-----------------------------------------------------------------------------
(* All of it at once: one holder of a record, who has proved it; one       *)
(* primary phone; relations apart; values chained; levels the strongest;   *)
(* tasks completed once, on evidence that stays; and a contract that keeps *)
(* to the package.                                                         *)
THEOREM RegistrySafe == Spec => []IInv
<1> DEFINE AllKept == HoldersInv /\ PeriodsInv /\ FactsInv /\ TasksInv /\ ValuesInv
<1>1. Typed /\ AllKept /\ [Next]_vars => AllKept'
  <2> SUFFICES ASSUME Typed, AllKept, [Next]_vars PROVE AllKept'
    OBVIOUS
  <2>1. ASSUME NEW t \in Actors, Step(t) PROVE AllKept'
    <3>1. Compatible
      BY DEF HoldersInv
    <3> QED BY <2>1, <3>1, HoldersInvStep, PeriodsInvStep, FactsInvStep, TasksInvStep, ValuesInvStep
  <2>2. CASE UNCHANGED vars
    BY <2>2, IdleKeeps
  <2> QED BY <2>1, <2>2 DEF Next, Over
<1>2. Typed /\ AllKept => IInv
  BY ValuesAreChained, StartedIsKept
  DEF Typed, HoldersInv, PeriodsInv, FactsInv, TasksInv, IInv
<1>3. Init => AllKept
  BY InitKeeps
<1> HIDE DEF AllKept
<1> QED BY TypeCorrect, <1>1, <1>2, <1>3, PTL DEF Spec

-----------------------------------------------------------------------------
(* A resolution that gives no time starts after every value there is, as no*)
(* value starts in the future.                                             *)
TimesInv ==
  /\ \A s \in Subjects : \A v \in resolved[s] : v.from <= clock
  /\ \A t \in Actors : at[t] = "current" /\ plan[t].given # None => plan[t].given <= clock
  /\ \A t \in Actors : at[t] = "resolve" => view[t].start <= clock

(* The clock goes on, or stands still.                                     *)
LEMMA ClockStep ==
  ASSUME Typed, NEW t \in Actors, Step(t)
  PROVE  clock' \in Nat /\ clock <= clock'
<1>0. clock \in Nat /\ clock' \in Nat
  BY StepTyped DEF Typed, TypeOK, RelationsTypeOK
<1>1. CASE EvidenceStep(t)
  <2> USE DEF Reject, Await, evidence, values
  <2>1. CASE GrantConsent(t) \/ ReadGrant(t) \/ Revoke(t) \/ CheckBinding(t) \/ Bind(t)
    BY <1>0, <2>1 DEF GrantConsent, ReadGrant, Revoke, CheckBinding, Bind
  <2>2. CASE Observe(t) \/ CheckFact(t) \/ AssertFact(t) \/ LockFact(t) \/ Verify(t)
    BY <1>0, <2>2 DEF Observe, CheckFact, AssertFact, LockFact, Verify
  <2>3. CASE LockSubject(t) \/ CheckLineage(t) \/ Resolve(t)
    BY <1>0, <2>3 DEF LockSubject, CheckLineage, Resolve
  <2>4. CASE ReadCurrent(t)
    BY <1>0, <2>4 DEF ReadCurrent
  <2>5. CASE LockTask(t) \/ LockEvidence(t) \/ CompleteTask(t) \/ Amend(t)
    BY <1>0, <2>5 DEF LockTask, LockEvidence, CompleteTask, Amend
  <2> QED BY <1>1, <2>1, <2>2, <2>3, <2>4, <2>5 DEF EvidenceStep
<1>2. CASE RelationStep(t)
  BY <1>0, <1>2 DEF RelationStep, BeginAt, CheckTie, Relate, LockTie, Part, Declined
<1>3. CASE ~EvidenceStep(t) /\ ~RelationStep(t)
  BY <1>0, <1>3 DEF Step, Authorise, Fail, evidence
<1> QED BY <1>1, <1>2, <1>3

(* The time of a resolution is never past the clock it read.               *)
LEMMA TimesInvStep ==
  ASSUME Typed, TimesInv, NEW t \in Actors, Step(t)
  PROVE  TimesInv'
<1>0. /\ plan \in [Actors -> Jobs] /\ \A u \in Actors : Fits(plan[u], at[u])
      /\ view \in [Actors -> Views] /\ resolved \in [Subjects -> SUBSET Value]
      /\ clock \in Nat /\ clock' \in Nat /\ clock <= clock'
  BY ClockStep DEF Typed, TypeOK, EvidenceTypeOK, RelationsTypeOK
<1>1. PICK step : Alone(t, step)
  BY StepTyped
<1>2. plan' = plan /\ \A u \in Actors \ {t} : at'[u] = at[u] /\ view'[u] = view[u]
  BY <1>1, ReadsChange DEF Alone
<1>3. ASSUME NEW s \in Subjects, NEW v \in resolved'[s] PROVE v.from <= clock'
  <2>1. CASE Resolve(t) /\ resolved' # resolved
    <3> DEFINE on   == plan[t].on
               kept == {[v_ EXCEPT !.to = IF v_.from = view[t].last THEN view[t].start ELSE @] :
                          v_ \in resolved[on]}
               mine == [from |-> view[t].start, to |-> None, by |-> t]
    <3>1. /\ on \in Subjects /\ view[t].start <= clock /\ view[t].start \in Nat
          /\ resolved' = [resolved EXCEPT ![on] = kept \union {mine}]
      BY <1>0, <2>1, EvidenceFields DEF Resolve, Fits, TimesInv, Reject, evidence, Views
    <3>2. ASSUME NEW d \in kept PROVE d.from \in Nat /\ d.from <= clock
      <4>1. PICK w \in resolved[on] :
              d = [w EXCEPT !.to = IF w.from = view[t].last THEN view[t].start ELSE @]
        OBVIOUS
      <4>2. w \in Value /\ w.from <= clock
        BY <1>0, <3>1 DEF TimesInv
      <4> QED BY <4>1, <4>2 DEF Value
    <3>3. CASE s = on
      <4>1. v \in kept \/ v = mine
        BY <1>0, <3>1, <3>3
      <4>2. v.from \in Nat /\ v.from <= clock
        BY <3>1, <3>2, <4>1
      <4> QED BY <1>0, <4>2
    <3>4. CASE s # on
      <4>1. v \in resolved[s] /\ v \in Value
        BY <1>0, <1>3, <3>1, <3>4
      <4> QED BY <1>0, <4>1 DEF TimesInv, Value
    <3> QED BY <3>3, <3>4
  <2>2. CASE resolved' = resolved
    <3>1. v \in resolved[s] /\ v \in Value
      BY <1>0, <2>2
    <3> QED BY <1>0, <3>1 DEF TimesInv, Value
  <2> QED BY <2>1, <2>2, EvidenceChange
<1>4. ASSUME NEW u \in Actors, at'[u] = "current", plan[u].given # None PROVE plan[u].given <= clock'
  <2>1. plan[u].given \in Nat
    <3>1. Fits(plan[u], at'[u])
      BY <1>2, StepTyped DEF Typed
    <3> QED BY <1>0, <1>4, <3>1, EvidenceFields DEF Fits
  <2>2. plan[u].given <= clock
    <3>1. CASE u # t
      BY <1>2, <1>4, <3>1 DEF TimesInv
    <3>2. CASE u = t
      <4>1. CheckLineage(t)
        BY <1>4, <3>2, Enters
      <4> QED BY <1>0, <1>4, <2>1, <3>2, <4>1 DEF CheckLineage, Reject, End, Goto, Typed, TypeOK
    <3> QED BY <3>1, <3>2
  <2> QED BY <1>0, <2>1, <2>2
<1>5. ASSUME NEW u \in Actors, at'[u] = "resolve" PROVE view'[u].start <= clock'
  <2>1. CASE u # t
    <3>1. view'[u].start <= clock /\ view'[u].start \in Nat
      BY <1>0, <1>2, <1>5, <2>1 DEF TimesInv, Views
    <3> QED BY <1>0, <3>1
  <2>2. CASE u = t
    <3> DEFINE start == IF plan[t].given = None THEN clock + 1 ELSE plan[t].given
    <3>1. ReadCurrent(t) /\ at[t] = "current" /\ Fits(plan[t], at[t])
      BY <1>0, <1>5, <2>2, Enters DEF ReadCurrent
    <3>2. /\ \E last : view' = [view EXCEPT ![t] = [view[t] EXCEPT !.start = start, !.last = last]]
          /\ clock' = IF plan[t].given = None THEN start ELSE clock
      BY <1>5, <2>2, <3>1 DEF ReadCurrent, Notes, Reject, End, Goto, Typed, TypeOK
    <3>3. view'[t].start = start
      BY <1>0, <3>2 DEF Views
    <3>4. start \in Nat /\ start <= clock'
      BY <1>0, <3>1, <3>2, EvidenceFields DEF TimesInv, Fits
    <3> QED BY <2>2, <3>3, <3>4
  <2> QED BY <2>1, <2>2
<1> QED BY <1>2, <1>3, <1>4, <1>5 DEF TimesInv

(* A resolution is authorised, locks, checks, reads and writes, or fails.  *)
LEMMA ResolveCalls ==
  ASSUME Typed, NEW t \in Actors, Step(t), plan[t].kind = "resolve"
  PROVE  \/ Authorise(t) \/ LockSubject(t) \/ CheckLineage(t) \/ ReadCurrent(t) \/ Resolve(t)
         \/ Fail(t)
<1>0. Fits(plan[t], at[t])
  BY DEF Typed
<1>1. CASE AccountsStep(t)
  BY <1>0, <1>1
  DEF Fits, AccountsStep, StartVerification, CheckCode, MarkControl, Activate, Suspend, ReadRoles,
      InsertRole, ReadContact, CreateContact, ClearPrimaries, LinkPhone, LockRecord, Claim, Act, Alias
<1>2. CASE RelationStep(t)
  BY <1>0, <1>2 DEF Fits, RelationStep, BeginAt, CheckTie, Relate, LockTie, Part
<1>3. CASE EvidenceStep(t)
  BY <1>0, <1>3
  DEF Fits, EvidenceStep, GrantConsent, ReadGrant, Revoke, CheckBinding, Bind, Observe, CheckFact,
      AssertFact, LockFact, Verify, LockTask, LockEvidence, CompleteTask, Amend
<1>4. CASE DisclosureStep(t)
  BY <1>0, <1>4
  DEF Fits, DisclosureStep, ReadMyParty, Canonical, GuardContest, LoadRow, LoadOpportunity,
      RenderOpportunity, StaffRow, InternalOpportunity, StoredMatch, LatestDiagnostic, ReadList,
      ListPublic, Capture, RefuseConversion, Change,
      MovesOffer, ConfirmsAvailability, PatchesArea, SharesIt
<1> QED BY <1>1, <1>2, <1>3, <1>4 DEF Step

(* None of its statements refuses one that gives no time.                  *)
LEMMA ResolutionStep ==
  ASSUME Typed, ValuesInv, TimesInv, NEW u \in Actors, Step(u), NEW t \in Actors,
         plan[t].kind = "resolve", plan[t].given = None,
         plan[t].on \in Vocabulary, canonical[plan[t].on[1]] = plan[t].on[1],
         plan[t].fact # None => level[plan[t].fact] # None /\ FactOn[plan[t].fact] = plan[t].on,
         answer[t] = "none"
  PROVE  answer'[t] \in {"none", "unauthenticated", "denied", "written", "error"}
<1>0. /\ answer \in [Actors -> Answers] /\ view[t] \in Views /\ clock \in Nat
      /\ plan[t].on \in Subjects /\ resolved \in [Subjects -> SUBSET Value]
  BY EvidenceFields DEF Typed, TypeOK, EvidenceTypeOK, RelationsTypeOK
<1>1. CASE u # t
  BY <1>0, <1>1, StepTyped DEF Alone
<1>2. CASE u = t /\ Authorise(t)
  <2>1. Verdict(t)[1] \in {"unauthenticated", "denied", "none"}
    BY <1>2 DEF Verdict, Own, InContest
  <2> QED BY <1>0, <1>2, <2>1 DEF Authorise, Continue, End
<1>3. CASE u = t /\ LockSubject(t)
  BY <1>0, <1>3 DEF LockSubject, Await, LockAnd
<1>4. CASE u = t /\ CheckLineage(t)
  BY <1>0, <1>4 DEF CheckLineage, Await, LockAnd, Continue
<1>5. CASE u = t /\ ReadCurrent(t)
  <2>1. \A v \in Current(plan[t].on) : ~(clock + 1 <= v.from)
    <3> SUFFICES ASSUME NEW v \in resolved[plan[t].on] PROVE ~(clock + 1 <= v.from)
      BY DEF Current
    <3>1. v.from \in Nat /\ v.from <= clock
      BY <1>0 DEF TimesInv, Value
    <3> QED BY <1>0, <3>1
  <2> QED BY <1>0, <1>5, <2>1 DEF ReadCurrent, Continue
<1>6. CASE u = t /\ Resolve(t)
  <2> DEFINE S    == resolved[plan[t].on]
             kept == {[v EXCEPT !.to = IF v.from = view[t].last THEN view[t].start ELSE @] : v \in S}
  <2>1. \A v \in kept : v.to # None
    <3>1. CASE S = {}
      BY <3>1
    <3>2. CASE S # {}
      <4>1. ResolutionReady(t) /\ at[t] = "resolve"
        BY <1>6 DEF Resolve, ValuesInv
      <4>2. PICK c \in S : c.to = None /\ view[t].last = c.from /\ c.from < view[t].start
        BY <3>2, <4>1 DEF ResolutionReady, Current
      <4>3. S \in SUBSET Value /\ Chain(S) /\ view[t].start \in Nat
        BY <1>0 DEF ValuesInv, Views
      <4>4. /\ \A d \in kept : \E v \in S : d = Shut(v, c.from, view[t].start)
            /\ \A v \in S : Shut(v, c.from, view[t].start) \in kept
        BY <4>2 DEF Shut
      <4> HIDE DEF kept, S
      <4> QED BY <4>2, <4>3, <4>4, Closed
    <3> QED BY <3>1, <3>2
  <2>2. End(t, "written")
    BY <1>6, <2>1 DEF Resolve
  <2> QED BY <1>0, <2>2 DEF End
<1>7. CASE u = t /\ Fail(t)
  BY <1>0, <1>7 DEF Fail, End
<1> QED BY <1>1, <1>2, <1>3, <1>4, <1>5, <1>6, <1>7, ResolveCalls

(* "Two concurrent resolutions of one attribute both succeed": one that    *)
(* gives no time, of a fact of its own subject, is never refused.          *)
THEOREM ResolutionsAllSucceed == Spec => ResolutionsSucceed
<1>1. Init => ValuesInv /\ TimesInv /\ Compatible
  <2>1. ASSUME Init PROVE TimesInv
    <3>1. PICK s \in Starts :
            resolved = [i \in Subjects |-> IF i \in s.tables.valued
                          THEN {[from |-> 1, to |-> None, by |-> None]} ELSE {}]
      BY <2>1 DEF Init
    <3>2. clock = 2 /\ at = [t \in Actors |-> "idle"]
      BY <2>1 DEF Init
    <3> QED BY <3>1, <3>2 DEF TimesInv
  <2> QED BY <2>1, InitKeeps DEF HoldersInv
<1>2. Typed /\ ValuesInv /\ TimesInv /\ Compatible /\ [Next]_vars
        => (ValuesInv /\ TimesInv /\ Compatible)'
  <2>1. ValuesInv /\ TimesInv /\ Compatible /\ UNCHANGED vars => (ValuesInv /\ TimesInv /\ Compatible)'
    BY DEF ValuesInv, ResolutionReady, Current, TimesInv, Compatible, vars, txn, evidence
  <2> QED BY <2>1, ValuesInvStep, TimesInvStep, LocksStep DEF Next, Over
<1>3. Typed /\ ValuesInv /\ TimesInv /\ [Next]_vars =>
        [\A t \in Actors :
           /\ plan[t].kind = "resolve" /\ plan[t].given = None
           /\ plan[t].on \in Vocabulary /\ canonical[plan[t].on[1]] = plan[t].on[1]
           /\ plan[t].fact # None => level[plan[t].fact] # None /\ FactOn[plan[t].fact] = plan[t].on
           /\ answer[t] = "none"
           => answer'[t] \in {"none", "unauthenticated", "denied", "written", "error"}]_vars
  BY ResolutionStep DEF Next, Over
<1> QED BY TypeCorrect, <1>1, <1>2, <1>3, PTL DEF Spec, ResolutionsSucceed

-----------------------------------------------------------------------------
(* What the reads disclose, and what is recorded of them.                  *)

(* A call that has not ended shows nothing.  What it has recorded and read *)
(* so far depends on where it stands.                                      *)
Pending(t) ==
  /\ at[t] # "done" => sight[t] = {} /\ answer[t] = "none"
  /\ at[t] \notin {"render", "diagnostic", "done"} => trail[t] = <<>>
  /\ at[t] = "diagnostic" => trail[t] = <<"READ">>
  /\ at[t] = "render" =>
       trail[t] = ReadRecord(t) /\ LoadsOpportunity(plan[t].account, plan[t].of)
  /\ at[t] \notin {"contest", "row", "staffRow", "diagnostic", "done"} => target[t] = None
  /\ plan[t].kind \in {"me", "myParty"} /\ at[t] \notin {"idle", "done"} => saw[t].roles # {}

(* What DisclosedByRight says of one call that has ended.                  *)
Disclosed(t) ==
  /\ plan[t].kind = "me" /\ answer[t] = "shown" => EntitledTo(plan[t].account, Subject(t))
  /\ plan[t].kind = "me" /\ answer[t] = "contested" =>
       <<Subject(t), plan[t].account>> \in events \/ saw[t].roles # {"CUSTOMER"}
  /\ plan[t].kind \in {"me", "myParty", "public"} => \A x \in sight[t] : x[2] \notin Floor
  /\ sight[t] # {} => answer[t] = "shown"
  /\ plan[t].kind = "me" => \A x \in sight[t] : x[2] = "entry" =>
       <<OpportunityOn[x[1]][2], "area", x[3]>> \in sight[t]
  /\ plan[t].kind = "public" => \A x \in sight[t] :
       /\ x[1] \in Properties => \E y \in sight[t] : y[1] \in Offers /\ OfferOn[y[1]] = x[1]
       /\ x[2] = "price" => x[1] \in PublicPrice
  /\ trail[t] \in Recording(t)

DisclosedInv == \A t \in Actors : Pending(t) /\ (at[t] = "done" => Disclosed(t))

LEMMA DisclosedEach == Typed /\ DisclosedInv => DisclosedByRight
<1> SUFFICES ASSUME DisclosedInv PROVE DisclosedByRight
  OBVIOUS
<1>1. \A t \in Actors : at[t] # "done" => sight[t] = {} /\ answer[t] = "none"
  BY DEF DisclosedInv, Pending
<1>2. ShownByRight
  BY <1>1 DEF DisclosedInv, Disclosed, ShownByRight
<1>3. EntriesAgree
  BY <1>1 DEF DisclosedInv, Disclosed, EntriesAgree
<1>4. ListedWithOffer
  BY <1>1 DEF DisclosedInv, Disclosed, ListedWithOffer
<1>5. AnswersRecorded
  BY DEF DisclosedInv, Disclosed, AnswersRecorded
<1> QED BY <1>2, <1>3, <1>4, <1>5 DEF DisclosedByRight

(* A step leaves what the other calls show and recorded as it is, and what *)
(* an account is entitled to only grows.                                   *)
LEMMA DisclosureFrame ==
  ASSUME Typed, NEW t \in Actors, Step(t)
  PROVE  /\ \A u \in Actors \ {t} :
              /\ sight'[u] = sight[u] /\ trail'[u] = trail[u] /\ target'[u] = target[u]
              /\ saw'[u] = saw[u]
         /\ events \subseteq events' /\ claimed \subseteq claimed' /\ shared \subseteq shared'
<1>0. /\ sight \in [Actors -> SUBSET Shown] /\ trail \in [Actors -> Seq(Recorded)]
      /\ target \in [Actors -> Properties \union {None}]
  BY DEF Typed, TypeOK, DisclosureTypeOK
<1>1. \A u \in Actors \ {t} : saw'[u] = saw[u]
  BY ReadsChange
<1>2. events \subseteq events' /\ claimed \subseteq claimed'
  BY AccountsChange DEF Claim
<1>3. \A u \in Actors \ {t} : sight'[u] = sight[u] /\ trail'[u] = trail[u] /\ target'[u] = target[u]
  <2>1. CASE DisclosureStep(t)
    BY <1>0, <2>1
    DEF DisclosureStep, ReadMyParty, Canonical, GuardContest, LoadRow, LoadOpportunity,
        RenderOpportunity, StaffRow, InternalOpportunity, StoredMatch, LatestDiagnostic, ReadList,
        ListPublic, Capture, RefuseConversion, Change,
        MovesOffer, ConfirmsAvailability, PatchesArea, SharesIt, Reply, Conceal, Proceed, Emit, disclosure
  <2>2. CASE ~DisclosureStep(t)
    BY <1>0, <2>2 DEF Step, Authorise, Fail, Emit, disclosure
  <2> QED BY <2>1, <2>2
<1>4. shared \subseteq shared'
  <2>1. CASE DisclosureStep(t)
    BY <2>1
    DEF DisclosureStep, ReadMyParty, Canonical, GuardContest, LoadRow, LoadOpportunity,
        RenderOpportunity, StaffRow, InternalOpportunity, StoredMatch, LatestDiagnostic, ReadList,
        ListPublic, Capture, RefuseConversion, Change,
        MovesOffer, ConfirmsAvailability, PatchesArea, SharesIt, Reply, Conceal, Proceed, disclosure, things
  <2>2. CASE ~DisclosureStep(t)
    BY <2>2 DEF Step, Authorise, Fail, disclosure, things
  <2> QED BY <2>1, <2>2
<1> QED BY <1>1, <1>2, <1>3, <1>4

(* So a call keeps what holds of it while others take steps.               *)
LEMMA DisclosedOthers ==
  ASSUME Typed, DisclosedInv, NEW t \in Actors, Step(t), NEW u \in Actors \ {t}
  PROVE  (Pending(u) /\ (at[u] = "done" => Disclosed(u)))'
<1>0. /\ sight'[u] = sight[u] /\ trail'[u] = trail[u] /\ target'[u] = target[u]
      /\ saw'[u] = saw[u]
      /\ events \subseteq events' /\ claimed \subseteq claimed' /\ shared \subseteq shared'
  BY DisclosureFrame
<1>1. plan' = plan /\ at'[u] = at[u] /\ answer'[u] = answer[u]
  BY StepTyped DEF Alone
<1>2. Pending(u) /\ (at[u] = "done" => Disclosed(u))
  BY DEF DisclosedInv
<1>3. Subject(u)' = Subject(u) /\ ReadRecord(u)' = ReadRecord(u) /\ Recording(u)' = Recording(u)
  BY <1>0, <1>1 DEF Subject, ReadRecord, Recording
<1>4. Pending(u)'
  BY <1>0, <1>1, <1>2, <1>3 DEF Pending, LoadsOpportunity
<1>5. ASSUME Disclosed(u) PROVE Disclosed(u)'
  <2>1. EntitledTo(plan[u].account, Subject(u)) => EntitledTo(plan[u].account, Subject(u))'
    BY <1>0, <1>1, <1>3 DEF EntitledTo
  <2> QED BY <1>0, <1>1, <1>3, <1>5, <2>1 DEF Disclosed
<1> QED BY <1>1, <1>2, <1>4, <1>5

-----------------------------------------------------------------------------
(* A command that is not a read shows nothing and answers for itself.      *)
Answered == {"none", "written", "replayed", "unknown", "refused", "index", "error"}
Reads    == {"me", "myParty", "public"}

LEMMA CommandAnswers ==
  ASSUME Typed, NEW t \in Actors, answer[t] = "none",
         AccountsStep(t) \/ RelationStep(t) \/ EvidenceStep(t)
  PROVE  /\ answer'[t] \in Answered /\ (at'[t] # "done" => answer'[t] = "none")
         /\ at'[t] \notin {"contest", "row", "staffRow", "diagnostic", "render"}
         /\ at[t] \notin {"contest", "row", "staffRow", "diagnostic", "render", "done"}
         /\ plan[t].kind \notin Reads
<1>0. /\ at \in [Actors -> Steps] /\ answer \in [Actors -> Answers] /\ plan[t] \in Jobs
      /\ Fits(plan[t], at[t])
  BY DEF Typed, TypeOK
<1> USE DEF Continue, Goto, End, LockAnd, Answered, Reads, Fits
<1>1. CASE AccountsStep(t)
  BY <1>0, <1>1
  DEF AccountsStep, StartVerification, CheckCode, MarkControl, Activate, Suspend, ReadRoles, Refuse,
      InsertRole, ReadContact, CreateContact, ClearPrimaries, LinkPhone, LockRecord, Claim, Act, Alias,
      Outcome
<1>2. CASE EvidenceStep(t)
  BY <1>0, <1>2
  DEF EvidenceStep, GrantConsent, ReadGrant, Revoke, CheckBinding, Bind, Observe, CheckFact,
      AssertFact, LockFact, Verify, LockSubject, CheckLineage, ReadCurrent, Resolve, LockTask,
      LockEvidence, CompleteTask, Amend, Reject, Await
<1>3. CASE RelationStep(t)
  <2> USE DEF Declined
  <2>1. CASE BeginAt(t) \/ CheckTie(t)
    BY <1>0, <2>1 DEF BeginAt, CheckTie
  <2>2. CASE Relate(t)
    BY <1>0, <2>2 DEF Relate
  <2>3. CASE LockTie(t) \/ Part(t)
    BY <1>0, <2>3 DEF LockTie, Part
  <2> QED BY <1>3, <2>1, <2>2, <2>3 DEF RelationStep
<1> QED BY <1>1, <1>2, <1>3

(* Nothing of a call that shows nothing is disclosed.                      *)
LEMMA NothingDisclosed ==
  ASSUME NEW t \in Actors, sight[t] = {}, answer[t] \in Answers \ {"shown", "contested"},
         trail[t] \in Recording(t)
  PROVE  Disclosed(t)
BY DEF Disclosed

(* The commands, and a failure.                                            *)
LEMMA DisclosedCommands ==
  ASSUME Typed, DisclosedInv, NEW t \in Actors, Step(t),
         \/ AccountsStep(t) /\ UNCHANGED <<relations, evidence, disclosure>>
         \/ RelationStep(t) /\ UNCHANGED disclosure
         \/ EvidenceStep(t) /\ UNCHANGED <<registry, relations, disclosure>>
         \/ Fail(t)
  PROVE  (Pending(t) /\ (at[t] = "done" => Disclosed(t)))'
<1>0. /\ Pending(t) /\ plan' = plan /\ Fits(plan[t], at[t])
      /\ answer \in [Actors -> Answers] /\ at \in [Actors -> Steps]
  BY StepTyped DEF Alone, DisclosedInv, Typed, TypeOK
<1>1. sight' = sight /\ trail' = trail /\ target' = target
  BY DEF Fail, disclosure
<1>2. at[t] # "done" /\ answer[t] = "none" /\ sight[t] = {}
  <2>1. at[t] # "done"
    <3>1. CASE Fail(t)
      BY <3>1 DEF Fail, AccountsOpen, RelationsOpen, EvidenceOpen, DisclosureOpen, Reading
    <3>2. CASE ~Fail(t)
      BY <3>2 DEF AccountsStep, StartVerification, CheckCode, MarkControl, Activate, Suspend,
         ReadRoles, InsertRole, ReadContact, CreateContact, ClearPrimaries, LinkPhone, LockRecord,
         Claim, Act, Alias, EvidenceStep, GrantConsent, ReadGrant, Revoke, CheckBinding, Bind,
         Observe, CheckFact, AssertFact, LockFact, Verify, LockSubject, CheckLineage, ReadCurrent,
         Resolve, LockTask, LockEvidence, CompleteTask, Amend, RelationStep, BeginAt, CheckTie,
         Relate, LockTie, Part
    <3> QED BY <3>1, <3>2
  <2> QED BY <1>0, <2>1 DEF Pending
<1>3. /\ answer'[t] \in Answered /\ (at'[t] # "done" => answer'[t] = "none")
      /\ at'[t] \notin {"contest", "row", "staffRow", "diagnostic", "render"}
      /\ at'[t] # "done" => /\ at[t] \notin {"contest", "row", "staffRow", "diagnostic", "render"}
                            /\ plan[t].kind \notin Reads
  <2>1. CASE Fail(t)
    BY <1>0, <2>1 DEF Fail, End, Goto, Answered
  <2> QED BY <1>2, <2>1, CommandAnswers
<1>4. Pending(t)'
  BY <1>0, <1>1, <1>2, <1>3 DEF Pending, Reads
<1>5. trail'[t] \in Recording(t)'
  BY <1>0, <1>1, <1>3 DEF Recording, Answered
<1>6. Disclosed(t)'
  BY <1>0, <1>1, <1>2, <1>3, <1>5 DEF Disclosed, Answered
<1> QED BY <1>4, <1>6

-----------------------------------------------------------------------------
(* A call is authorised, or answered at once.                              *)
LEMMA DisclosedAuthorise ==
  ASSUME Typed, DisclosedInv, NEW t \in Actors, Step(t), Authorise(t)
  PROVE  (Pending(t) /\ (at[t] = "done" => Disclosed(t)))'
<1>0. /\ Pending(t) /\ plan' = plan /\ plan[t] \in Jobs /\ at[t] = "idle"
      /\ answer \in [Actors -> Answers] /\ at \in [Actors -> Steps]
      /\ trail \in [Actors -> Seq(Recorded)] /\ saw \in [Actors -> Read]
  BY StepTyped DEF Alone, DisclosedInv, Typed, TypeOK, DisclosureTypeOK, AccountsTypeOK, Authorise
<1>1. /\ sight[t] = {} /\ answer[t] = "none" /\ trail[t] = <<>> /\ target[t] = None
      /\ sight' = sight /\ target' = target
  BY <1>0 DEF Pending, Authorise, things
<1>2. CASE Verdict(t)[1] = "none"
  <2>1. /\ at'[t] = Start(plan[t]) /\ answer' = answer /\ trail' = trail
        /\ saw'[t].roles = roles[plan[t].account]
    <3>1. at'[t] = Start(plan[t]) /\ answer' = answer /\ trail' = trail
      BY <1>0, <1>2 DEF Authorise, Continue, Goto
    <3>2. PICK given : saw' = [saw EXCEPT ![t] =
            [saw[t] EXCEPT !.roles = roles[plan[t].account], !.parent = given]]
      BY <1>2 DEF Authorise, Sees
    <3>3. saw'[t].roles = roles[plan[t].account]
      <4>1. DOMAIN saw[t] = DOMAIN NothingRead
        BY <1>0 DEF Read, NothingRead
      <4> QED BY <1>0, <3>2, <4>1 DEF NothingRead
    <3> QED BY <3>1, <3>3
  <2>2. Start(plan[t]) \notin {"done", "idle", "render", "diagnostic"}
    <3>1. plan[t].kind \in {"diagnostic", "match"} => Start(plan[t]) # "diagnostic"
      BY DEF Start, AccountsStart, RelationsStart, EvidenceStart, DisclosureStart
    <3>2. plan[t].kind \notin Unauthorised
      BY DEF Authorise
    <3>3. Fits(plan[t], at'[t])
      BY <1>0, StepTyped DEF Typed
    <3>4. Start(plan[t]) # "render"
      <4>1. plan[t].kind = "me" => Start(plan[t]) # "render"
        BY DEF Start, AccountsStart, RelationsStart, EvidenceStart, DisclosureStart, MeStart
      <4> QED BY <2>1, <3>3, <4>1 DEF Fits
    <3> QED BY <1>0, <2>1, <3>1, <3>2, <3>3, <3>4, Beginnings DEF Fits
  <2>3. plan[t].kind \in {"me", "myParty"} => roles[plan[t].account] # {}
    BY <1>2 DEF Verdict, CheckRole
  <2> QED BY <1>0, <1>1, <2>1, <2>2, <2>3 DEF Pending
<1>3. CASE Verdict(t)[1] # "none"
  <2>1. /\ at'[t] = "done" /\ answer'[t] = Verdict(t)[1] /\ saw' = saw
        /\ trail'[t] = Verdict(t)[2]
    <3>1. /\ trail'[t] = <<>> \o Verdict(t)[2]
          /\ at'[t] = "done" /\ answer'[t] = Verdict(t)[1] /\ saw' = saw
      BY <1>0, <1>1, <1>3 DEF Authorise, End, Goto, Emit, registry
    <3>2. Verdict(t)[2] \in Seq(Recorded)
      BY RecordSequences DEF Verdict, Recorded
    <3> QED BY <3>1, <3>2
  <2>2. \/ Verdict(t) = <<"unauthenticated", <<>>>>
        \/ Verdict(t) \in {<<"denied", <<"ANOMALY">>>>, <<"denied", <<"DENIED">>>>,
                           <<"denied", <<"CONFLICT">>>>}
        \/ Verdict(t) = <<"concealed", <<"DENIED">>>>
        \/ Verdict(t) = <<"contested", <<"CONFLICT_TOLD">>>> /\ plan[t].kind = "act"
    BY <1>3 DEF Verdict, InContest
  <2>3. /\ answer'[t] \in {"unauthenticated", "denied", "concealed", "contested"}
        /\ answer'[t] = "contested" => plan[t].kind = "act"
    BY <2>1, <2>2
  <2>4. trail'[t] \in Recording(t)'
    BY <1>0, <2>1, <2>2, <2>3 DEF Recording
  <2> QED BY <1>0, <1>1, <2>1, <2>3, <2>4 DEF Pending, Disclosed
<1> QED BY <1>2, <1>3

-----------------------------------------------------------------------------
(* A read of /me is recorded where the reader is staff, and not otherwise. *)
LEMMA OwnReadRecorded ==
  ASSUME Typed, NEW t \in Actors, saw[t].roles # {}
  PROVE  ReadRecord(t) = IF saw[t].roles = {"CUSTOMER"} THEN <<>> ELSE <<"READ">>
<1>1. saw[t].roles \subseteq {"ADMIN", "OPERATOR", "REVIEWER", "CUSTOMER"}
  BY DEF Typed, TypeOK, AccountsTypeOK, Read, Roles
<1> QED BY <1>1 DEF ReadRecord, IsStaff, Staff, Roles

(* What a reply leaves.                                                    *)
LEMMA Replied ==
  ASSUME Typed, NEW t \in Actors, NEW what, NEW shows, NEW records \in Seq(Recorded),
         Reply(t, what, shows, records)
  PROVE  /\ at'[t] = "done" /\ answer'[t] = what /\ sight'[t] = shows
         /\ trail'[t] = trail[t] \o records
         /\ plan' = plan /\ target' = target /\ UNCHANGED things
BY DEF Reply, End, Goto, Emit, Typed, TypeOK, DisclosureTypeOK

(* A customer's view of a record has no internal field and no entry.       *)
LEMMA CustomerFields ==
  ASSUME NEW kind \in {"party", "request", "property"}, NEW f \in Loaded[kind] \intersect CustomerView[kind]
  PROVE  f \notin Floor \union {"entry"}
BY DEF Loaded, CustomerView, Floor

(* The reads of one record under /me.                                      *)
LEMMA DisclosedMe ==
  ASSUME Typed, DisclosedInv, NEW t \in Actors, Step(t), UNCHANGED <<registry, relations, evidence>>,
         ReadMyParty(t) \/ Canonical(t) \/ GuardContest(t) \/ LoadRow(t)
  PROVE  (Pending(t) /\ (at[t] = "done" => Disclosed(t)))'
<1>0. /\ Pending(t) /\ plan' = plan /\ plan[t] \in Jobs /\ Fits(plan[t], at[t])
      /\ answer \in [Actors -> Answers] /\ at \in [Actors -> Steps]
      /\ trail \in [Actors -> Seq(Recorded)] /\ sight \in [Actors -> SUBSET Shown]
      /\ target \in [Actors -> Properties \union {None}]
  BY StepTyped DEF Alone, DisclosedInv, Typed, TypeOK, DisclosureTypeOK
<1>1. saw' = saw /\ events' = events /\ claimed' = claimed
  BY DEF registry
<1>a. /\ <<"READ">> \in Seq(Recorded) /\ <<"DENIED">> \in Seq(Recorded)
      /\ <<"CONFLICT">> \in Seq(Recorded) /\ <<"CONFLICT_TOLD">> \in Seq(Recorded)
      /\ <<>> \in Seq(Recorded) /\ ReadRecord(t) \in Seq(Recorded)
  BY RecordSequences DEF Recorded
<1>2. at[t] \in {"myParty", "canonical", "contest", "row"}
  BY DEF ReadMyParty, Canonical, GuardContest, LoadRow
<1>3. trail[t] = <<>> /\ sight[t] = {} /\ answer[t] = "none"
  BY <1>0, <1>2 DEF Pending
<1>4. ASSUME NEW what, NEW shows, NEW records \in Seq(Recorded), Reply(t, what, shows, records)
      PROVE  /\ at'[t] = "done" /\ answer'[t] = what /\ sight'[t] = shows
             /\ trail'[t] = records /\ target' = target
  <2>1. trail[t] \o records = records
    BY <1>3
  <2> QED BY <1>4, <2>1, Replied
<1>5. ASSUME NEW event \in {"DENIED", "CONFLICT"}, Conceal(t, event)
      PROVE  (Pending(t) /\ (at[t] = "done" => Disclosed(t)))'
  <2>1. /\ at'[t] = "done" /\ answer'[t] = "concealed" /\ sight'[t] = {}
        /\ trail'[t] = <<event>>
    BY <1>a, <1>4, <1>5 DEF Conceal
  <2>2. trail'[t] \in Recording(t)'
    BY <2>1 DEF Recording
  <2> QED BY <2>1, <2>2 DEF Pending, Disclosed
<1>6. CASE ReadMyParty(t)
  <2> DEFINE shows == Show(PartyOf[plan[t].account], Loaded.party \intersect CustomerView.party)
  <2>1. plan[t].kind = "myParty" /\ saw[t].roles # {}
    BY <1>0, <1>6 DEF ReadMyParty, Fits, Pending
  <2>2. /\ at'[t] = "done" /\ answer'[t] = "shown" /\ sight'[t] = shows
        /\ trail'[t] = ReadRecord(t)
    BY <1>a, <1>4, <1>6 DEF ReadMyParty
  <2>3. trail'[t] \in Recording(t)'
    BY <1>0, <1>1, <2>1, <2>2, OwnReadRecorded DEF Recording
  <2>4. \A x \in shows : x[2] \notin Floor
    BY CustomerFields DEF Show
  <2> QED BY <1>0, <2>1, <2>2, <2>3, <2>4 DEF Pending, Disclosed
<1>7. CASE Canonical(t)
  <2>1. /\ at'[t] \in {"contest", "staffRow"} /\ answer' = answer /\ sight' = sight /\ trail' = trail
    BY <1>0, <1>7 DEF Canonical, Continue, Goto
  <2> QED BY <1>0, <1>1, <1>2, <1>3, <2>1 DEF Pending
<1>8. CASE GuardContest(t)
  <2>1. CASE Proceed(t, "row")
    <3>1. at'[t] = "row" /\ answer' = answer /\ sight' = sight /\ trail' = trail
      BY <1>0, <2>1 DEF Proceed, Continue, Goto, disclosure
    <3> QED BY <1>0, <1>1, <1>2, <1>3, <3>1 DEF Pending
  <2>2. CASE Conceal(t, "CONFLICT")
    BY <1>5, <2>2
  <2>3. CASE Reply(t, "contested", {}, <<"CONFLICT_TOLD">>) /\ MayLearn(plan[t].account, Subject(t), saw[t].roles)
    <3>1. /\ at'[t] = "done" /\ answer'[t] = "contested" /\ sight'[t] = {}
          /\ trail'[t] = <<"CONFLICT_TOLD">> /\ target' = target
      BY <1>a, <1>4, <2>3
    <3>2. trail'[t] \in Recording(t)'
      BY <3>1 DEF Recording
    <3>3. <<Subject(t), plan[t].account>> \in events \/ saw[t].roles # {"CUSTOMER"}
      BY <2>3 DEF MayLearn, Holders, IsStaff, Staff
    <3>4. Subject(t)' = Subject(t)
      BY <1>0, <3>1 DEF Subject
    <3> QED BY <1>0, <1>1, <3>1, <3>2, <3>3, <3>4 DEF Pending, Disclosed
  <2> QED BY <1>8, <2>1, <2>2, <2>3 DEF GuardContest
<1>9. CASE LoadRow(t)
  <2> DEFINE r     == Subject(t)
             shows == Show(r, Loaded[Kind(r)] \intersect CustomerView[Kind(r)])
  <2>1. CASE Conceal(t, "DENIED")
    BY <1>5, <2>1
  <2>2. CASE ~Conceal(t, "DENIED")
    <3>1. /\ plan[t].kind = "me" /\ saw[t].roles # {} /\ Loads(plan[t].account, r)
          /\ Reply(t, "shown", shows, ReadRecord(t))
      BY <1>0, <1>9, <2>2 DEF LoadRow, Fits, Pending
    <3>2. /\ at'[t] = "done" /\ answer'[t] = "shown" /\ sight'[t] = shows
          /\ trail'[t] = ReadRecord(t) /\ target' = target
      BY <1>a, <1>4, <3>1
    <3>3. trail'[t] \in Recording(t)'
      BY <1>0, <1>1, <3>1, <3>2, OwnReadRecorded DEF Recording
    <3>4. Kind(r) \in {"party", "request", "property"}
      BY <3>1 DEF Loads, Kind
    <3>5. \A x \in shows : x[2] \notin Floor \union {"entry"}
      <4> SUFFICES ASSUME NEW f \in Loaded[Kind(r)] \intersect CustomerView[Kind(r)]
                   PROVE  f \notin Floor \union {"entry"}
        BY DEF Show
      <4> QED BY <3>4, CustomerFields
    <3>6. Subject(t)' = Subject(t)
      BY <1>0, <3>2 DEF Subject
    <3>7. EntitledTo(plan[t].account, Subject(t))'
      BY <1>0, <1>1, <3>1, <3>6 DEF Loads, EntitledTo, Holders, Created
    <3> QED BY <1>0, <3>1, <3>2, <3>3, <3>5, <3>7 DEF Pending, Disclosed
  <2> QED BY <2>1, <2>2
<1> QED BY <1>6, <1>7, <1>8, <1>9

-----------------------------------------------------------------------------
(* An opportunity is read in two steps, and shown with the property's row  *)
(* as it is at the second.                                                 *)
LEMMA EntryBesideArea ==
  ASSUME Typed, NEW o \in Opportunities, NEW x \in ShowOpportunity(o)
  PROVE  /\ x[2] \notin Floor
         /\ x[2] = "entry" => <<OpportunityOn[x[1]][2], "area", x[3]>> \in ShowOpportunity(o)
<1> DEFINE p == OpportunityOn[o][2]
<1>1. p \in Properties
  BY DisclosureAssumption
<1>2. CASE x \in Show(p, ScopeView(o))
  BY <1>2 DEF Show, ScopeView, Floor
<1>3. CASE x = <<o, "status", 0>>
  BY <1>3 DEF Floor
<1>4. CASE EntryKept(o) /\ x = <<o, "entry", Evaluated[o]>>
  <2>1. "area" \in ScopeView(o) /\ Evaluated[o] = area[p]
    BY <1>4 DEF EntryKept, ScopeView
  <2>2. <<p, "area", ValueOf(p, "area")>> \in Show(p, ScopeView(o))
    BY <2>1 DEF Show
  <2>3. <<p, "area", Evaluated[o]>> \in ShowOpportunity(o)
    BY <1>1, <2>1, <2>2 DEF ValueOf, ShowOpportunity
  <2> QED BY <1>4, <2>3 DEF Floor
<1> QED BY <1>2, <1>3, <1>4 DEF ShowOpportunity

LEMMA DisclosedOpportunity ==
  ASSUME Typed, DisclosedInv, NEW t \in Actors, Step(t), UNCHANGED <<registry, relations, evidence>>,
         LoadOpportunity(t) \/ RenderOpportunity(t)
  PROVE  (Pending(t) /\ (at[t] = "done" => Disclosed(t)))'
<1>0. /\ Pending(t) /\ plan' = plan /\ plan[t].kind = "me" /\ plan[t].of \in Opportunities
      /\ answer \in [Actors -> Answers] /\ at \in [Actors -> Steps]
      /\ trail \in [Actors -> Seq(Recorded)] /\ sight \in [Actors -> SUBSET Shown]
  BY StepTyped
  DEF Alone, DisclosedInv, Typed, TypeOK, DisclosureTypeOK, Fits, LoadOpportunity, RenderOpportunity
<1>1. saw' = saw /\ events' = events /\ claimed' = claimed
  BY DEF registry
<1>a. <<"DENIED">> \in Seq(Recorded) /\ <<>> \in Seq(Recorded) /\ ReadRecord(t) \in Seq(Recorded)
  BY RecordSequences DEF Recorded
<1>2. /\ sight[t] = {} /\ answer[t] = "none" /\ target[t] = None /\ saw[t].roles # {}
  BY <1>0 DEF Pending, LoadOpportunity, RenderOpportunity
<1>3. CASE LoadOpportunity(t) /\ LoadsOpportunity(plan[t].account, plan[t].of)
  <2>1. trail[t] = <<>>
    BY <1>0, <1>3 DEF Pending, LoadOpportunity
  <2>2. /\ at'[t] = "render" /\ answer' = answer /\ UNCHANGED <<things, target, sight>>
        /\ trail'[t] = trail[t] \o ReadRecord(t)
    BY <1>0, <1>3 DEF LoadOpportunity, Emit, Continue, Goto
  <2>3. trail'[t] = ReadRecord(t)
    BY <1>a, <2>1, <2>2
  <2>4. LoadsOpportunity(plan[t].account, plan[t].of)' /\ ReadRecord(t)' = ReadRecord(t)
    BY <1>0, <1>1, <1>3, <2>2 DEF LoadsOpportunity, ReadRecord, things
  <2> QED BY <1>0, <1>1, <1>2, <2>2, <2>3, <2>4 DEF Pending
<1>4. CASE LoadOpportunity(t) /\ ~LoadsOpportunity(plan[t].account, plan[t].of)
  <2>1. trail[t] = <<>>
    BY <1>0, <1>4 DEF Pending, LoadOpportunity
  <2>2. /\ at'[t] = "done" /\ answer'[t] = "concealed" /\ sight'[t] = {}
        /\ trail'[t] = trail[t] \o <<"DENIED">>
    BY <1>a, <1>4, Replied DEF LoadOpportunity, Conceal
  <2>3. trail'[t] = <<"DENIED">>
    BY <1>a, <2>1, <2>2
  <2>4. trail'[t] \in Recording(t)'
    BY <2>2, <2>3 DEF Recording
  <2> QED BY <2>2, <2>4 DEF Pending, Disclosed
<1>5. CASE RenderOpportunity(t)
  <2> DEFINE o == plan[t].of
  <2>1. trail[t] = ReadRecord(t) /\ LoadsOpportunity(plan[t].account, o)
    BY <1>0, <1>5 DEF Pending, RenderOpportunity
  <2>2. /\ at'[t] = "done" /\ answer'[t] = "shown" /\ sight'[t] = ShowOpportunity(o)
        /\ trail'[t] = trail[t] \o <<>> /\ target' = target /\ UNCHANGED things
    BY <1>a, <1>5, Replied DEF RenderOpportunity
  <2>3. trail'[t] = ReadRecord(t)
    BY <1>a, <2>1, <2>2
  <2>4. trail'[t] \in Recording(t)'
    BY <1>0, <1>1, <1>2, <2>2, <2>3, OwnReadRecorded DEF Recording
  <2>5. Subject(t)' = o
    BY <1>0, <1>2, <2>2 DEF Subject
  <2>6. EntitledTo(plan[t].account, o)'
    BY <1>0, <2>1, <2>2 DEF EntitledTo, LoadsOpportunity, things
  <2>7. EntitledTo(plan[t].account, Subject(t))'
    BY <1>0, <1>2, <2>2, <2>6 DEF Subject, EntitledTo
  <2>8. \A x \in ShowOpportunity(o) :
          /\ x[2] \notin Floor
          /\ x[2] = "entry" => <<OpportunityOn[x[1]][2], "area", x[3]>> \in ShowOpportunity(o)
    BY <1>0, EntryBesideArea
  <2> HIDE DEF o
  <2> QED BY <1>0, <2>2, <2>4, <2>7, <2>8 DEF Pending, Disclosed
<1> QED BY <1>3, <1>4, <1>5

-----------------------------------------------------------------------------
(* The public page: each property with an offer, no price but a public one.*)
LEMMA PageShown ==
  ASSUME Typed
  PROVE  LET page == UNION ({Show(p, PublicView) : p \in Page} \union
                {Show(o, PublicOffer(o)) : o \in {o \in ListableOffers : OfferOn[o] \in Page}})
         IN \A x \in page :
              /\ x[2] \notin Floor
              /\ x[1] \in Properties => \E y \in page : y[1] \in Offers /\ OfferOn[y[1]] = x[1]
              /\ x[2] = "price" => x[1] \in PublicPrice
<1> DEFINE page == UNION ({Show(p, PublicView) : p \in Page} \union
                {Show(o, PublicOffer(o)) : o \in {o \in ListableOffers : OfferOn[o] \in Page}})
<1>1. ListableOffers \subseteq Offers
  BY DEF ListableOffers, Typed, TypeOK, DisclosureTypeOK
<1>2. \A o \in ListableOffers : o \notin Properties
  BY <1>1, AccountsAssumption DEF Records
<1>3. ASSUME NEW x \in page
      PROVE  \/ \E p \in Page, f \in PublicView : x = <<p, f, ValueOf(p, f)>>
             \/ \E o \in ListableOffers, f \in {"type", "price"} :
                  x = <<o, f, ValueOf(o, f)>> /\ (f = "price" => o \in PublicPrice)
  BY DEF Show, PublicOffer
<1>4. ASSUME NEW p \in Page
      PROVE  \E y \in page : y[1] \in Offers /\ OfferOn[y[1]] = p
  <2>1. PICK o \in ListableOffers : OfferOn[o] = p
    BY DEF Page
  <2>2. <<o, "type", ValueOf(o, "type")>> \in Show(o, PublicOffer(o))
    BY DEF Show, PublicOffer
  <2>3. <<o, "type", ValueOf(o, "type")>> \in page
    BY <2>1, <2>2
  <2> HIDE DEF page
  <2> QED BY <1>1, <2>1, <2>3
<1>5. ASSUME NEW x \in page
      PROVE  /\ x[2] \notin Floor
             /\ x[1] \in Properties => \E y \in page : y[1] \in Offers /\ OfferOn[y[1]] = x[1]
             /\ x[2] = "price" => x[1] \in PublicPrice
  <2> HIDE DEF page
  <2>1. CASE \E p \in Page, f \in PublicView : x = <<p, f, ValueOf(p, f)>>
    BY <1>4, <2>1 DEF PublicView, Floor
  <2>2. CASE \E o \in ListableOffers, f \in {"type", "price"} :
               x = <<o, f, ValueOf(o, f)>> /\ (f = "price" => o \in PublicPrice)
    BY <1>2, <2>2 DEF Floor
  <2> QED BY <1>3, <2>1, <2>2
<1> QED BY <1>5

LEMMA DisclosedPublic ==
  ASSUME Typed, DisclosedInv, NEW t \in Actors, Step(t), ListPublic(t)
  PROVE  (Pending(t) /\ (at[t] = "done" => Disclosed(t)))'
<1>0. Pending(t) /\ plan' = plan /\ plan[t].kind = "public" /\ at[t] = "idle"
  BY StepTyped DEF Alone, DisclosedInv, ListPublic
<1> DEFINE page == UNION ({Show(p, PublicView) : p \in Page} \union
                {Show(o, PublicOffer(o)) : o \in {o \in ListableOffers : OfferOn[o] \in Page}})
<1>1. /\ at'[t] = "done" /\ answer'[t] = "shown" /\ sight'[t] = page
      /\ trail'[t] = trail[t] \o <<>>
  <2>1. Reply(t, "shown", page, <<>>) /\ <<>> \in Seq(Recorded)
    BY RecordSequences DEF ListPublic
  <2> HIDE DEF page
  <2> QED BY <2>1, Replied
<1>2. trail'[t] \in Recording(t)'
  BY <1>0, <1>1 DEF Recording
<1>3. \A x \in page :
        /\ x[2] \notin Floor
        /\ x[1] \in Properties => \E y \in page : y[1] \in Offers /\ OfferOn[y[1]] = x[1]
        /\ x[2] = "price" => x[1] \in PublicPrice
  BY PageShown
<1> HIDE DEF page
<1> QED BY <1>0, <1>1, <1>2, <1>3 DEF Pending, Disclosed

-----------------------------------------------------------------------------
(* The reads of staff, the leads, and what changes what is shown: none of  *)
(* them is a customer's or the public's, and each is recorded as it is.    *)
LEMMA DisclosedStaff ==
  ASSUME Typed, DisclosedInv, NEW t \in Actors, Step(t), UNCHANGED <<registry, relations, evidence>>,
         \/ StaffRow(t) \/ InternalOpportunity(t) \/ StoredMatch(t) \/ LatestDiagnostic(t)
         \/ ReadList(t) \/ Capture(t) \/ RefuseConversion(t) \/ Change(t)
  PROVE  (Pending(t) /\ (at[t] = "done" => Disclosed(t)))'
<1>0. /\ Pending(t) /\ plan' = plan /\ Fits(plan[t], at[t])
      /\ answer \in [Actors -> Answers] /\ at \in [Actors -> Steps]
      /\ trail \in [Actors -> Seq(Recorded)] /\ sight \in [Actors -> SUBSET Shown]
  BY StepTyped DEF Alone, DisclosedInv, Typed, TypeOK, DisclosureTypeOK
<1>a. /\ <<"READ">> \in Seq(Recorded) /\ <<"LIST">> \in Seq(Recorded)
      /\ <<"DENIED">> \in Seq(Recorded) /\ <<>> \in Seq(Recorded)
  BY RecordSequences DEF Recorded
<1>1. /\ plan[t].kind \in {"read", "diagnostic", "internal", "match", "list", "capture", "convert",
                           "change"}
      /\ sight[t] = {} /\ answer[t] = "none"
  BY <1>0 DEF Pending, Fits, StaffRow, InternalOpportunity, StoredMatch, LatestDiagnostic, ReadList,
              Capture, RefuseConversion, Change,
              MovesOffer, ConfirmsAvailability, PatchesArea, SharesIt
(* All that is left to say of such a call is what it recorded.             *)
<1>2. ASSUME at'[t] = "done", trail'[t] \in Recording(t)', sight'[t] # {} => answer'[t] = "shown"
      PROVE  (Pending(t) /\ (at[t] = "done" => Disclosed(t)))'
  BY <1>0, <1>1, <1>2 DEF Pending, Disclosed
<1>3. ASSUME NEW what, NEW shows, NEW records \in Seq(Recorded), Reply(t, what, shows, records)
      PROVE  /\ at'[t] = "done" /\ answer'[t] = what /\ sight'[t] = shows
             /\ trail[t] = <<>> => trail'[t] = records
             /\ trail'[t] = trail[t] \o records
  <2>1. trail[t] = <<>> => trail[t] \o records = records
    OBVIOUS
  <2> QED BY <1>3, <2>1, Replied
<1>4. CASE StaffRow(t)
  <2>1. trail[t] = <<>> /\ plan[t].kind \in {"read", "diagnostic"}
    BY <1>0, <1>4 DEF Pending, Fits, StaffRow
  <2>2. CASE Subject(t) # None /\ plan[t].kind = "diagnostic"
    <3>1. /\ at'[t] = "diagnostic" /\ answer' = answer /\ sight' = sight
          /\ trail'[t] = trail[t] \o <<"READ">>
      BY <1>0, <1>4, <2>2 DEF StaffRow, Emit, Continue, Goto
    <3>2. trail'[t] = <<"READ">>
      BY <1>a, <2>1, <3>1
    <3> QED BY <1>0, <1>1, <2>2, <3>1, <3>2 DEF Pending
  <2>3. CASE Subject(t) = None
    <3>1. at'[t] = "done" /\ answer'[t] = "denied" /\ sight'[t] = {} /\ trail'[t] = <<"DENIED">>
      BY <1>a, <1>3, <1>4, <2>1, <2>3 DEF StaffRow
    <3>2. trail'[t] \in Recording(t)'
      BY <3>1 DEF Recording
    <3> QED BY <1>2, <3>1, <3>2
  <2>4. CASE Subject(t) # None /\ plan[t].kind = "read"
    <3>1. at'[t] = "done" /\ answer'[t] = "shown" /\ trail'[t] = <<"READ">>
      BY <1>a, <1>3, <1>4, <2>1, <2>4 DEF StaffRow
    <3>2. trail'[t] \in Recording(t)'
      BY <1>0, <2>4, <3>1 DEF Recording
    <3> QED BY <1>2, <3>1, <3>2
  <2> QED BY <2>1, <2>2, <2>3, <2>4
<1>5. CASE InternalOpportunity(t) \/ StoredMatch(t)
  <2>1. trail[t] = <<>> /\ plan[t].kind \in {"internal", "match"}
    BY <1>0, <1>5 DEF Pending, Fits, InternalOpportunity, StoredMatch
  <2>2. CASE plan[t].of = None
    <3>1. at'[t] = "done" /\ answer'[t] = "denied" /\ sight'[t] = {} /\ trail'[t] = <<"DENIED">>
      BY <1>a, <1>3, <1>5, <2>1, <2>2 DEF InternalOpportunity, StoredMatch
    <3>2. trail'[t] \in Recording(t)'
      BY <3>1 DEF Recording
    <3> QED BY <1>2, <3>1, <3>2
  <2>3. CASE plan[t].of # None
    <3>1. at'[t] = "done" /\ answer'[t] = "shown" /\ trail'[t] = <<"READ">>
      BY <1>a, <1>3, <1>5, <2>1, <2>3 DEF InternalOpportunity, StoredMatch
    <3>2. trail'[t] \in Recording(t)'
      BY <1>0, <2>1, <3>1 DEF Recording
    <3> QED BY <1>2, <3>1, <3>2
  <2> QED BY <2>2, <2>3
<1>6. CASE LatestDiagnostic(t)
  <2>1. trail[t] = <<"READ">> /\ plan[t].kind = "diagnostic"
    BY <1>0, <1>6 DEF Pending, Fits, LatestDiagnostic
  <2>2. CASE plan[t].of \in Diagnosed
    <3>1. at'[t] = "done" /\ answer'[t] = "shown" /\ trail'[t] = <<"READ">> \o <<"READ">>
      BY <1>a, <1>3, <1>6, <2>1, <2>2 DEF LatestDiagnostic
    <3>2. trail'[t] = <<"READ", "READ">>
      <4> DEFINE s == <<"READ">> \o <<"READ">>
      <4>1. <<"READ">> \in Seq({"READ"}) /\ Len(<<"READ">>) = 1
        OBVIOUS
      <4>2. s \in Seq({"READ"}) /\ Len(s) = 2
        BY <4>1
      <4>3. s[1] = "READ" /\ s[2] = "READ"
        BY <4>2
      <4>4. s = <<s[1], s[2]>>
        <5> HIDE DEF s
        <5> QED BY <4>2
      <4> QED BY <3>1, <4>3, <4>4
    <3>3. trail'[t] \in Recording(t)'
      BY <1>0, <2>1, <3>1, <3>2 DEF Recording
    <3> QED BY <1>2, <3>1, <3>3
  <2>3. CASE plan[t].of \notin Diagnosed
    <3>1. at'[t] = "done" /\ answer'[t] = "unknown" /\ sight'[t] = {}
      BY <1>a, <1>3, <1>6, <2>1, <2>3 DEF LatestDiagnostic
    <3>2. trail'[t] \in Recording(t)'
      BY <3>1 DEF Recording
    <3> QED BY <1>2, <3>1, <3>2
  <2> QED BY <2>2, <2>3
<1>7. CASE ReadList(t)
  <2>1. trail[t] = <<>> /\ plan[t].kind = "list"
    BY <1>0, <1>7 DEF Pending, Fits, ReadList
  <2>2. CASE Reply(t, "denied", {}, <<"DENIED">>)
    <3>1. at'[t] = "done" /\ answer'[t] = "denied" /\ sight'[t] = {} /\ trail'[t] = <<"DENIED">>
      BY <1>a, <1>3, <2>1, <2>2
    <3>2. trail'[t] \in Recording(t)'
      BY <3>1 DEF Recording
    <3> QED BY <1>2, <3>1, <3>2
  <2>3. CASE Reply(t, "unknown", {}, <<>>)
    <3>1. at'[t] = "done" /\ answer'[t] = "unknown" /\ sight'[t] = {}
      BY <1>a, <1>3, <2>1, <2>3
    <3>2. trail'[t] \in Recording(t)'
      BY <3>1 DEF Recording
    <3> QED BY <1>2, <3>1, <3>2
  <2>4. CASE Reply(t, "shown", Listed(t), <<"LIST">>)
    <3>1. at'[t] = "done" /\ answer'[t] = "shown" /\ trail'[t] = <<"LIST">>
      BY <1>a, <1>3, <2>1, <2>4
    <3>2. trail'[t] \in Recording(t)'
      BY <1>0, <2>1, <3>1 DEF Recording
    <3> QED BY <1>2, <3>1, <3>2
  <2> QED BY <1>7, <2>2, <2>3, <2>4 DEF ReadList
<1>8. CASE Capture(t) \/ RefuseConversion(t) \/ Change(t)
  <2>1. /\ at'[t] = "done" /\ answer'[t] \in {"written", "unknown", "refused"}
        /\ sight' = sight /\ trail' = trail
    BY <1>0, <1>8 DEF Capture, RefuseConversion, Change,
          MovesOffer, ConfirmsAvailability, PatchesArea, SharesIt, End, Goto, disclosure
  <2>2. trail'[t] \in Recording(t)'
    BY <2>1 DEF Recording
  <2> QED BY <1>1, <1>2, <2>1, <2>2
<1> QED BY <1>4, <1>5, <1>6, <1>7, <1>8

-----------------------------------------------------------------------------
(* A read under /me shows an account what is its own and no internal field,*)
(* an opportunity's entry only beside the area it was computed from; the   *)
(* public list names no property without an offer and no price that is not *)
(* public; and every answer left the access record that is due.            *)
THEOREM Disclosures == Spec => []DisclosedByRight
<1>1. Init => DisclosedInv
  <2> SUFFICES ASSUME Init, NEW t \in Actors PROVE Pending(t) /\ at[t] # "done"
    BY DEF DisclosedInv
  <2> QED BY DEF Init, Pending
<1>2. Typed /\ DisclosedInv /\ [Next]_vars => DisclosedInv'
  <2> SUFFICES ASSUME Typed, DisclosedInv, [Next]_vars PROVE DisclosedInv'
    OBVIOUS
  <2>1. ASSUME NEW t \in Actors, Step(t) PROVE DisclosedInv'
    <3>1. (Pending(t) /\ (at[t] = "done" => Disclosed(t)))'
      <4>1. CASE DisclosureStep(t) /\ UNCHANGED <<registry, relations, evidence>>
        BY <2>1, <4>1, DisclosedMe, DisclosedOpportunity, DisclosedPublic, DisclosedStaff
        DEF DisclosureStep
      <4>2. CASE ~(DisclosureStep(t) /\ UNCHANGED <<registry, relations, evidence>>)
        BY <2>1, <4>2, DisclosedAuthorise, DisclosedCommands DEF Step
      <4> QED BY <4>1, <4>2
    <3> QED BY <2>1, <3>1, DisclosedOthers DEF DisclosedInv
  <2>2. CASE UNCHANGED vars
    <3> SUFFICES ASSUME NEW t \in Actors
                 PROVE  (Pending(t) /\ (at[t] = "done" => Disclosed(t)))'
      BY DEF DisclosedInv
    <3>1. UNCHANGED <<plan, at, answer, saw, events, claimed, sight, trail, target, shared>>
      BY <2>2 DEF vars, txn, registry, disclosure, things
    <3>2. Pending(t)' = Pending(t)
      BY <3>1 DEF Pending, ReadRecord, LoadsOpportunity
    <3>3. Disclosed(t)' = Disclosed(t)
      BY <3>1 DEF Disclosed, Recording, Subject, EntitledTo
    <3> QED BY <3>1, <3>2, <3>3 DEF DisclosedInv
  <2> QED BY <2>1, <2>2 DEF Next, Over
<1> QED BY TypeCorrect, <1>1, <1>2, DisclosedEach, PTL DEF Spec
=============================================================================
