------------------------------ MODULE Registry ------------------------------
(***************************************************************************)
(* The commands of Accounts, Relations and Evidence and the reads of       *)
(* Disclosure at once, each authorised before its transaction begins, and  *)
(* what happens beside them: a verification, an identity review, and a     *)
(* suspension or a correction made with SQL.                               *)
(***************************************************************************)
EXTENDS Disclosure

CONSTANTS
  Starts,  \* what the actors do, the tables and the contract they find
  Doubled  \* the records that two accounts had claimed before

Jobs == AccountJobs \union RelationJobs \union EvidenceJobs \union DisclosureJobs

Tables ==
  [status : [Accts -> Statuses], roles : [Accts -> SUBSET Roles],
   control : [Phones -> {"absent", "UNVERIFIED", "VERIFIED_CONTROL"}],
   links : [Parties -> [Phones -> {"none", "plain", "primary"}]],
   codes : SUBSET Kinds, claimed : SUBSET (Records \X Accts),
   selfServed : SUBSET Records, ties : [Ties -> Period \union {None}],
   grants : [Consents -> {"absent", "GRANTED"}], written : SUBSET Observations,
   said : SUBSET Facts, valued : SUBSET Subjects,
   todo : [Tasks -> {"OPEN", "IN_PROGRESS", "CANCELLED"}],
   active : SUBSET Offers, listable : SUBSET Properties, shared : SUBSET Opportunities,
   leads : [Leads -> {"absent", "DISCOVERED", "CLOSED"}]]

(* Two commands insert two rows.                                           *)
New(job) ==
  CASE job.kind = "consent" -> {job.consent}
    [] job.kind = "observe" -> {job.observation}
    [] job.kind = "assert"  -> {job.fact}
    [] job.kind = "relate"  -> {job.tie}
    [] job.kind = "capture" -> {job.lead}
    [] OTHER -> {}

Sensible(s) ==
  /\ s.plan \in [Actors -> Jobs]
  /\ \A t, u \in Actors : t # u => New(s.plan[t]) \intersect New(s.plan[u]) = {}
  /\ \A t \in Actors : \A r \in New(s.plan[t]) :
       /\ r \in Consents => s.tables.grants[r] = "absent"
       /\ r \notin s.tables.written \union s.tables.said
       /\ r \in Ties => s.tables.ties[r] = None
       /\ r \in Leads => s.tables.leads[r] = "absent"

(* No two relations of a party, a property and a code overlap, and each    *)
(* ends after it starts.                                                   *)
Apart(ties) ==
  \A x, y \in Ties : ties[x] # None /\ ties[y] # None =>
    /\ x # y /\ TieOf[x] = TieOf[y] => ~Overlap(ties[x], ties[y])
    /\ ties[x].to # None => ties[x].from = None \/ ties[x].from < ties[x].to

(* A holder of a request has proved that it is the party's own.            *)
Proved(w, r, a) ==
  /\ PartyOf[a] # None /\ RequestParty[r] = PartyOf[a]
  /\ LoginOf[a] # None
  /\ w.control[LoginOf[a]] = "VERIFIED_CONTROL"
  /\ w.links[RequestParty[r]][LoginOf[a]] # "none"

Consistent(w) ==
  /\ \A p \in Parties : \A f, g \in Phones :
       w.links[p][f] = "primary" /\ w.links[p][g] = "primary" => f = g
  /\ \A p \in Parties, f \in Phones : w.links[p][f] # "none" => w.control[f] # "absent"
  /\ \A c, d \in w.claimed : c[1] = d[1] => c = d \/ c[1] \in Doubled
  /\ \A c \in w.claimed : c[1] \in Requests \ Doubled => Proved(w, c[1], c[2])
  /\ Apart(w.ties)
  /\ \A a \in Accts : LoginOf[a] # None => w.control[LoginOf[a]] # "absent"

ASSUME StartsAssumption ==
  /\ Doubled \subseteq Records /\ Leads \subseteq Rows
  /\ \A s \in Starts : s.tables \in Tables /\ Sensible(s) /\ Consistent(s.tables)

vars == <<txn, registry, relations, evidence, disclosure>>

Steps == {"idle", "done"} \union AccountsOpen \union RelationsOpen \union EvidenceOpen \union DisclosureOpen
           \union {"now", "property", "tie", "grant", "binding", "observe", "subject", "fact",
                   "lockSubject", "lineage", "lockTask", "convert"}

TypeOK ==
  /\ contract \in {p.of : p \in Policies}
  /\ plan \in [Actors -> Jobs]
  /\ at \in [Actors -> Steps]
  /\ HeldType
  /\ answer \in [Actors -> Answers]
  /\ AccountsTypeOK /\ RelationsTypeOK /\ EvidenceTypeOK /\ DisclosureTypeOK

Init ==
  /\ \E s \in Starts :
       /\ s.document \in {p.of : p \in Policies} /\ contract = s.document
       /\ plan = s.plan
       /\ status = s.tables.status /\ roles = s.tables.roles
       /\ control = s.tables.control /\ links = s.tables.links
       /\ codes = s.tables.codes
       /\ events = s.tables.claimed
       /\ claimed = s.tables.selfServed \union {c[1] : c \in s.tables.claimed}
       /\ grants = s.tables.grants
       /\ body = [o \in Observations |-> IF o \in s.tables.written THEN 1 ELSE 0]
       /\ level = [f \in Facts |-> IF f \in s.tables.said THEN 0 ELSE None]
       /\ resolved = [i \in Subjects |-> IF i \in s.tables.valued
                        THEN {[from |-> 1, to |-> None, by |-> None]} ELSE {}]
       /\ todo = s.tables.todo
       /\ period = s.tables.ties
       /\ active = s.tables.active /\ listable = s.tables.listable
       /\ shared = s.tables.shared /\ leads = s.tables.leads
  /\ at = [t \in Actors |-> "idle"] /\ answer = [t \in Actors |-> "none"]
  /\ Unlocked
  /\ canonical = [p \in Properties |-> p]
  /\ saw = [t \in Actors |-> NothingRead]
  /\ revoker = [c \in Consents |-> None] /\ bindings = {}
  /\ conflicts = {} /\ confirmed = {}
  /\ projected = [i \in Subjects |-> None]
  /\ completed = {}
  /\ clock = 2
  /\ view = [t \in Actors |-> NothingSeen]
  /\ began = [t \in Actors |-> 0]
  /\ area = [p \in Properties |-> 0]
  /\ target = [t \in Actors |-> None]
  /\ sight = [t \in Actors |-> {}] /\ trail = [t \in Actors |-> <<>>]

-----------------------------------------------------------------------------
(* The routes' two checks, on the reading session: the role gate, and for a*)
(* customer the object check.                                              *)
Own(t) ==
  CASE plan[t].kind \in {"consent", "revoke"} ->
         PartyOf[plan[t].account] = ConsentParty[plan[t].consent]
    [] plan[t].kind \in {"attach", "act", "claim"} -> OwnAccounts(t)
    [] OTHER -> TRUE

(* The contested record that a command's object check runs into: nobody's. *)
InContest(t) ==
  /\ plan[t].kind = "act"
  /\ LET a == plan[t].account
         r == plan[t].record
     IN /\ r \notin Requests /\ Contested(Parent(r))
        /\ r \in Offers => ~Created(a, r) /\ PartyOf[a] # None /\ OfferParty[r] = PartyOf[a]

(* What the checks come to, and what is recorded of it.                    *)
Verdict(t) ==
  LET a == plan[t].account
  IN CASE status[a] # "ACTIVATED" -> <<"unauthenticated", <<>>>>
       [] status[a] = "ACTIVATED" /\ ~CheckRole(plan[t].kind, roles[a]) ->
            <<"denied", IF Anomalous(plan[t].kind, roles[a]) THEN <<"ANOMALY">> ELSE <<"DENIED">>>>
       [] OTHER ->
            CASE plan[t].kind \in {"me", "myParty"} ->
                   IF PartyOf[a] = None THEN <<"concealed", <<"DENIED">>>> ELSE <<"none", <<>>>>
              [] plan[t].kind \notin {"me", "myParty"} /\ (IsStaff(roles[a]) \/ Own(t)) ->
                   <<"none", <<>>>>
              [] OTHER ->
                   IF ~InContest(t) THEN <<"denied", <<"DENIED">>>>
                   ELSE IF a \in Holders(Parent(plan[t].record))
                          THEN <<"contested", <<"CONFLICT_TOLD">>>>
                          ELSE <<"denied", <<"CONFLICT">>>>

Start(job) ==
  CASE job.kind \in DOMAIN AccountsStart  -> AccountsStart[job.kind]
    [] job.kind \in DOMAIN RelationsStart -> RelationsStart[job.kind]
    [] job.kind \in DOMAIN EvidenceStart  -> EvidenceStart[job.kind]
    [] OTHER -> DisclosureStart(job)

(* A verification and the public list are public, a role's grant and SQL   *)
(* are not a route's, and the identity review, a property's or an offer's  *)
(* status and a share are other modules' matter.                           *)
Unauthorised == {"code", "otp", "grant", "suspend", "alias", "amend", "public", "change"}

(* now() of the reading session is the instant of its first statement.     *)
Authorise(t) ==
  LET a == plan[t].account
  IN /\ at[t] = "idle" /\ plan[t].kind \notin Unauthorised
     /\ IF Verdict(t)[1] = "none"
          THEN /\ Continue(t, Start(plan[t]))
               /\ Sees(t, [saw[t] EXCEPT
                    !.roles = roles[a],
                    !.parent = IF plan[t].kind = "act" THEN Parent(plan[t].record) ELSE None])
               /\ began' = [began EXCEPT ![t] = IF plan[t].kind = "list" THEN clock ELSE @]
               /\ UNCHANGED <<status, roles, control, links, codes, events, claimed, canonical,
                              trail>>
          ELSE /\ End(t, Verdict(t)[1])
               /\ Emit(t, Verdict(t)[2])
               /\ UNCHANGED <<registry, began>>
     /\ UNCHANGED <<period, evidence, things, target, sight>>

(* A failure before the COMMIT, of the connection or of the provenance,    *)
(* undoes everything; of a read, only the answer is lost.                  *)
Fail(t) ==
  /\ at[t] \in AccountsOpen \union RelationsOpen \union EvidenceOpen \union DisclosureOpen
  /\ End(t, "error")
  /\ UNCHANGED <<registry, relations, evidence, disclosure>>

Step(t) ==
  \/ Authorise(t)
  \/ AccountsStep(t) /\ UNCHANGED <<relations, evidence, disclosure>>
  \/ RelationStep(t) /\ UNCHANGED <<registry, consents, body, facts, resolved, projected, tasks,
                                    view, disclosure>>
  \/ EvidenceStep(t) /\ UNCHANGED <<registry, relations, disclosure>>
  \/ DisclosureStep(t) /\ UNCHANGED <<registry, relations, evidence>>
  \/ Fail(t)

Over == AllDone /\ UNCHANGED vars

Next == (\E t \in Actors : Step(t)) \/ Over

Spec == Init /\ [][Next]_vars
-----------------------------------------------------------------------------
(* Properties.                                                             *)

(* One account holds a record (INV-1), which is CLAIMED from then on: what *)
(* claim_record's lock and the checks it makes under it are for.           *)
OneHolder ==
  /\ \A r \in Records \ Doubled : \A a, b \in Holders(r) : a = b
  /\ \A r \in Records : Holders(r) # {} => r \in claimed

(* Whoever holds a request still has the evidence the claim was made on: a *)
(* login phone that is verified and linked to the request's party.  No     *)
(* attachment and no verification that runs beside it takes it away.       *)
HoldersProved ==
  \A c \in events : c[1] \in Requests \ Doubled =>
    Proved([control |-> control, links |-> links], c[1], c[2])

(* A party has one primary phone, and a linked phone exists.               *)
OnePrimary ==
  \A p \in Parties : /\ \A f, g \in Primaries(p) : f = g
                     /\ \A f \in Phones : links[p][f] # "none" => control[f] # "absent"

(* Two relations of one party, property and code never overlap.            *)
PeriodsApart == Apart(period)

(* A subject's values follow one another without a gap, one of them is     *)
(* current, and property_attributes holds that one.                        *)
ValuesChained ==
  \A s \in Subjects :
    /\ \A v \in resolved[s] : \A w \in resolved[s] :
         v # w => v.from # w.from /\ v.to # w.to
    /\ \A v \in resolved[s] : v.to # None =>
         v.from < v.to /\ \E w \in resolved[s] : w.from = v.to
    /\ resolved[s] # {} => \E v \in Current(s) : projected[s] = v.by

(* A fact's level is the strongest that was ever confirmed, whatever the   *)
(* order in which the confirmations commit.                                *)
LevelIsStrongest ==
  /\ \A c \in confirmed : level[c[1]] # None /\ c[2] <= level[c[1]]
  /\ \A f \in Facts : level[f] \in {None, 0} \/ <<f, level[f]>> \in confirmed

(* A task is DONE by one completion, and what that one cites is what it    *)
(* cited then.                                                             *)
CompletedOnce ==
  /\ \A c, d \in completed : c[1] = d[1] => c = d
  /\ \A k \in Tasks : todo[k] = "DONE" <=> \E c \in completed : c[1] = k

CitedUnchanged == \A c \in completed : c[2] # None => body[c[2]] = c[3] /\ c[3] # 0

(* What is an account's own to read, by the rules of the loaders.          *)
EntitledTo(a, r) ==
  \/ r \in Requests /\ r \in claimed /\ RequestParty[r] = PartyOf[a]
  \/ r \in Properties /\ (CreatorOf[r] = a \/ <<r, a>> \in events)
  \/ r \in Opportunities /\ r \in shared /\ RequestParty[OpportunityOn[r][1]] = PartyOf[a]

(* What a read may show.  Under /me, what is the account's own: a record   *)
(* that is contested is nobody's, and only a claimant or staff is told so. *)
(* Neither a customer nor the public is shown an internal field.           *)
ShownByRight ==
  \A t \in Actors :
    /\ plan[t].kind = "me" /\ answer[t] = "shown" => EntitledTo(plan[t].account, Subject(t))
    /\ plan[t].kind = "me" /\ answer[t] = "contested" =>
         <<Subject(t), plan[t].account>> \in events \/ saw[t].roles # {"CUSTOMER"}
    /\ plan[t].kind \in {"me", "myParty", "public"} => \A x \in sight[t] : x[2] \notin Floor
    /\ sight[t] # {} => answer[t] = "shown"

(* An opportunity's entry on the area is shown to a customer only beside   *)
(* the area it was computed from, whatever changes while it is read.       *)
EntriesAgree ==
  \A t \in Actors : \A x \in sight[t] :
    plan[t].kind = "me" /\ x[2] = "entry" =>
      <<OpportunityOn[x[1]][2], "area", x[3]>> \in sight[t]

(* A property that is listed to the public is listed with an offer, and no *)
(* price but a public one.                                                 *)
ListedWithOffer ==
  \A t \in Actors : plan[t].kind = "public" =>
    /\ \A x \in sight[t] : x[1] \in Properties =>
         \E y \in sight[t] : y[1] \in Offers /\ OfferOn[y[1]] = x[1]
    /\ \A x \in sight[t] : x[2] = "price" => x[1] \in PublicPrice

(* What is recorded of an answer: a staff read and a list once, a run of a *)
(* request with the request, a customer's own read never; a denial once,   *)
(* also one that is answered like an unknown id.                           *)
Recording(t) ==
  CASE plan[t].kind \in {"me", "myParty"} /\ answer[t] = "shown" ->
         IF saw[t].roles = {"CUSTOMER"} THEN {<<>>} ELSE {<<"READ">>}
    [] plan[t].kind \in {"read", "internal", "match"} /\ answer[t] = "shown" -> {<<"READ">>}
    [] plan[t].kind = "diagnostic" /\ answer[t] = "shown" -> {<<"READ", "READ">>}
    [] plan[t].kind = "list" /\ answer[t] = "shown"       -> {<<"LIST">>}
    [] answer[t] = "denied"    -> {<<"DENIED">>, <<"ANOMALY">>, <<"CONFLICT">>}
    [] answer[t] = "concealed" -> {<<"DENIED">>, <<"CONFLICT">>}
    [] answer[t] = "contested" -> {<<"CONFLICT_TOLD">>}
    [] OTHER -> {trail[t]}

AnswersRecorded ==
  \A t \in Actors : at[t] = "done" => trail[t] \in Recording(t)

(* The four above: what is disclosed, and that it is recorded.             *)
DisclosedByRight == ShownByRight /\ EntriesAgree /\ ListedWithOffer /\ AnswersRecorded

(* What the process was started from keeps to the frozen package.          *)
ContractKept == contract \in Kept

(* The properties above at once, with the types and the locks.             *)
IInv ==
  /\ TypeOK /\ Compatible
  /\ OneHolder /\ HoldersProved /\ OnePrimary
  /\ ValuesChained /\ LevelIsStrongest
  /\ CompletedOnce /\ CitedUnchanged
  /\ PeriodsApart /\ ContractKept

(* A customer is authorised before the transaction begins.  The check made *)
(* again at the COMMIT would still pass, but where an identity review in   *)
(* between gave an offer's property another canonical record.              *)
AuthorityStands ==
  [][\A t \in Actors :
       plan[t].kind = "act" /\ Applied(t) /\ ~IsStaff(saw[t].roles) =>
         LET a == plan[t].account
             r == plan[t].record
         IN OwnRecord(a, r, Parent(r)) \/ (r \in Offers /\ Parent(r) # saw[t].parent)]_vars

(* A revocation's time, reason and evidence are replaced only by one that  *)
(* had read the grant before it was revoked: a retry changes nothing.      *)
RevocationKept ==
  [][\A c \in Consents :
       grants[c] = "REVOKED" =>
         /\ grants'[c] = "REVOKED"
         /\ revoker'[c] # revoker[c] =>
              \E t \in Actors : at[t] = "revoke" /\ view[t].grant = "GRANTED"]_vars

(* "Two concurrent resolutions of one attribute both succeed" (truth.py):  *)
(* one that gives no time, of a fact of its own subject, is never refused. *)
ResolutionsSucceed ==
  [][\A t \in Actors :
       /\ plan[t].kind = "resolve" /\ plan[t].given = None
       /\ plan[t].on \in Vocabulary /\ canonical[plan[t].on[1]] = plan[t].on[1]
       /\ plan[t].fact # None => level[plan[t].fact] # None /\ FactOn[plan[t].fact] = plan[t].on
       /\ answer[t] = "none"
       => answer'[t] \in {"none", "unauthenticated", "denied", "written", "error"}]_vars
=============================================================================
