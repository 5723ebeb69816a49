---------------------------- MODULE Disclosure ------------------------------
(***************************************************************************)
(* What is shown, to whom, and what is recorded of it: the customers' reads*)
(* under /me, the reads and lists of staff, the public list; the access    *)
(* records of each.  The external leads are here too, as the backlog that  *)
(* staff read.                                                             *)
(*                                                                         *)
(* A read is several statements of one session, and each of them sees what *)
(* is committed when it runs.                                              *)
(***************************************************************************)
EXTENDS Evidence, Sequences

CONSTANTS
  Opportunities, Leads,
  OpportunityOn,  \* its request and its property
  SummaryOnly,    \* the opportunities whose scope is SUMMARY_ONLY
  Evaluated,      \* the property's area in the approved match's snapshot
  PublicPrice,    \* the offers whose price_visibility is PUBLIC
  Diagnosed       \* the requests with a diagnostic run

Objects == Parties \union Requests \union Properties \union Opportunities

(* None stands for an id that names nothing.                               *)
MyPartyJob == [kind : {"myParty"}, account : Accts]
MeJob      == [kind : {"me"}, account : Accts,
               of : Requests \union Properties \union Opportunities \union {None}]
ReadParty    == [kind : {"read"}, account : Accts, of : Parties \union {None}]
ReadRequest  == [kind : {"read"}, account : Accts, of : Requests \union {None}]
ReadProperty == [kind : {"read"}, account : Accts, of : Properties \union {None}]
ReadOpportunity == [kind : {"internal"}, account : Accts, of : Opportunities \union {None}]
\* a match by the opportunity it was approved for
ReadMatch    == [kind : {"match"}, account : Accts, of : Opportunities \union {None}]
DiagnosticJob == [kind : {"diagnostic"}, account : Accts, of : Requests \union {None}]
ListOf(list, of) == [kind : {"list"}, account : Accts, list : {list}, of : of]
ListRelations    == ListOf("relations", Properties \union {None})
PartyTimeline    == ListOf("timeline", Parties \union {None})
ListTasks        == ListOf("tasks", {None})
ListCandidates   == ListOf("candidates", {None})
RequestQueue     == ListOf("requests", {None})
PropertyQueue    == ListOf("properties", {None})
MatchQueue       == ListOf("matches", {None})
OpportunityQueue == ListOf("opportunities", {None})
LeadQueue        == ListOf("leads", {None})
PublicJob  == [kind : {"public"}]
CaptureJob == [kind : {"capture"}, account : Accts, lead : Leads]
ConvertJob == [kind : {"convert"}, account : Accts, lead : Leads]
ChangeJob  == [kind : {"change"}, of : Properties \union Offers \union Opportunities]
ReadJobs == ReadParty \union ReadRequest \union ReadProperty \union ReadOpportunity
              \union ReadMatch \union DiagnosticJob
ListJobs == ListRelations \union PartyTimeline \union ListTasks \union ListCandidates
              \union RequestQueue \union PropertyQueue \union MatchQueue
              \union OpportunityQueue \union LeadQueue
DisclosureJobs == MyPartyJob \union MeJob \union ReadJobs \union ListJobs
                    \union PublicJob \union CaptureJob \union ConvertJob \union ChangeJob

ASSUME DisclosureAssumption ==
  /\ OpportunityOn \in [Opportunities -> Requests \X Properties]
  /\ SummaryOnly \subseteq Opportunities
  /\ Evaluated \in [Opportunities -> Nat]
  /\ PublicPrice \subseteq Offers
  /\ Diagnosed \subseteq Requests
  /\ None \notin Objects

VARIABLES
  active,   \* the offers that are ACTIVE
  listable, \* the properties whose supply is PUBLIC and availability listable
  area,     \* of each property
  shared,   \* the opportunities that were shared
  leads,    \* of each lead: absent, DISCOVERED or a closed status
  target,   \* the canonical record each read resolved its id to
  sight,    \* what each answer shows: <<record, field, value>>
  trail     \* the access records each actor's call emitted, in order

things     == <<active, listable, area, shared, leads>>
disclosure == <<things, target, sight, trail>>

Fields == {"version", "name", "status", "type", "location", "detail", "area", "supply",
           "availability", "management", "notes", "creator", "price", "entry", "period"}
Recorded == {"READ", "LIST", "DENIED", "ANOMALY", "CONFLICT", "CONFLICT_TOLD"}

Shown == (Objects \union Offers \union Ties \union Leads) \X Fields \X Nat

DisclosureTypeOK ==
  /\ active \subseteq Offers /\ listable \subseteq Properties
  /\ area \in [Properties -> Nat]
  /\ shared \subseteq Opportunities
  /\ leads \in [Leads -> {"absent", "DISCOVERED", "CLOSED"}]
  /\ target \in [Actors -> Properties \union {None}]
  /\ sight \in [Actors -> SUBSET Shown]
  /\ trail \in [Actors -> Seq(Recorded)]

-----------------------------------------------------------------------------
(* What is rendered: of the columns a loader selects, those the audience's *)
(* type has.  A column that is not selected is null, or its default.       *)
Floor == {"management", "notes", "creator"}

Loaded ==
  [party    |-> {"version", "name", "status"},
   request  |-> {"version", "status", "type", "management"},
   property |-> {"version", "type", "supply", "management"}]

CustomerView ==
  [party    |-> {"version", "name"},
   request  |-> {"status", "type", "location", "price"},
   property |-> {"version", "type", "location", "detail", "area", "supply", "availability"}]

StaffColumns ==
  [party    |-> {"version", "name", "status", "notes"},
   request  |-> {"version", "status", "type", "location", "detail", "price", "management"},
   property |-> {"version", "type", "location", "detail", "area", "supply", "availability",
                 "management", "creator"}]

InternalParty    == {"version", "name", "status"}
InternalRequest  == {"version", "status", "type", "location", "detail", "price", "management"}
InternalProperty == {"version", "type", "location", "detail", "area", "supply", "availability",
                     "management"}
InternalView == [party |-> InternalParty, request |-> InternalRequest,
                 property |-> InternalProperty]

Kind(r) == CASE r \in Parties -> "party" [] r \in Requests -> "request"
             [] r \in Properties -> "property"

ValueOf(r, f) == IF r \in Properties /\ f = "area" THEN area[r] ELSE 0
Show(r, fs) == {<<r, f, ValueOf(r, f)>> : f \in fs}

(* The opportunity's property: the summary's fields, or all of them but    *)
(* the free text.                                                          *)
ScopeView(o) ==
  {"type", "supply", "location"} \union
    IF o \in SummaryOnly THEN {} ELSE {"area", "availability", "version"}

(* An entry on the area is shown at a scope that shows the area, and while *)
(* the property still has the value it was computed from.                  *)
Fault_AtTheScope(o) == o \notin SummaryOnly
EntryKept(o) == o \notin SummaryOnly /\ Evaluated[o] = area[OpportunityOn[o][2]]

ShowOpportunity(o) ==
  Show(OpportunityOn[o][2], ScopeView(o)) \union
    {<<o, "status", 0>>} \union IF EntryKept(o) THEN {<<o, "entry", Evaluated[o]>>} ELSE {}

-----------------------------------------------------------------------------
(* The access records.  A customer's own read leaves none, a list one.     *)
Emit(t, records) == trail' = [trail EXCEPT ![t] = @ \o records]

ReadRecord(t) == IF IsStaff(saw[t].roles) THEN <<"READ">> ELSE <<>>

(* The end of a read: its answer, what is shown and what is recorded.      *)
Reply(t, what, shows, records) ==
  /\ End(t, what)
  /\ sight' = [sight EXCEPT ![t] = shows]
  /\ Emit(t, records)
  /\ UNCHANGED <<things, target>>

(* Under /me a denial is the answer an unknown id gets.                    *)
Conceal(t, event) == Reply(t, "concealed", {}, <<event>>)

Proceed(t, step) == Continue(t, step) /\ UNCHANGED disclosure

-----------------------------------------------------------------------------
(* The customers' reads.                                                   *)
ReadMyParty(t) ==
  LET p == PartyOf[plan[t].account]
  IN /\ at[t] = "myParty"
     /\ Reply(t, "shown", Show(p, Loaded.party \intersect CustomerView.party), ReadRecord(t))

Canonical(t) ==
  /\ at[t] = "canonical"
  /\ target' = [target EXCEPT ![t] = IF plan[t].of \in Properties THEN canonical[plan[t].of]
                                                                  ELSE None]
  /\ Continue(t, IF plan[t].kind = "me" THEN "contest" ELSE "staffRow")
  /\ UNCHANGED <<things, sight, trail>>

(* The record whose claims decide, and whether they contradict each other. *)
Subject(t)   == IF target[t] # None THEN target[t] ELSE plan[t].of
Contested(r) == r \in Records /\ \E b, c \in Holders(r) : b # c

(* A contested record is nobody's.  Its claimants are told so, and staff;  *)
(* anyone else is answered as if there were nothing.                       *)
MayLearn(a, r, mine) == a \in Holders(r) \/ IsStaff(mine)

GuardContest(t) ==
  LET r == Subject(t)
  IN /\ at[t] = "contest"
     /\ IF ~Contested(r) THEN Proceed(t, "row")
        ELSE IF MayLearn(plan[t].account, r, saw[t].roles)
               THEN Reply(t, "contested", {}, <<"CONFLICT_TOLD">>)
               ELSE Conceal(t, "CONFLICT")

Loads(a, r) ==
  \/ r \in Requests /\ PartyOf[a] = RequestParty[r] /\ r \in claimed
  \/ r \in Properties /\ (Created(a, r) \/ a \in Holders(r))

LoadRow(t) ==
  LET r == Subject(t)
  IN /\ at[t] = "row"
     /\ IF r # None /\ Loads(plan[t].account, r)
          THEN Reply(t, "shown", Show(r, Loaded[Kind(r)] \intersect CustomerView[Kind(r)]),
                        ReadRecord(t))
          ELSE Conceal(t, "DENIED")

(* Its request's party, and shared.                                        *)
LoadsOpportunity(a, o) == PartyOf[a] = RequestParty[OpportunityOn[o][1]] /\ o \in shared

LoadOpportunity(t) ==
  /\ at[t] = "opportunity"
  /\ IF LoadsOpportunity(plan[t].account, plan[t].of)
       THEN /\ Emit(t, ReadRecord(t)) /\ Continue(t, "render")
            /\ UNCHANGED <<things, target, sight>>
       ELSE Conceal(t, "DENIED")

(* The property's current row, with which the entries are compared.        *)
RenderOpportunity(t) ==
  /\ at[t] = "render"
  /\ Reply(t, "shown", ShowOpportunity(plan[t].of), <<>>)

-----------------------------------------------------------------------------
(* The staff's reads: any row, by role, and recorded.                      *)
StaffRow(t) ==
  LET r == Subject(t)
  IN /\ at[t] = "staffRow"
     /\ CASE r = None -> Reply(t, "denied", {}, <<"DENIED">>)
          [] r # None /\ plan[t].kind = "diagnostic" ->
               Emit(t, <<"READ">>) /\ Continue(t, "diagnostic") /\ UNCHANGED <<things, target, sight>>
          [] OTHER -> Reply(t, "shown",
                 Show(r, StaffColumns[Kind(r)] \intersect InternalView[Kind(r)]), <<"READ">>)

(* The stored row, before it is recorded: nothing of it is filtered.       *)
InternalOpportunity(t) ==
  LET o == plan[t].of
  IN /\ at[t] = "internal"
     /\ IF o = None THEN Reply(t, "denied", {}, <<"DENIED">>)
        ELSE Reply(t, "shown", {<<o, "status", 0>>, <<o, "entry", Evaluated[o]>>}, <<"READ">>)

(* Its existence, the record, then the match as it was evaluated.          *)
StoredMatch(t) ==
  LET o == plan[t].of
  IN /\ at[t] = "match"
     /\ IF o = None THEN Reply(t, "denied", {}, <<"DENIED">>)
        ELSE Reply(t, "shown", {<<o, "entry", Evaluated[o]>>}, <<"READ">>)

(* The latest run of a request that was recorded as read already.          *)
LatestDiagnostic(t) ==
  /\ at[t] = "diagnostic"
  /\ IF plan[t].of \in Diagnosed
       THEN Reply(t, "shown", {<<plan[t].of, "entry", 0>>}, <<"READ">>)
       ELSE Reply(t, "unknown", {}, <<>>)

(* One record of a list, whatever it holds.  A party's timeline passes the *)
(* party's gate first; an unknown property's relations leave no record.    *)
Backlog == {l \in Leads : leads[l] = "DISCOVERED"}

Listed(t) ==
  CASE plan[t].list = "relations" ->
         {<<x, "period", 0>> : x \in {x \in Ties : TieOf[x][2] = plan[t].of /\ InForce(x, began[t])}}
    [] plan[t].list = "leads" -> {<<l, "status", 0>> : l \in Backlog}
    [] OTHER -> {}

ReadList(t) ==
  /\ at[t] = "list"
  /\ CASE plan[t].list = "timeline" /\ plan[t].of \notin Parties ->
            Reply(t, "denied", {}, <<"DENIED">>)
       [] plan[t].list = "relations" /\ plan[t].of \notin Properties ->
            Reply(t, "unknown", {}, <<>>)
       [] OTHER -> Reply(t, "shown", Listed(t), <<"LIST">>)

-----------------------------------------------------------------------------
(* The public list.  What is consented is looked up when the list is read. *)
Consented(o) ==
  \E c \in Consents :
    /\ <<c, "PUBLIC_LISTING_ALLOWED", o>> \in bindings
    /\ ConsentScope[c] = "PUBLIC_LISTING_ALLOWED" /\ grants[c] = "GRANTED"
    /\ ConsentParty[c] = OfferParty[o]

ListableOffers == {o \in active : Consented(o)}
Page == {p \in listable : canonical[p] = p /\ \E o \in ListableOffers : OfferOn[o] = p}

PublicView == {"type", "location", "area", "supply", "availability"}
PublicOffer(o) == {"type"} \union IF o \in PublicPrice THEN {"price"} ELSE {}

(* One statement, so one snapshot.                                         *)
ListPublic(t) ==
  /\ at[t] = "idle" /\ plan[t].kind = "public"
  /\ Reply(t, "shown",
       UNION ({Show(p, PublicView) : p \in Page} \union
              {Show(o, PublicOffer(o)) : o \in {o \in ListableOffers : OfferOn[o] \in Page}}),
       <<>>)

-----------------------------------------------------------------------------
(* External leads: captured, and never converted.                          *)
Capture(t) ==
  /\ at[t] = "capture"
  /\ leads[plan[t].lead] = "absent"
  /\ leads' = [leads EXCEPT ![plan[t].lead] = "DISCOVERED"]
  /\ End(t, "written")
  /\ UNCHANGED <<active, listable, area, shared, target, sight, trail>>

RefuseConversion(t) ==
  /\ at[t] = "convert"
  /\ End(t, IF leads[plan[t].lead] = "absent" THEN "unknown" ELSE "refused")
  /\ UNCHANGED disclosure

(* The commands that change what is shown, by other modules' rules: an     *)
(* offer's transition, a confirmation of what a property's availability is,*)
(* a property's PATCH, a share.                                            *)
Toggle(S, x) == IF x \in S THEN S \ {x} ELSE S \union {x}

MovesOffer(x) ==
  x \in Offers /\ active' = Toggle(active, x) /\ UNCHANGED <<listable, area, shared>>
ConfirmsAvailability(x) ==
  x \in Properties /\ listable' = Toggle(listable, x) /\ UNCHANGED <<active, area, shared>>
PatchesArea(x) ==
  x \in Properties /\ area' = [area EXCEPT ![x] = @ + 1] /\ UNCHANGED <<active, listable, shared>>
SharesIt(x) ==
  x \in Opportunities /\ shared' = shared \union {x} /\ UNCHANGED <<active, listable, area>>

Change(t) ==
  LET x == plan[t].of
  IN /\ at[t] = "idle" /\ plan[t].kind = "change"
     /\ MovesOffer(x) \/ ConfirmsAvailability(x) \/ PatchesArea(x) \/ SharesIt(x)
     /\ End(t, "written")
     /\ UNCHANGED <<leads, target, sight, trail>>

-----------------------------------------------------------------------------
MeStart(x) ==
  CASE x \in Properties -> "canonical" [] x \in Requests -> "contest"
    [] x \in Opportunities -> "opportunity" [] OTHER -> "row"

DisclosureStart(job) ==
  CASE job.kind = "me"   -> MeStart(job.of)
    [] job.kind = "read" -> IF job.of \in Properties THEN "canonical" ELSE "staffRow"
    [] job.kind = "diagnostic" -> "staffRow"
    [] OTHER -> job.kind

Reading == {"myParty", "canonical", "contest", "row", "opportunity", "render", "staffRow",
            "internal", "match", "diagnostic", "list"}

DisclosureOpen == Reading \union {"capture"}

DisclosureStep(t) ==
  \/ ReadMyParty(t) \/ Canonical(t) \/ GuardContest(t) \/ LoadRow(t)
  \/ LoadOpportunity(t) \/ RenderOpportunity(t)
  \/ StaffRow(t) \/ InternalOpportunity(t) \/ StoredMatch(t) \/ LatestDiagnostic(t) \/ ReadList(t) \/ ListPublic(t)
  \/ Capture(t) \/ RefuseConversion(t) \/ Change(t)
=============================================================================
