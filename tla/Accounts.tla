------------------------------ MODULE Accounts ------------------------------
(***************************************************************************)
(* Who may act on what: accounts and their roles, contact points and the   *)
(* parties they reach, the claims of records, and what changes them: a     *)
(* phone verification, a role's grant, a phone's attachment, a claim.  Then*)
(* a command on a request, a property or an offer, authorised from them.   *)
(*                                                                         *)
(* What no code changes once it is set is constant here: an account's party*)
(* and login contact point, a request's party, a record's creator.         *)
(***************************************************************************)
EXTENDS CommandTxn

CONSTANTS
  Accts, Parties, Phones,
  Requests, Properties, Offers,
  PartyOf,      \* an account's party, or None
  LoginOf,      \* an account's login contact point, or None
  RequestParty,
  CreatorOf,    \* a property's or an offer's creator account, or None
  OfferOn,      \* the property an offer is for
  OfferParty

Records   == Requests \union Properties
Statuses  == {"INVITED", "ACTIVATED", "SUSPENDED"}
Purposes  == {"LOGIN", "VERIFY_PHONE_CONTROL"}
Kinds     == Phones \X Purposes

OtpJob    == [kind : {"otp"}, phone : Phones, purpose : Purposes]
CodeJob   == [kind : {"code"}, phone : Phones, purpose : Purposes]
GrantJob  == [kind : {"grant"}, account : Accts, role : Roles]
AttachJob == [kind : {"attach"}, account : Accts, party : Parties, phone : Phones,
              primary : BOOLEAN]
ClaimJob  == [kind : {"claim"}, account : Accts, record : Records, contact : Phones]
ActJob    == [kind : {"act"}, account : Accts, record : Records \union Offers]
SuspendJob == [kind : {"suspend"}, account : Accts]
AliasJob   == [kind : {"alias"}, of : Properties, to : Properties]
AccountJobs == OtpJob \union CodeJob \union GrantJob \union AttachJob \union ClaimJob \union ActJob
                 \union SuspendJob \union AliasJob

ASSUME AccountsAssumption ==
  /\ PartyOf \in [Accts -> Parties \union {None}]
  /\ LoginOf \in [Accts -> Phones \union {None}]
  /\ RequestParty \in [Requests -> Parties]
  /\ CreatorOf \in [Properties \union Offers -> Accts \union {None}]
  /\ OfferOn \in [Offers -> Properties]
  /\ OfferParty \in [Offers -> Parties \union {None}]
  /\ None \notin Accts \union Parties \union Phones
  /\ Requests \intersect Properties = {} /\ Records \intersect Offers = {}
  /\ Phones \union Records \subseteq Rows
  /\ \A a, b \in Accts : LoginOf[a] = LoginOf[b] /\ LoginOf[a] # None => a = b

VARIABLES
  status,    \* of each account; SUSPENDED stands for DISABLED too
  roles,
  control,   \* of each phone: absent, UNVERIFIED or VERIFIED_CONTROL
  links,     \* how each phone is linked to each party: none, plain or primary
  codes,     \* the challenges the provider holds, by phone and purpose
  events,    \* the claim events: <<record, account>>
  claimed,   \* the records whose claim_status is CLAIMED
  canonical, \* of each property: itself, unless it is an alias
  saw        \* what each actor has read and will decide on

registry == <<status, roles, control, links, codes, events, claimed, canonical, saw>>

Read == [status : Statuses \union {None}, roles : SUBSET Roles, new : BOOLEAN,
         cleared : SUBSET Phones, parent : Properties \union {None}]
NothingRead ==
  [status |-> None, roles |-> {}, new |-> FALSE, cleared |-> {}, parent |-> None]

AccountsTypeOK ==
  /\ status \in [Accts -> Statuses]
  /\ roles \in [Accts -> SUBSET Roles]
  /\ control \in [Phones -> {"absent", "UNVERIFIED", "VERIFIED_CONTROL"}]
  /\ links \in [Parties -> [Phones -> {"none", "plain", "primary"}]]
  /\ codes \subseteq Kinds
  /\ events \subseteq Records \X Accts
  /\ claimed \subseteq Records
  /\ canonical \in [Properties -> Properties]
  /\ saw \in [Actors -> Read]

Holders(r)   == {a \in Accts : <<r, a>> \in events}
Primaries(p) == {ph \in Phones : links[p][ph] = "primary"}

Sees(t, what) == saw' = [saw EXCEPT ![t] = what]

Refuse(t)  == End(t, "refused") /\ UNCHANGED registry

-----------------------------------------------------------------------------
(* The provider sends a code, whether or not anyone has that phone.        *)
StartVerification(t) ==
  /\ at[t] = "idle" /\ plan[t].kind = "code"
  /\ codes' = codes \union {<<plan[t].phone, plan[t].purpose>>}
  /\ End(t, "written")
  /\ UNCHANGED <<status, roles, control, links, events, claimed, canonical, saw>>

(* Phone verification.  The provider's check consumes the code, whatever   *)
(* becomes of the transaction; a code of neither purpose is a wrong one.   *)
CheckCode(t) ==
  /\ at[t] = "idle" /\ plan[t].kind = "otp"
  /\ IF <<plan[t].phone, plan[t].purpose>> \in codes
       THEN /\ codes' = codes \ {<<plan[t].phone, plan[t].purpose>>}
            /\ Continue(t, "mark")
            /\ UNCHANGED <<status, roles, control, links, events, claimed, canonical, saw>>
       ELSE Refuse(t)

Owner(ph) == {a \in Accts : LoginOf[a] = ph}

(* The contact point's upsert locks its row, or its place in the index;    *)
(* then the account that logs in with it is read, without a lock.          *)
MarkControl(t) ==
  /\ at[t] = "mark"
  /\ LockAnd(t, plan[t].phone, NoKeyUpdate, "activate")
  /\ Sees(t, [saw[t] EXCEPT !.status =
       IF plan[t].purpose = "LOGIN" /\ Owner(plan[t].phone) # {}
         THEN status[CHOOSE a \in Owner(plan[t].phone) : TRUE] ELSE None])
  /\ UNCHANGED <<status, roles, control, links, codes, events, claimed, canonical>>

(* INVITED becomes ACTIVATED, an ACTIVATED account logs in, any other one  *)
(* is left alone.                                                          *)
Activates(t) == {a \in Owner(plan[t].phone) : saw[t].status = "INVITED"}

Activate(t) ==
  /\ at[t] = "activate"
  /\ control' = [control EXCEPT ![plan[t].phone] = "VERIFIED_CONTROL"]
  /\ status' = [a \in Accts |-> IF a \in Activates(t) THEN "ACTIVATED" ELSE status[a]]
  /\ End(t, "written")
  /\ UNCHANGED <<roles, links, codes, events, claimed, canonical, saw>>

(* An administrator, with SQL: no code of the repository suspends.         *)
Suspend(t) ==
  /\ at[t] = "idle" /\ plan[t].kind = "suspend"
  /\ status' = [status EXCEPT ![plan[t].account] = "SUSPENDED"]
  /\ End(t, "written")
  /\ UNCHANGED <<roles, control, links, codes, events, claimed, canonical, saw>>

-----------------------------------------------------------------------------
(* grant_role: the roles are read without a lock.                          *)
ReadRoles(t) ==
  /\ at[t] = "idle" /\ plan[t].kind = "grant"
  /\ Sees(t, [saw[t] EXCEPT !.roles = roles[plan[t].account]])
  /\ Continue(t, "insert")
  /\ UNCHANGED <<status, roles, control, links, codes, events, claimed, canonical>>

MayGrant(t) == ~InvalidCombination(saw[t].roles \union {plan[t].role})

InsertRole(t) ==
  /\ at[t] = "insert"
  /\ IF MayGrant(t)
       THEN /\ roles' = [roles EXCEPT ![plan[t].account] = @ \union {plan[t].role}]
            /\ End(t, "written")
            /\ UNCHANGED <<status, control, links, codes, events, claimed, canonical, saw>>
       ELSE Refuse(t)

-----------------------------------------------------------------------------
(* attach_phone: the contact point is looked up, and created if there is   *)
(* none, which waits for whoever else creates it.                          *)
ReadContact(t) ==
  /\ at[t] = "contact"
  /\ Sees(t, [saw[t] EXCEPT !.new = control[plan[t].phone] = "absent"])
  /\ Continue(t, IF control[plan[t].phone] = "absent" THEN "create" ELSE "clear")
  /\ UNCHANGED <<status, roles, control, links, codes, events, claimed, canonical>>

CreateContact(t) ==
  /\ at[t] = "create"
  /\ Blockers(t, plan[t].phone, Update) = {}
  /\ IF control[plan[t].phone] = "absent"
       THEN LockAnd(t, plan[t].phone, Update, "clear") /\ UNCHANGED registry
       ELSE End(t, "index") /\ UNCHANGED registry

(* The party's primaries, as the UPDATE that clears them finds them.       *)
ToClear(t) == IF plan[t].primary THEN Primaries(plan[t].party) ELSE {}

ClearPrimaries(t) ==
  /\ at[t] = "clear"
  /\ Sees(t, [saw[t] EXCEPT !.cleared = ToClear(t)])
  /\ Continue(t, "link")
  /\ UNCHANGED <<status, roles, control, links, codes, events, claimed, canonical>>

(* One primary contact of a kind: the unique index refuses a second one.   *)
LinkPhone(t) ==
  LET p    == plan[t].party
      kept == [ph \in Phones |-> IF ph \in saw[t].cleared /\ links[p][ph] # "none"
                                   THEN "plain" ELSE links[p][ph]]
      new  == [kept EXCEPT ![plan[t].phone] = IF plan[t].primary THEN "primary" ELSE "plain"]
  IN /\ at[t] = "link"
     /\ IF plan[t].primary /\ \E ph \in Phones \ {plan[t].phone} : kept[ph] = "primary"
          THEN End(t, "index") /\ UNCHANGED registry
          ELSE /\ links' = [links EXCEPT ![p] = new]
               /\ control' = IF saw[t].new THEN [control EXCEPT ![plan[t].phone] = "UNVERIFIED"]
                                           ELSE control
               /\ End(t, "written")
               /\ UNCHANGED <<status, roles, codes, events, claimed, canonical, saw>>

-----------------------------------------------------------------------------
(* claim_record.  The record is locked, then everything is read.  A        *)
(* property's eligibility rule is not decided, so none is eligible.        *)
Fault_AnyVerifiedPhone(a, r, ph) ==
  /\ status[a] = "ACTIVATED" /\ PartyOf[a] # None
  /\ r \in Requests /\ RequestParty[r] = PartyOf[a]
  /\ control[ph] = "VERIFIED_CONTROL" /\ links[RequestParty[r]][ph] # "none"

Eligible(a, r, ph) ==
  /\ status[a] = "ACTIVATED" /\ PartyOf[a] # None
  /\ r \in Requests /\ RequestParty[r] = PartyOf[a]
  /\ LoginOf[a] = ph
  /\ control[ph] = "VERIFIED_CONTROL"
  /\ links[RequestParty[r]][ph] # "none"

(* What the claim comes to, once the record is locked.                     *)
Outcome(a, r, ph) ==
  CASE ~Eligible(a, r, ph) \/ Holders(r) \ {a} # {} -> "refused"
    [] Eligible(a, r, ph) /\ Holders(r) = {a}       -> "replayed"
    [] OTHER -> IF r \in claimed THEN "refused" ELSE "claims"

LockRecord(t) ==
  LET what == Outcome(plan[t].account, plan[t].record, plan[t].contact)
  IN /\ at[t] = "lock"
     /\ Blockers(t, plan[t].record, Update) = {}
     /\ IF what = "claims" THEN LockAnd(t, plan[t].record, Update, "claims")
                           ELSE End(t, what)
     /\ UNCHANGED registry

Claim(t) ==
  /\ at[t] = "claims"
  /\ events' = events \union {<<plan[t].record, plan[t].account>>}
  /\ claimed' = claimed \union {plan[t].record}
  /\ End(t, "written")
  /\ UNCHANGED <<status, roles, control, links, codes, canonical, saw>>

-----------------------------------------------------------------------------
(* The scoped loaders, for an account and the property that parent is taken*)
(* to be: the creator, or a claim; a claim opens an offer only where the   *)
(* party matches and it is the parent's only one (INV-1).                  *)
Created(a, r) == CreatorOf[r] = a

LoadProperty(a, parent) ==
  /\ \A b, c \in Holders(parent) : b = c
  /\ Created(a, parent) \/ a \in Holders(parent)

LoadOffer(a, o, parent) ==
  \/ Created(a, o)
  \/ /\ PartyOf[a] # None /\ OfferParty[o] = PartyOf[a]
     /\ parent \in claimed /\ Holders(parent) = {a}

Parent(r) ==
  IF r \in Properties THEN canonical[r] ELSE IF r \in Offers THEN canonical[OfferOn[r]] ELSE None

(* A customer's authority over a record; staff need none.                  *)
OwnRecord(a, r, parent) ==
  CASE r \in Requests   -> PartyOf[a] = RequestParty[r]
    [] r \in Properties -> LoadProperty(a, parent)
    [] r \in Offers     -> LoadOffer(a, r, parent)

(* The object check of each command here; a claim has none before its own. *)
OwnAccounts(t) ==
  CASE plan[t].kind = "attach" -> PartyOf[plan[t].account] = plan[t].party
    [] plan[t].kind = "act" ->
         OwnRecord(plan[t].account, plan[t].record, Parent(plan[t].record))
    [] plan[t].kind = "claim" -> TRUE

AccountsStart == [attach |-> "contact", claim |-> "lock", act |-> "act"]

(* The command itself, for which the record's row is locked.  A property's *)
(* commands refuse an alias; an offer's do not look.                       *)
Fault_ActsOnAlias(r) == TRUE
NotAlias(r) == r \in Properties => canonical[r] = r

Act(t) ==
  /\ at[t] = "act"
  /\ plan[t].record \in Records => Blockers(t, plan[t].record, Update) = {}
  /\ End(t, IF NotAlias(plan[t].record) THEN "written" ELSE "refused")
  /\ UNCHANGED registry

(* An identity review, with both properties locked.  It refuses to make an *)
(* alias of a property that is another one's canonical.                    *)
Alias(t) ==
  LET p == plan[t].of
      q == plan[t].to
  IN /\ at[t] = "idle" /\ plan[t].kind = "alias"
     /\ Blockers(t, p, Update) = {} /\ Blockers(t, q, Update) = {}
     /\ IF /\ p # q /\ canonical[p] = p /\ canonical[q] = q
           /\ \A s \in Properties : canonical[s] = p => s = p
          THEN /\ canonical' = [canonical EXCEPT ![p] = q]
               /\ End(t, "written")
               /\ UNCHANGED <<status, roles, control, links, codes, events, claimed, saw>>
          ELSE Refuse(t)

(* A transaction that fails writes nothing; the provider's code is gone.   *)
AccountsOpen == {"mark", "activate", "insert", "contact", "create", "clear", "link",
                 "lock", "claims", "act"}

AccountsStep(t) ==
  \/ StartVerification(t) \/ CheckCode(t) \/ MarkControl(t) \/ Activate(t) \/ Suspend(t)
  \/ ReadRoles(t) \/ InsertRole(t)
  \/ ReadContact(t) \/ CreateContact(t) \/ ClearPrimaries(t) \/ LinkPhone(t)
  \/ LockRecord(t) \/ Claim(t) \/ Act(t) \/ Alias(t)
=============================================================================
