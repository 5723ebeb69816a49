----------------------------- MODULE MCRegistry -----------------------------
(* Two or three actors over three accounts of two parties.                 *)
EXTENDS Registry, TLC

CONSTANTS t1, t2, t3, anna, basel, omar, pa, pb, fa, fb, fn, req, house, villa, sale, cn, cw,
          cp, ob, on, f1, f2, k, surface, rooms, own, again, bad, gone, whole, brief, ld, lo

MCAccts   == {anna, basel, omar}
MCPartyOf == anna :> pa @@ basel :> pa @@ omar :> None
MCLoginOf == anna :> fa @@ basel :> fb @@ omar :> None
MCRows    == {fa, fb, fn, req, house, villa, sale, cn, cw, cp, ob, on, f1, f2, k,
             own, again, bad, gone, ld, lo}
MCRequestParty == req :> pa
MCCreatorOf    == house :> anna @@ villa :> omar @@ sale :> None
MCOfferOn      == sale :> house
MCOfferParty   == sale :> pa
MCConsentParty == cn :> pa @@ cw :> pb @@ cp :> pa
MCConsentScope == cn :> "MATCHING" @@ cw :> "CONTENT_ARCHIVE"
                    @@ cp :> "PUBLIC_LISTING_ALLOWED"
MCTieOf        == own :> <<pb, house, "OTHER">> @@ again :> <<pb, house, "OTHER">>
               @@ bad :> <<None, house, "OTHER">> @@ gone :> <<pb, None, "BROKER">>
MCOpportunityOn == whole :> <<req, house>> @@ brief :> <<req, house>>
MCEvaluated     == whole :> 0 @@ brief :> 0
MCFactOn       == f1 :> <<house, surface>> @@ f2 :> <<house, rooms>>
MCVocabulary   == {<<house, surface>>, <<house, rooms>>, <<villa, surface>>}

Otp(f, for)    == [kind |-> "otp", phone |-> f, purpose |-> for]
Sends(f, for)  == [kind |-> "code", phone |-> f, purpose |-> for]
Grant(a, as)   == [kind |-> "grant", account |-> a, role |-> as]
Attach(a, f, primary) ==
  [kind |-> "attach", account |-> a, party |-> pa, phone |-> f, primary |-> primary]
Claims(a, s, f) == [kind |-> "claim", account |-> a, record |-> s, contact |-> f]
Acts(a, s)      == [kind |-> "act", account |-> a, record |-> s]
Consent(a, c)   == [kind |-> "consent", account |-> a, consent |-> c]
Revokes(a, c)   == [kind |-> "revoke", account |-> a, consent |-> c]
Binds(c, for, s) ==
  [kind |-> "bind", account |-> omar, consent |-> c, purpose |-> for, record |-> s]
Observes(a)     == [kind |-> "observe", account |-> a, observation |-> on]
Asserts(f, s)   == [kind |-> "assert", account |-> omar, fact |-> f, cites |-> s]
Verifies(f, l, how) ==
  [kind |-> "verify", account |-> omar, fact |-> f, level |-> l, outcome |-> how]
Resolves(i, f, when) ==
  [kind |-> "resolve", account |-> omar, on |-> i, fact |-> f, given |-> when]
Suspends(a)     == [kind |-> "suspend", account |-> a]
Aliases(x, y)   == [kind |-> "alias", of |-> x, to |-> y]
Amends(s, how)  == [kind |-> "amend", observation |-> s, deletes |-> how]
Completes(s)    == [kind |-> "complete", account |-> omar, task |-> k, cites |-> s]

Relates(x, when) == [kind |-> "relate", account |-> omar, tie |-> x, from |-> when]
Parts(x, of, when, known) ==
  [kind |-> "part", account |-> omar, tie |-> x, under |-> of, to |-> when, reasonKnown |-> known]
Me(a, of)       == [kind |-> "me", account |-> a, of |-> of]
MyParty(a)      == [kind |-> "myParty", account |-> a]
Reads(of)       == [kind |-> "read", account |-> omar, of |-> of]
Opens(o)        == [kind |-> "internal", account |-> omar, of |-> o]
Matched(o)      == [kind |-> "match", account |-> omar, of |-> o]
Diagnoses(of)   == [kind |-> "diagnostic", account |-> omar, of |-> of]
ListsOf(l, of) == [kind |-> "list", account |-> omar, list |-> l, of |-> of]
Public          == [kind |-> "public"]
Captures        == [kind |-> "capture", account |-> omar, lead |-> ld]
Converts(l)     == [kind |-> "convert", account |-> omar, lead |-> l]
Changes(x)      == [kind |-> "change", of |-> x]

Tables0 ==
  [status |-> anna :> "ACTIVATED" @@ basel :> "ACTIVATED" @@ omar :> "ACTIVATED",
   roles |-> anna :> {"CUSTOMER"} @@ basel :> {"CUSTOMER"} @@ omar :> {"OPERATOR"},
   control |-> fa :> "VERIFIED_CONTROL" @@ fb :> "UNVERIFIED" @@ fn :> "absent",
   links |-> pa :> (fa :> "primary" @@ fb :> "plain" @@ fn :> "none")
          @@ pb :> (fa :> "none" @@ fb :> "none" @@ fn :> "none"),
   codes |-> {<<fa, "LOGIN">>, <<fb, "LOGIN">>, <<fn, "VERIFY_PHONE_CONTROL">>},
   claimed |-> {}, selfServed |-> {},
   ties |-> own :> [from |-> 1, to |-> None] @@ again :> None @@ bad :> None @@ gone :> None,
   active |-> {sale}, listable |-> {house}, shared |-> {brief}, leads |-> ld :> "absent" @@ lo :> "DISCOVERED",
   grants |-> cn :> "GRANTED" @@ cw :> "absent" @@ cp :> "GRANTED",
   written |-> {ob}, said |-> {f1}, valued |-> {<<house, surface>>}, todo |-> k :> "OPEN"]

Invited == [Tables0 EXCEPT !.status[anna] = "INVITED", !.status[basel] = "INVITED",
                           !.links[pa][fb] = "none"]
Held    == [Tables0 EXCEPT !.claimed = {<<req, anna>>}, !.todo[k] = "IN_PROGRESS"]
Closed  == [Tables0 EXCEPT !.selfServed = {req}, !.todo[k] = "CANCELLED", !.roles[omar] = {"REVIEWER"}]

People ==
  {Sends(fa, "VERIFY_PHONE_CONTROL"), Otp(fa, "LOGIN"), Otp(fb, "LOGIN"), Otp(fb, "VERIFY_PHONE_CONTROL"),
   Otp(fn, "VERIFY_PHONE_CONTROL"), Grant(omar, "REVIEWER"), Grant(omar, "OPERATOR"),
   Attach(omar, fn, TRUE), Attach(anna, fb, TRUE), Attach(basel, fa, FALSE),
   Claims(anna, req, fa), Claims(basel, req, fb), Claims(basel, req, fa), Claims(omar, house, fa),
   Acts(anna, req), Observes(omar), Suspends(anna), Suspends(omar)}
Things ==
  {Suspends(anna), Aliases(house, villa), Aliases(villa, house), Acts(anna, house), Acts(anna, sale), Acts(omar, villa), Acts(basel, req),
   Consent(basel, cw), Consent(omar, cw), Revokes(anna, cn), Revokes(omar, cn),
   Revokes(omar, cw), Binds(cn, "MATCHING", req), Binds(cn, "MATCHING", sale),
   Binds(cw, "CONTENT_ARCHIVE", house), Binds(cn, "CONTENT_ARCHIVE", req)}
Truths ==
  {Aliases(house, villa), Amends(ob, FALSE), Amends(ob, TRUE), Observes(omar), Asserts(f2, ob), Asserts(f2, None), Verifies(f1, 1, "CONFIRMED"),
   Verifies(f1, 3, "CONFIRMED"), Verifies(f1, 2, "CONFLICT_FOUND"),
   Verifies(f2, 1, "INCONCLUSIVE"),
   Resolves(<<house, surface>>, f1, None), Resolves(<<house, surface>>, None, 2),
   Resolves(<<house, rooms>>, f2, None), Resolves(<<villa, surface>>, f1, 1),
   Resolves(<<villa, rooms>>, None, None),
   Completes(ob), Completes(on), Completes(None)}

Bonds ==
  {Relates(again, None), Relates(again, 1), Relates(again, 9), Relates(bad, None),
   Relates(gone, None), Parts(own, house, None, TRUE), Parts(own, house, 1, TRUE),
   Parts(own, house, 9, TRUE), Parts(own, villa, None, TRUE), Parts(own, house, None, FALSE),
   Parts(again, house, None, TRUE), Binds(cw, "CONTENT_ARCHIVE", house),
   ListsOf("relations", house), Aliases(house, villa)}
Readers ==
  {MyParty(anna), MyParty(omar), Me(anna, req), Me(basel, req), Me(anna, house), Me(anna, villa),
   Me(basel, villa), Me(anna, whole), Me(anna, brief), Me(anna, None), Me(omar, house),
   Reads(pa), Reads(req), Reads(house), Opens(whole), Opens(None), Matched(whole), Matched(None), Reads(None), Diagnoses(req),
   Diagnoses(None), ListsOf("relations", house), ListsOf("relations", None),
   ListsOf("timeline", pa), ListsOf("timeline", None), ListsOf("leads", None)}
Writers ==
  {Claims(anna, req, fa), Aliases(house, villa), Changes(house), Changes(whole), Captures,
   Converts(ld), Converts(lo), Suspends(anna), Acts(anna, sale), Acts(basel, sale), Acts(basel, villa)}
Listing == {Revokes(anna, cp), Changes(sale), Changes(house), Aliases(house, villa)}

(* Two of a set, and a third of a smaller one or a mistaken code, which    *)
(* ends at once.  Any order will do, as the actors are interchangeable.    *)
Mistaken == Otp(fa, "VERIFY_PHONE_CONTROL")

Plans(R, S, T) ==
  {x \in {t1 :> a @@ t2 :> b @@ t3 :> c : a \in R, b \in S, c \in T} :
     \A t, u \in Actors : t # u => New(x[t]) \intersect New(x[u]) = {}}
Plan(S, T) == Plans(S, S, T)

(* A property that two accounts claimed, and accounts of several roles.    *)
Contest == [Tables0 EXCEPT !.claimed = {<<villa, anna>>, <<villa, omar>>},
                           !.grants[cw] = "GRANTED"]
Mixed   == [Tables0 EXCEPT !.claimed = {<<villa, anna>>, <<villa, omar>>, <<req, anna>>},
                           !.roles[omar] = {"OPERATOR", "REVIEWER", "CUSTOMER"},
                           !.roles[basel] = {"CUSTOMER", "OPERATOR"}, !.shared = {whole, brief}]
Unknown == [Tables0 EXCEPT !.ties[own] = [from |-> None, to |-> 2], !.grants[cw] = "GRANTED"]

-----------------------------------------------------------------------------
(* The package, the addendum of the three relation operations, and one     *)
(* document for each overlay.                                              *)
Clerks   == {"ADMIN", "OPERATOR"}
Everyone == Clerks \union {"CUSTOMER"}
Rights ==
  [id \in {"attach", "claim", "act", "consent", "revoke"} |-> Everyone]
    @@ [id \in {"bind", "observe", "assert", "capture", "convert"} |-> Clerks]
    @@ [id \in {"verify", "resolve", "complete", "read", "internal", "match", "diagnostic", "list"} |-> Staff]
    @@ [id \in {"myParty", "me"} |-> {"CUSTOMER"}] @@ [id \in PublicOperations \union {"reasons"} |-> {}]
Bodies   == [complete |-> "outcome", observe |-> "fact", assert |-> "fact"]
Op(id)   == [id |-> id, route |-> id, open |-> id \in PublicOperations, roles |-> Rights[id],
             statuses |-> {"200", "500"}, body |-> IF id \in DOMAIN Bodies THEN Bodies[id] ELSE None]
Package  == {Op(id) : id \in DOMAIN Rights}
Bond(id) == [id |-> id, route |-> id, open |-> FALSE, roles |-> Clerks, statuses |-> {"200"}, body |-> None]
Addendum == [kind |-> "ADDITION", decided |-> TRUE, bound |-> TRUE, operations |-> {Bond("relate"), Bond("part")}]

Field(takes, default, null) == [values |-> takes, default |-> default, null |-> null]
Components ==
  [outcome |-> [required |-> {"note"}, allOf |-> {},
     fields |-> [code |-> Field({"met", "lost"}, "met", "type"), note |-> Field({"x"}, None, "no"),
                 by |-> Field({"x"}, None, "branch"), at |-> Field({"x"}, "x", "elsewhere")]],
   fact |-> [required |-> {}, allOf |-> {}, fields |-> [code |-> Field({"met"}, None, "type")]]]
Branch(read) == [read |-> read, field |-> "code", value |-> "lost", needs |-> "by"]

Frozen(f) == f \in DOMAIN Components.outcome.fields /\ Components.outcome.fields[f].default # None
Correct(of, was, now) == [id |-> "C1", of |-> of, decided |-> TRUE, frozen |-> was, corrected |-> now]
Narrow(of, require, nonNull, enum, allOf) ==
  [id |-> "C4", of |-> of, decided |-> TRUE, require |-> require, nonNull |-> nonNull, enum |-> enum,
   allOf |-> allOf, defaults |-> [f \in require |-> IF Frozen(f) THEN Components.outcome.fields[f].default ELSE None]]
Adds(of, as) == [id |-> "C7", of |-> of, status |-> as, decided |-> TRUE, described |-> TRUE,
                 frozen |-> {"200", "500"}]
Corrections ==
  {Correct(of, was, now) : of \in {"claim", "bind", "relate", "reasons", "code", "none"},
                           was \in {Everyone, Clerks, {}}, now \in SUBSET Everyone}
Narrowings ==
  {Narrow("complete", require, nonNull, enum, allOf) :
     require \in SUBSET {"code", "by", "note", "at"}, nonNull \in SUBSET {"code", "by", "at"},
     enum \in {<<>>, [code |-> {"met"}], [code |-> {"met", "won"}], [by |-> {"x"}]},
     allOf \in {{}, {Branch(TRUE)}, {Branch(FALSE)}}}
    \union {Narrow(of, {"code"}, {}, <<>>, {}) : of \in {"observe", "bind", "none"}}

Plain ==
  [addenda |-> {Addendum}, corrections |-> {}, narrowings |-> {}, additions |-> {}, adopted |-> {"W1"}]
Overlays ==
  {Plain, [Plain EXCEPT !.addenda = {}], [Plain EXCEPT !.addenda = {[Addendum EXCEPT !.bound = FALSE]}]}
    \union {[Plain EXCEPT !.corrections = {c}] : c \in Corrections}
    \union {[Plain EXCEPT !.narrowings = {n}] : n \in Narrowings}
    \union {[Plain EXCEPT !.additions = {Adds(of, as)}] : of \in {"claim", "relate"}, as \in {"404", "500", "503"}}
    \union {[Plain EXCEPT !.addenda = {Addendum, [Addendum EXCEPT !.operations = {o}]}] :
             o \in {Bond("move"), Bond("part"), [Bond("move") EXCEPT !.roles = {}],
                   [Bond("move") EXCEPT !.route = "claim"], [Bond("claim") EXCEPT !.route = "move"]}}
    \union {[Plain EXCEPT !.corrections = {Correct("claim", Everyone, Clerks),
                                          [Correct(of, Everyone, now) EXCEPT !.id = id]}] :
             of \in {"claim", "act"}, now \in {Clerks, {"ADMIN"}}, id \in {"C1", "C2"}}
    \union {[Plain EXCEPT !.corrections = {Correct(of, Staff, Clerks)},
                          !.narrowings  = {[Narrow("complete", {"code"}, {"code"}, <<>>, {}) EXCEPT !.id = id]}] :
             of \in {"verify", "complete"}, id \in {"C1", "C4"}}
    \union {[Plain EXCEPT !.adopted = {id}, !.corrections = {Correct("claim", Everyone, Clerks)},
                          !.narrowings = {Narrow("complete", {"code"}, {}, <<>>, {})},
                          !.additions = {Adds("claim", "503")}] : id \in {"C1", "C4", "C7", "W1"}}
MCDocuments ==
  [o \in Overlays |->
     [frozen |-> Package, components |-> Components, addenda |-> o.addenda,
      corrections |-> o.corrections, narrowings |-> o.narrowings, additions |-> o.additions,
      adopted |-> o.adopted]]
Unclaimable == [Plain EXCEPT !.corrections = {Correct("claim", Everyone, Clerks)}]

MCStarts ==
  [plan : Plan(People, People) \union Plan(Things, Things) \union Plan(Truths, Truths),
   document : {Plain}, tables : {Tables0}]
    \union [plan : Plan(People, {Mistaken}), document : {Plain}, tables : {Invited, Held}]
    \union [plan : Plan(Things, {Mistaken}), document : {Plain}, tables : {Held}]
    \union [plan : Plan({Claims(anna, req, fa), Acts(anna, req), Otp(fb, "LOGIN")}, {Mistaken}),
            document : {Plain}, tables : {Closed}]
    \union [plan : Plan(Truths, {Mistaken}), document : {Plain}, tables : {Held, Closed}]
    \union [plan : Plan(Bonds, {Binds(cw, "CONTENT_ARCHIVE", house), Mistaken}),
            document : {Plain}, tables : {Contest, Unknown}]
    \union [plan : Plans(Readers, Writers, {Mistaken}), document : {Plain}, tables : {Tables0, Contest, Mixed}]
    \union [plan : Plans(Readers, Writers, {Aliases(house, villa)}), document : {Plain}, tables : {Contest}]
    \union [plan : Plans({Public}, Listing, {Binds(cp, "PUBLIC_LISTING_ALLOWED", sale)}),
            document : {Plain}, tables : {Tables0}]
    \union [plan : {[t \in Actors |-> Mistaken]}, document : Overlays, tables : {Tables0}]
    \union [plan : Plan({Claims(anna, req, fa), Claims(omar, req, fa), Relates(again, None)}, {Mistaken}),
            document : {Unclaimable, [Plain EXCEPT !.addenda = {}]}, tables : {Tables0}]

Interchangeable == Permutations(Actors)
=============================================================================
