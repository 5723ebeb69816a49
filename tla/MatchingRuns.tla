---------------------------- MODULE MatchingRuns ----------------------------
(***************************************************************************)
(* The matching runs of one request, over a market whose facts change      *)
(* between them: the candidate set, the snapshots and their input hash,    *)
(* the stored matches, the diagnostic of each run, and the replay of what  *)
(* was stored.                                                             *)
(*                                                                         *)
(* A run reads one snapshot of the database, so it is one step here; runs  *)
(* that overlap, and the commands that follow, are in MatchReview.  A hash *)
(* is the record of what it covers.  Releases of the code differ in the    *)
(* digest of their rules and in whether a match records it.                *)
(***************************************************************************)
EXTENDS MatchingRules

CONSTANTS
  Worlds,      \* the requests, properties, offers and bindings to start from
  Lists,       \* the property ids a caller may name: a set, or None for all
  PropertyEdits, FactEdits, OfferEdits,   \* what writers may write
  Values,      \* what the fact a criterion reads may come to be
  MaxRuns, MaxEdits

VARIABLES
  request, properties, offers, bindings,
  now, release,
  matches,      \* the stored matches
  diagnostic,   \* the last run's diagnostic
  open,         \* the subjects of the open diagnostic tasks
  runs, edits   \* counters that bound the behaviours

market == <<request, properties, offers, bindings>>
stored == <<matches, diagnostic, open, runs>>
vars   == <<market, now, release, stored, edits>>

Purposes == {"PRIVATE_MATCHING_ONLY", "PUBLIC_LISTING_ALLOWED"}

(* Each registry of rules that a match may cite, and the format that cites *)
(* it; the first format records no digest, and one digest is attributed    *)
(* to all its matches.                                                     *)
Releases == <<[format |-> 1, digest |-> "twenty"], [format |-> 2, digest |-> "twenty"],
              [format |-> 2, digest |-> "diagnostics"]>>

(* The rows' types.  An amount or an attribute is one of its Values, None  *)
(* if it is not known, and Unreadable if its form is wrong.  The Values    *)
(* stand for every number and option there may be: a price of nothing, an  *)
(* amount no less than any asked for, and an option that was retired.      *)
Known(code) == Values[code] \union {None}
RequestTyped(q) ==
  /\ {"status", "intent", "type", "typeAs", "place", "placeAs", "max", "maxAs", "confirmed",
      "version", "rows"} \subseteq DOMAIN q
  /\ q.intent \in Intents /\ q.place \in Locations \union {None}
  /\ q.max \in Known("BUDGET_MAX") /\ q.rows \in Seq(Range(q.rows))
  /\ \A r \in Range(q.rows) :
       /\ r.code \in NumberCodes => r.value \in Int \union {Unreadable}
       /\ r.code \in AreaCodes \union CountCodes /\ r.value # Unreadable =>
            \E x \in Values[r.code] : x >= r.value
PropertyTyped(p) ==
  /\ {"type", "place", "availability", "confirmed", "version", "fact"} \subseteq DOMAIN p
  /\ p.place \in Locations \union {None} /\ FactCodes \subseteq DOMAIN p.fact
  /\ \A c \in AreaCodes : p.fact[c] \in Known(c)
  /\ \A c \in CountCodes : p.fact[c] \in Known(c) \union {Unreadable}
OfferTyped(o) ==
  /\ {"type", "ask", "expectation", "negotiable", "confirmed", "version"} \subseteq DOMAIN o
  /\ o.ask \in Known("BUDGET_MAX") /\ o.expectation \in Known("BUDGET_MAX")

ASSUME Snapshots ==
  /\ \A w \in Worlds :
       /\ RequestTyped(w.request) /\ w.release \in DOMAIN Releases
       /\ IsFiniteSet(DOMAIN w.properties) /\ IsFiniteSet(DOMAIN w.offers)
       /\ \A p \in DOMAIN w.properties : PropertyTyped(w.properties[p])
       /\ \A o \in DOMAIN w.offers : OfferTyped(w.offers[o])
  /\ \A c \in NumberCodes : Values[c] # {} /\ Values[c] \subseteq Int
  /\ 0 \in Values["BUDGET_MAX"]
  /\ \A c \in OptionCodes :
       /\ None \notin Values[c] /\ Unreadable \notin Values[c] /\ Options[c] \subseteq Values[c]
       /\ \E retired \in Values[c] : retired \notin Options[c] \union NotKnown
  /\ \A e \in PropertyEdits : e[1] # "fact" /\ (e[1] = "place" => e[2] \in Locations \union {None})
  /\ \A e \in FactEdits : e[1] \in AreaCodes => e[2] \in Known(e[1])
  /\ \A e \in FactEdits : e[1] \in CountCodes => e[2] \in Known(e[1]) \union {Unreadable}
  /\ \A e \in OfferEdits : e[1] \in {"ask", "expectation"} => e[2] \in Known("BUDGET_MAX")

Init ==
  /\ \E w \in Worlds : /\ request = w.request /\ properties = w.properties
                       /\ offers = w.offers /\ bindings = w.bindings
                       /\ now = w.now /\ release = w.release
                       /\ runs = w.runs /\ edits = w.edits
  /\ matches = {} /\ diagnostic = None /\ open = {}

-----------------------------------------------------------------------------
(* The candidate set                                                       *)

Qualifying(p) ==
  {o \in DOMAIN offers : /\ offers[o].on = p /\ offers[o].status = "ACTIVE"
                         /\ Serves(offers[o]) = request.intent}
OffersOn(p)   == {o \in DOMAIN offers : offers[o].on = p}
Potential(p)  == properties[p].supply = "POTENTIAL" /\ OffersOn(p) = {}

Scope(listed) ==
  IF listed # None THEN listed
  ELSE {p \in DOMAIN properties : Qualifying(p) # {} \/ Potential(p)}

IsCandidate(p) ==
  /\ p \in DOMAIN properties /\ properties[p].alias = None
  /\ properties[p].availability # "UNAVAILABLE" /\ Qualifying(p) # {}
Candidates(listed) ==
  {c \in Scope(listed) \X DOMAIN offers : IsCandidate(c[1]) /\ c[2] \in Qualifying(c[1])}

Exclusion(p) ==
  IF p \notin DOMAIN properties THEN "PROPERTY_NOT_FOUND"
  ELSE IF properties[p].alias # None
  THEN IF Qualifying(p) # {} THEN "OFFER_ON_ALIAS" ELSE "IDENTITY_ALIAS"
  ELSE IF properties[p].availability = "UNAVAILABLE" THEN "PROPERTY_UNAVAILABLE"
  ELSE IF Potential(p) THEN "POTENTIAL_WITHOUT_OFFER" ELSE "NO_QUALIFYING_OFFER"
Excluded(listed) ==
  LET out == {p \in Scope(listed) : ~IsCandidate(p)} IN [p \in out |-> Exclusion(p)]

-----------------------------------------------------------------------------
(* One evaluation                                                          *)

Confirmed(q, p, o) ==
  [s \in {"request", "property", "offer"} |->
     CASE s = "request" -> q.confirmed [] s = "property" -> p.confirmed
       [] s = "offer" -> o.confirmed]
FreshnessStates(q, p, o, asOf) ==
  [s \in DOMAIN Days |-> FreshnessState(Confirmed(q, p, o)[s], Days[s], asOf)]

(* The bindings that may permit the match, each with its state.            *)
Permission(p, o, asOf) ==
  LET of == {b \in DOMAIN bindings : bindings[b].on \in {p, o} /\ bindings[b].purpose \in Purposes}
  IN [b \in of |-> [binding |-> bindings[b],
                    state |-> BindingState(bindings[b], offers[o].party, asOf)]]

Fault_HashWithoutStates(digest, id, q, p, o, freshness, permission) ==
  [digest |-> digest, id |-> id, request |-> q, property |-> p, offer |-> o,
   freshness |-> <<>>, permission |-> permission]
(* What the hash covers: every snapshot, the states derived for the        *)
(* instant among them, but not the instant.                                *)
InputHash(digest, id, q, p, o, freshness, permission) ==
  [digest |-> digest, id |-> id, request |-> q, property |-> p, offer |-> o,
   freshness |-> freshness, permission |-> permission]

States(permission) == {permission[b].state : b \in DOMAIN permission}

Decided(q, results, o, freshness, permission) ==
  LET hard == HardGate(results)  information == InformationGate(results)
      verdict == Eligibility(hard, information, FreshnessGate(freshness),
                             PermissionGate(States(permission)))
      reasons == Reasons(results, freshness, States(permission))
  IN [hard |-> hard, information |-> information, eligibility |-> verdict,
      fresh |-> FreshnessGate(freshness), permitted |-> PermissionGate(States(permission)),
      reasons |-> reasons, score |-> SoftScore(results, Targets(q), o),
      action |-> NextAction(verdict, results, reasons)]

Evaluation(pair) ==
  LET p == properties[pair[1]]  o == offers[pair[2]]  by == Releases[release]
      results    == Evaluate(Criteria(request), p, o)
      freshness  == FreshnessStates(request, p, o, now)
      permission == Permission(pair[1], pair[2], now)
  IN [pair |-> pair, at |-> now, results |-> results,
      q |-> request, p |-> p, o |-> o, freshness |-> freshness, permission |-> permission,
      decided |-> Decided(request, results, o, freshness, permission),
      format |-> by.format, digest |-> IF by.format = 1 THEN None ELSE by.digest,
      hash |-> InputHash(by.digest, pair[2], request, p, o, freshness, permission)]

(* A match with the same input is not stored twice.                        *)
Same(m, e)   == m.pair = e.pair /\ m.hash = e.hash
Identical(e) == {m \in matches : Same(m, e)}
Stored(e)    == IF Identical(e) = {} THEN e ELSE CHOOSE m \in Identical(e) : TRUE

-----------------------------------------------------------------------------
(* The diagnostic, from stored matches                                     *)

NearMatch(m) ==
  /\ m.decided.eligibility = "REJECTED" /\ Cardinality(Failing(m.results)) = 1
  /\ \A r \in Required(m.results) : r.says.is # "UNKNOWN"
Failed(m) == CHOOSE r \in Failing(m.results) : TRUE

(* The one unknown that stands between a match and ELIGIBLE.               *)
HighValue(m) ==
  IF /\ m.decided.eligibility = "NEED_MORE_INFORMATION" /\ m.decided.hard # "FAIL"
     /\ m.decided.fresh = "PASS" /\ m.decided.permitted = "PASS"
     /\ Cardinality(Missing(m.results)) = 1
  THEN {r.criterion.code : r \in Missing(m.results)} ELSE {}

(* All the work one match is waiting for, each with the record it is on.   *)
On(m, work) ==
  <<work, CASE work.entity = "REQUEST" -> "request" [] work.entity = "PROPERTY" -> m.pair[1]
            [] work.entity = "PROPERTY_OFFER" -> m.pair[2]>>
WorkOf(m) ==
  IF m.decided.eligibility \notin {"NEED_MORE_INFORMATION", "NEEDS_CONFIRMATION"} THEN {}
  ELSE {On(m, InformationWork(r)) : r \in Missing(m.results)}
         \union {On(m, FreshnessWork(x.subject[1], x.basis)) :
                   x \in {y \in m.decided.reasons : y.gate = "FRESHNESS"}}
         \union {On(m, PermissionWork(x.basis)) :
                   x \in {y \in m.decided.reasons : y.gate = "PERMISSION"}}

Actions(found) ==
  LET valued(m, w) == w[1].gate = "INFORMATION" /\ w[1].subject \in HighValue(m)
  IN {[work |-> w, waiting |-> {m.pair : m \in {n \in found : w \in WorkOf(n)}},
       high |-> \E m \in found : w \in WorkOf(m) /\ valued(m, w)] :
        w \in UNION {WorkOf(m) : m \in found}}

(* What a near match would reach with its one failure removed.             *)
WouldReach(m) ==
  Eligibility("PASS", InformationGate(m.results), m.decided.fresh, m.decided.permitted)

(* How far a requested location is widened to meet a property's chain, and *)
(* where: the nearest common place from below, then the least widening.    *)
Position(l, chain) == CHOOSE i \in DOMAIN chain : chain[i] = l
Common(w, here) ==
  LET shared == {i \in DOMAIN Above[here] : Within(Above[here][i], w)}
  IN IF shared = {} THEN None ELSE Above[here][Min(shared)]
WidenTo(wanted, here) ==
  LET common == {Common(w, here) : w \in wanted} \ {None}
  IN IF common = {} THEN None
     ELSE CHOOSE c \in common : \A d \in common : Position(c, Above[here]) <= Position(d, Above[here])

(* The change to the failed criterion that would admit a near match: by a  *)
(* number, or to a named value.                                            *)
Relaxation(m) ==
  LET r == Failed(m)  c == r.criterion  code == c.code[1]
      change(kind, by, to) == [criterion |-> c.code, kind |-> kind, by |-> by, to |-> to]
  IN CASE code = "BUDGET_MAX" -> change("RAISE_MAXIMUM", m.o.ask - c.value, None)
       [] code \in AreaCodes \/ r.says.basis = "COUNT_MINIMUM" ->
            change("LOWER_MINIMUM", m.p.fact[code] - c.value, None)
       [] code = "LOCATION" -> change("WIDEN_AREA", 0, WidenTo(c.value, m.p.place))
       [] code = "PROPERTY_TYPE" -> change("ACCEPT_PROPERTY_TYPE", 0, m.p.type)
       [] code \in OptionCodes -> change("ACCEPT_DOCUMENT", 0, m.p.fact[code])
       [] OTHER -> change("NOT_PROPOSED", 0, r.says.basis)

Size(x) == IF x < 0 THEN -x ELSE x
Fault_TurnsLarger(s, m) ==
  LET own == Relaxation(m)
  IN /\ own.criterion = s.criterion /\ own.kind = s.kind
     /\ CASE s.kind \in {"RAISE_MAXIMUM", "LOWER_MINIMUM"} -> own.by <= s.by
          [] s.kind = "WIDEN_AREA" -> s.to # None /\ Within(s.to, m.p.place)
          [] OTHER -> own.to = s.to
(* A scenario turns every near match whose own change is no larger.        *)
Turns(s, m) ==
  LET own == Relaxation(m)
  IN /\ own.criterion = s.criterion /\ own.kind = s.kind
     /\ CASE s.kind \in {"RAISE_MAXIMUM", "LOWER_MINIMUM"} -> Size(own.by) <= Size(s.by)
          [] s.kind = "WIDEN_AREA" -> s.to # None /\ Within(s.to, m.p.place)
          [] OTHER -> own.to = s.to

Scenarios(found) ==
  LET near == {m \in found : NearMatch(m)}
  IN {[change |-> s, turns |-> {<<m.pair, WouldReach(m)>> : m \in {n \in near : Turns(s, n)}}] :
        s \in {Relaxation(m) : m \in near}}

(* How many matches have a reason under each key, and lack each criterion. *)
ReasonKey(x) == IF x.code # None THEN <<x.code>> ELSE <<x.gate, x.basis>>
ByReason(found) ==
  [k \in UNION {{ReasonKey(x) : x \in m.decided.reasons} : m \in found} |->
     Cardinality({m \in found : \E x \in m.decided.reasons : ReasonKey(x) = k})]
Unknowns(found) ==
  LET lacks(m, k) == {r \in Range(m.results) : r.criterion.code = k /\ r.says.is = "UNKNOWN"}
      count(P(_, _), k) == Cardinality({m \in found : \E r \in lacks(m, k) : P(m, r)})
      keys == UNION {{r.criterion.code : r \in {x \in Range(m.results) : x.says.is = "UNKNOWN"}} :
                       m \in found}
  IN [k \in keys |->
       [blocking |-> count(LAMBDA m, r : r.blocks, k),
        not_blocking |-> count(LAMBDA m, r : ~r.blocks, k),
        actionable |-> count(LAMBDA m, r : r.blocks /\ m.decided.hard # "FAIL", k),
        high_value |-> count(LAMBDA m, r : k \in HighValue(m), k)]]

Counts(found) ==
  LET count(P(_)) == Cardinality({m \in found : P(m)})
  IN [ready |-> count(LAMBDA m : m.decided.eligibility = "ELIGIBLE"),
      waiting |-> count(LAMBDA m : m.decided.eligibility = "NEED_MORE_INFORMATION"),
      near |-> count(NearMatch)]

-----------------------------------------------------------------------------
Matchable == {"ACTIVE", "NEEDS_CONFIRMATION"}

(* Evaluates every candidate, stores each match or finds the identical     *)
(* one, and writes the diagnostic and a task for each of its high actions  *)
(* whose subject has none open.                                            *)
Run(listed) ==
  /\ runs < MaxRuns /\ request.status \in Matchable /\ Accepted(request)
  /\ LET evaluated == {Evaluation(c) : c \in Candidates(listed)}
         found     == {Stored(e) : e \in evaluated}
         actions   == Actions(found)
     IN /\ matches' = matches \union found
        /\ diagnostic' =
             [at |-> now, listed |-> listed, found |-> found, new |-> found \ matches,
              excluded |-> Excluded(listed), counts |-> Counts(evaluated),
              actions |-> actions, scenarios |-> Scenarios(found),
              reasons |-> ByReason(found), unknowns |-> Unknowns(found)]
        /\ open' = open \union {a.work : a \in {x \in actions : x.high}}
  /\ runs' = runs + 1
  /\ UNCHANGED <<market, now, release, edits>>

(* The writers of the facts, the clock, and a new release of the code.     *)
Writes == edits < MaxEdits /\ edits' = edits + 1

(* Every update of a row raises its version; its attributes are not in it. *)
Raised(x, field, value) == [[x EXCEPT ![field] = value] EXCEPT !.version = @ + 1]

PatchProperty(p) ==
  /\ properties[p].alias = None
  /\ \E e \in PropertyEdits :
       properties' = [properties EXCEPT ![p] = Raised(@, e[1], e[2])]
  /\ Writes /\ UNCHANGED <<request, offers, bindings, now, release, stored>>

RecordAttribute(p) ==
  /\ \E e \in FactEdits : properties' = [properties EXCEPT ![p].fact[e[1]] = e[2]]
  /\ Writes /\ UNCHANGED <<request, offers, bindings, now, release, stored>>

ConfirmAvailability(p) ==
  /\ properties[p].alias = None
  /\ \E a \in {"AVAILABLE", "UNAVAILABLE"} : properties' =
       [properties EXCEPT ![p] = Raised([@ EXCEPT !.confirmed = now], "availability", a)]
  /\ Writes /\ UNCHANGED <<request, offers, bindings, now, release, stored>>

PatchOffer(o) ==
  /\ \E e \in OfferEdits : offers' = [offers EXCEPT ![o] = Raised(@, e[1], e[2])]
  /\ Writes /\ UNCHANGED <<request, properties, bindings, now, release, stored>>

ConfirmOffer(o) ==
  /\ offers' = [offers EXCEPT ![o] = Raised(@, "confirmed", now)]
  /\ Writes /\ UNCHANGED <<request, properties, bindings, now, release, stored>>

RevokeConsent(b) ==
  /\ bindings[b].withdrawn = None
  /\ bindings' = [bindings EXCEPT ![b].withdrawn =
                    IF now < bindings[b].granted THEN bindings[b].granted ELSE now]
  /\ Writes /\ UNCHANGED <<request, properties, offers, now, release, stored>>

ConfirmRequest ==
  /\ request' = Raised([request EXCEPT !.confirmed = now], "status",
                       IF request.status = "NEEDS_CONFIRMATION" THEN "ACTIVE"
                       ELSE request.status)
  /\ Writes /\ UNCHANGED <<properties, offers, bindings, now, release, stored>>

FinishTask(w) ==
  /\ open' = open \ {w}
  /\ Writes /\ UNCHANGED <<market, now, release, matches, diagnostic, runs>>

Tick == now' = now + 1 /\ Writes /\ UNCHANGED <<market, release, stored>>

Release ==
  /\ release < Len(Releases) /\ release' = release + 1
  /\ Writes /\ UNCHANGED <<market, now, stored>>

Next ==
  \/ \E listed \in Lists : Run(listed)
  \/ \E p \in DOMAIN properties : PatchProperty(p) \/ RecordAttribute(p) \/ ConfirmAvailability(p)
  \/ \E o \in DOMAIN offers : PatchOffer(o) \/ ConfirmOffer(o)
  \/ \E b \in DOMAIN bindings : RevokeConsent(b)
  \/ ConfirmRequest \/ Tick \/ Release
  \/ \E w \in open : FinishTask(w)

Spec == Init /\ [][Next]_vars

-----------------------------------------------------------------------------
(* Replay                                                                  *)

(* The digest a match was evaluated under: the one it records, or the one  *)
(* attributed to its format; never the current one.                        *)
AttributedDigest(m) == IF m.format = 1 THEN Releases[1].digest ELSE m.digest

(* Every decision of a stored match, again from its rows.                  *)
Reconstructed(m) ==
  LET flagged(c) == c.row # 0 /\ m.q.rows[c.row].blocking
      again(r)   == [r EXCEPT !.blocks = Blocks(r.criterion.importance, r.says.is,
                                                flagged(r.criterion))]
      results    == [i \in DOMAIN m.results |-> again(m.results[i])]
      freshness  == FreshnessStates(m.q, m.p, m.o, m.at)
      permission == [b \in DOMAIN m.permission |->
                       [m.permission[b] EXCEPT !.state =
                          BindingState(m.permission[b].binding, m.o.party, m.at)]]
  IN <<results, freshness, permission, Decided(m.q, results, m.o, freshness, permission)>>

(* Each rule again on the stored snapshots, and the hash of them.          *)
Replayed(m) ==
  <<[i \in DOMAIN m.results |-> Rule(m.results[i].criterion, m.p, m.o)],
    InputHash(AttributedDigest(m), m.pair[2], m.q, m.p, m.o, m.freshness, m.permission)>>

(* What is stored can be told again, whatever has happened since: every    *)
(* decision of a match is reconstructed from its rows at its own instant,  *)
(* its rules and its hash replay, and the counts of the last diagnostic,   *)
(* taken of the run's own evaluations, are those of the stored matches it  *)
(* cites, which may be older (reconstruct, replay, _store).                *)
StoredReplays ==
  /\ \A m \in matches :
       /\ Reconstructed(m) = <<m.results, m.freshness, m.permission, m.decided>>
       /\ Replayed(m) = <<[i \in DOMAIN m.results |-> m.results[i].says], m.hash>>
  /\ diagnostic # None => /\ diagnostic.counts = Counts(diagnostic.found)
                          /\ \A m \in diagnostic.new : m.at = diagnostic.at

-----------------------------------------------------------------------------
(* What the facts may come to be, as seen from one criterion.  A budget    *)
(* answers with the maximum or the price, and with both if neither is      *)
(* known.                                                                  *)

Answers(code, q, p, o) ==
  LET world(x, y, z) == [q |-> x, p |-> y, o |-> z]
  IN CASE code = "TRANSACTION_INTENT" ->
            {world(q, p, [o EXCEPT !.type = x]) : x \in {"SALE", "RENT"}}
       [] code = "PROPERTY_TYPE" -> {world(q, [p EXCEPT !.type = x], o) : x \in Types}
       [] code = "LOCATION" -> {world(q, [p EXCEPT !.place = x], o) : x \in Locations}
       [] code = "BUDGET_MAX" ->
            LET told(x, y) == world([q EXCEPT !.max = x], p, [o EXCEPT !.ask = y])
            IN {world(q, p, [o EXCEPT !.ask = x]) : x \in Values[code]}
                 \union {world([q EXCEPT !.max = x], p, o) : x \in Values[code]}
                 \union IF q.max # None \/ o.ask # None THEN {}
                        ELSE {told(x, y) : x \in Values[code], y \in Values[code]}
       [] OTHER -> {world(q, [p EXCEPT !.fact[code] = x], o) : x \in Values[code]}

Relaxed(change, c) ==
  CASE change.kind \in {"RAISE_MAXIMUM", "LOWER_MINIMUM"} -> [c EXCEPT !.value = @ + change.by]
    [] OTHER -> [c EXCEPT !.value = IF c.operator \in {"NEQ", "NOT_IN"}
                                    THEN @ \ {change.to} ELSE @ \union {change.to}]

(* The seller's expectation, which may pass a price, is never told.        *)
AfterRelaxing(change, m) ==
  LET told == [m.o EXCEPT !.expectation = None]
      of(r) == IF r.criterion.code # change.criterion THEN r
               ELSE LET says == Rule(Relaxed(change, r.criterion), m.p, told)
                    IN [r EXCEPT !.says = says,
                                 !.blocks = Blocks(r.criterion.importance, says.is,
                                                   r.criterion.blocking)]
  IN [i \in DOMAIN m.results |-> of(m.results[i])]

Proposes(s) == s.change.kind # "NOT_PROPOSED" /\ (s.change.to # None \/ s.change.by # 0)

ScenariosHold(d) ==
  LET near == {m \in d.found : NearMatch(m)}
  IN /\ \A s \in {x \in d.scenarios : Proposes(x)} : \A m \in near :
          LET results == AfterRelaxing(s.change, m)
          IN {t \in s.turns : t[1] = m.pair} =
               IF HardGate(results) # "PASS" THEN {}
               ELSE {<<m.pair, Decided(m.q, results, m.o, m.freshness, m.permission).eligibility>>}
     /\ \A m \in near : \E s \in d.scenarios :
          s.change.criterion = Failed(m).criterion.code /\ (Proposes(s) => \E t \in s.turns : t[1] = m.pair)

HighValueDecides(d) ==
  \A m \in d.found : \A k \in HighValue(m) : \E w \in Answers(k[1], m.q, m.p, m.o) :
    Decided(w.q, Evaluate(Criteria(w.q), w.p, w.o), w.o, m.freshness, m.permission).eligibility
      = "ELIGIBLE"

NextSuggested(d) ==
  \A m \in d.found : m.decided.action # None =>
    \E a \in d.actions : a.work = On(m, m.decided.action) /\ m.pair \in a.waiting

(* A diagnostic says the truth of the matches it was made of.  Changing    *)
(* the request as a scenario says turns exactly the near matches it lists, *)
(* at the asking price, and each reaches what it says; a high-value        *)
(* unknown has an answer that makes its match eligible; and the next       *)
(* action of every match is among the suggested ones (diagnostic_rules).   *)
DiagnosticTrue ==
  diagnostic # None => /\ ScenariosHold(diagnostic)
                       /\ HighValueDecides(diagnostic)
                       /\ NextSuggested(diagnostic)

(* The pre-check refuses a readable criterion exactly when no property or  *)
(* offer can pass it, and a required row beside the request's own required *)
(* value exactly when none can pass both (can_pass, _disjoint).            *)
PreCheckExact ==
  \A a \in DOMAIN properties, b \in DOMAIN offers, i \in DOMAIN request.rows :
    LET p == properties[a]  o == offers[b]
        r == request.rows[i]  c == FromRow(request, i)
        asRule(x) == [x EXCEPT !.code = <<@, 1>>]
        passes(x, w) == Rule(asRule(x), w.p, w.o).is = "PASS"
        answers == UNION {Answers(r.code, request, [p EXCEPT !.type = t], o) : t \in Types}
    IN HasRule(r) /\ Readable(r) =>
         /\ CanPass(r.code, r.operator, r.value) <=> \E w \in answers : passes(c, w)
         /\ \A x \in Compared(request, r) :
              (\A v \in x.value : Disjoint(r.code, v, r.value))
                <=> ~ \E w \in answers : passes(c, w) /\ passes(x, w)
=============================================================================
