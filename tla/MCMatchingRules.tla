--------------------------- MODULE MCMatchingRules ---------------------------
(* One request over a wilaya of three communes, two properties and three   *)
(* offers; many requests from a few markets, and a few requests with what  *)
(* may change around them.                                                 *)
EXTENDS MatchingRuns, TLC

CONSTANTS p1, p2, p3, o1, o2, o3, b1, b2, ali, sara, algiers, hydra, kouba, oran

MCTypes   == {"HOUSE_VILLA", "APARTMENT", "LAND"}
MCAbove   == algiers :> <<algiers>> @@ hydra :> <<hydra, algiers>>
          @@ kouba :> <<kouba, algiers>> @@ oran :> <<oran>>
MCOptions == [c \in {"DOCUMENT_TYPE", "RIGHT_TYPE"} |-> {"ACT", "BOOKLET", "UNKNOWN"}]
MCAppliesTo == [c \in {"ROOMS_MIN", "BEDROOMS_MIN"} |-> {"HOUSE_VILLA", "APARTMENT"}]
MCDays    == [request |-> 2, property |-> 2, offer |-> 1]
MCValues  ==
  "BUDGET_MAX" :> 0..6 @@ "LAND_AREA_MIN" :> 1..4 @@ "BUILT_AREA_MIN" :> 1..4
    @@ "ROOMS_MIN" :> 0..4 @@ "BEDROOMS_MIN" :> 0..4
    @@ "DOCUMENT_TYPE" :> {"ACT", "BOOKLET", "UNKNOWN", "RETIRED"}
    @@ "RIGHT_TYPE" :> {"ACT", "BOOKLET", "UNKNOWN", "RETIRED"}

Row(code, importance, operator, value) ==
  [code |-> code, importance |-> importance, operator |-> operator, value |-> value,
   blocking |-> FALSE, unit |-> None]
Blocking(r) == [r EXCEPT !.blocking = TRUE]

Buyer ==
  [status |-> "ACTIVE", intent |-> "BUY", type |-> None, typeAs |-> "REQUIRED",
   place |-> None, placeAs |-> "REQUIRED", max |-> 4, maxAs |-> "REQUIRED",
   target |-> None, confirmed |-> 3, version |-> 1, rows |-> <<>>]
With(rows) == [Buyer EXCEPT !.rows = rows]

NoFact  == [c \in FactCodes |-> None]
House   ==
  [type |-> "HOUSE_VILLA", place |-> hydra, availability |-> "AVAILABLE", supply |-> "DECLARED",
   alias |-> None, confirmed |-> 3, version |-> 1,
   fact |-> [NoFact EXCEPT !["DOCUMENT_TYPE"] = "ACT", !["LAND_AREA_MIN"] = 2, !["ROOMS_MIN"] = 2]]
Asks(on, ask) ==
  [on |-> on, party |-> ali, type |-> "SALE", status |-> "ACTIVE", ask |-> ask,
   expectation |-> None, negotiable |-> "NO", confirmed |-> 3, version |-> 1]
Bound(on, bound) ==
  [on |-> on, party |-> ali, scope |-> "PRIVATE_MATCHING_ONLY",
   purpose |-> "PRIVATE_MATCHING_ONLY", bound |-> bound, granted |-> bound,
   unbound |-> None, withdrawn |-> None]

World(q, ps, os, bs) ==
  [request |-> q, properties |-> ps, offers |-> os, bindings |-> bs,
   now |-> 4, release |-> 3, runs |-> MaxRuns - 1, edits |-> MaxEdits]
Changing(w, from) == [w EXCEPT !.runs = 0, !.edits = 0, !.release = from]

Flat == [House EXCEPT !.type = "APARTMENT", !.place = kouba,
                      !.fact["DOCUMENT_TYPE"] = "UNKNOWN", !.fact["ROOMS_MIN"] = 1]
Field == [House EXCEPT !.type = "LAND", !.place = None, !.fact = NoFact]
Far   == [House EXCEPT !.place = oran, !.fact["DOCUMENT_TYPE"] = "RETIRED",
                       !.fact["LAND_AREA_MIN"] = 1, !.fact["ROOMS_MIN"] = Unreadable]

Homes  == {p1 :> House @@ p2 :> Flat, p1 :> Field @@ p2 :> Far, p1 :> House @@ p2 :> Far}
Prices == {o1 :> Asks(p1, 3) @@ o2 :> Asks(p2, 4) @@ o3 :> Asks(p2, 6),
           o1 :> [Asks(p1, 5) EXCEPT !.negotiable = "YES"]
             @@ o2 :> [Asks(p2, None) EXCEPT !.confirmed = None]
             @@ o3 :> [Asks(p2, 6) EXCEPT !.expectation = 5]}
Permits == b1 :> Bound(p1, 2) @@ b2 :> Bound(p2, 3)

Importances == {"REQUIRED", "PREFERRED"}
Options2 == {{"ACT"}, {"UNKNOWN"}, {"ACT", "BOOKLET"}, {"ACT", "BOOKLET", "UNKNOWN"}}
OneRow ==
  {Row(c, i, op, v) : c \in OptionCodes, i \in Importances, op \in {"IN", "NOT_IN"}, v \in Options2}
  \union {Row("PROPERTY_TYPE", i, op, v) : i \in Importances, op \in {"IN", "NOT_IN"},
            v \in {{"LAND"}, {"LAND", "APARTMENT"}, MCTypes, {"CASTLE"}}}
  \union {Row("TRANSACTION_INTENT", i, op, v) : i \in Importances, op \in {"EQ", "NOT_IN"},
            v \in {{"BUY"}, {"RENT"}}}
  \union {Row("LOCATION", i, "IN", v) : i \in Importances,
            v \in {{hydra}, {kouba, oran}, {algiers}, {kouba}}}
  \union {Row(c, i, "GTE", v) : c \in {"LAND_AREA_MIN", "ROOMS_MIN"}, i \in Importances, v \in {0, 2, 3}}
  \union {Row("BUDGET_MAX", "REQUIRED", "LTE", v) : v \in {2, 4, -1}}
  \union {Row("BUDGET_TARGET", i, "EQ", v) : i \in {"PREFERRED", "FLEXIBLE"}, v \in {0, 4}}
  \union {Row("GARDEN", "FLEXIBLE", "EQ", Unreadable), Row("GARDEN", "REQUIRED", "EQ", Unreadable),
          Row("BUDGET_TARGET", "REQUIRED", "EQ", 3),
          Row("LOCATION", "FLEXIBLE", "TEXT_SEMANTIC", Unreadable)}

Single ==
  {With(<<r>>) : r \in OneRow} \union {With(<<Blocking(r)>>) : r \in OneRow}
    \union {[With(<<r>>) EXCEPT !.place = hydra, !.type = "HOUSE_VILLA", !.max = None] : r \in OneRow}
Double ==
  {With(<<r, s>>) : r \in {x \in OneRow : x.importance = "REQUIRED" /\ x.operator \in {"IN", "GTE"}},
                    s \in {Blocking(Row("DOCUMENT_TYPE", "PREFERRED", "EQ", {"ACT"})),
                           Row("LOCATION", "REQUIRED", "EQ", {kouba}),
                           Row("ROOMS_MIN", "FLEXIBLE", "GTE", 2)}}
Others ==
  {[Buyer EXCEPT !.status = "PAUSED"], [Buyer EXCEPT !.intent = "RENT"],
   [Buyer EXCEPT !.max = 2], [Buyer EXCEPT !.target = 3, !.placeAs = "FLEXIBLE", !.place = kouba],
   [Buyer EXCEPT !.max = None], [Buyer EXCEPT !.max = None, !.maxAs = "PREFERRED"]}

(* A request that changes around: its facts age, and bindings start.       *)
Watched ==
  World(With(<<Row("DOCUMENT_TYPE", "REQUIRED", "IN", {"ACT"})>>),
        p1 :> House @@ p2 :> Flat, o1 :> Asks(p1, 3) @@ o2 :> Asks(p2, 3),
        b1 :> Bound(p1, 2) @@ b2 :> Bound(p2, 5))
Asleep ==
  World([With(<<Row("ROOMS_MIN", "PREFERRED", "GTE", 2)>>) EXCEPT !.status = "NEEDS_CONFIRMATION"],
        p1 :> House @@ p2 :> [House EXCEPT !.alias = p1] @@ p3 :> [House EXCEPT !.supply = "POTENTIAL"],
        o1 :> Asks(p1, 5) @@ o2 :> Asks(p2, 3) @@ o3 :> [Asks(p1, 3) EXCEPT !.type = "RENT"],
        b1 :> Bound(o1, 2) @@ b2 :> [Bound(p1, 2) EXCEPT !.party = sara])

(* No maximum is stated, and no price is known.                            *)
Unpriced == {World(q, ps, o1 :> Asks(p1, None) @@ o2 :> Asks(p2, None), Permits) :
               q \in {[Buyer EXCEPT !.max = None], Buyer}, ps \in Homes}

MCWorlds ==
  {World(q, ps, os, Permits) : q \in Single \union Double \union Others, ps \in Homes, os \in Prices}
    \union Unpriced \union {Changing(w, from) : w \in {Watched, Asleep}, from \in 1..2}

MCLists == {None, {p1}, {p2, p3}}
MCPropertyEdits == {<<"place", kouba>>, <<"type", "LAND">>}
MCFactEdits     == {<<"DOCUMENT_TYPE", "ACT">>, <<"DOCUMENT_TYPE", "BOOKLET">>, <<"ROOMS_MIN", 1>>}
MCOfferEdits    == {<<"ask", 4>>, <<"negotiable", "UNKNOWN">>, <<"status", "PAUSED">>}
=============================================================================
