------------------------- MODULE MCRecordLifecycle -------------------------
(* Three transactions over one request, one offer and one property.        *)
EXTENDS RecordLifecycle, FiniteSets, TLC

CONSTANTS t1, t2, t3, c1, c2, s1, s2, x, y

Idle == [kind |-> "pass", row |-> "request", to |-> "ACTIVE", given |-> None,
         reasoned |-> TRUE, customer |-> FALSE, criterion |-> None,
         slot |-> x, source |-> s1, primary |-> TRUE,
         sets |-> {"wording"}, terms |-> NoTerms, known |-> TRUE]

Rewords(r)      == [Idle EXCEPT !.kind = "patch", !.row = r, !.to = "UNKNOWN"]
Aims(amount)    == [Rewords("request") EXCEPT !.sets = {"target"}, !.terms.target = amount]
Limits(amount)  == [Rewords("request") EXCEPT !.sets = {"max"}, !.terms.max = amount]
Expects         == [Rewords("offer") EXCEPT !.sets = {"expects"}, !.terms.expects = TRUE]
Locates(known)  == [Rewords("property") EXCEPT !.sets = {"location"}, !.known = known]
Moves(to)       == [Idle EXCEPT !.kind = "move", !.to = to]
Offers(to, by)  == [Idle EXCEPT !.kind = "move", !.row = "offer", !.to = to, !.customer = by]
Confirms(r, at0, to) ==
  [Idle EXCEPT !.kind = "reconfirm", !.row = r, !.given = at0, !.to = to]
Places(c, slot) == [Idle EXCEPT !.kind = "criterion", !.criterion = c, !.slot = slot]
Links(s, p)     == [Idle EXCEPT !.kind = "source", !.row = "offer", !.source = s, !.primary = p]
Spots(r)        == [Idle EXCEPT !.kind = "pass", !.row = r, !.to = "AVAILABLE"]

OnRequest  == {Moves("PAUSED"), Moves("CLOSED"), [Moves("CLOSED") EXCEPT !.reasoned = FALSE],
               Moves("ACTIVE"), Aims(2), Limits(1), Spots("request"),
               Confirms("request", None, "ACTIVE"), Confirms("request", 0, "ACTIVE"),
               Confirms("request", 2, "ACTIVE"), Places(None, x), Places(None, y), Places(c1, y)}
OnOffer    == {Offers("PAUSED", TRUE), Offers("ACTIVE", TRUE), Offers("WITHDRAWN", TRUE),
               Offers("CLOSED", TRUE), Offers("CLOSED", FALSE), Expects,
               [Offers("WITHDRAWN", TRUE) EXCEPT !.reasoned = FALSE],
               Confirms("offer", None, "ACTIVE"), Links(s1, TRUE), Links(s2, TRUE), Links(s1, FALSE)}
OnProperty == {Spots("property"), Locates(TRUE), Locates(FALSE), Confirms("property", None, "AVAILABLE"),
               Confirms("property", 0, "UNAVAILABLE"), Confirms("property", 1, "UNKNOWN")}

(* Three on one row, one of them of the kind that reads without a lock, in *)
(* any order, so that the actors are interchangeable.                      *)
Plan(S, T) ==
  {p \in {t1 :> a @@ t2 :> b @@ t3 :> c : a, b, c \in S} : \E t \in Actors : p[t] \in T}

Of1(status, last) == [status |-> status, confirmed |-> last, closed |-> FALSE,
                      terms |-> NoTerms, version |-> 1]
Absent == [Of1("absent", None) EXCEPT !.version = 0]

(* One row matters to a plan; the other two are there.                     *)
Rest == [request |-> Of1("RAW", None), offer |-> Of1("DRAFT", None), property |-> Of1("UNKNOWN", None)]
Start(r, this, c, s) == [row |-> [Rest EXCEPT ![r] = this], criteria |-> c, primaries |-> s]

Free    == c1 :> None @@ c2 :> None
InSlot  == c1 :> x @@ c2 :> None
Both(S, W) == {[plan |-> p, world |-> w] : p \in S, w \in W}

MCSettings ==
  Both(Plan(OnRequest, {Spots("request"), Aims(2), Limits(1)}),
       {Start("request", [Of1("ACTIVE", 0) EXCEPT !.terms.target = 1, !.terms.max = 2], InSlot, {}),
        Start("request", [Of1("CLOSED", 0) EXCEPT !.closed = TRUE], Free, {}),
        Start("request", Of1("QUALIFIED", None), Free, {})})
    \union Both(Plan({Aims(2), Limits(1), Places(None, x)}, {Aims(2)}),
                {Start("request", Absent, Free, {})})
    \union Both(Plan(OnOffer, {Offers("WITHDRAWN", TRUE), Expects, Links(s2, TRUE)}),
                {Start("offer", [Of1("ACTIVE", None) EXCEPT !.terms.sale = TRUE], Free, {}),
                 Start("offer", Of1("PAUSED", 0), Free, {s1})})
    \union Both(Plan({Expects, Offers("ACTIVE", TRUE), Links(s1, TRUE)}, {Expects}),
                {Start("offer", Absent, Free, {}),
                 [Start("offer", Absent, Free, {}) EXCEPT !.row["property"] = Absent]})
    \union Both(Plan(OnProperty, {Spots("property")}),
                {Start("property", Of1("AVAILABLE", 0), Free, {}), Start("property", Absent, Free, {})})

Interchangeable == Permutations(Actors)
=============================================================================
