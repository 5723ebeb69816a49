--------------------------- MODULE MatchingRules ---------------------------
(***************************************************************************)
(* The rules that decide a match: which criteria of a request are read,    *)
(* what each says of a property and its offer, the four gates, the         *)
(* precedence of eligibility, the soft score and the next action.          *)
(*                                                                         *)
(* Everything here is a function of snapshots.  A criterion's value is the *)
(* set it names (of one member under EQ and NEQ), or a number; Unreadable  *)
(* stands for every value of a wrong form.  A property's fact[c] is what   *)
(* the rule of code c reads: a column or a resolved attribute.             *)
(***************************************************************************)
EXTENDS Integers, SequencesExt

CONSTANTS
  None, Unreadable,
  Types,       \* the property types of the schema
  Above,       \* each location's chain to the root, itself first
  Options,     \* the active options of the document and right attributes
  AppliesTo,   \* the types a counted attribute applies to
  Days         \* the thresholds of the active policy

OptionCodes == {"DOCUMENT_TYPE", "RIGHT_TYPE"}
AreaCodes   == {"LAND_AREA_MIN", "BUILT_AREA_MIN"}
CountCodes  == {"ROOMS_MIN", "BEDROOMS_MIN"}
FactCodes   == OptionCodes \union AreaCodes \union CountCodes
NumberCodes == {"BUDGET_MAX"} \union AreaCodes \union CountCodes
Intents     == {"BUY", "RENT"}
Locations   == DOMAIN Above

ASSUME Vocabulary ==
  /\ None \notin Int \union Locations /\ Unreadable \notin Int /\ None # Unreadable
  /\ \A l \in Locations :
       /\ Above[l] \in Seq(Locations) /\ Above[l] # <<>> /\ Above[l][1] = l
       /\ \A i \in DOMAIN Above[l] : Above[Above[l][i]] = SubSeq(Above[l], i, Len(Above[l]))
  /\ \A c \in CountCodes : AppliesTo[c] # {} /\ AppliesTo[c] \subseteq Types
  /\ Days \in [{"request", "property", "offer"} -> Nat]

-----------------------------------------------------------------------------
(* Reading the criteria of a request                                       *)

(* The operators a code's rule reads, and the units.                       *)
Reads(code) ==
  CASE code \in {"TRANSACTION_INTENT", "PROPERTY_TYPE"} \union OptionCodes ->
         {"EQ", "NEQ", "IN", "NOT_IN"}
    [] code = "LOCATION" -> {"EQ", "IN"}
    [] code = "BUDGET_MAX" -> {"LTE"}
    [] code = "BUDGET_TARGET" -> {"EQ"}
    [] code \in AreaCodes \union CountCodes -> {"GTE"}
    [] OTHER -> {}

Units(code) ==
  {None} \union (CASE code \in {"BUDGET_MAX", "BUDGET_TARGET"} -> {"DZD"}
                   [] code \in AreaCodes -> {"m2"}
                   [] OTHER -> {})

(* The members a value may name.                                           *)
Names(code) ==
  CASE code = "TRANSACTION_INTENT" -> Intents
    [] code = "PROPERTY_TYPE" -> Types
    [] code = "LOCATION" -> Locations
    [] OTHER -> Options[code]

Normalises(code, value) ==
  /\ value # Unreadable
  /\ IF code \in {"TRANSACTION_INTENT", "PROPERTY_TYPE", "LOCATION"} \union OptionCodes
     THEN value # {} /\ value \subseteq Names(code)
     ELSE value >= (IF code \in AreaCodes THEN 1 ELSE 0)

(* Options that say the fact is not known.                                 *)
NotKnown == {"UNKNOWN", "UNSPECIFIED_DOCUMENT"}

Fault_OpenDomain(code, operator, value) ==
  LET domain == IF code \in OptionCodes THEN Options[code] \ NotKnown ELSE Names(code)
  IN code \in OptionCodes \union {"TRANSACTION_INTENT", "PROPERTY_TYPE"} =>
       (IF operator \in {"EQ", "IN"} THEN domain \intersect value ELSE domain \ value) # {}
(* Whether some value of the fact could pass.  A property may still hold a *)
(* retired option, so the domain of an option is open.                     *)
CanPass(code, operator, value) ==
  CASE code \in OptionCodes -> operator \in {"EQ", "IN"} => ~(value \subseteq NotKnown)
    [] code \in {"TRANSACTION_INTENT", "PROPERTY_TYPE"} ->
         (IF operator \in {"EQ", "IN"} THEN Names(code) \intersect value
                                       ELSE Names(code) \ value) # {}
    [] OTHER -> TRUE

Readable(r) ==
  r.operator \in Reads(r.code) /\ r.unit \in Units(r.code) /\ Normalises(r.code, r.value)

Deferred(r) == r.code = "BUDGET_TARGET"
HasRule(r)  == Reads(r.code) # {} /\ ~Deferred(r) /\ r.operator # "TEXT_SEMANTIC"

(* A criterion that a rule decides must be readable and able to pass; one  *)
(* without may neither be required nor block.                              *)
RowAccepted(r) ==
  /\ HasRule(r) => Readable(r) /\ CanPass(r.code, r.operator, r.value)
  /\ Deferred(r) => Readable(r)
  /\ ~HasRule(r) => r.importance # "REQUIRED" /\ ~r.blocking

Column(code, importance, operator, value) ==
  [code |-> code, importance |-> importance, operator |-> operator, value |-> value,
   blocking |-> FALSE, row |-> 0]

Columns(q) ==
  <<Column("TRANSACTION_INTENT", "REQUIRED", "EQ", {q.intent})>>
  \o (IF q.type = None THEN <<>> ELSE <<Column("PROPERTY_TYPE", q.typeAs, "EQ", {q.type})>>)
  \o (IF q.place = None THEN <<>> ELSE <<Column("LOCATION", q.placeAs, "EQ", {q.place})>>)
  \o (IF q.max = None /\ \E i \in DOMAIN q.rows : q.rows[i].code = "BUDGET_MAX" THEN <<>>
      ELSE <<Column("BUDGET_MAX", q.maxAs, "LTE", q.max)>>)

FromRow(q, i) ==
  LET r == q.rows[i]
  IN [code |-> r.code, importance |-> r.importance, operator |-> r.operator,
      value |-> r.value, blocking |-> r.blocking, row |-> i]
(* The rows, in their order, that are deferred to the score, or not.       *)
Rows(q, deferred) ==
  LET kept[i \in 0..Len(q.rows)] ==
        IF i = 0 THEN <<>>
        ELSE IF Deferred(q.rows[i]) = deferred THEN Append(kept[i - 1], FromRow(q, i))
        ELSE kept[i - 1]
  IN kept[Len(q.rows)]

(* The criteria a run evaluates, the columns first; a criterion's key is   *)
(* its code and its place among those of its code.                         *)
Criteria(q) ==
  LET all == Columns(q) \o Rows(q, FALSE)
      key(i) == <<all[i].code, Cardinality({j \in 1..i : all[j].code = all[i].code})>>
  IN [i \in DOMAIN all |-> [all[i] EXCEPT !.code = key(i)]]

(* The price points the soft score reads: the column, then the rows.       *)
Targets(q) ==
  LET rows == Rows(q, TRUE)
  IN (IF q.target = None THEN <<>> ELSE <<[weight |-> 2, value |-> q.target]>>)
     \o [i \in DOMAIN rows |-> [weight |-> IF rows[i].importance = "PREFERRED" THEN 2 ELSE 1,
                                value |-> rows[i].value]]

Within(x, y) == x \in Range(Above[y])
(* No value satisfies both the column and the row.                         *)
Disjoint(code, column, wanted) ==
  IF code = "LOCATION"
  THEN \A v \in wanted : ~Within(column, v) /\ ~Within(v, column)
  ELSE column \notin wanted

(* A required row against the request's own required value (G4-3).         *)
Compared(q, r) ==
  {c \in Range(Columns(q)) :
     /\ c.code = r.code /\ c.code \in {"TRANSACTION_INTENT", "PROPERTY_TYPE", "LOCATION"}
     /\ c.importance = "REQUIRED" /\ r.importance = "REQUIRED"
     /\ r.operator \in {"EQ", "IN"}}
Contradicted(q) ==
  \E r \in Range(q.rows) : \E c \in Compared(q, r) : \E v \in c.value : Disjoint(r.code, v, r.value)

Accepted(q) ==
  /\ \A r \in Range(q.rows) : RowAccepted(r)
  /\ q.place # None => q.place \in Locations
  /\ ~Contradicted(q)
  /\ q.intent # "RENT"   \* no period is defined for a rent's price

-----------------------------------------------------------------------------
(* What each rule says of a property p and an offer o                      *)

Says(is, basis, reason) == [is |-> is, basis |-> basis, reason |-> reason]
NotSaid(basis)          == Says("UNKNOWN", basis, None)
Passes(ok, basis, reason) ==
  IF ok THEN Says("PASS", basis, None) ELSE Says("FAIL", basis, reason)

(* A reason code that names an importance is given at that importance only. *)
IfRequired(c, reason) == IF c.importance = "REQUIRED" THEN reason ELSE None
IfSoft(c, reason)     == IF c.importance = "REQUIRED" THEN None ELSE reason

Inside(c, v) == IF c.operator \in {"NEQ", "NOT_IN"} THEN v \notin c.value ELSE v \in c.value
Serves(o)    == IF o.type = "SALE" THEN "BUY" ELSE "RENT"

Location(c, p) ==
  IF p.place = None THEN NotSaid("LOCATION_NOT_RECORDED")
  ELSE Passes(\E w \in c.value : Within(w, p.place), "LOCATION_SUBTREE",
              IfRequired(c, "LOCATION_MISMATCH"))

BudgetMax(c, o) ==
  CASE c.value = None -> NotSaid("BUDGET_MAX_NOT_STATED")
    [] c.value # None /\ o.ask = None -> Says("UNKNOWN", "PRICE_NOT_KNOWN", "PRICE_NOT_KNOWN")
    [] c.value # None /\ o.ask # None ->
         IF o.ask <= c.value \/ (o.expectation # None /\ o.expectation <= c.value)
         THEN Says("PASS", "PRICE_COMPATIBLE", None)
         ELSE IF o.negotiable = "NO"
         THEN Says("FAIL", "PRICE_ABOVE_MAX_NOT_NEGOTIABLE", "BUDGET_EXCEEDED")
         ELSE Says("UNKNOWN", "PRICE_ABOVE_MAX_NEGOTIATION_UNCONFIRMED",
                   "PRICE_NEGOTIATION_UNCONFIRMED")

AreaMin(c, area) ==
  IF area = None THEN NotSaid("AREA_NOT_RECORDED")
  ELSE Passes(area >= c.value, "AREA_MINIMUM", IfSoft(c, "AREA_BELOW_PREFERENCE"))

(* An attribute that cannot apply to the type fails; one that is missing   *)
(* or not a number is not known.                                           *)
CountMin(c, p, count) ==
  CASE p.type \notin AppliesTo[c.code[1]] -> Says("FAIL", "ATTRIBUTE_NOT_APPLICABLE", None)
    [] p.type \in AppliesTo[c.code[1]] /\ count = None -> NotSaid("ATTRIBUTE_NOT_RECORDED")
    [] p.type \in AppliesTo[c.code[1]] /\ count = Unreadable -> NotSaid("ATTRIBUTE_UNREADABLE")
    [] OTHER -> Passes(count >= c.value, "COUNT_MINIMUM", None)

AttributeOption(c, option) ==
  LET document == c.code[1] = "DOCUMENT_TYPE"
      unknown  == IF document THEN "DOCUMENT_NOT_KNOWN" ELSE None
  IN CASE option = None -> Says("UNKNOWN", "ATTRIBUTE_NOT_RECORDED", unknown)
       [] option = Unreadable -> Says("UNKNOWN", "ATTRIBUTE_UNREADABLE", unknown)
       [] option \in NotKnown -> Says("UNKNOWN", "ATTRIBUTE_VALUE_NOT_KNOWN", unknown)
       [] OTHER -> Passes(Inside(c, option), "ATTRIBUTE_OPTION",
                          IF document THEN IfRequired(c, "DOCUMENT_MISMATCH") ELSE None)

Ruled(c) == Reads(c.code[1]) # {} /\ c.operator # "TEXT_SEMANTIC"
Rule(c, p, o) ==
  LET code == c.code[1]
  IN CASE ~Ruled(c) -> NotSaid("NO_DETERMINISTIC_RULE")
       [] Ruled(c) /\ code = "TRANSACTION_INTENT" ->
            Passes(Inside(c, Serves(o)), "OFFER_TRANSACTION_TYPE", None)
       [] Ruled(c) /\ code = "PROPERTY_TYPE" ->
            Passes(Inside(c, p.type), "PROPERTY_TYPE", "PROPERTY_TYPE_MISMATCH")
       [] Ruled(c) /\ code = "LOCATION" -> Location(c, p)
       [] Ruled(c) /\ code = "BUDGET_MAX" -> BudgetMax(c, o)
       [] Ruled(c) /\ code \in AreaCodes -> AreaMin(c, p.fact[code])
       [] Ruled(c) /\ code \in CountCodes -> CountMin(c, p, p.fact[code])
       [] Ruled(c) /\ code \in OptionCodes -> AttributeOption(c, p.fact[code])

-----------------------------------------------------------------------------
(* The gates                                                               *)

Blocks(importance, is, flagged) ==
  IF importance = "REQUIRED" THEN is \in {"FAIL", "UNKNOWN"} ELSE is = "UNKNOWN" /\ flagged

Evaluate(criteria, p, o) ==
  [i \in DOMAIN criteria |->
     LET c == criteria[i]  says == Rule(c, p, o)
     IN [criterion |-> c, says |-> says,
         blocks |-> Blocks(c.importance, says.is, c.blocking)]]

Required(results) == {r \in Range(results) : r.criterion.importance = "REQUIRED"}
Failing(results)  == {r \in Required(results) : r.says.is = "FAIL"}
Missing(results)  == {r \in Range(results) : r.blocks /\ r.says.is = "UNKNOWN"}

HardGate(results) ==
  CASE Failing(results) # {} -> "FAIL"
    [] Failing(results) = {} /\ \E r \in Required(results) : r.says.is = "UNKNOWN" -> "UNKNOWN"
    [] OTHER -> "PASS"
InformationGate(results) == IF Missing(results) # {} THEN "UNKNOWN" ELSE "PASS"

FreshnessState(confirmed, days, asOf) ==
  IF confirmed = None THEN "UNKNOWN" ELSE IF asOf - confirmed > days THEN "STALE" ELSE "FRESH"

FreshnessGate(states) ==
  CASE "STALE" \in Range(states) -> "FAIL"
    [] Range(states) \subseteq {"FRESH"} -> "PASS"
    [] OTHER -> "UNKNOWN"

(* A date of revocation counts even when it lies ahead.                    *)
BindingState(b, party, asOf) ==
  CASE b.party # party -> "OTHER_PARTY"
    [] b.party = party /\ b.scope # b.purpose -> "SCOPE_MISMATCH"
    [] b.party = party /\ b.scope = b.purpose /\ (b.unbound # None \/ b.withdrawn # None) ->
         "REVOKED"
    [] b.party = party /\ b.scope = b.purpose /\ b.unbound = None /\ b.withdrawn = None ->
         IF b.bound > asOf \/ b.granted > asOf THEN "NOT_STARTED" ELSE "CURRENT"

Counted(states) == states \ {"OTHER_PARTY", "SCOPE_MISMATCH"}
PermissionGate(states) ==
  CASE "CURRENT" \in states -> "PASS"
    [] Counted(states) = {"REVOKED"} -> "FAIL"
    [] OTHER -> "UNKNOWN"

Eligibility(hard, information, freshness, permission) ==
  CASE hard = "FAIL" -> "REJECTED"
    [] hard # "FAIL" /\ information # "PASS" -> "NEED_MORE_INFORMATION"
    [] hard # "FAIL" /\ information = "PASS" /\ {freshness, permission} # {"PASS"} ->
         "NEEDS_CONFIRMATION"
    [] OTHER -> "ELIGIBLE"

(* Every gate that does not pass gives its reasons, whatever was decided.  *)
Reason(gate, subject, code, basis) ==
  [gate |-> gate, subject |-> subject, code |-> code, basis |-> basis]
Reasons(results, freshness, permission) ==
  {Reason("HARD", r.criterion.code, r.says.reason, "REQUIRED_FAIL") : r \in Failing(results)}
    \union {Reason("INFORMATION", r.criterion.code, r.says.reason, "BLOCKING_UNKNOWN") :
              r \in Missing(results)}
    \union {Reason("FRESHNESS", <<s, 0>>, IF freshness[s] = "STALE" THEN s ELSE None,
                   freshness[s]) : s \in {x \in DOMAIN freshness : freshness[x] # "FRESH"}}
    \union CASE PermissionGate(permission) = "PASS" -> {}
             [] PermissionGate(permission) = "FAIL" ->
                  {Reason("PERMISSION", <<"offer", 0>>, "CONSENT_REVOKED", "ONLY_REVOKED_BINDINGS")}
             [] PermissionGate(permission) = "UNKNOWN" ->
                  {Reason("PERMISSION", <<"offer", 0>>, "PERMISSION_MISSING",
                          IF Counted(permission) = {} THEN "NO_CURRENT_BINDING" ELSE "NOT_STARTED")}

(* The share of the soft terms that hold, in millionths, rounded half up.  *)
Proximity(target, ask) ==
  CASE ask = None -> <<0, 1>>
    [] ask # None /\ target = 0 -> <<IF ask = 0 THEN 1 ELSE 0, 1>>
    [] ask # None /\ target # 0 ->
         LET far == IF ask < target THEN target - ask ELSE ask - target
         IN <<target - (IF far < target THEN far ELSE target), target>>
SoftScore(results, targets, o) ==
  LET soft == SelectSeq(results, LAMBDA r : /\ r.criterion.importance # "REQUIRED"
                                            /\ Ruled(r.criterion))
      term(r) == [weight |-> IF r.criterion.importance = "PREFERRED" THEN 2 ELSE 1,
                  share |-> <<IF r.says.is = "PASS" THEN 1 ELSE 0, 1>>]
      terms == [i \in DOMAIN soft |-> term(soft[i])]
                 \o [i \in DOMAIN targets |-> [weight |-> targets[i].weight,
                                               share |-> Proximity(targets[i].value, o.ask)]]
      weight == FoldLeft(LAMBDA w, t : w + t.weight, 0, terms)
      sum == FoldLeft(LAMBDA s, t : <<s[1] * t.share[2] + t.weight * t.share[1] * s[2],
                                      s[2] * t.share[2]>>, <<0, 1>>, terms)
      over == sum[2] * weight
  IN IF HardGate(results) # "PASS" \/ terms = <<>> THEN None
     ELSE (2 * sum[1] * 1000000 + over) \div (2 * over)

-----------------------------------------------------------------------------
(* What is to be done next                                                 *)

Work(type, entity, gate, subject, basis) ==
  [type |-> type, entity |-> entity, gate |-> gate, subject |-> subject, basis |-> basis]

EntityOf(basis) ==
  CASE basis \in {"BUDGET_MAX_NOT_STATED", "NO_DETERMINISTIC_RULE"} -> "REQUEST"
    [] basis \in {"PRICE_NOT_KNOWN", "PRICE_ABOVE_MAX_NEGOTIATION_UNCONFIRMED"} ->
         "PROPERTY_OFFER"
    [] OTHER -> "PROPERTY"
InformationWork(r) ==
  LET code == r.criterion.code[1]
  IN Work(CASE code \in OptionCodes -> "VERIFY_DOCUMENT"
            [] code = "BUDGET_MAX" -> "CONFIRM_PRICE"
            [] OTHER -> "OTHER",
          EntityOf(r.says.basis), "INFORMATION", r.criterion.code, r.says.basis)

FreshnessWork(s, state) ==
  CASE s = "request"  -> Work("RECONFIRM_REQUEST", "REQUEST", "FRESHNESS", <<s, 0>>, state)
    [] s = "property" -> Work("RECONFIRM_PROPERTY", "PROPERTY", "FRESHNESS", <<s, 0>>, state)
    [] s = "offer"    -> Work("CONFIRM_PRICE", "PROPERTY_OFFER", "FRESHNESS", <<s, 0>>, state)

PermissionWork(basis) ==
  Work("CONFIRM_PERMISSION", "PROPERTY_OFFER", "PERMISSION", <<"offer", 0>>, basis)

(* Information first, a required unknown before the others; then what is   *)
(* to be confirmed again, in this order; then the permission.              *)
NextAction(eligibility, results, reasons) ==
  LET missing  == {i \in DOMAIN results : results[i] \in Missing(results)}
      required == {i \in missing : results[i].criterion.importance = "REQUIRED"}
      first    == results[Min(IF required = {} THEN missing ELSE required)]
      rank     == [request |-> 1, property |-> 2, offer |-> 3]
      stale    == {x \in reasons : x.gate = "FRESHNESS"}
      again    == CHOOSE x \in stale : \A y \in stale : rank[x.subject[1]] <= rank[y.subject[1]]
  IN CASE eligibility \in {"ELIGIBLE", "REJECTED"} -> None
       [] eligibility = "NEED_MORE_INFORMATION" -> InformationWork(first)
       [] eligibility = "NEEDS_CONFIRMATION" ->
            IF stale # {} THEN FreshnessWork(again.subject[1], again.basis)
            ELSE PermissionWork((CHOOSE x \in reasons : x.gate = "PERMISSION").basis)
=============================================================================
