------------------------- MODULE MatchingRunsProofs -------------------------
(* What the matching runs of a request promise, for every market, every    *)
(* vocabulary and every policy.                                            *)
EXTENDS MatchingRuns, FiniteSetTheorems, WellFoundedInduction, TLAPS

(* A set of numbers has a least one.                                       *)
LEMMA Least ==
  ASSUME NEW T \in SUBSET Nat, T # {}
  PROVE  \E x \in T : \A y \in T : x <= y
<1>1. PICK x \in T : \A y \in T : <<y, x>> \notin OpToRel(<, Nat)
  BY NatLessThanWellFounded, WFMin
<1>2. \A y \in T : ~ (y < x)
  BY <1>1 DEF OpToRel
<1> QED BY <1>2

-----------------------------------------------------------------------------
(* The rows of a request, read in their order                              *)

(* The rows kept so far, at the next row.                                  *)
Keep(q, deferred, f, i) ==
  IF i = 0 THEN <<>>
  ELSE IF Deferred(q.rows[i]) = deferred THEN Append(f[i - 1], FromRow(q, i))
  ELSE f[i - 1]
Keeps(q, deferred, f, n) == f = [i \in 0..n |-> Keep(q, deferred, f, i)]

(* There is a function that keeps the rows up to any one.                  *)
LEMMA KeepsExists ==
  ASSUME NEW q, NEW deferred, NEW n \in Nat
  PROVE  \E f : Keeps(q, deferred, f, n)
<1> DEFINE T == {m \in Nat : ~ \E f : Keeps(q, deferred, f, m)}
<1> SUFFICES ASSUME T # {} PROVE FALSE
  OBVIOUS
<1>1. PICK m \in T : \A k \in T : m <= k
  <2>1. T \in SUBSET Nat
    OBVIOUS
  <2> HIDE DEF T
  <2> QED BY <2>1, Least
<1>2. m \in Nat /\ ~ \E f : Keeps(q, deferred, f, m)
  OBVIOUS
<1>3. CASE m = 0
  <2> DEFINE g == [i \in 0..0 |-> <<>>]
  <2>1. \A i \in 0..0 : i = 0
    OBVIOUS
  <2>2. \A i \in 0..0 : Keep(q, deferred, g, i) = <<>>
    BY <2>1 DEF Keep
  <2>3. g = [i \in 0..0 |-> Keep(q, deferred, g, i)]
    BY <2>2
  <2> QED BY <1>2, <1>3, <2>3 DEF Keeps
<1>4. CASE m # 0
  <2>1. m - 1 \in Nat /\ m - 1 \notin T
    BY <1>1, <1>2, <1>4
  <2>2. PICK f : Keeps(q, deferred, f, m - 1)
    BY <2>1
  <2> DEFINE g == [i \in 0..m |-> IF i = m THEN Keep(q, deferred, f, m) ELSE f[i]]
  <2>3. \A i \in 0..m : g[i] = Keep(q, deferred, g, i)
    <3> SUFFICES ASSUME NEW i \in 0..m PROVE g[i] = Keep(q, deferred, g, i)
      OBVIOUS
    <3>1. CASE i = 0
      <4>1. 0 \in 0..(m - 1) /\ f[0] = Keep(q, deferred, f, 0)
        <5>1. 0 \in 0..(m - 1)
          BY <2>1
        <5> QED BY <2>2, <5>1 DEF Keeps
      <4>2. g[0] = f[0]
        BY <1>4, <1>2
      <4> QED BY <3>1, <4>1, <4>2 DEF Keep
    <3>2. CASE i # 0
      <4>1. i - 1 \in 0..m /\ i - 1 # m
        BY <1>2, <3>2
      <4>2. g[i - 1] = f[i - 1]
        BY <4>1
      <4>3. Keep(q, deferred, g, i) = Keep(q, deferred, f, i)
        BY <4>2, <3>2 DEF Keep
      <4>4. CASE i = m
        BY <4>3, <4>4
      <4>5. CASE i # m
        <5>1. i \in 0..(m - 1)
          BY <1>2, <4>5
        <5>2. f[i] = Keep(q, deferred, f, i)
          BY <2>2, <5>1 DEF Keeps
        <5> QED BY <4>3, <4>5, <5>2
      <4> QED BY <4>4, <4>5
    <3> QED BY <3>1, <3>2
  <2>4. g = [i \in 0..m |-> Keep(q, deferred, g, i)]
    <3>1. DOMAIN g = 0..m /\ g = [i \in 0..m |-> g[i]]
      OBVIOUS
    <3> HIDE DEF g
    <3> QED BY <2>3, <3>1
  <2> QED BY <1>2, <2>4 DEF Keeps
<1> QED BY <1>3, <1>4

(* The rows read are the request's rows that are deferred, or are not.     *)
Kept(q, deferred) == {i \in DOMAIN q.rows : Deferred(q.rows[i]) = deferred}
LEMMA RowsTypes ==
  ASSUME NEW q, q.rows \in Seq(Range(q.rows)), NEW deferred
  PROVE  Rows(q, deferred) \in Seq({FromRow(q, i) : i \in Kept(q, deferred)})
<1> DEFINE n == Len(q.rows)
           f == CHOOSE g : Keeps(q, deferred, g, n)
           S == {FromRow(q, i) : i \in Kept(q, deferred)}
           T == {i \in 0..n : f[i] \notin Seq(S)}
<1>1. n \in Nat /\ DOMAIN q.rows = 1..n
  OBVIOUS
<1>2. Keeps(q, deferred, f, n)
  BY <1>1, KeepsExists
<1>3. Rows(q, deferred) = f[n]
  BY DEF Rows, Keeps, Keep
<1> HIDE DEF n, f
<1>4. T = {}
  <2> SUFFICES ASSUME T # {} PROVE FALSE
    OBVIOUS
  <2>1. PICK m \in T : \A k \in T : m <= k
    <3>1. T \in SUBSET Nat
      BY <1>1
    <3> HIDE DEF T
    <3> QED BY <3>1, Least
  <2>2. m \in 0..n /\ f[m] \notin Seq(S) /\ f[m] = Keep(q, deferred, f, m)
    BY <1>2 DEF Keeps
  <2>3. m # 0
    BY <2>2 DEF Keep
  <2>4. m - 1 \in 0..n /\ m \in 1..n /\ f[m - 1] \in Seq(S)
    BY <1>1, <2>1, <2>2, <2>3
  <2>5. Deferred(q.rows[m]) = deferred
    BY <2>2, <2>3, <2>4 DEF Keep
  <2>6. FromRow(q, m) \in S
    BY <1>1, <2>4, <2>5 DEF Kept
  <2> HIDE DEF S, T
  <2>7. Append(f[m - 1], FromRow(q, m)) \in Seq(S)
    BY <2>4, <2>6
  <2> QED BY <2>2, <2>3, <2>5, <2>7 DEF Keep
<1>5. n \in 0..n
  BY <1>1
<1> QED BY <1>3, <1>4, <1>5

(* A sequence joined to another has the members of both.                   *)
LEMMA JoinedIn ==
  ASSUME NEW A, NEW B, NEW s \in Seq(A), NEW t \in Seq(B)
  PROVE  /\ DOMAIN (s \o t) = 1..(Len(s) + Len(t))
         /\ \A i \in DOMAIN (s \o t) : (s \o t)[i] \in A \union B
<1> DEFINE D == A \union B
<1>1. s \in [1..Len(s) -> D] /\ Len(s) \in Nat /\ t \in [1..Len(t) -> D] /\ Len(t) \in Nat
  OBVIOUS
<1>2. s \in Seq(D) /\ t \in Seq(D)
  BY <1>1
<1> HIDE DEF D
<1>3. s \o t \in Seq(D) /\ Len(s \o t) = Len(s) + Len(t)
  BY <1>2
<1>4. DOMAIN (s \o t) = 1..Len(s \o t) /\ \A i \in DOMAIN (s \o t) : (s \o t)[i] \in D
  BY <1>3
<1> QED BY <1>3, <1>4 DEF D

(* The columns that state the request's type and place, and its maximum.   *)
First(q) ==
  <<Column("TRANSACTION_INTENT", "REQUIRED", "EQ", {q.intent})>>
  \o (IF q.type = None THEN <<>> ELSE <<Column("PROPERTY_TYPE", q.typeAs, "EQ", {q.type})>>)
  \o (IF q.place = None THEN <<>> ELSE <<Column("LOCATION", q.placeAs, "EQ", {q.place})>>)
OfFirst(q) ==
  {Column("TRANSACTION_INTENT", "REQUIRED", "EQ", {q.intent})}
    \union (IF q.type = None THEN {} ELSE {Column("PROPERTY_TYPE", q.typeAs, "EQ", {q.type})})
    \union (IF q.place = None THEN {} ELSE {Column("LOCATION", q.placeAs, "EQ", {q.place})})
InRows(q)  == q.max = None /\ \E i \in DOMAIN q.rows : q.rows[i].code = "BUDGET_MAX"
OfPrice(q) == IF InRows(q) THEN {} ELSE {Column("BUDGET_MAX", q.maxAs, "LTE", q.max)}
OfColumns(q) == OfFirst(q) \union OfPrice(q)

(* A part that may be left out.                                            *)
LEMMA PartTypes ==
  ASSUME NEW out \in BOOLEAN, NEW x
  PROVE  (IF out THEN <<>> ELSE <<x>>) \in Seq(IF out THEN {} ELSE {x})
<1>1. CASE out
  BY <1>1
<1>2. CASE ~out
  BY <1>2
<1> QED BY <1>1, <1>2

(* The first columns are read into a sequence of them.                     *)
LEMMA FirstTypes ==
  ASSUME NEW q
  PROVE  First(q) \in Seq(OfFirst(q))
<1> DEFINE a == Column("TRANSACTION_INTENT", "REQUIRED", "EQ", {q.intent})
           b == IF q.type = None THEN <<>> ELSE <<Column("PROPERTY_TYPE", q.typeAs, "EQ", {q.type})>>
           c == IF q.place = None THEN <<>> ELSE <<Column("LOCATION", q.placeAs, "EQ", {q.place})>>
           B == IF q.type = None THEN {} ELSE {Column("PROPERTY_TYPE", q.typeAs, "EQ", {q.type})}
           C == IF q.place = None THEN {} ELSE {Column("LOCATION", q.placeAs, "EQ", {q.place})}
<1>1. b \in Seq(B) /\ c \in Seq(C)
  BY PartTypes
<1>2. First(q) = <<a>> \o b \o c /\ OfFirst(q) = {a} \union B \union C
  BY DEF First, OfFirst
<1> HIDE DEF a, b, c, B, C
<1>3. PICK D : D = {a} \union B \union C
  OBVIOUS
<1>4. <<a>> \in Seq(D)
  BY <1>3
<1>5. B \subseteq D /\ C \subseteq D
  BY <1>3
<1>6. b \in Seq(D) /\ c \in Seq(D)
  BY <1>1, <1>5
<1>7. \A x, y \in Seq(D) : x \o y \in Seq(D)
  OBVIOUS
<1> QED BY <1>2, <1>3, <1>4, <1>6, <1>7

(* The columns are read into a sequence of them.                           *)
LEMMA ColumnsTypes ==
  ASSUME NEW q
  PROVE  Columns(q) \in Seq(OfColumns(q))
<1> DEFINE price == IF InRows(q) THEN <<>> ELSE <<Column("BUDGET_MAX", q.maxAs, "LTE", q.max)>>
<1>1. Columns(q) = First(q) \o price
  BY DEF Columns, First, InRows
<1>2. price \in Seq(OfPrice(q))
  BY PartTypes DEF OfPrice, InRows
<1> HIDE DEF price
<1>3. PICK x : x = First(q) /\ x \in Seq(OfFirst(q))
  BY FirstTypes
<1>4. x \in Seq(OfColumns(q)) /\ price \in Seq(OfColumns(q))
  <2>1. OfFirst(q) \subseteq OfColumns(q) /\ OfPrice(q) \subseteq OfColumns(q)
    BY DEF OfColumns
  <2> QED BY <1>2, <1>3, <2>1
<1>5. x \o price \in Seq(OfColumns(q))
  BY <1>4
<1> QED BY <1>1, <1>3, <1>5

(* What a criterion says of its row: a column's blocks nothing, and a      *)
(* row's blocks when the row does.                                         *)
OfItsRow(q, c) ==
  \/ c.row = 0 /\ c.blocking = FALSE
  \/ c.row # 0 /\ c.blocking = q.rows[c.row].blocking

(* Every criterion is as its row says.                                     *)
LEMMA CriteriaOfRows ==
  ASSUME NEW q, q.rows \in Seq(Range(q.rows)), NEW i \in DOMAIN Criteria(q)
  PROVE  OfItsRow(q, Criteria(q)[i])
<1> DEFINE C == OfColumns(q)
           S == {FromRow(q, j) : j \in Kept(q, FALSE)}
           all == Columns(q) \o Rows(q, FALSE)
<1>1. \A x \in C : x.row = 0 /\ x.blocking = FALSE
  BY DEF OfColumns, OfFirst, OfPrice, Column
<1>2. \A x \in S : x.row # 0 /\ x.blocking = q.rows[x.row].blocking
  <2>1. DOMAIN q.rows = 1..Len(q.rows) /\ Len(q.rows) \in Nat
    OBVIOUS
  <2> SUFFICES ASSUME NEW j \in Kept(q, FALSE)
               PROVE  /\ FromRow(q, j).row # 0
                      /\ FromRow(q, j).blocking = q.rows[FromRow(q, j).row].blocking
    OBVIOUS
  <2> QED BY <2>1 DEF FromRow, Kept
<1>3. Rows(q, FALSE) \in Seq(S)
  BY RowsTypes
<1>4. Columns(q) \in Seq(C)
  BY ColumnsTypes
<1> HIDE DEF C, S
<1>5. \A k \in DOMAIN all : all[k] \in C \union S
  BY <1>3, <1>4, JoinedIn
<1> HIDE DEF all
<1>6. DOMAIN Criteria(q) = DOMAIN all /\ \E k : Criteria(q)[i] = [all[i] EXCEPT !.code = k]
  BY DEF Criteria, all
<1>7. "row" \in DOMAIN all[i] /\ "blocking" \in DOMAIN all[i]
  <2>1. \A x \in C : "row" \in DOMAIN x /\ "blocking" \in DOMAIN x
    BY DEF C, OfColumns, OfFirst, OfPrice, Column
  <2>2. \A x \in S : "row" \in DOMAIN x /\ "blocking" \in DOMAIN x
    <3>1. \A j : "row" \in DOMAIN FromRow(q, j) /\ "blocking" \in DOMAIN FromRow(q, j)
      BY DEF FromRow
    <3> QED BY <3>1 DEF S
  <2> QED BY <1>5, <1>6, <2>1, <2>2
<1>8. Criteria(q)[i].row = all[i].row /\ Criteria(q)[i].blocking = all[i].blocking
  BY <1>6, <1>7
<1> QED BY <1>1, <1>2, <1>5, <1>6, <1>8 DEF OfItsRow

-----------------------------------------------------------------------------
(* What is stored of a match                                               *)

(* Each decision follows from the snapshots and the instant it was taken   *)
(* at, and the hash is of them under the digest the match is attributed.   *)
Sound(m) ==
  /\ m.q.rows \in Seq(Range(m.q.rows))
  /\ m.results = Evaluate(Criteria(m.q), m.p, m.o)
  /\ m.freshness = FreshnessStates(m.q, m.p, m.o, m.at)
  /\ m.permission = [b \in DOMAIN m.permission |->
                       [binding |-> m.permission[b].binding,
                        state   |-> BindingState(m.permission[b].binding, m.o.party, m.at)]]
  /\ m.decided = Decided(m.q, m.results, m.o, m.freshness, m.permission)
  /\ m.hash = InputHash(AttributedDigest(m), m.pair[2], m.q, m.p, m.o, m.freshness, m.permission)

(* A sound match is told again from its rows.                              *)
LEMMA SoundReplays ==
  ASSUME NEW m, Sound(m)
  PROVE  /\ Reconstructed(m) = <<m.results, m.freshness, m.permission, m.decided>>
         /\ Replayed(m) = <<[i \in DOMAIN m.results |-> m.results[i].says], m.hash>>
<1> DEFINE flagged(c) == c.row # 0 /\ m.q.rows[c.row].blocking
           again(r) == [r EXCEPT !.blocks = Blocks(r.criterion.importance, r.says.is,
                                                   flagged(r.criterion))]
           results == [i \in DOMAIN m.results |-> again(m.results[i])]
           permission == [b \in DOMAIN m.permission |->
                            [m.permission[b] EXCEPT !.state =
                               BindingState(m.permission[b].binding, m.o.party, m.at)]]
<1>1. \A i \in DOMAIN m.results :
        /\ i \in DOMAIN Criteria(m.q) /\ m.results[i].criterion = Criteria(m.q)[i]
        /\ m.results[i].says = Rule(m.results[i].criterion, m.p, m.o)
        /\ m.results[i] = [criterion |-> m.results[i].criterion, says |-> m.results[i].says,
                           blocks |-> Blocks(m.results[i].criterion.importance,
                                             m.results[i].says.is,
                                             m.results[i].criterion.blocking)]
  BY DEF Sound, Evaluate
<1>2. results = m.results
  <2>1. \A i \in DOMAIN m.results : again(m.results[i]) = m.results[i]
    <3> SUFFICES ASSUME NEW i \in DOMAIN m.results PROVE again(m.results[i]) = m.results[i]
      OBVIOUS
    <3>1. PICK c, s : c = m.results[i].criterion /\ s = m.results[i].says
      OBVIOUS
    <3>2. m.results[i] = [criterion |-> c, says |-> s, blocks |-> Blocks(c.importance, s.is, c.blocking)]
      BY <1>1, <3>1
    <3>3. OfItsRow(m.q, c)
      BY <1>1, <3>1, CriteriaOfRows DEF Sound
    <3>4. Blocks(c.importance, s.is, flagged(c)) = Blocks(c.importance, s.is, c.blocking)
      BY <3>3 DEF OfItsRow, Blocks
    <3> QED BY <3>1, <3>2, <3>4, SMTT(30)
  <2>2. m.results = [i \in DOMAIN m.results |-> m.results[i]]
    BY DEF Sound, Evaluate
  <2> QED BY <2>1, <2>2
<1>3. permission = m.permission
  <2>1. \A b \in DOMAIN m.permission :
          [m.permission[b] EXCEPT !.state = BindingState(m.permission[b].binding, m.o.party, m.at)]
            = m.permission[b]
    BY DEF Sound
  <2>2. m.permission = [b \in DOMAIN m.permission |-> m.permission[b]]
    BY DEF Sound
  <2> QED BY <2>1, <2>2
<1>4. Reconstructed(m) = <<results, FreshnessStates(m.q, m.p, m.o, m.at), permission,
                           Decided(m.q, results, m.o, FreshnessStates(m.q, m.p, m.o, m.at), permission)>>
  BY DEF Reconstructed
<1> HIDE DEF results, permission
<1>5. Reconstructed(m) = <<m.results, m.freshness, m.permission, m.decided>>
  BY <1>2, <1>3, <1>4 DEF Sound
<1>6. [i \in DOMAIN m.results |-> Rule(m.results[i].criterion, m.p, m.o)]
        = [i \in DOMAIN m.results |-> m.results[i].says]
  BY <1>1
<1> QED BY <1>5, <1>6 DEF Replayed, Sound

(* The market a run reads.                                                 *)
MarketTyped ==
  /\ RequestTyped(request) /\ release \in DOMAIN Releases
  /\ IsFiniteSet(DOMAIN properties) /\ IsFiniteSet(DOMAIN offers)
  /\ \A p \in DOMAIN properties : PropertyTyped(properties[p])
  /\ \A o \in DOMAIN offers : OfferTyped(offers[o])

(* An evaluation is sound, and of its pair.                                *)
LEMMA EvaluationSound ==
  ASSUME MarketTyped, NEW pair
  PROVE  LET e == Evaluation(pair)
         IN /\ Sound(e) /\ e.pair = pair /\ e.at = now
            /\ e.q = request /\ e.p = properties[pair[1]] /\ e.o = offers[pair[2]]
<1> DEFINE p == properties[pair[1]]
           o == offers[pair[2]]
           by == Releases[release]
           results == Evaluate(Criteria(request), p, o)
           freshness == FreshnessStates(request, p, o, now)
           permission == Permission(pair[1], pair[2], now)
<1>1. PICK e : e = Evaluation(pair)
  OBVIOUS
<1>2. e = [pair |-> pair, at |-> now, results |-> results,
           q |-> request, p |-> p, o |-> o, freshness |-> freshness, permission |-> permission,
           decided |-> Decided(request, results, o, freshness, permission),
           format |-> by.format, digest |-> IF by.format = 1 THEN None ELSE by.digest,
           hash |-> InputHash(by.digest, pair[2], request, p, o, freshness, permission)]
  BY <1>1 DEF Evaluation
<1>3. permission = [b \in DOMAIN permission |->
                      [binding |-> permission[b].binding,
                       state   |-> BindingState(permission[b].binding, o.party, now)]]
  BY DEF Permission
<1> HIDE DEF p, o, by, results, freshness, permission
<1>4. AttributedDigest(e) = by.digest
  <2>1. release \in 1..3 /\ (by.format = 1 => release = 1) /\ by = Releases[release]
    BY DEF MarketTyped, Releases, by
  <2> QED BY <1>2, <2>1 DEF AttributedDigest
<1>5. /\ e.pair = pair /\ e.at = now /\ e.results = results /\ e.q = request /\ e.p = p /\ e.o = o
      /\ e.freshness = freshness /\ e.permission = permission
      /\ e.decided = Decided(request, results, o, freshness, permission)
      /\ e.hash = InputHash(by.digest, pair[2], request, p, o, freshness, permission)
  BY <1>2
<1>6. Sound(e)
  BY <1>3, <1>4, <1>5 DEF Sound, MarketTyped, RequestTyped, results, freshness
<1> QED BY <1>1, <1>5, <1>6 DEF p, o

-----------------------------------------------------------------------------
(* What a run stores                                                       *)

AllSound == \A m \in matches : Sound(m)

(* Two sound matches with the same hash were decided alike.                *)
LEMMA SameDecided ==
  ASSUME NEW m, Sound(m), NEW e, Sound(e), Same(m, e)
  PROVE  /\ m.decided = e.decided /\ m.results = e.results /\ m.pair = e.pair
         /\ m.q = e.q /\ m.p = e.p /\ m.o = e.o
<1>1. /\ m.q = e.q /\ m.p = e.p /\ m.o = e.o
      /\ m.freshness = e.freshness /\ m.permission = e.permission
  BY DEF Same, Sound, InputHash
<1>2. m.results = e.results
  BY <1>1 DEF Sound
<1>3. m.decided = e.decided
  BY <1>1, <1>2 DEF Sound
<1> QED BY <1>1, <1>2, <1>3 DEF Same

(* What a run cites for a candidate is sound, of its pair, decided as the  *)
(* run decided, and of the run's instant unless it was there before.       *)
LEMMA StoredSound ==
  ASSUME MarketTyped, AllSound, NEW c
  PROVE  LET e == Evaluation(c)  m == Stored(e)
         IN /\ Sound(m) /\ m.pair = c /\ e.pair = c
            /\ m.decided = e.decided /\ m.results = e.results
            /\ m.q = request /\ m.p = properties[c[1]] /\ m.o = offers[c[2]]
            /\ m \in matches \/ m.at = now
<1>1. PICK e : e = Evaluation(c)
  OBVIOUS
<1>2. /\ Sound(e) /\ e.pair = c /\ e.at = now
      /\ e.q = request /\ e.p = properties[c[1]] /\ e.o = offers[c[2]]
  BY <1>1, EvaluationSound
<1>3. PICK m : m = Stored(e)
  OBVIOUS
<1>4. CASE Identical(e) = {}
  BY <1>2, <1>3, <1>4, <1>1 DEF Stored
<1>5. CASE Identical(e) # {}
  <2>1. m \in matches /\ Same(m, e)
    BY <1>3, <1>5 DEF Stored, Identical
  <2>2. Sound(m)
    BY <2>1 DEF AllSound
  <2> QED BY <1>1, <1>2, <1>3, <2>1, <2>2, SameDecided
<1> QED BY <1>4, <1>5

(* A one-to-one image is of the same size.                                 *)
LEMMA ImageSize ==
  ASSUME NEW f, IsFiniteSet(DOMAIN f), f = [x \in DOMAIN f |-> f[x]],
         \A x, y \in DOMAIN f : f[x] = f[y] => x = y
  PROVE  Cardinality({f[x] : x \in DOMAIN f}) = Cardinality(DOMAIN f)
<1> DEFINE T == {f[x] : x \in DOMAIN f}
<1>1. f \in [DOMAIN f -> T] /\ \A t \in T : \E x \in DOMAIN f : f[x] = t
  OBVIOUS
<1>2. f \in Bijection(DOMAIN f, T)
  BY <1>1 DEF Bijection, Injection, Surjection, IsInjective
<1>3. ExistsBijection(DOMAIN f, T)
  BY <1>2 DEF ExistsBijection
<1> HIDE DEF T
<1>4. Cardinality(T) = Cardinality(DOMAIN f)
  BY <1>3, FS_Bijection
<1> QED BY <1>4 DEF T

(* The candidates are finitely many.                                       *)
LEMMA CandidatesFinite ==
  ASSUME MarketTyped, NEW listed, NEW cs \in SUBSET Candidates(listed)
  PROVE  IsFiniteSet(cs)
<1> DEFINE P == DOMAIN properties
           O == DOMAIN offers
<1>1. \A c \in Candidates(listed) : c \in P \X O
  <2> SUFFICES ASSUME NEW c \in Candidates(listed) PROVE c \in P \X O
    OBVIOUS
  <2>1. c \in Scope(listed) \X O /\ c[1] \in P
    BY DEF Candidates, IsCandidate
  <2> HIDE DEF P, O, Scope
  <2> QED BY <2>1
<1>2. IsFiniteSet(P) /\ IsFiniteSet(O)
  BY DEF MarketTyped
<1> HIDE DEF P, O
<1>3. IsFiniteSet(P \X O)
  BY <1>2, FS_Product
<1>4. cs \in SUBSET (P \X O)
  BY <1>1
<1> QED BY <1>3, <1>4, FS_Subset

(* As many matches are cited as candidates were evaluated, whichever of    *)
(* them are counted.                                                       *)
LEMMA CitedSize ==
  ASSUME MarketTyped, AllSound, NEW listed, NEW cs \in SUBSET Candidates(listed)
  PROVE  Cardinality({Evaluation(c) : c \in cs}) = Cardinality({Stored(Evaluation(c)) : c \in cs})
<1> DEFINE f == [c \in cs |-> Evaluation(c)]
           g == [c \in cs |-> Stored(Evaluation(c))]
<1>1. \A c \in cs : Evaluation(c).pair = c /\ Stored(Evaluation(c)).pair = c
  BY StoredSound
<1>2. DOMAIN f = cs /\ DOMAIN g = cs /\ IsFiniteSet(cs)
  BY CandidatesFinite
<1>3. /\ \A c \in cs : f[c] = Evaluation(c) /\ g[c] = Stored(Evaluation(c))
      /\ f = [x \in DOMAIN f |-> f[x]] /\ g = [x \in DOMAIN g |-> g[x]]
  OBVIOUS
<1> HIDE DEF f, g
<1>4. /\ \A x, y \in DOMAIN f : f[x] = f[y] => x = y
      /\ \A x, y \in DOMAIN g : g[x] = g[y] => x = y
  BY <1>1, <1>2, <1>3
<1>5. /\ Cardinality({f[x] : x \in DOMAIN f}) = Cardinality(cs)
      /\ Cardinality({g[x] : x \in DOMAIN g}) = Cardinality(cs)
  BY <1>2, <1>3, <1>4, ImageSize
<1>6. /\ {f[x] : x \in DOMAIN f} = {Evaluation(c) : c \in cs}
      /\ {g[x] : x \in DOMAIN g} = {Stored(Evaluation(c)) : c \in cs}
  BY <1>2, <1>3
<1> QED BY <1>5, <1>6

(* The counts of a run are those of the matches it cites.                  *)
LEMMA CountsCited ==
  ASSUME MarketTyped, AllSound, NEW listed,
         NEW evaluated, evaluated = {Evaluation(c) : c \in Candidates(listed)},
         NEW found, found = {Stored(e) : e \in evaluated}
  PROVE  Counts(evaluated) = Counts(found)
<1> DEFINE Ready(m) == m.decided.eligibility = "ELIGIBLE"
           Waiting(m) == m.decided.eligibility = "NEED_MORE_INFORMATION"
           cs == Candidates(listed)
<1>1. \A c \in cs : /\ Ready(Evaluation(c)) <=> Ready(Stored(Evaluation(c)))
                    /\ Waiting(Evaluation(c)) <=> Waiting(Stored(Evaluation(c)))
                    /\ NearMatch(Evaluation(c)) <=> NearMatch(Stored(Evaluation(c)))
  BY StoredSound, ZenonT(40) DEF NearMatch
<1>2. found = {Stored(Evaluation(c)) : c \in cs}
  OBVIOUS
<1> HIDE DEF cs, Ready, Waiting
<1>3. Cardinality({m \in evaluated : Ready(m)}) = Cardinality({m \in found : Ready(m)})
  <2> DEFINE ds == {c \in cs : Ready(Evaluation(c))}
  <2>1. ds \subseteq Candidates(listed)
    BY DEF cs
  <2>2. /\ {m \in evaluated : Ready(m)} = {Evaluation(c) : c \in ds}
        /\ {m \in found : Ready(m)} = {Stored(Evaluation(c)) : c \in ds}
    BY <1>1, <1>2 DEF cs
  <2> HIDE DEF ds
  <2> QED BY <2>1, <2>2, CitedSize
<1>4. Cardinality({m \in evaluated : Waiting(m)}) = Cardinality({m \in found : Waiting(m)})
  <2> DEFINE ds == {c \in cs : Waiting(Evaluation(c))}
  <2>1. ds \subseteq Candidates(listed)
    BY DEF cs
  <2>2. /\ {m \in evaluated : Waiting(m)} = {Evaluation(c) : c \in ds}
        /\ {m \in found : Waiting(m)} = {Stored(Evaluation(c)) : c \in ds}
    BY <1>1, <1>2 DEF cs
  <2> HIDE DEF ds
  <2> QED BY <2>1, <2>2, CitedSize
<1>5. Cardinality({m \in evaluated : NearMatch(m)}) = Cardinality({m \in found : NearMatch(m)})
  <2> DEFINE ds == {c \in cs : NearMatch(Evaluation(c))}
  <2>1. ds \subseteq Candidates(listed)
    BY DEF cs
  <2>2. /\ {m \in evaluated : NearMatch(m)} = {Evaluation(c) : c \in ds}
        /\ {m \in found : NearMatch(m)} = {Stored(Evaluation(c)) : c \in ds}
    BY <1>1, <1>2 DEF cs
  <2> HIDE DEF ds
  <2> QED BY <2>1, <2>2, CitedSize
<1> QED BY <1>3, <1>4, <1>5 DEF Counts, Ready, Waiting

-----------------------------------------------------------------------------
(* What is to be done next                                                 *)

(* A smallest index is one.                                                *)
LEMMA FirstIndex ==
  ASSUME NEW T \in SUBSET Nat, T # {}
  PROVE  Min(T) \in T
<1>1. \E x \in T : \A y \in T : x <= y
  BY Least
<1> QED BY <1>1 DEF Min

(* A freshness reason for each state that is not fresh, and a permission   *)
(* reason when the permission gate does not pass.                          *)
LEMMA ReasonsGiven ==
  ASSUME NEW results, NEW freshness, NEW states
  PROVE  /\ \A x \in Reasons(results, freshness, states) :
              x.gate = "FRESHNESS" => \E s \in DOMAIN freshness : x.subject[1] = s
         /\ \A s \in DOMAIN freshness : freshness[s] # "FRESH" =>
              \E x \in Reasons(results, freshness, states) : x.gate = "FRESHNESS"
         /\ PermissionGate(states) # "PASS" =>
              \E x \in Reasons(results, freshness, states) : x.gate = "PERMISSION"
<1> DEFINE hard == {Reason("HARD", r.criterion.code, r.says.reason, "REQUIRED_FAIL") : r \in Failing(results)}
           information == {Reason("INFORMATION", r.criterion.code, r.says.reason, "BLOCKING_UNKNOWN") :
                             r \in Missing(results)}
           ofState(s) == Reason("FRESHNESS", <<s, 0>>, IF freshness[s] = "STALE" THEN s ELSE None, freshness[s])
           fresh == {ofState(s) : s \in {x \in DOMAIN freshness : freshness[x] # "FRESH"}}
           permission == CASE PermissionGate(states) = "PASS" -> {}
             [] PermissionGate(states) = "FAIL" ->
                  {Reason("PERMISSION", <<"offer", 0>>, "CONSENT_REVOKED", "ONLY_REVOKED_BINDINGS")}
             [] PermissionGate(states) = "UNKNOWN" ->
                  {Reason("PERMISSION", <<"offer", 0>>, "PERMISSION_MISSING",
                          IF Counted(states) = {} THEN "NO_CURRENT_BINDING" ELSE "NOT_STARTED")}
<1>1. Reasons(results, freshness, states) = hard \union information \union fresh \union permission
  BY DEF Reasons
<1>2. \A x \in hard \union information : x.gate \in {"HARD", "INFORMATION"}
  BY DEF Reason
<1>3. /\ \A x \in fresh : \E s \in DOMAIN freshness : x.subject[1] = s
      /\ \A s \in DOMAIN freshness : freshness[s] # "FRESH" => ofState(s) \in fresh /\ ofState(s).gate = "FRESHNESS"
  BY DEF Reason
<1>4. PermissionGate(states) \in {"PASS", "FAIL", "UNKNOWN"}
  BY DEF PermissionGate
<1>5. /\ \A x \in permission : x.gate = "PERMISSION"
      /\ PermissionGate(states) # "PASS" => \E x \in permission : x.gate = "PERMISSION"
  <2>1. CASE PermissionGate(states) = "PASS"
    <3>1. permission = {}
      BY <2>1
    <3> HIDE DEF permission
    <3> QED BY <2>1, <3>1
  <2>2. CASE PermissionGate(states) = "FAIL"
    <3>1. permission = {Reason("PERMISSION", <<"offer", 0>>, "CONSENT_REVOKED", "ONLY_REVOKED_BINDINGS")}
      BY <2>2
    <3> HIDE DEF permission
    <3> QED BY <2>2, <3>1 DEF Reason
  <2>3. CASE PermissionGate(states) = "UNKNOWN"
    <3>1. permission = {Reason("PERMISSION", <<"offer", 0>>, "PERMISSION_MISSING",
                               IF Counted(states) = {} THEN "NO_CURRENT_BINDING" ELSE "NOT_STARTED")}
      BY <2>3
    <3> HIDE DEF permission
    <3> QED BY <2>3, <3>1 DEF Reason
  <2> QED BY <1>4, <2>1, <2>2, <2>3
<1> HIDE DEF hard, information, fresh, permission, ofState
<1> QED BY <1>1, <1>2, <1>3, <1>5

(* The next action of a sound match is among the work it waits for.        *)
LEMMA ActionWaitsFor ==
  ASSUME NEW m, Sound(m), m.decided.action # None
  PROVE  On(m, m.decided.action) \in WorkOf(m)
<1> DEFINE permitted == States(m.permission)
<1>1. PICK verdict, reasons : /\ verdict = m.decided.eligibility /\ reasons = m.decided.reasons
  OBVIOUS
<1>2. /\ verdict = Eligibility(HardGate(m.results), InformationGate(m.results),
                               FreshnessGate(m.freshness), PermissionGate(permitted))
      /\ reasons = Reasons(m.results, m.freshness, permitted)
      /\ m.decided.action = NextAction(verdict, m.results, reasons)
  BY <1>1 DEF Sound, Decided
<1> HIDE DEF permitted
<1>3. verdict \in {"NEED_MORE_INFORMATION", "NEEDS_CONFIRMATION"}
  <2>1. verdict \notin {"ELIGIBLE", "REJECTED"}
    BY <1>2 DEF NextAction
  <2>2. verdict \in {"REJECTED", "NEED_MORE_INFORMATION", "NEEDS_CONFIRMATION", "ELIGIBLE"}
    BY <1>2 DEF Eligibility
  <2> QED BY <2>1, <2>2
<1>4. CASE verdict = "NEED_MORE_INFORMATION"
  <2> DEFINE missing == {i \in DOMAIN m.results : m.results[i] \in Missing(m.results)}
             required == {i \in missing : m.results[i].criterion.importance = "REQUIRED"}
             T == IF required = {} THEN missing ELSE required
  <2>1. DOMAIN m.results \subseteq Nat
    <3>1. DOMAIN m.results = DOMAIN Criteria(m.q)
      BY DEF Sound, Evaluate
    <3>2. DOMAIN Criteria(m.q) = DOMAIN (Columns(m.q) \o Rows(m.q, FALSE))
      BY DEF Criteria
    <3>3. PICK x, y : x = Columns(m.q) /\ y = Rows(m.q, FALSE)
      OBVIOUS
    <3>4. PICK A, B : x \in Seq(A) /\ y \in Seq(B)
      <4>1. m.q.rows \in Seq(Range(m.q.rows))
        BY DEF Sound
      <4> QED BY <3>3, <4>1, ColumnsTypes, RowsTypes
    <3>5. DOMAIN (x \o y) = 1..(Len(x) + Len(y))
      BY <3>4, JoinedIn
    <3>6. Len(x) \in Nat /\ Len(y) \in Nat
      BY <3>4
    <3>7. DOMAIN m.results = 1..(Len(x) + Len(y))
      BY <3>1, <3>2, <3>3, <3>5
    <3> QED BY <3>6, <3>7
  <2>2. missing # {}
    <3>1. Missing(m.results) # {}
      BY <1>2, <1>4 DEF Eligibility, InformationGate
    <3> QED BY <3>1 DEF Missing, Range
  <2>3. T \in SUBSET Nat /\ T # {} /\ T \subseteq missing
    BY <2>1, <2>2
  <2>4. m.decided.action = InformationWork(m.results[Min(T)])
    BY <1>2, <1>4 DEF NextAction
  <2> HIDE DEF T
  <2>5. m.results[Min(T)] \in Missing(m.results)
    BY <2>3, FirstIndex
  <2> QED BY <1>1, <1>4, <2>4, <2>5 DEF WorkOf
<1>5. CASE verdict = "NEEDS_CONFIRMATION"
  <2> DEFINE stale == {x \in reasons : x.gate = "FRESHNESS"}
             rank == [request |-> 1, property |-> 2, offer |-> 3]
             again == CHOOSE x \in stale : \A y \in stale : rank[x.subject[1]] <= rank[y.subject[1]]
  <2>1. m.decided.action = IF stale # {} THEN FreshnessWork(again.subject[1], again.basis)
                           ELSE PermissionWork((CHOOSE x \in reasons : x.gate = "PERMISSION").basis)
    BY <1>2, <1>5 DEF NextAction
  <2>2. CASE stale # {}
    <3>1. \A x \in stale : x.subject[1] \in {"request", "property", "offer"}
      <4>1. DOMAIN m.freshness = {"request", "property", "offer"}
        BY Vocabulary DEF Sound, FreshnessStates
      <4> QED BY <1>2, <4>1, ReasonsGiven
    <3>2. PICK n \in {rank[x.subject[1]] : x \in stale} : \A k \in {rank[x.subject[1]] : x \in stale} : n <= k
      <4> DEFINE N == {rank[x.subject[1]] : x \in stale}
      <4>1. N \in SUBSET Nat /\ N # {}
        BY <2>2, <3>1
      <4> HIDE DEF N
      <4>2. \E n \in N : \A k \in N : n <= k
        BY <4>1, Least
      <4> QED BY <4>2 DEF N
    <3>3. \E x \in stale : \A y \in stale : rank[x.subject[1]] <= rank[y.subject[1]]
      BY <3>2
    <3> HIDE DEF stale, rank
    <3>4. again \in stale
      BY <3>3
    <3> HIDE DEF again
    <3>5. m.decided.action = FreshnessWork(again.subject[1], again.basis)
      BY <2>1, <2>2
    <3>6. again \in {y \in m.decided.reasons : y.gate = "FRESHNESS"}
      BY <1>1, <3>4 DEF stale
    <3> QED BY <1>1, <1>5, <3>5, <3>6 DEF WorkOf
  <2>3. CASE stale = {}
    <3>1. \A s \in DOMAIN m.freshness : m.freshness[s] = "FRESH"
      BY <1>2, <2>3, ReasonsGiven
    <3>2. FreshnessGate(m.freshness) = "PASS"
      BY <3>1 DEF FreshnessGate, Range
    <3>3. PermissionGate(permitted) # "PASS"
      BY <1>2, <1>5, <3>2 DEF Eligibility
    <3>4. \E x \in reasons : x.gate = "PERMISSION"
      BY <1>2, <3>3, ReasonsGiven
    <3>5. PICK x \in reasons : x.gate = "PERMISSION" /\ x = CHOOSE y \in reasons : y.gate = "PERMISSION"
      BY <3>4
    <3>6. m.decided.action = PermissionWork(x.basis)
      BY <2>1, <2>3, <3>5
    <3>7. x \in {y \in m.decided.reasons : y.gate = "PERMISSION"}
      BY <1>1, <3>5
    <3> QED BY <1>1, <1>5, <3>6, <3>7 DEF WorkOf
  <2> QED BY <2>2, <2>3
<1> QED BY <1>3, <1>4, <1>5

(* What a match is of: an accepted request, a property and an offer.       *)
Facts(m) ==
  RequestTyped(m.q) /\ Accepted(m.q) /\ PropertyTyped(m.p) /\ OfferTyped(m.o)

(* What a run's diagnostic cites is sound, of one request, and one for     *)
(* each pair; what it tells is of what it cites.                           *)
Cites(d) ==
  /\ \A m \in d.found : Sound(m) /\ Facts(m)
  /\ \A m, n \in d.found : m.q = n.q /\ (m.pair = n.pair => m = n)
  /\ d.counts = Counts(d.found) /\ d.actions = Actions(d.found)
  /\ d.scenarios = Scenarios(d.found)
  /\ \A m \in d.new : m.at = d.at

(* The next action of each match it cites is among those it suggests.      *)
LEMMA CitedSuggested ==
  ASSUME NEW d, Cites(d)
  PROVE  NextSuggested(d)
<1> SUFFICES ASSUME NEW m \in d.found, m.decided.action # None
             PROVE  \E a \in d.actions : a.work = On(m, m.decided.action) /\ m.pair \in a.waiting
  BY DEF NextSuggested
<1>1. PICK w : w = On(m, m.decided.action)
  OBVIOUS
<1>2. w \in WorkOf(m)
  BY <1>1, ActionWaitsFor DEF Cites
<1>3. PICK a : a = [work |-> w, waiting |-> {n.pair : n \in {k \in d.found : w \in WorkOf(k)}},
                    high |-> \E n \in d.found : /\ w \in WorkOf(n)
                                                /\ w[1].gate = "INFORMATION"
                                                /\ w[1].subject \in HighValue(n)]
  OBVIOUS
<1>4. a \in Actions(d.found)
  BY <1>2, <1>3 DEF Actions
<1> QED BY <1>1, <1>2, <1>3, <1>4 DEF Cites

-----------------------------------------------------------------------------
(* What a criterion may be, and what its rule says                         *)

(* What a fact must be for a row of its code to pass.                      *)
Meets(code, operator, value, x) ==
  CASE code = "BUDGET_MAX" -> x <= value
    [] code \in AreaCodes \union CountCodes -> x >= value
    [] code \in OptionCodes -> /\ x \notin NotKnown
                              /\ IF operator \in {"NEQ", "NOT_IN"} THEN x \notin value ELSE x \in value

(* A row that is readable and able to pass is met by a fact: a price of    *)
(* nothing, an amount no less than asked for, or an option, which may have *)
(* been retired.                                                           *)
LEMMA RowMet ==
  ASSUME NEW q, RequestTyped(q), NEW r \in Range(q.rows), Readable(r),
         CanPass(r.code, r.operator, r.value), r.code \in NumberCodes \union OptionCodes
  PROVE  \E x \in Values[r.code] : Meets(r.code, r.operator, r.value, x)
<1>1. PICK code, value : code = r.code /\ value = r.value
  OBVIOUS
<1>2. CASE code = "BUDGET_MAX"
  <2>1. value >= 0
    BY <1>1, <1>2 DEF Readable, Normalises, AreaCodes, OptionCodes
  <2>2. value \in Int
    BY <1>1, <1>2 DEF RequestTyped, Readable, Normalises, NumberCodes
  <2>3. 0 <= value /\ 0 \in Values[code]
    BY <1>2, <2>1, <2>2, Snapshots
  <2> QED BY <1>1, <1>2, <2>3 DEF Meets, AreaCodes, CountCodes, OptionCodes
<1>3. CASE code \in AreaCodes \union CountCodes
  <2>1. PICK x \in Values[code] : x >= value
    BY <1>1, <1>3 DEF RequestTyped, Readable, Normalises
  <2> QED BY <1>1, <1>3, <2>1 DEF Meets, AreaCodes, CountCodes, OptionCodes
<1>4. CASE code \in OptionCodes
  <2>1. /\ value \subseteq Options[code] /\ r.operator \in {"EQ", "NEQ", "IN", "NOT_IN"}
        /\ r.operator \in {"EQ", "IN"} => ~(value \subseteq NotKnown)
    <3>1. Names(code) = Options[code]
      BY <1>4 DEF Names, OptionCodes
    <3>2. value \subseteq Names(code) /\ r.operator \in Reads(code)
      BY <1>1, <1>4 DEF Readable, Normalises
    <3>3. r.operator \in {"EQ", "IN"} => ~(value \subseteq NotKnown)
      BY <1>1, <1>4 DEF CanPass, OptionCodes
    <3>4. Reads(code) = {"EQ", "NEQ", "IN", "NOT_IN"}
      BY <1>4 DEF Reads, OptionCodes, AreaCodes, CountCodes
    <3> QED BY <3>1, <3>2, <3>3, <3>4
  <2>2. /\ Options[code] \subseteq Values[code]
        /\ \E retired \in Values[code] : retired \notin Options[code] \union NotKnown
    BY <1>4, Snapshots
  <2>3. PICK x \in Values[code] : /\ x \notin NotKnown
                                 /\ IF r.operator \in {"NEQ", "NOT_IN"} THEN x \notin value ELSE x \in value
    BY <2>1, <2>2
  <2>4. Meets(code, r.operator, value, x)
    BY <1>4, <2>3 DEF Meets, AreaCodes, CountCodes, OptionCodes
  <2> QED BY <1>1, <2>4
<1> QED BY <1>1, <1>2, <1>3, <1>4 DEF NumberCodes

(* A criterion reads its fact under an operator and a value its rule       *)
(* knows, some fact may come to meet it, and one without a rule holds      *)
(* nothing up.                                                             *)
Open(code, c) == code = "BUDGET_MAX" /\ c.value = None
WellRead(c) ==
  /\ c = [code |-> c.code, importance |-> c.importance, operator |-> c.operator,
          value |-> c.value, blocking |-> c.blocking, row |-> c.row]
  /\ c.code[1] # "BUDGET_TARGET"
  /\ ~Ruled(c) => c.importance # "REQUIRED" /\ ~c.blocking
  /\ Ruled(c) => /\ c.operator \in Reads(c.code[1])
                 /\ c.code[1] = "LOCATION" => c.value # {} /\ c.value \subseteq Locations
                 /\ c.code[1] = "BUDGET_MAX" => c.value \in Int \union {None}
                 /\ c.code[1] \in AreaCodes \union CountCodes => c.value \in Int
                 /\ c.code[1] \in NumberCodes \union OptionCodes /\ ~Open(c.code[1], c) =>
                      \E x \in Values[c.code[1]] : Meets(c.code[1], c.operator, c.value, x)

(* An amount that is known is a number, whatever may be written.           *)
LEMMA TypedNumbers ==
  /\ \A c \in NumberCodes : Known(c) \subseteq Int \union {None}
  /\ \A q : RequestTyped(q) => q.max \in Int \union {None}
  /\ \A p : PropertyTyped(p) =>
       /\ \A c \in AreaCodes : p.fact[c] \in Int \union {None}
       /\ \A c \in CountCodes : p.fact[c] \in Int \union {None, Unreadable}
  /\ \A o : OfferTyped(o) => o.ask \in Int \union {None} /\ o.expectation \in Int \union {None}
<1>1. \A c \in NumberCodes : Known(c) \subseteq Int \union {None}
  BY Snapshots DEF Known
<1>2. "BUDGET_MAX" \in NumberCodes /\ AreaCodes \subseteq NumberCodes /\ CountCodes \subseteq NumberCodes
  BY DEF NumberCodes
<1>3. \A p : PropertyTyped(p) => /\ \A c \in AreaCodes : p.fact[c] \in Known(c)
                                /\ \A c \in CountCodes : p.fact[c] \in Known(c) \union {Unreadable}
  BY DEF PropertyTyped
<1>4. /\ \A q : RequestTyped(q) => q.max \in Known("BUDGET_MAX")
      /\ \A o : OfferTyped(o) => o.ask \in Known("BUDGET_MAX") /\ o.expectation \in Known("BUDGET_MAX")
  BY DEF RequestTyped, OfferTyped
<1> HIDE DEF NumberCodes, AreaCodes, CountCodes
<1> QED BY <1>1, <1>2, <1>3, <1>4

(* The codes that have a rule.                                             *)
LEMMA RuledCodes ==
  ASSUME NEW code, Reads(code) # {}, code # "BUDGET_TARGET"
  PROVE  code \in {"TRANSACTION_INTENT", "PROPERTY_TYPE", "LOCATION"} \union NumberCodes
                    \union OptionCodes
BY DEF Reads, NumberCodes

(* Each code has one rule.                                                 *)
LEMMA RuleOf ==
  ASSUME NEW c, Ruled(c), NEW p, NEW o
  PROVE  /\ c.code[1] = "TRANSACTION_INTENT" =>
              Rule(c, p, o) = Passes(Inside(c, Serves(o)), "OFFER_TRANSACTION_TYPE", None)
         /\ c.code[1] = "PROPERTY_TYPE" =>
              Rule(c, p, o) = Passes(Inside(c, p.type), "PROPERTY_TYPE", "PROPERTY_TYPE_MISMATCH")
         /\ c.code[1] = "LOCATION" => Rule(c, p, o) = Location(c, p)
         /\ c.code[1] = "BUDGET_MAX" => Rule(c, p, o) = BudgetMax(c, o)
         /\ c.code[1] \in AreaCodes => Rule(c, p, o) = AreaMin(c, p.fact[c.code[1]])
         /\ c.code[1] \in CountCodes => Rule(c, p, o) = CountMin(c, p, p.fact[c.code[1]])
         /\ c.code[1] \in OptionCodes => Rule(c, p, o) = AttributeOption(c, p.fact[c.code[1]])
<1>1. PICK code : code = c.code[1]
  OBVIOUS
<1>2. CASE code = "TRANSACTION_INTENT"
  BY <1>1, <1>2 DEF Rule, AreaCodes, CountCodes, OptionCodes
<1>3. CASE code = "PROPERTY_TYPE"
  BY <1>1, <1>3 DEF Rule, AreaCodes, CountCodes, OptionCodes
<1>4. CASE code = "LOCATION"
  BY <1>1, <1>4 DEF Rule, AreaCodes, CountCodes, OptionCodes
<1>5. CASE code = "BUDGET_MAX"
  BY <1>1, <1>5 DEF Rule, AreaCodes, CountCodes, OptionCodes
<1>6. CASE code \in AreaCodes
  BY <1>1, <1>6 DEF Rule, AreaCodes, CountCodes, OptionCodes
<1>7. CASE code \in CountCodes
  BY <1>1, <1>7 DEF Rule, AreaCodes, CountCodes, OptionCodes
<1>8. CASE code \in OptionCodes
  BY <1>1, <1>8 DEF Rule, AreaCodes, CountCodes, OptionCodes
<1> QED BY <1>1, <1>2, <1>3, <1>4, <1>5, <1>6, <1>7, <1>8

(* Passing, failing and what the basis is.                                 *)
LEMMA PassesIs ==
  ASSUME NEW ok \in BOOLEAN, NEW basis, NEW reason
  PROVE  /\ Passes(ok, basis, reason).is = IF ok THEN "PASS" ELSE "FAIL"
         /\ Passes(ok, basis, reason).basis = basis
BY DEF Passes, Says

(* The criteria a run evaluates are well read.                             *)
LEMMA CriteriaRead ==
  ASSUME NEW q, RequestTyped(q), Accepted(q), NEW i \in DOMAIN Criteria(q)
  PROVE  WellRead(Criteria(q)[i])
<1> DEFINE C == OfColumns(q)
           S == {FromRow(q, j) : j \in Kept(q, FALSE)}
           all == Columns(q) \o Rows(q, FALSE)
           Plain(x) ==
             /\ x = [code |-> x.code, importance |-> x.importance, operator |-> x.operator,
                     value |-> x.value, blocking |-> x.blocking, row |-> x.row]
             /\ x.code # "BUDGET_TARGET"
             /\ ~HasRule(x) => x.importance # "REQUIRED" /\ ~x.blocking
             /\ HasRule(x) =>
                  /\ x.operator \in Reads(x.code)
                  /\ x.code = "LOCATION" => x.value # {} /\ x.value \subseteq Locations
                  /\ x.code = "BUDGET_MAX" => x.value \in Int \union {None}
                  /\ x.code \in AreaCodes \union CountCodes => x.value \in Int
                  /\ x.code \in NumberCodes \union OptionCodes /\ ~Open(x.code, x) =>
                       \E y \in Values[x.code] : Meets(x.code, x.operator, x.value, y)
<1>0. q.rows \in Seq(Range(q.rows)) /\ q.max \in Int \union {None}
  BY TypedNumbers DEF RequestTyped
<1>1. \A x \in C : Plain(x)
  <2> SUFFICES ASSUME NEW x \in C PROVE Plain(x)
    OBVIOUS
  <2>1. CASE x = Column("TRANSACTION_INTENT", "REQUIRED", "EQ", {q.intent})
    BY <2>1 DEF Column, HasRule, Deferred, Reads, AreaCodes, CountCodes, OptionCodes, NumberCodes
  <2>2. CASE x = Column("PROPERTY_TYPE", q.typeAs, "EQ", {q.type})
    BY <2>2 DEF Column, HasRule, Deferred, Reads, AreaCodes, CountCodes, OptionCodes, NumberCodes
  <2>3. CASE q.place # None /\ x = Column("LOCATION", q.placeAs, "EQ", {q.place})
    <3>1. q.place \in Locations
      BY <2>3 DEF Accepted
    <3> QED BY <2>3, <3>1
            DEF Column, HasRule, Deferred, Reads, AreaCodes, CountCodes, OptionCodes, NumberCodes
  <2>4. CASE x = Column("BUDGET_MAX", q.maxAs, "LTE", q.max)
    <3>1. q.max # None => q.max \in Values["BUDGET_MAX"] /\ q.max <= q.max
      BY <1>0 DEF RequestTyped, Known
    <3>2. /\ x.code = "BUDGET_MAX" /\ x.operator = "LTE" /\ x.value = q.max /\ HasRule(x)
          /\ x = [code |-> x.code, importance |-> x.importance, operator |-> x.operator,
                  value |-> x.value, blocking |-> x.blocking, row |-> x.row]
      BY <2>4 DEF Column, HasRule, Deferred, Reads
    <3>3. x.operator \in Reads(x.code)
      BY <3>2 DEF Reads, AreaCodes, CountCodes, OptionCodes
    <3>4. q.max # None => Meets("BUDGET_MAX", "LTE", q.max, q.max)
      BY <3>1 DEF Meets, AreaCodes, CountCodes, OptionCodes
    <3>5. "BUDGET_MAX" \notin AreaCodes \union CountCodes
      BY DEF AreaCodes, CountCodes
    <3> QED BY <1>0, <3>1, <3>2, <3>3, <3>4, <3>5 DEF Open
  <2> QED BY <2>1, <2>2, <2>3, <2>4 DEF OfColumns, OfFirst, OfPrice
<1>2. \A x \in S : Plain(x)
  <2> SUFFICES ASSUME NEW j \in Kept(q, FALSE) PROVE Plain(FromRow(q, j))
    OBVIOUS
  <2>1. PICK r : r = q.rows[j]
    OBVIOUS
  <2>2. r \in Range(q.rows) /\ ~Deferred(r)
    BY <2>1 DEF Kept, Range
  <2>3. RowAccepted(r) /\ (r.code \in NumberCodes => r.value \in Int \union {Unreadable})
    BY <2>2 DEF Accepted, RequestTyped
  <2>4. PICK x : x = FromRow(q, j)
    OBVIOUS
  <2>5. x = [code |-> r.code, importance |-> r.importance, operator |-> r.operator,
             value |-> r.value, blocking |-> r.blocking, row |-> j]
    BY <2>1, <2>4 DEF FromRow
  <2>6. HasRule(x) <=> HasRule(r)
    BY <2>5 DEF HasRule, Deferred
  <2>7. ASSUME HasRule(x)
        PROVE  /\ Readable(r) /\ CanPass(r.code, r.operator, r.value)
               /\ x.operator \in Reads(x.code) /\ x.value # Unreadable
               /\ x.code = "LOCATION" => x.value # {} /\ x.value \subseteq Locations
    <3>1. Readable(r) /\ CanPass(r.code, r.operator, r.value)
      BY <2>3, <2>6, <2>7 DEF RowAccepted
    <3>2. x.operator \in Reads(x.code) /\ Normalises(x.code, x.value)
      BY <2>5, <3>1 DEF Readable
    <3>3. x.code = "LOCATION" => x.value # {} /\ x.value \subseteq Names("LOCATION")
      BY <3>2 DEF Normalises
    <3> QED BY <3>1, <3>2, <3>3 DEF Normalises, Names
  <2>8. x.code \in NumberCodes \union OptionCodes /\ HasRule(x) =>
          \E y \in Values[x.code] : Meets(x.code, x.operator, x.value, y)
    BY <2>2, <2>5, <2>7, RowMet
  <2>9. x.code # "BUDGET_TARGET"
    BY <2>2, <2>5 DEF Deferred
  <2>10. ~HasRule(x) => x.importance # "REQUIRED" /\ ~x.blocking
    BY <2>3, <2>5, <2>6 DEF RowAccepted
  <2>11. x.code \in NumberCodes /\ HasRule(x) => x.value \in Int
    BY <2>3, <2>5, <2>7
  <2>12. "BUDGET_MAX" \in NumberCodes /\ AreaCodes \union CountCodes \subseteq NumberCodes
    BY DEF NumberCodes
  <2> QED BY <2>4, <2>5, <2>7, <2>8, <2>9, <2>10, <2>11, <2>12
<1>3. Rows(q, FALSE) \in Seq(S)
  BY <1>0, RowsTypes
<1>4. Columns(q) \in Seq(C)
  BY ColumnsTypes
<1> HIDE DEF C, S
<1>5. \A k \in DOMAIN all : all[k] \in C \union S
  BY <1>3, <1>4, JoinedIn
<1> HIDE DEF all
<1>6. DOMAIN Criteria(q) = DOMAIN all /\ \E n : Criteria(q)[i] = [all[i] EXCEPT !.code = <<all[i].code, n>>]
  BY DEF Criteria, all
<1>7. Plain(all[i])
  BY <1>1, <1>2, <1>5, <1>6
<1>8. PICK x, c, n : x = all[i] /\ c = Criteria(q)[i] /\ c = [x EXCEPT !.code = <<x.code, n>>]
  BY <1>6
<1>9. Plain(x)
  BY <1>7, <1>8
<1>10. c = [code |-> <<x.code, n>>, importance |-> x.importance, operator |-> x.operator,
            value |-> x.value, blocking |-> x.blocking, row |-> x.row]
  BY <1>8, <1>9
<1>11. c.code[1] = x.code /\ c.operator = x.operator /\ c.value = x.value
  BY <1>10
<1>12. /\ c.importance = x.importance /\ c.blocking = x.blocking
       /\ HasRule(x) <=> Ruled(c)
  BY <1>9, <1>10, <1>11 DEF HasRule, Deferred, Ruled
<1>13. c = [code |-> c.code, importance |-> c.importance, operator |-> c.operator,
            value |-> c.value, blocking |-> c.blocking, row |-> c.row]
  BY <1>10
<1>14. Open(c.code[1], c) <=> Open(x.code, x)
  BY <1>11 DEF Open
<1>15. WellRead(c)
  BY <1>9, <1>11, <1>12, <1>13, <1>14 DEF WellRead
<1> QED BY <1>8, <1>15

(* The criteria are numbered from one.                                     *)
LEMMA CriteriaDomain ==
  ASSUME NEW q, q.rows \in Seq(Range(q.rows))
  PROVE  \E n \in Nat : DOMAIN Criteria(q) = 1..n /\ DOMAIN (Columns(q) \o Rows(q, FALSE)) = 1..n
<1>1. PICK x, y : x = Columns(q) /\ y = Rows(q, FALSE)
  OBVIOUS
<1>2. PICK A, B : x \in Seq(A) /\ y \in Seq(B)
  BY <1>1, ColumnsTypes, RowsTypes
<1>3. DOMAIN (x \o y) = 1..(Len(x) + Len(y))
  BY <1>2, JoinedIn
<1>4. Len(x) \in Nat /\ Len(y) \in Nat
  BY <1>2
<1>5. DOMAIN Criteria(q) = DOMAIN (x \o y)
  BY <1>1 DEF Criteria
<1>6. Len(x) + Len(y) \in Nat
  BY <1>4
<1> QED BY <1>1, <1>3, <1>5, <1>6

(* Two criteria never have the same key.                                   *)
LEMMA KeysDistinct ==
  ASSUME NEW q, q.rows \in Seq(Range(q.rows)),
         NEW i \in DOMAIN Criteria(q), NEW j \in DOMAIN Criteria(q),
         Criteria(q)[i].code = Criteria(q)[j].code
  PROVE  i = j
<1> DEFINE all == Columns(q) \o Rows(q, FALSE)
           same(k) == {l \in 1..k : all[l].code = all[k].code}
<1>1. PICK n \in Nat : DOMAIN Criteria(q) = 1..n /\ DOMAIN all = 1..n
  BY CriteriaDomain
<1>2. \A k \in DOMAIN all : "code" \in DOMAIN all[k]
  <2>1. \A x \in OfColumns(q) : "code" \in DOMAIN x
    BY DEF OfColumns, OfFirst, OfPrice, Column
  <2>2. \A k : "code" \in DOMAIN FromRow(q, k)
    BY DEF FromRow
  <2>3. PICK S : S = {FromRow(q, k) : k \in Kept(q, FALSE)}
    OBVIOUS
  <2>4. Columns(q) \in Seq(OfColumns(q)) /\ Rows(q, FALSE) \in Seq(S)
    BY <2>3, ColumnsTypes, RowsTypes
  <2>5. \A k \in DOMAIN all : all[k] \in OfColumns(q) \union S
    BY <2>4, JoinedIn
  <2> QED BY <2>1, <2>2, <2>3, <2>5
<1>3. \A k \in DOMAIN all : Criteria(q)[k].code = <<all[k].code, Cardinality(same(k))>>
  <2>1. \A k \in DOMAIN all :
          Criteria(q)[k] = [all[k] EXCEPT !.code = <<all[k].code, Cardinality(same(k))>>]
    BY DEF Criteria
  <2> HIDE DEF all, same
  <2> QED BY <1>2, <2>1
<1>4. ASSUME NEW k \in DOMAIN all, NEW l \in DOMAIN all, k < l, all[k].code = all[l].code
      PROVE  Cardinality(same(k)) # Cardinality(same(l))
  <2>1. k \in Nat /\ l \in Nat /\ k >= 1 /\ l >= 1
    BY <1>1
  <2>2. same(k) \subseteq same(l) /\ l \in same(l) /\ l \notin same(k)
    <3>1. 1..k \subseteq 1..l /\ l \in 1..l /\ l \notin 1..k
      BY <1>4, <2>1
    <3> HIDE DEF all
    <3> QED BY <1>4, <3>1
  <2>3. same(l) \subseteq 1..l
    OBVIOUS
  <2> HIDE DEF same, all
  <2>4. IsFiniteSet(1..l)
    BY <2>1, FS_Interval
  <2>5. IsFiniteSet(same(l))
    BY <2>3, <2>4, FS_Subset
  <2> QED BY <2>2, <2>5, FS_Subset
<1> HIDE DEF all, same
<1>5. all[i].code = all[j].code /\ Cardinality(same(i)) = Cardinality(same(j))
  BY <1>1, <1>3
<1>6. ~ (i < j) /\ ~ (j < i)
  BY <1>1, <1>4, <1>5
<1> QED BY <1>1, <1>6

-----------------------------------------------------------------------------
(* What a scenario changes                                                 *)

(* A criterion that was changed is read as it was, by its new value.       *)
LEMMA RelaxedIs ==
  ASSUME NEW c, WellRead(c), NEW s
  PROVE  LET d == Relaxed(s, c)
         IN /\ d.code = c.code /\ d.operator = c.operator /\ d.importance = c.importance
            /\ Ruled(d) = Ruled(c)
            /\ s.kind \in {"RAISE_MAXIMUM", "LOWER_MINIMUM"} => d.value = c.value + s.by
            /\ s.kind \notin {"RAISE_MAXIMUM", "LOWER_MINIMUM"} =>
                 d.value = IF c.operator \in {"NEQ", "NOT_IN"} THEN c.value \ {s.to}
                           ELSE c.value \union {s.to}
<1>1. PICK value : value = IF s.kind \in {"RAISE_MAXIMUM", "LOWER_MINIMUM"} THEN c.value + s.by
                           ELSE IF c.operator \in {"NEQ", "NOT_IN"} THEN c.value \ {s.to}
                           ELSE c.value \union {s.to}
  OBVIOUS
<1>2. c = [code |-> c.code, importance |-> c.importance, operator |-> c.operator,
           value |-> c.value, blocking |-> c.blocking, row |-> c.row]
  BY DEF WellRead
<1>3. Relaxed(s, c) = [c EXCEPT !.value = value]
  BY <1>1, <1>2 DEF Relaxed
<1>4. PICK d : d = Relaxed(s, c)
  OBVIOUS
<1>5. /\ d.code = c.code /\ d.operator = c.operator /\ d.importance = c.importance
      /\ d.value = value
  BY <1>2, <1>3, <1>4
<1>6. Ruled(d) = Ruled(c)
  BY <1>5 DEF Ruled
<1> QED BY <1>1, <1>4, <1>5, <1>6

(* What a failure says of its criterion.                                   *)
LEMMA FailureIs ==
  ASSUME NEW c, WellRead(c), NEW p, PropertyTyped(p), NEW o, OfferTyped(o),
         Rule(c, p, o).is = "FAIL"
  PROVE  LET code == c.code[1]  basis == Rule(c, p, o).basis
         IN /\ Ruled(c) /\ code \in {"TRANSACTION_INTENT", "PROPERTY_TYPE", "LOCATION"}
                                      \union NumberCodes \union OptionCodes
            /\ code = "TRANSACTION_INTENT" => basis = "OFFER_TRANSACTION_TYPE"
            /\ code = "PROPERTY_TYPE" => ~Inside(c, p.type) /\ basis = "PROPERTY_TYPE"
            /\ code = "LOCATION" => /\ p.place # None /\ \A w \in c.value : ~Within(w, p.place)
                                    /\ basis = "LOCATION_SUBTREE"
            /\ code = "BUDGET_MAX" => /\ c.value \in Int /\ o.ask \in Int /\ o.ask > c.value
                                      /\ c.value # None /\ o.ask # None /\ o.negotiable = "NO"
            /\ code \in AreaCodes => /\ c.value \in Int /\ p.fact[code] \in Int
                                     /\ p.fact[code] < c.value /\ p.fact[code] # None
            /\ code \in CountCodes =>
                 \/ p.type \notin AppliesTo[code] /\ basis = "ATTRIBUTE_NOT_APPLICABLE"
                 \/ /\ p.type \in AppliesTo[code] /\ basis = "COUNT_MINIMUM"
                    /\ c.value \in Int /\ p.fact[code] \in Int /\ p.fact[code] < c.value
                    /\ p.fact[code] # None /\ p.fact[code] # Unreadable
            /\ code \in OptionCodes => /\ p.fact[code] \notin {None, Unreadable} \union NotKnown
                                       /\ ~Inside(c, p.fact[code]) /\ basis = "ATTRIBUTE_OPTION"
<1>1. PICK code, says : code = c.code[1] /\ says = Rule(c, p, o)
  OBVIOUS
<1>2. Ruled(c)
  <2>1. ~Ruled(c) => Rule(c, p, o) = NotSaid("NO_DETERMINISTIC_RULE")
    BY DEF Rule
  <2> QED BY <2>1 DEF NotSaid, Says
<1>3. code \in {"TRANSACTION_INTENT", "PROPERTY_TYPE", "LOCATION"} \union NumberCodes \union OptionCodes
  BY <1>1, <1>2, RuledCodes DEF Ruled, WellRead
<1>4. \A x \in Int, y \in Int : x < y \/ x >= y
  OBVIOUS
<1>5. CASE code = "TRANSACTION_INTENT"
  <2>1. says = Passes(Inside(c, Serves(o)), "OFFER_TRANSACTION_TYPE", None)
    BY <1>1, <1>2, <1>5, RuleOf
  <2> QED BY <1>1, <1>2, <1>5, <2>1 DEF Passes, Says, AreaCodes, CountCodes, OptionCodes, NumberCodes
<1>6. CASE code = "PROPERTY_TYPE"
  <2>1. says = Passes(Inside(c, p.type), "PROPERTY_TYPE", "PROPERTY_TYPE_MISMATCH")
    BY <1>1, <1>2, <1>6, RuleOf
  <2> QED BY <1>1, <1>2, <1>6, <2>1 DEF Passes, Says, AreaCodes, CountCodes, OptionCodes, NumberCodes
<1>7. CASE code = "LOCATION"
  <2>1. says = Location(c, p)
    BY <1>1, <1>2, <1>7, RuleOf
  <2>2. p.place # None /\ (\A w \in c.value : ~Within(w, p.place)) /\ says.basis = "LOCATION_SUBTREE"
    BY <1>1, <2>1 DEF Location, NotSaid, Passes, Says
  <2> QED BY <1>1, <1>2, <1>7, <2>2 DEF AreaCodes, CountCodes, OptionCodes, NumberCodes
<1>8. CASE code = "BUDGET_MAX"
  <2>1. says = BudgetMax(c, o) /\ c.value \in Int \union {None} /\ o.ask \in Int \union {None}
    <3>1. c.value \in Int \union {None}
      BY <1>1, <1>2, <1>8 DEF WellRead
    <3>2. o.ask \in Int \union {None}
      BY TypedNumbers
    <3> QED BY <1>1, <1>2, <1>8, <3>1, <3>2, RuleOf
  <2>2. c.value # None /\ o.ask # None /\ ~(o.ask <= c.value) /\ o.negotiable = "NO"
    BY <1>1, <2>1 DEF BudgetMax, NotSaid, Says
  <2>3. c.value \in Int /\ o.ask \in Int /\ o.ask > c.value
    BY <2>1, <2>2
  <2> QED BY <1>1, <1>2, <1>8, <2>2, <2>3 DEF AreaCodes, CountCodes, OptionCodes, NumberCodes
<1>9. CASE code \in AreaCodes
  <2>1. says = AreaMin(c, p.fact[code]) /\ c.value \in Int /\ p.fact[code] \in Int \union {None}
    BY <1>1, <1>2, <1>9, RuleOf, TypedNumbers DEF WellRead
  <2>2. p.fact[code] # None /\ ~(p.fact[code] >= c.value)
    BY <1>1, <2>1 DEF AreaMin, NotSaid, Passes, Says
  <2>3. p.fact[code] \in Int /\ p.fact[code] < c.value
    BY <2>1, <2>2
  <2> QED BY <1>1, <1>2, <1>9, <2>1, <2>2, <2>3 DEF AreaCodes, CountCodes, OptionCodes, NumberCodes
<1>10. CASE code \in CountCodes
  <2>1. /\ says = CountMin(c, p, p.fact[code]) /\ c.value \in Int
        /\ p.fact[code] \in Int \union {None, Unreadable}
    BY <1>1, <1>2, <1>10, RuleOf, TypedNumbers DEF WellRead
  <2>2. CASE p.type \notin AppliesTo[code]
    <3>1. says.basis = "ATTRIBUTE_NOT_APPLICABLE"
      BY <1>1, <2>1, <2>2 DEF CountMin, Says
    <3> QED BY <1>1, <1>2, <1>10, <2>2, <3>1 DEF AreaCodes, CountCodes, OptionCodes, NumberCodes
  <2>3. CASE p.type \in AppliesTo[code]
    <3>1. p.fact[code] # None /\ p.fact[code] # Unreadable
      BY <1>1, <2>1, <2>3 DEF CountMin, NotSaid, Says
    <3>2. says = Passes(p.fact[code] >= c.value, "COUNT_MINIMUM", None)
      BY <1>1, <2>1, <2>3, <3>1 DEF CountMin
    <3>3. ~(p.fact[code] >= c.value) /\ says.basis = "COUNT_MINIMUM"
      BY <1>1, <3>2 DEF Passes, Says
    <3>4. p.fact[code] \in Int /\ p.fact[code] < c.value
      BY <2>1, <3>1, <3>3
    <3> QED BY <1>1, <1>2, <1>10, <2>1, <2>3, <3>1, <3>3, <3>4
            DEF AreaCodes, CountCodes, OptionCodes, NumberCodes
  <2> QED BY <2>2, <2>3
<1>11. CASE code \in OptionCodes
  <2>1. says = AttributeOption(c, p.fact[code])
    BY <1>1, <1>2, <1>11, RuleOf
  <2>2. p.fact[code] \notin {None, Unreadable} \union NotKnown
    BY <1>1, <2>1 DEF AttributeOption, Says
  <2>3. ~Inside(c, p.fact[code]) /\ says.basis = "ATTRIBUTE_OPTION"
    BY <1>1, <2>1, <2>2 DEF AttributeOption, Passes, Says
  <2> QED BY <1>1, <1>2, <1>11, <2>2, <2>3 DEF AreaCodes, CountCodes, OptionCodes, NumberCodes
<1> QED BY <1>3, <1>5, <1>6, <1>7, <1>8, <1>9, <1>10, <1>11 DEF NumberCodes

(* A match that fails one criterion.                                       *)
FailsAt(m, c) ==
  /\ PropertyTyped(m.p) /\ OfferTyped(m.o)
  /\ Failed(m).criterion = c /\ Failed(m).says = Rule(c, m.p, m.o)
  /\ Rule(c, m.p, m.o).is = "FAIL"

(* The change a failure asks for.                                          *)
LEMMA RelaxationIs ==
  ASSUME NEW c, WellRead(c), NEW m, FailsAt(m, c)
  PROVE  LET code == c.code[1]  r == Relaxation(m)
             change(kind, by, to) == [criterion |-> c.code, kind |-> kind, by |-> by, to |-> to]
         IN /\ code = "TRANSACTION_INTENT" => r.kind = "NOT_PROPOSED"
            /\ code = "PROPERTY_TYPE" => r = change("ACCEPT_PROPERTY_TYPE", 0, m.p.type)
            /\ code = "LOCATION" => r = change("WIDEN_AREA", 0, WidenTo(c.value, m.p.place))
            /\ code = "BUDGET_MAX" => r = change("RAISE_MAXIMUM", m.o.ask - c.value, None)
            /\ code \in AreaCodes => r = change("LOWER_MINIMUM", m.p.fact[code] - c.value, None)
            /\ code \in CountCodes =>
                 IF m.p.type \in AppliesTo[code]
                 THEN r = change("LOWER_MINIMUM", m.p.fact[code] - c.value, None)
                 ELSE r.kind = "NOT_PROPOSED"
            /\ code \in OptionCodes => r = change("ACCEPT_DOCUMENT", 0, m.p.fact[code])
            /\ r.criterion = c.code
<1>1. PICK code, r, basis : code = c.code[1] /\ r = Relaxation(m) /\ basis = Rule(c, m.p, m.o).basis
  OBVIOUS
<1>2. Failed(m).criterion = c /\ Failed(m).says.basis = basis
  BY <1>1 DEF FailsAt
<1>3. code \in {"TRANSACTION_INTENT", "PROPERTY_TYPE", "LOCATION"} \union NumberCodes \union OptionCodes
  BY <1>1, FailureIs DEF FailsAt
<1> DEFINE change(kind, by, to) == [criterion |-> c.code, kind |-> kind, by |-> by, to |-> to]
<1>4. CASE code = "TRANSACTION_INTENT"
  <2>1. basis # "COUNT_MINIMUM"
    BY <1>1, <1>4, FailureIs, ZenonT(40) DEF FailsAt
  <2>2. r = change("NOT_PROPOSED", 0, basis)
    BY <1>1, <1>2, <1>4, <2>1 DEF Relaxation, AreaCodes, OptionCodes
  <2> QED BY <1>1, <1>4, <2>2 DEF AreaCodes, CountCodes, OptionCodes
<1>5. CASE code = "PROPERTY_TYPE"
  <2>1. basis # "COUNT_MINIMUM"
    BY <1>1, <1>5, FailureIs, ZenonT(40) DEF FailsAt
  <2>2. r = change("ACCEPT_PROPERTY_TYPE", 0, m.p.type)
    BY <1>1, <1>2, <1>5, <2>1 DEF Relaxation, AreaCodes, OptionCodes
  <2> QED BY <1>1, <1>5, <2>2 DEF AreaCodes, CountCodes, OptionCodes
<1>6. CASE code = "LOCATION"
  <2>1. basis # "COUNT_MINIMUM"
    BY <1>1, <1>6, FailureIs, ZenonT(40) DEF FailsAt
  <2>2. r = change("WIDEN_AREA", 0, WidenTo(c.value, m.p.place))
    BY <1>1, <1>2, <1>6, <2>1 DEF Relaxation, AreaCodes, OptionCodes
  <2> QED BY <1>1, <1>6, <2>2 DEF AreaCodes, CountCodes, OptionCodes
<1>7. CASE code = "BUDGET_MAX"
  <2>1. basis # "COUNT_MINIMUM"
    <3>1. Ruled(c)
      BY FailureIs DEF FailsAt
    <3>2. Rule(c, m.p, m.o) = BudgetMax(c, m.o)
      BY <1>1, <1>7, <3>1, RuleOf
    <3> QED BY <1>1, <3>2 DEF BudgetMax, NotSaid, Says
  <2>2. r = change("RAISE_MAXIMUM", m.o.ask - c.value, None)
    BY <1>1, <1>2, <1>7, <2>1 DEF Relaxation, AreaCodes, OptionCodes
  <2> QED BY <1>1, <1>7, <2>2 DEF AreaCodes, CountCodes, OptionCodes
<1>8. CASE code \in AreaCodes
  <2>1. r = change("LOWER_MINIMUM", m.p.fact[code] - c.value, None)
    BY <1>1, <1>2, <1>8 DEF Relaxation, AreaCodes, OptionCodes
  <2> QED BY <1>1, <1>8, <2>1 DEF AreaCodes, CountCodes, OptionCodes
<1>9. CASE code \in CountCodes
  <2>1. \/ m.p.type \notin AppliesTo[code] /\ basis = "ATTRIBUTE_NOT_APPLICABLE"
        \/ m.p.type \in AppliesTo[code] /\ basis = "COUNT_MINIMUM"
    BY <1>1, <1>9, FailureIs DEF FailsAt
  <2>2. CASE m.p.type \notin AppliesTo[code]
    <3>1. r = change("NOT_PROPOSED", 0, basis)
      BY <1>1, <1>2, <1>9, <2>1, <2>2 DEF Relaxation, AreaCodes, OptionCodes, CountCodes
    <3> QED BY <1>1, <1>9, <2>2, <3>1 DEF AreaCodes, CountCodes, OptionCodes
  <2>3. CASE m.p.type \in AppliesTo[code]
    <3>1. r = change("LOWER_MINIMUM", m.p.fact[code] - c.value, None)
      BY <1>1, <1>2, <1>9, <2>1, <2>3 DEF Relaxation, AreaCodes, OptionCodes, CountCodes
    <3> QED BY <1>1, <1>9, <2>3, <3>1 DEF AreaCodes, CountCodes, OptionCodes
  <2> QED BY <2>2, <2>3
<1>10. CASE code \in OptionCodes
  <2>1. basis # "COUNT_MINIMUM"
    BY <1>1, <1>10, FailureIs DEF FailsAt
  <2>2. r = change("ACCEPT_DOCUMENT", 0, m.p.fact[code])
    BY <1>1, <1>2, <1>10, <2>1 DEF Relaxation, AreaCodes, OptionCodes
  <2> QED BY <1>1, <1>10, <2>2 DEF AreaCodes, CountCodes, OptionCodes
<1> QED BY <1>3, <1>4, <1>5, <1>6, <1>7, <1>8, <1>9, <1>10 DEF NumberCodes

(* A change that one failure asks for turns those failures of the same     *)
(* criterion that pass once it is made, at the asking price.               *)
LEMMA RelaxationAdmits ==
  ASSUME NEW c, WellRead(c), NEW m, FailsAt(m, c), NEW n, FailsAt(n, c),
         NEW s, s = Relaxation(n), s.kind # "NOT_PROPOSED", s.to # None \/ s.by # 0
  PROVE  Turns(s, m) <=>
           Rule(Relaxed(s, c), m.p, [m.o EXCEPT !.expectation = None]).is \notin {"FAIL", "UNKNOWN"}
<1>1. PICK code, own, d, o : /\ code = c.code[1] /\ own = Relaxation(m) /\ d = Relaxed(s, c)
                             /\ o = [m.o EXCEPT !.expectation = None]
  OBVIOUS
<1>2. /\ code \in {"TRANSACTION_INTENT", "PROPERTY_TYPE", "LOCATION"} \union NumberCodes \union OptionCodes
      /\ Ruled(c) /\ Ruled(d) /\ d.code = c.code /\ d.operator = c.operator
      /\ own.criterion = c.code /\ s.criterion = c.code
  <2>1. own.criterion = c.code
    BY <1>1, RelaxationIs
  <2>2. s.criterion = c.code
    BY RelaxationIs
  <2>3. Ruled(c) /\ code \in {"TRANSACTION_INTENT", "PROPERTY_TYPE", "LOCATION"}
                             \union NumberCodes \union OptionCodes
    BY <1>1, FailureIs DEF FailsAt
  <2>4. Ruled(d) = Ruled(c) /\ d.code = c.code /\ d.operator = c.operator
    BY <1>1, RelaxedIs
  <2> QED BY <2>1, <2>2, <2>3, <2>4
<1>3. o.ask = m.o.ask /\ o.negotiable = m.o.negotiable /\ o.expectation = None
  BY <1>1 DEF FailsAt, OfferTyped
<1>4. Turns(s, m) <=> /\ own.kind = s.kind
                      /\ CASE s.kind \in {"RAISE_MAXIMUM", "LOWER_MINIMUM"} -> Size(own.by) <= Size(s.by)
                           [] s.kind = "WIDEN_AREA" -> s.to # None /\ Within(s.to, m.p.place)
                           [] OTHER -> own.to = s.to
  BY <1>1, <1>2 DEF Turns
<1>5. CASE code = "TRANSACTION_INTENT"
  BY <1>1, <1>5, RelaxationIs
<1>6. CASE code = "PROPERTY_TYPE"
  <2>0. c.code[1] = "PROPERTY_TYPE"
    BY <1>1, <1>6
  <2>1. /\ s.kind = "ACCEPT_PROPERTY_TYPE" /\ s.to = n.p.type
        /\ own.kind = "ACCEPT_PROPERTY_TYPE" /\ own.to = m.p.type
    <3>1. s.kind = "ACCEPT_PROPERTY_TYPE" /\ s.to = n.p.type
      BY <1>1, <2>0, RelaxationIs
    <3>2. own.kind = "ACCEPT_PROPERTY_TYPE" /\ own.to = m.p.type
      BY <1>1, <2>0, RelaxationIs
    <3> QED BY <3>1, <3>2
  <2>2. Turns(s, m) <=> m.p.type = s.to
    BY <1>4, <2>1
  <2>3. Rule(d, m.p, o).is = IF Inside(d, m.p.type) THEN "PASS" ELSE "FAIL"
    <3>1. Rule(d, m.p, o) = Passes(Inside(d, m.p.type), "PROPERTY_TYPE", "PROPERTY_TYPE_MISMATCH")
      BY <1>2, <2>0, RuleOf
    <3> QED BY <3>1 DEF Passes, Says
  <2>4. ~Inside(c, m.p.type)
    BY <1>1, <2>0, FailureIs DEF FailsAt
  <2>5. d.value = IF c.operator \in {"NEQ", "NOT_IN"} THEN c.value \ {s.to} ELSE c.value \union {s.to}
    BY <1>1, <2>1, RelaxedIs
  <2>6. Inside(d, m.p.type) <=> m.p.type = s.to
    BY <1>2, <2>4, <2>5 DEF Inside
  <2> QED BY <1>1, <2>2, <2>3, <2>6
<1>7. CASE code = "LOCATION"
  <2>0. c.code[1] = "LOCATION"
    BY <1>1, <1>7
  <2>1. s.kind = "WIDEN_AREA" /\ s.by = 0 /\ own.kind = "WIDEN_AREA"
    <3>1. s.kind = "WIDEN_AREA" /\ s.by = 0
      BY <1>1, <2>0, RelaxationIs
    <3>2. own.kind = "WIDEN_AREA"
      BY <1>1, <2>0, RelaxationIs
    <3> QED BY <3>1, <3>2
  <2>2. Turns(s, m) <=> Within(s.to, m.p.place)
    BY <1>4, <2>1
  <2>3. m.p.place # None /\ \A w \in c.value : ~Within(w, m.p.place)
    BY <1>1, <2>0, FailureIs DEF FailsAt
  <2>4. Rule(d, m.p, o).is = IF \E w \in d.value : Within(w, m.p.place) THEN "PASS" ELSE "FAIL"
    <3>1. Rule(d, m.p, o) = Location(d, m.p)
      BY <1>2, <2>0, RuleOf
    <3> QED BY <2>3, <3>1 DEF Location, Passes, Says
  <2>5. c.operator \in {"EQ", "IN"}
    <3>1. c.operator \in Reads("LOCATION")
      BY <1>1, <1>2, <1>7 DEF WellRead
    <3>2. Reads("LOCATION") = {"EQ", "IN"}
      BY DEF Reads, OptionCodes, AreaCodes, CountCodes
    <3> QED BY <3>1, <3>2
  <2>6. d.value = c.value \union {s.to}
    BY <1>1, <2>1, <2>5, RelaxedIs
  <2> QED BY <1>1, <2>2, <2>3, <2>4, <2>6
<1>8. CASE code = "BUDGET_MAX"
  <2>0. c.code[1] = "BUDGET_MAX"
    BY <1>1, <1>8
  <2>1. /\ s.kind = "RAISE_MAXIMUM" /\ s.by = n.o.ask - c.value
        /\ own.kind = "RAISE_MAXIMUM" /\ own.by = m.o.ask - c.value
    <3>1. s.kind = "RAISE_MAXIMUM" /\ s.by = n.o.ask - c.value
      BY <1>1, <2>0, RelaxationIs
    <3>2. own.kind = "RAISE_MAXIMUM" /\ own.by = m.o.ask - c.value
      BY <1>1, <2>0, RelaxationIs
    <3> QED BY <3>1, <3>2
  <2>2. /\ c.value \in Int /\ n.o.ask \in Int /\ n.o.ask > c.value /\ n.o.ask # None
        /\ m.o.ask \in Int /\ m.o.ask > c.value /\ m.o.ask # None /\ m.o.negotiable = "NO"
    <3>1. c.value \in Int /\ n.o.ask \in Int /\ n.o.ask > c.value /\ n.o.ask # None
      BY <1>1, <2>0, FailureIs DEF FailsAt
    <3>2. m.o.ask \in Int /\ m.o.ask > c.value /\ m.o.ask # None /\ m.o.negotiable = "NO"
      BY <1>1, <2>0, FailureIs DEF FailsAt
    <3> QED BY <3>1, <3>2
  <2>3. Turns(s, m) <=> m.o.ask <= n.o.ask
    BY <1>4, <2>1, <2>2 DEF Size
  <2>4. d.value = n.o.ask
    <3>1. d.value = c.value + (n.o.ask - c.value)
      <4>1. s.kind \in {"RAISE_MAXIMUM", "LOWER_MINIMUM"}
        BY <2>1
      <4>2. d.value = c.value + s.by
        BY <1>1, <4>1, RelaxedIs
      <4> QED BY <2>1, <4>2
    <3> QED BY <2>2, <3>1
  <2>5. Rule(d, m.p, o) = BudgetMax(d, o)
    BY <1>2, <2>0, RuleOf
  <2>6. Rule(d, m.p, o).is = IF m.o.ask <= n.o.ask THEN "PASS" ELSE "FAIL"
    BY <1>3, <2>2, <2>4, <2>5 DEF BudgetMax, Says
  <2> QED BY <1>1, <2>3, <2>6
<1>9. CASE code \in AreaCodes
  <2>1. /\ s.kind = "LOWER_MINIMUM" /\ s.by = n.p.fact[code] - c.value
        /\ own.kind = "LOWER_MINIMUM" /\ own.by = m.p.fact[code] - c.value
    BY <1>1, <1>9, RelaxationIs
  <2>2. /\ c.value \in Int /\ n.p.fact[code] \in Int /\ n.p.fact[code] < c.value
        /\ m.p.fact[code] \in Int /\ m.p.fact[code] < c.value /\ m.p.fact[code] # None
    BY <1>1, <1>9, FailureIs DEF FailsAt
  <2>3. PICK x, y, v : x = m.p.fact[code] /\ y = n.p.fact[code] /\ v = c.value
    OBVIOUS
  <2>4. Turns(s, m) <=> x >= y
    BY <1>4, <2>1, <2>2, <2>3 DEF Size
  <2>5. d.value = y
    <3>1. d.value = v + (y - v)
      <4>1. s.kind \in {"RAISE_MAXIMUM", "LOWER_MINIMUM"}
        BY <2>1
      <4>2. d.value = c.value + s.by
        BY <1>1, <4>1, RelaxedIs
      <4> QED BY <2>1, <2>3, <4>2
    <3> QED BY <2>2, <2>3, <3>1
  <2>6. Rule(d, m.p, o) = AreaMin(d, x)
    BY <1>1, <1>2, <1>9, <2>3, RuleOf
  <2>7. Rule(d, m.p, o).is = IF x >= y THEN "PASS" ELSE "FAIL"
    BY <2>2, <2>3, <2>5, <2>6 DEF AreaMin, Passes, Says
  <2> QED BY <1>1, <2>4, <2>7
<1>10. CASE code \in CountCodes
  <2>1. n.p.type \in AppliesTo[code]
    BY <1>1, <1>10, RelaxationIs
  <2>2. /\ s.kind = "LOWER_MINIMUM" /\ s.by = n.p.fact[code] - c.value
        /\ c.value \in Int /\ n.p.fact[code] \in Int /\ n.p.fact[code] < c.value
    BY <1>1, <1>10, <2>1, RelaxationIs, FailureIs DEF FailsAt
  <2>3. PICK x, y, v : x = m.p.fact[code] /\ y = n.p.fact[code] /\ v = c.value
    OBVIOUS
  <2>4. Rule(d, m.p, o) = CountMin(d, m.p, x)
    BY <1>1, <1>2, <1>10, <2>3, RuleOf
  <2>5. CASE m.p.type \notin AppliesTo[code]
    <3>1. own.kind = "NOT_PROPOSED"
      BY <1>1, <1>10, <2>5, RelaxationIs
    <3>2. ~Turns(s, m)
      BY <1>4, <2>2, <3>1
    <3>3. Rule(d, m.p, o).is = "FAIL"
      BY <1>1, <1>2, <2>4, <2>5 DEF CountMin, Says
    <3> QED BY <1>1, <3>2, <3>3
  <2>6. CASE m.p.type \in AppliesTo[code]
    <3>1. /\ own.kind = "LOWER_MINIMUM" /\ own.by = x - v
          /\ x \in Int /\ x < v /\ x # None /\ x # Unreadable
      BY <1>1, <1>10, <2>3, <2>6, RelaxationIs, FailureIs DEF FailsAt
    <3>2. Turns(s, m) <=> x >= y
      BY <1>4, <2>2, <2>3, <3>1 DEF Size
    <3>3. d.value = y
      <4>1. d.value = v + (y - v)
        <5>1. s.kind \in {"RAISE_MAXIMUM", "LOWER_MINIMUM"}
          BY <2>2
        <5>2. d.value = c.value + s.by
          BY <1>1, <5>1, RelaxedIs
        <5> QED BY <2>2, <2>3, <5>2
      <4> QED BY <2>2, <2>3, <4>1
    <3>4. Rule(d, m.p, o).is = IF x >= y THEN "PASS" ELSE "FAIL"
      BY <1>1, <1>2, <2>2, <2>3, <2>4, <2>6, <3>1, <3>3 DEF CountMin, Passes, Says
    <3> QED BY <1>1, <3>2, <3>4
  <2> QED BY <2>5, <2>6
<1>11. CASE code \in OptionCodes
  <2>1. PICK x : x = m.p.fact[code]
    OBVIOUS
  <2>2. s.kind = "ACCEPT_DOCUMENT" /\ own.kind = "ACCEPT_DOCUMENT" /\ own.to = x
    BY <1>1, <1>11, <2>1, RelaxationIs
  <2>3. Turns(s, m) <=> x = s.to
    BY <1>4, <2>2
  <2>4. x \notin {None, Unreadable} \union NotKnown /\ ~Inside(c, x)
    BY <1>1, <1>11, <2>1, FailureIs DEF FailsAt
  <2>5. Rule(d, m.p, o) = AttributeOption(d, x)
    BY <1>1, <1>2, <1>11, <2>1, RuleOf
  <2>6. Rule(d, m.p, o).is = IF Inside(d, x) THEN "PASS" ELSE "FAIL"
    BY <2>4, <2>5 DEF AttributeOption, Passes, Says
  <2>7. d.value = IF c.operator \in {"NEQ", "NOT_IN"} THEN c.value \ {s.to} ELSE c.value \union {s.to}
    BY <1>1, <2>2, RelaxedIs
  <2>8. Inside(d, x) <=> x = s.to
    BY <1>2, <2>4, <2>7 DEF Inside
  <2> QED BY <1>1, <2>3, <2>6, <2>8
<1> QED BY <1>2, <1>5, <1>6, <1>7, <1>8, <1>9, <1>10, <1>11 DEF NumberCodes

(* The results of a run are of its criteria, each with one result.         *)
LEMMA ResultsOf ==
  ASSUME NEW m, Sound(m)
  PROVE  /\ DOMAIN m.results = DOMAIN Criteria(m.q) /\ IsFiniteSet(Range(m.results))
         /\ \A i \in DOMAIN m.results :
              /\ m.results[i].criterion = Criteria(m.q)[i]
              /\ m.results[i].says = Rule(Criteria(m.q)[i], m.p, m.o)
              /\ m.results[i] = [criterion |-> m.results[i].criterion, says |-> m.results[i].says,
                                 blocks |-> Blocks(m.results[i].criterion.importance,
                                                   m.results[i].says.is,
                                                   m.results[i].criterion.blocking)]
<1>1. m.results = Evaluate(Criteria(m.q), m.p, m.o) /\ m.q.rows \in Seq(Range(m.q.rows))
  BY DEF Sound
<1>2. DOMAIN m.results = DOMAIN Criteria(m.q)
  BY <1>1 DEF Evaluate
<1>3. IsFiniteSet(Range(m.results))
  <2>1. PICK n \in Nat : DOMAIN m.results = 1..n
    BY <1>1, <1>2, CriteriaDomain
  <2>2. IsFiniteSet(1..n)
    BY <2>1, FS_Interval
  <2>3. PICK f, S : f = m.results /\ S = Range(f)
    OBVIOUS
  <2>4. f \in Surjection(1..n, S)
    <3>1. f = [x \in DOMAIN f |-> f[x]]
      BY <1>1, <2>3 DEF Evaluate
    <3>2. f \in [1..n -> S] /\ \A t \in S : \E x \in 1..n : f[x] = t
      BY <2>1, <2>3, <3>1 DEF Range
    <3> QED BY <3>2 DEF Surjection
  <2>5. IsFiniteSet(S)
    BY <2>2, <2>4, FS_Surjection
  <2> QED BY <2>3, <2>5
<1>4. \A i \in DOMAIN m.results :
        /\ m.results[i].criterion = Criteria(m.q)[i]
        /\ m.results[i].says = Rule(Criteria(m.q)[i], m.p, m.o)
        /\ m.results[i] = [criterion |-> m.results[i].criterion, says |-> m.results[i].says,
                           blocks |-> Blocks(m.results[i].criterion.importance,
                                             m.results[i].says.is,
                                             m.results[i].criterion.blocking)]
  BY <1>1, <1>2 DEF Evaluate
<1> QED BY <1>2, <1>3, <1>4

(* A result that is required and fails, or is required and not known.      *)
Fails(r)   == r.criterion.importance = "REQUIRED" /\ r.says.is = "FAIL"
Unknown(r) == r.criterion.importance = "REQUIRED" /\ r.says.is = "UNKNOWN"

(* The hard gate, result by result.                                        *)
LEMMA HardGateIs ==
  ASSUME NEW results
  PROVE  /\ HardGate(results) = "PASS" <=>
              \A i \in DOMAIN results : ~Fails(results[i]) /\ ~Unknown(results[i])
         /\ HardGate(results) = "FAIL" <=> \E i \in DOMAIN results : Fails(results[i])
<1>1. Failing(results) = {} <=> \A i \in DOMAIN results : ~Fails(results[i])
  BY DEF Failing, Required, Range, Fails
<1>2. (\E r \in Required(results) : r.says.is = "UNKNOWN") <=> \E i \in DOMAIN results : Unknown(results[i])
  BY DEF Required, Range, Unknown
<1> QED BY <1>1, <1>2 DEF HardGate

(* A near match fails one required criterion, and knows the others.        *)
LEMMA NearFails ==
  ASSUME NEW m, Sound(m), Facts(m), NearMatch(m)
  PROVE  \E i \in DOMAIN m.results :
           /\ m.results[i] = Failed(m) /\ Fails(m.results[i])
           /\ WellRead(Criteria(m.q)[i]) /\ FailsAt(m, Criteria(m.q)[i])
           /\ \A j \in DOMAIN m.results \ {i} : ~Fails(m.results[j]) /\ ~Unknown(m.results[j])
<1>1. IsFiniteSet(Failing(m.results))
  <2>1. Failing(m.results) \subseteq Range(m.results)
    BY DEF Failing, Required
  <2> QED BY <2>1, ResultsOf, FS_Subset
<1>2. Cardinality(Failing(m.results)) = 1 /\ \A r \in Required(m.results) : r.says.is # "UNKNOWN"
  BY DEF NearMatch
<1>3. PICK r : Failing(m.results) = {r}
  BY <1>1, <1>2, FS_Singleton
<1>4. Failed(m) = r
  BY <1>3 DEF Failed
<1>5. PICK i \in DOMAIN m.results : m.results[i] = r
  BY <1>3 DEF Failing, Required, Range
<1>6. Fails(r)
  BY <1>3 DEF Failing, Required, Fails
<1>7. /\ i \in DOMAIN Criteria(m.q) /\ r.criterion = Criteria(m.q)[i]
      /\ r.says = Rule(Criteria(m.q)[i], m.p, m.o)
  BY <1>5, ResultsOf
<1>8. WellRead(Criteria(m.q)[i])
  BY <1>7, CriteriaRead DEF Facts
<1>9. FailsAt(m, Criteria(m.q)[i])
  BY <1>4, <1>6, <1>7 DEF FailsAt, Facts, Fails
<1>10. ASSUME NEW j \in DOMAIN m.results, j # i
       PROVE  ~Fails(m.results[j]) /\ ~Unknown(m.results[j])
  <2>1. m.results[j] \in Range(m.results)
    BY DEF Range
  <2>2. ~Unknown(m.results[j])
    BY <1>2, <2>1 DEF Required, Unknown
  <2>3. ASSUME Fails(m.results[j]) PROVE FALSE
    <3>1. m.results[j] = r
      BY <1>3, <2>1, <2>3 DEF Failing, Required, Fails
    <3>2. j \in DOMAIN Criteria(m.q) /\ Criteria(m.q)[j] = Criteria(m.q)[i]
      BY <1>7, <3>1, ResultsOf
    <3>3. m.q.rows \in Seq(Range(m.q.rows))
      BY DEF Sound
    <3> QED BY <1>7, <1>10, <3>2, <3>3, KeysDistinct
  <2> QED BY <2>2, <2>3
<1> QED BY <1>4, <1>5, <1>6, <1>8, <1>9, <1>10

(* A change leaves the results of the other criteria, and evaluates its    *)
(* own again at the asking price.                                          *)
LEMMA AfterIs ==
  ASSUME NEW m, Sound(m), Facts(m), NEW s
  PROVE  LET after == AfterRelaxing(s, m)
             told  == [m.o EXCEPT !.expectation = None]
         IN /\ DOMAIN after = DOMAIN m.results
            /\ \A i \in DOMAIN m.results :
                 IF m.results[i].criterion.code # s.criterion THEN after[i] = m.results[i]
                 ELSE LET c == Criteria(m.q)[i]  says == Rule(Relaxed(s, c), m.p, told)
                      IN /\ after[i].criterion = c /\ after[i].says = says
                         /\ after[i].blocks = Blocks(c.importance, says.is, c.blocking)
<1>1. PICK told : told = [m.o EXCEPT !.expectation = None]
  OBVIOUS
<1> DEFINE of(r) == IF r.criterion.code # s.criterion THEN r
                    ELSE LET says == Rule(Relaxed(s, r.criterion), m.p, told)
                         IN [r EXCEPT !.says = says,
                                      !.blocks = Blocks(r.criterion.importance, says.is,
                                                        r.criterion.blocking)]
<1>2. AfterRelaxing(s, m) = [i \in DOMAIN m.results |-> of(m.results[i])]
  BY <1>1 DEF AfterRelaxing
<1>3. ASSUME NEW i \in DOMAIN m.results, m.results[i].criterion.code = s.criterion
      PROVE  LET c == Criteria(m.q)[i]  says == Rule(Relaxed(s, c), m.p, told)
             IN /\ of(m.results[i]).criterion = c /\ of(m.results[i]).says = says
                /\ of(m.results[i]).blocks = Blocks(c.importance, says.is, c.blocking)
  <2>1. PICK r, c, says, old : /\ r = m.results[i] /\ c = Criteria(m.q)[i] /\ old = r.says
                               /\ says = Rule(Relaxed(s, c), m.p, told)
    OBVIOUS
  <2>2. r.criterion = c
    BY <2>1, ResultsOf
  <2>3. r = [criterion |-> c, says |-> old, blocks |-> Blocks(c.importance, old.is, c.blocking)]
    BY <2>1, <2>2, ResultsOf
  <2>4. of(r) = [r EXCEPT !.says = says, !.blocks = Blocks(c.importance, says.is, c.blocking)]
    BY <1>3, <2>1, <2>2
  <2> HIDE DEF of
  <2>5. PICK x, blocks : x = of(r) /\ blocks = Blocks(c.importance, says.is, c.blocking)
    OBVIOUS
  <2>6. x = [criterion |-> c, says |-> says, blocks |-> blocks]
    BY <2>3, <2>4, <2>5
  <2>7. x.criterion = c /\ x.says = says /\ x.blocks = blocks
    BY <2>6
  <2> QED BY <2>1, <2>5, <2>7
<1> HIDE DEF of
<1>4. \A i \in DOMAIN m.results :
        m.results[i].criterion.code # s.criterion => of(m.results[i]) = m.results[i]
  BY DEF of
<1> QED BY <1>1, <1>2, <1>3, <1>4

(* The information gate, result by result.                                 *)
Lacks(r) == r.blocks /\ r.says.is = "UNKNOWN"
LEMMA InformationGateIs ==
  ASSUME NEW results
  PROVE  InformationGate(results) =
           IF \E i \in DOMAIN results : Lacks(results[i]) THEN "UNKNOWN" ELSE "PASS"
<1>1. Missing(results) # {} <=> \E i \in DOMAIN results : Lacks(results[i])
  BY DEF Missing, Range, Lacks
<1> QED BY <1>1 DEF InformationGate

(* A scenario turns the near matches whose hard gate passes after it, and  *)
(* tells what each then reaches.                                           *)
LEMMA ScenarioTurns ==
  ASSUME NEW m, Sound(m), Facts(m), NearMatch(m), NEW n, Sound(n), Facts(n), NearMatch(n), m.q = n.q,
         NEW s, s = Relaxation(n), s.kind # "NOT_PROPOSED", s.to # None \/ s.by # 0
  PROVE  LET after == AfterRelaxing(s, m)
         IN /\ Turns(s, m) <=> HardGate(after) = "PASS"
            /\ Turns(s, m) =>
                 Decided(m.q, after, m.o, m.freshness, m.permission).eligibility = WouldReach(m)
<1>1. PICK i \in DOMAIN m.results :
        /\ m.results[i] = Failed(m) /\ Fails(m.results[i])
        /\ WellRead(Criteria(m.q)[i]) /\ FailsAt(m, Criteria(m.q)[i])
        /\ \A k \in DOMAIN m.results \ {i} : ~Fails(m.results[k]) /\ ~Unknown(m.results[k])
  BY NearFails
<1>2. PICK j \in DOMAIN n.results : WellRead(Criteria(n.q)[j]) /\ FailsAt(n, Criteria(n.q)[j])
  BY NearFails
<1>3. PICK c, d, after, says : /\ c = Criteria(m.q)[i] /\ d = Criteria(m.q)[j]
                               /\ after = AfterRelaxing(s, m)
                               /\ says = Rule(Relaxed(s, c), m.p, [m.o EXCEPT !.expectation = None])
  OBVIOUS
<1>4. /\ WellRead(c) /\ FailsAt(m, c) /\ WellRead(d) /\ FailsAt(n, d)
      /\ i \in DOMAIN Criteria(m.q) /\ j \in DOMAIN Criteria(m.q)
      /\ m.results[i].criterion = c /\ c.importance = "REQUIRED"
  BY <1>1, <1>2, <1>3, ResultsOf DEF Fails
<1>5. s.criterion = d.code /\ Relaxation(m).criterion = c.code
  <2>1. s.criterion = d.code
    BY <1>4, RelaxationIs
  <2>2. Relaxation(m).criterion = c.code
    BY <1>4, RelaxationIs
  <2> QED BY <2>1, <2>2
<1>6. \A k \in DOMAIN Criteria(m.q), l \in DOMAIN Criteria(m.q) :
        Criteria(m.q)[k].code = Criteria(m.q)[l].code => k = l
  BY KeysDistinct DEF Sound
<1>7. /\ DOMAIN after = DOMAIN m.results /\ DOMAIN m.results = DOMAIN Criteria(m.q)
      /\ \A k \in DOMAIN m.results : k # j => after[k] = m.results[k]
  <2>1. \A k \in DOMAIN m.results : m.results[k].criterion = Criteria(m.q)[k]
    BY ResultsOf
  <2>2. \A k \in DOMAIN m.results : k # j => m.results[k].criterion.code # s.criterion
    BY <1>3, <1>4, <1>5, <1>6, <2>1, ResultsOf
  <2>3. DOMAIN after = DOMAIN m.results /\ DOMAIN m.results = DOMAIN Criteria(m.q)
    BY <1>3, AfterIs, ResultsOf
  <2>4. \A k \in DOMAIN m.results : m.results[k].criterion.code # s.criterion => after[k] = m.results[k]
    BY <1>3, AfterIs
  <2> QED BY <2>2, <2>3, <2>4
<1>8. CASE i # j
  <2>1. ~Turns(s, m)
    <3>1. c.code # d.code
      BY <1>3, <1>4, <1>6, <1>8
    <3> QED BY <1>5, <3>1 DEF Turns
  <2>2. HardGate(after) = "FAIL"
    <3>1. i \in DOMAIN after /\ Fails(after[i])
      BY <1>1, <1>7, <1>8
    <3> QED BY <3>1, HardGateIs
  <2> QED BY <1>3, <2>1, <2>2
<1>9. CASE i = j
  <2>1. Turns(s, m) <=> says.is \notin {"FAIL", "UNKNOWN"}
    <3>1. c = d /\ FailsAt(n, c)
      BY <1>3, <1>4, <1>9
    <3> QED BY <1>3, <1>4, <3>1, RelaxationAdmits
  <2>2. /\ after[i].criterion = c /\ after[i].says = says
        /\ after[i].blocks = Blocks(c.importance, says.is, c.blocking)
    <3>1. m.results[i].criterion.code = s.criterion
      BY <1>3, <1>4, <1>5, <1>9
    <3> QED BY <1>3, <3>1, AfterIs
  <2>3. HardGate(after) = "PASS" <=> says.is \notin {"FAIL", "UNKNOWN"}
    <3>1. HardGate(after) = "PASS" <=> ~Fails(after[i]) /\ ~Unknown(after[i])
      BY <1>1, <1>7, <1>9, HardGateIs
    <3> QED BY <1>4, <2>2, <3>1 DEF Fails, Unknown
  <2>4. ASSUME says.is \notin {"FAIL", "UNKNOWN"}
        PROVE  InformationGate(after) = InformationGate(m.results)
    <3>1. ~Lacks(after[i]) /\ ~Lacks(m.results[i])
      BY <1>1, <2>2, <2>4 DEF Lacks, Fails
    <3>2. (\E k \in DOMAIN after : Lacks(after[k])) <=> \E k \in DOMAIN m.results : Lacks(m.results[k])
      BY <1>7, <1>9, <3>1
    <3> QED BY <3>2, InformationGateIs
  <2>5. ASSUME says.is \notin {"FAIL", "UNKNOWN"}
        PROVE  Decided(m.q, after, m.o, m.freshness, m.permission).eligibility = WouldReach(m)
    <3>1. /\ m.decided.fresh = FreshnessGate(m.freshness)
          /\ m.decided.permitted = PermissionGate(States(m.permission))
      BY DEF Sound, Decided
    <3>2. HardGate(after) = "PASS" /\ InformationGate(after) = InformationGate(m.results)
      BY <2>3, <2>4, <2>5
    <3> QED BY <3>1, <3>2 DEF Decided, WouldReach
  <2> QED BY <1>3, <2>1, <2>3, <2>5
<1> QED BY <1>8, <1>9

(* The place a failure is widened to lies above its property.              *)
LEMMA WidenedAbove ==
  ASSUME NEW wanted, NEW here \in Locations, WidenTo(wanted, here) # None
  PROVE  Within(WidenTo(wanted, here), here)
<1> DEFINE chain == Above[here]
           common == {Common(w, here) : w \in wanted} \ {None}
           best == CHOOSE c \in common : \A d \in common : Position(c, chain) <= Position(d, chain)
<1>1. chain \in Seq(Locations) /\ DOMAIN chain \subseteq Nat
  <2>1. chain \in Seq(Locations)
    BY Vocabulary
  <2> HIDE DEF chain
  <2> QED BY <2>1
<1>2. common # {} /\ WidenTo(wanted, here) = best
  BY DEF WidenTo
<1>3. \A c \in common : c \in Range(chain)
  <2> SUFFICES ASSUME NEW w \in wanted, Common(w, here) # None PROVE Common(w, here) \in Range(chain)
    OBVIOUS
  <2> DEFINE shared == {i \in DOMAIN chain : Within(chain[i], w)}
  <2>1. shared # {} /\ Common(w, here) = chain[Min(shared)]
    BY DEF Common
  <2>2. shared \in SUBSET Nat
    BY <1>1
  <2> HIDE DEF shared
  <2>3. Min(shared) \in shared
    BY <2>1, <2>2, FirstIndex
  <2>4. Min(shared) \in DOMAIN chain
    BY <2>3 DEF shared
  <2> QED BY <2>1, <2>4 DEF Range
<1>4. \A c \in common : Position(c, chain) \in DOMAIN chain
  <2> SUFFICES ASSUME NEW c \in common PROVE Position(c, chain) \in DOMAIN chain
    OBVIOUS
  <2>1. \E i \in DOMAIN chain : chain[i] = c
    BY <1>3 DEF Range
  <2> HIDE DEF chain, common
  <2> QED BY <2>1 DEF Position
<1>5. \E c \in common : \A d \in common : Position(c, chain) <= Position(d, chain)
  <2> DEFINE N == {Position(c, chain) : c \in common}
  <2> HIDE DEF chain, common
  <2>1. N \in SUBSET Nat /\ N # {}
    BY <1>1, <1>2, <1>4
  <2>2. \E n \in N : \A k \in N : n <= k
    <3> HIDE DEF N
    <3> QED BY <2>1, Least
  <2> QED BY <2>2
<1>6. best \in common
  <2> HIDE DEF chain, common
  <2> QED BY <1>5
<1> QED BY <1>2, <1>3, <1>6 DEF Within

(* A near match is turned by the change it asks for itself, if it can be   *)
(* proposed.                                                               *)
LEMMA OwnTurns ==
  ASSUME NEW m, Sound(m), Facts(m), NearMatch(m),
         NEW s, s = Relaxation(m), s.kind # "NOT_PROPOSED", s.to # None \/ s.by # 0
  PROVE  Turns(s, m)
<1>1. PICK i \in DOMAIN m.results : WellRead(Criteria(m.q)[i]) /\ FailsAt(m, Criteria(m.q)[i])
  BY NearFails
<1>2. PICK c, code : c = Criteria(m.q)[i] /\ code = c.code[1]
  OBVIOUS
<1>3. WellRead(c) /\ FailsAt(m, c)
  BY <1>1, <1>2
<1>4. code \in {"TRANSACTION_INTENT", "PROPERTY_TYPE", "LOCATION"} \union NumberCodes \union OptionCodes
  BY <1>2, <1>3, FailureIs DEF FailsAt
<1>5. ASSUME s.kind \in {"RAISE_MAXIMUM", "LOWER_MINIMUM"}
      PROVE  Size(s.by) <= Size(s.by)
  <2>1. s.by \in Int
    <3>1. CASE c.code[1] = "BUDGET_MAX"
      <4>1. c.value \in Int /\ m.o.ask \in Int
        BY <1>3, <3>1, FailureIs DEF FailsAt
      <4>2. s.by = m.o.ask - c.value
        BY <1>3, <3>1, RelaxationIs
      <4> QED BY <4>1, <4>2
    <3>2. CASE code \in AreaCodes
      <4>1. c.value \in Int /\ m.p.fact[code] \in Int
        BY <1>2, <1>3, <3>2, FailureIs DEF FailsAt
      <4>2. s.by = m.p.fact[code] - c.value
        BY <1>2, <1>3, <3>2, RelaxationIs
      <4> QED BY <4>1, <4>2
    <3>3. CASE code \in CountCodes
      <4>1. m.p.type \in AppliesTo[code] /\ s.by = m.p.fact[code] - c.value
        BY <1>2, <1>3, <3>3, RelaxationIs
      <4>2. c.value \in Int /\ m.p.fact[code] \in Int
        BY <1>2, <1>3, <3>3, <4>1, FailureIs DEF FailsAt
      <4> QED BY <4>1, <4>2
    <3>4. CASE c.code[1] \in {"TRANSACTION_INTENT", "PROPERTY_TYPE", "LOCATION"} \union OptionCodes
      <4>1. s.kind \in {"NOT_PROPOSED", "ACCEPT_PROPERTY_TYPE", "WIDEN_AREA", "ACCEPT_DOCUMENT"}
        BY <1>3, <3>4, RelaxationIs
      <4> QED BY <1>5, <4>1
    <3> QED BY <1>2, <1>4, <3>1, <3>2, <3>3, <3>4 DEF NumberCodes
  <2> QED BY <2>1 DEF Size
<1>6. ASSUME s.kind = "WIDEN_AREA"
      PROVE  s.to # None /\ Within(s.to, m.p.place)
  <2>1. c.code[1] = "LOCATION"
    <3>1. c.code[1] # "LOCATION" => s.kind # "WIDEN_AREA"
      <4>1. CASE code \in {"TRANSACTION_INTENT", "PROPERTY_TYPE"} \union OptionCodes
        BY <1>2, <1>3, <4>1, RelaxationIs
      <4>2. CASE c.code[1] = "BUDGET_MAX"
        BY <1>3, <4>2, RelaxationIs
      <4>3. CASE code \in AreaCodes
        BY <1>2, <1>3, <4>3, RelaxationIs
      <4>4. CASE code \in CountCodes
        BY <1>2, <1>3, <4>4, RelaxationIs
      <4> QED BY <1>2, <1>4, <4>1, <4>2, <4>3, <4>4 DEF NumberCodes
    <3> QED BY <1>6, <3>1
  <2>2. s.by = 0 /\ s.to = WidenTo(c.value, m.p.place)
    BY <1>3, <2>1, RelaxationIs
  <2>3. m.p.place # None
    BY <1>3, <2>1, FailureIs DEF FailsAt
  <2>4. m.p.place \in Locations
    BY <2>3 DEF Facts, PropertyTyped
  <2> QED BY <2>2, <2>4, WidenedAbove
<1> QED BY <1>5, <1>6 DEF Turns

(* The scenarios of a diagnostic tell the truth of the matches it cites.   *)
LEMMA CitedScenarios ==
  ASSUME NEW d, Cites(d)
  PROVE  ScenariosHold(d)
<1> DEFINE near == {m \in d.found : NearMatch(m)}
           told(s) == {<<m.pair, WouldReach(m)>> : m \in {n \in near : Turns(s, n)}}
<1>1. /\ \A m \in near : Sound(m) /\ Facts(m) /\ NearMatch(m)
      /\ \A m \in near, n \in near : m.q = n.q /\ (m.pair = n.pair => m = n)
  BY DEF Cites
<1>2. d.scenarios = {[change |-> s, turns |-> told(s)] : s \in {Relaxation(m) : m \in near}}
  BY DEF Cites, Scenarios
<1>3. ASSUME NEW x \in d.scenarios, Proposes(x), NEW m \in near
      PROVE  LET results == AfterRelaxing(x.change, m)
             IN {t \in x.turns : t[1] = m.pair} =
                  IF HardGate(results) # "PASS" THEN {}
                  ELSE {<<m.pair, Decided(m.q, results, m.o, m.freshness, m.permission).eligibility>>}
  <2>1. PICK n \in near : x = [change |-> Relaxation(n), turns |-> told(Relaxation(n))]
    BY <1>2
  <2>2. PICK s, results, reach : /\ s = Relaxation(n) /\ results = AfterRelaxing(s, m)
                                 /\ reach = WouldReach(m)
    OBVIOUS
  <2>3. x.change = s /\ x.turns = told(s) /\ s.kind # "NOT_PROPOSED" /\ (s.to # None \/ s.by # 0)
    BY <1>3, <2>1, <2>2 DEF Proposes
  <2>4. {t \in told(s) : t[1] = m.pair} = IF Turns(s, m) THEN {<<m.pair, reach>>} ELSE {}
    <3>1. \A t \in told(s) : t[1] = m.pair => t = <<m.pair, reach>> /\ Turns(s, m)
      BY <1>1, <2>2
    <3>2. Turns(s, m) => <<m.pair, reach>> \in told(s)
      BY <2>2
    <3> HIDE DEF told
    <3> QED BY <3>1, <3>2
  <2>5. /\ Turns(s, m) <=> HardGate(results) = "PASS"
        /\ Turns(s, m) => Decided(m.q, results, m.o, m.freshness, m.permission).eligibility = reach
    BY <1>1, <2>2, <2>3, ScenarioTurns
  <2> HIDE DEF told, near
  <2> QED BY <2>2, <2>3, <2>4, <2>5
<1>4. ASSUME NEW m \in near
      PROVE  \E x \in d.scenarios : /\ x.change.criterion = Failed(m).criterion.code
                                    /\ Proposes(x) => \E t \in x.turns : t[1] = m.pair
  <2>1. PICK s, x : s = Relaxation(m) /\ x = [change |-> s, turns |-> told(s)]
    OBVIOUS
  <2>2. x \in d.scenarios /\ x.change = s /\ x.turns = told(s)
    BY <1>2, <2>1
  <2>3. s.criterion = Failed(m).criterion.code
    <3>1. PICK i \in DOMAIN m.results : WellRead(Criteria(m.q)[i]) /\ FailsAt(m, Criteria(m.q)[i])
      BY <1>1, NearFails
    <3>2. s.criterion = Criteria(m.q)[i].code
      BY <2>1, <3>1, RelaxationIs
    <3> QED BY <3>1, <3>2 DEF FailsAt
  <2>4. ASSUME Proposes(x) PROVE \E t \in x.turns : t[1] = m.pair
    <3>1. s.kind # "NOT_PROPOSED" /\ (s.to # None \/ s.by # 0)
      BY <2>2, <2>4 DEF Proposes
    <3>2. Turns(s, m)
      BY <1>1, <2>1, <3>1, OwnTurns
    <3>3. PICK t : t = <<m.pair, WouldReach(m)>>
      OBVIOUS
    <3>4. t \in told(s) /\ t[1] = m.pair
      BY <3>2, <3>3
    <3> HIDE DEF told
    <3> QED BY <2>2, <3>4
  <2> HIDE DEF told, near
  <2> QED BY <2>2, <2>3, <2>4
<1> HIDE DEF told
<1> QED BY <1>3, <1>4 DEF ScenariosHold

-----------------------------------------------------------------------------
(* What the one unknown of a match waits for                               *)

(* The facts a code's rule reads, and no others, are the same.             *)
SameFacts(code, p, o, p2, o2) ==
  /\ code = "TRANSACTION_INTENT" => o2.type = o.type
  /\ code \in {"PROPERTY_TYPE"} \union CountCodes => p2.type = p.type
  /\ code = "LOCATION" => p2.place = p.place
  /\ code = "BUDGET_MAX" => /\ o2.ask = o.ask /\ o2.expectation = o.expectation
                            /\ o2.negotiable = o.negotiable
  /\ code \in FactCodes => p2.fact[code] = p.fact[code]

(* A rule says the same of the same facts.                                 *)
LEMMA ReadsOnly ==
  ASSUME NEW c, WellRead(c), NEW p, NEW o, NEW p2, NEW o2, SameFacts(c.code[1], p, o, p2, o2)
  PROVE  Rule(c, p2, o2) = Rule(c, p, o)
<1>1. PICK code : code = c.code[1]
  OBVIOUS
<1>2. CASE ~Ruled(c)
  BY <1>2 DEF Rule
<1>3. CASE Ruled(c)
  <2>1. code \in {"TRANSACTION_INTENT", "PROPERTY_TYPE", "LOCATION"} \union NumberCodes \union OptionCodes
    BY <1>1, <1>3, RuledCodes DEF Ruled, WellRead
  <2>2. CASE c.code[1] = "TRANSACTION_INTENT"
    BY <1>3, <2>2, RuleOf DEF SameFacts, Serves
  <2>3. CASE c.code[1] = "PROPERTY_TYPE"
    BY <1>3, <2>3, RuleOf DEF SameFacts
  <2>4. CASE c.code[1] = "LOCATION"
    <3>1. Rule(c, p, o) = Location(c, p) /\ Rule(c, p2, o2) = Location(c, p2)
      BY <1>3, <2>4, RuleOf
    <3>2. p2.place = p.place
      BY <2>4 DEF SameFacts
    <3>3. PICK a, b : a = Location(c, p) /\ b = Location(c, p2)
      OBVIOUS
    <3>4. a = b
      BY <3>2, <3>3 DEF Location, Passes
    <3> QED BY <3>1, <3>3, <3>4
  <2>5. CASE c.code[1] = "BUDGET_MAX"
    <3>1. Rule(c, p, o) = BudgetMax(c, o) /\ Rule(c, p2, o2) = BudgetMax(c, o2)
      BY <1>3, <2>5, RuleOf
    <3> QED BY <2>5, <3>1 DEF SameFacts, BudgetMax
  <2>6. CASE c.code[1] \in AreaCodes
    <3>1. p2.fact[c.code[1]] = p.fact[c.code[1]]
      BY <2>6 DEF SameFacts, FactCodes
    <3> QED BY <1>3, <2>6, <3>1, RuleOf
  <2>7. CASE c.code[1] \in CountCodes
    <3>1. p2.fact[c.code[1]] = p.fact[c.code[1]] /\ p2.type = p.type
      BY <2>7 DEF SameFacts, FactCodes
    <3>2. PICK x : x = p.fact[c.code[1]]
      OBVIOUS
    <3>3. Rule(c, p, o) = CountMin(c, p, x) /\ Rule(c, p2, o2) = CountMin(c, p2, x)
      BY <1>3, <2>7, <3>1, <3>2, RuleOf
    <3> QED BY <3>1, <3>3 DEF CountMin
  <2>8. CASE c.code[1] \in OptionCodes
    <3>1. p2.fact[c.code[1]] = p.fact[c.code[1]]
      BY <2>8 DEF SameFacts, FactCodes
    <3> QED BY <1>3, <2>8, <3>1, RuleOf
  <2> QED BY <1>1, <2>1, <2>2, <2>3, <2>4, <2>5, <2>6, <2>7, <2>8 DEF NumberCodes
<1> QED BY <1>2, <1>3

(* What a rule that cannot say does not know.                              *)
LEMMA UnknownIs ==
  ASSUME NEW c, WellRead(c), Ruled(c), NEW p, PropertyTyped(p), NEW o, OfferTyped(o),
         Rule(c, p, o).is = "UNKNOWN"
  PROVE  LET code == c.code[1]
         IN /\ code \in {"LOCATION"} \union NumberCodes \union OptionCodes
            /\ code = "LOCATION" => p.place = None
            /\ code = "BUDGET_MAX" => c.value = None \/ o.ask = None \/ o.negotiable # "NO"
            /\ code \in AreaCodes => p.fact[code] = None
            /\ code \in CountCodes => p.type \in AppliesTo[code] /\ p.fact[code] \in {None, Unreadable}
            /\ code \in OptionCodes => p.fact[code] \in {None, Unreadable} \union NotKnown
<1>1. PICK code, says : code = c.code[1] /\ says = Rule(c, p, o)
  OBVIOUS
<1>2. code \in {"TRANSACTION_INTENT", "PROPERTY_TYPE", "LOCATION"} \union NumberCodes \union OptionCodes
  BY <1>1, RuledCodes DEF Ruled, WellRead
<1>3. \A ok, basis, reason : Passes(ok, basis, reason).is # "UNKNOWN"
  BY DEF Passes, Says
<1>4. c.code[1] # "TRANSACTION_INTENT" /\ c.code[1] # "PROPERTY_TYPE"
  BY <1>3, RuleOf
<1>5. CASE c.code[1] = "LOCATION"
  <2>1. says = Location(c, p)
    BY <1>1, <1>5, RuleOf
  <2>2. p.place = None
    BY <1>1, <2>1 DEF Location, Passes, Says
  <2> QED BY <1>5, <2>2 DEF AreaCodes, CountCodes, OptionCodes
<1>6. CASE c.code[1] = "BUDGET_MAX"
  <2>1. says = BudgetMax(c, o)
    BY <1>1, <1>6, RuleOf
  <2>2. c.value = None \/ o.ask = None \/ o.negotiable # "NO"
    BY <1>1, <2>1 DEF BudgetMax, Says
  <2> QED BY <1>6, <2>2 DEF AreaCodes, CountCodes, OptionCodes, NumberCodes
<1>7. CASE c.code[1] \in AreaCodes
  <2>1. p.fact[c.code[1]] = None
    BY <1>3, <1>7, RuleOf DEF AreaMin
  <2> QED BY <1>7, <2>1 DEF AreaCodes, CountCodes, OptionCodes, NumberCodes
<1>8. CASE c.code[1] \in CountCodes
  <2>1. says = CountMin(c, p, p.fact[c.code[1]])
    BY <1>1, <1>8, RuleOf
  <2>2. p.type \in AppliesTo[c.code[1]] /\ p.fact[c.code[1]] \in {None, Unreadable}
    <3>1. CountMin(c, p, p.fact[c.code[1]]).is = "UNKNOWN"
      BY <1>1, <2>1
    <3>2. p.type \in AppliesTo[c.code[1]]
      BY <3>1 DEF CountMin, Says
    <3> QED BY <1>3, <3>1, <3>2 DEF CountMin
  <2> QED BY <1>8, <2>2 DEF AreaCodes, CountCodes, OptionCodes, NumberCodes
<1>9. CASE c.code[1] \in OptionCodes
  <2>1. p.fact[c.code[1]] \in {None, Unreadable} \union NotKnown
    <3>1. AttributeOption(c, p.fact[c.code[1]]).is = "UNKNOWN"
      BY <1>9, RuleOf
    <3> QED BY <1>3, <3>1 DEF AttributeOption
  <2> QED BY <1>9, <2>1 DEF AreaCodes, CountCodes, OptionCodes, NumberCodes
<1> QED BY <1>1, <1>2, <1>4, <1>5, <1>6, <1>7, <1>8, <1>9 DEF NumberCodes

(* And conversely: what is not known, no criterion of its code can say.    *)
LEMMA NoneKnows ==
  ASSUME NEW c, WellRead(c), Ruled(c), NEW p, NEW o,
         LET code == c.code[1]
         IN \/ code = "LOCATION" /\ p.place = None
            \/ code = "BUDGET_MAX" /\ o.ask = None
            \/ code \in AreaCodes /\ p.fact[code] = None
            \/ code \in CountCodes /\ p.type \in AppliesTo[code] /\ p.fact[code] \in {None, Unreadable}
            \/ code \in OptionCodes /\ p.fact[code] \in {None, Unreadable} \union NotKnown
  PROVE  Rule(c, p, o).is = "UNKNOWN"
<1>1. CASE c.code[1] = "LOCATION" /\ p.place = None
  <2>1. Rule(c, p, o) = Location(c, p)
    BY <1>1, RuleOf
  <2> QED BY <1>1, <2>1 DEF Location, NotSaid, Says
<1>2. CASE c.code[1] = "BUDGET_MAX" /\ o.ask = None
  <2>1. Rule(c, p, o) = BudgetMax(c, o)
    BY <1>2, RuleOf
  <2> QED BY <1>2, <2>1 DEF BudgetMax, NotSaid, Says
<1>3. CASE c.code[1] \in AreaCodes /\ p.fact[c.code[1]] = None
  BY <1>3, RuleOf DEF AreaMin, NotSaid, Says
<1>4. CASE c.code[1] \in CountCodes /\ p.type \in AppliesTo[c.code[1]] /\ p.fact[c.code[1]] \in {None, Unreadable}
  <2>1. Rule(c, p, o) = CountMin(c, p, p.fact[c.code[1]])
    BY <1>4, RuleOf
  <2> QED BY <1>4, <2>1, Vocabulary DEF CountMin, NotSaid, Says
<1>5. CASE c.code[1] \in OptionCodes /\ p.fact[c.code[1]] \in {None, Unreadable} \union NotKnown
  <2>1. Rule(c, p, o) = AttributeOption(c, p.fact[c.code[1]])
    BY <1>5, RuleOf
  <2>2. PICK x : x = p.fact[c.code[1]]
    OBVIOUS
  <2>3. x \in {None, Unreadable} \union NotKnown
    BY <1>5, <2>2
  <2>4. AttributeOption(c, x).is = "UNKNOWN"
    BY <2>3 DEF AttributeOption, Says
  <2> QED BY <2>1, <2>2, <2>4
<1> QED BY <1>1, <1>2, <1>3, <1>4, <1>5

(* A fact that meets a criterion passes it.                                *)
LEMMA MeetsPasses ==
  ASSUME NEW c, Ruled(c), NEW p, NEW o, NEW x,
         Meets(c.code[1], c.operator, c.value, x),
         LET code == c.code[1]
         IN \/ code = "BUDGET_MAX" /\ o.ask = x /\ x # None /\ c.value # None
            \/ code \in AreaCodes /\ p.fact[code] = x /\ x # None
            \/ code \in CountCodes /\ p.type \in AppliesTo[code] /\ p.fact[code] = x
                 /\ x \notin {None, Unreadable}
            \/ code \in OptionCodes /\ p.fact[code] = x /\ x \notin {None, Unreadable}
  PROVE  Rule(c, p, o).is = "PASS"
<1>1. CASE c.code[1] = "BUDGET_MAX" /\ o.ask = x /\ x # None /\ c.value # None
  <2>1. Rule(c, p, o) = BudgetMax(c, o)
    BY <1>1, RuleOf
  <2>2. x <= c.value
    BY <1>1 DEF Meets, AreaCodes, CountCodes, OptionCodes
  <2> QED BY <1>1, <2>1, <2>2 DEF BudgetMax, Says
<1>2. CASE c.code[1] \in AreaCodes /\ p.fact[c.code[1]] = x /\ x # None
  <2>1. Rule(c, p, o) = AreaMin(c, x)
    BY <1>2, RuleOf
  <2>2. x >= c.value
    BY <1>2 DEF Meets, AreaCodes, CountCodes, OptionCodes
  <2> QED BY <1>2, <2>1, <2>2 DEF AreaMin, Passes, Says
<1>3. CASE /\ c.code[1] \in CountCodes /\ p.type \in AppliesTo[c.code[1]] /\ p.fact[c.code[1]] = x
           /\ x \notin {None, Unreadable}
  <2>1. Rule(c, p, o) = CountMin(c, p, x)
    BY <1>3, RuleOf
  <2>2. x >= c.value
    BY <1>3 DEF Meets, AreaCodes, CountCodes, OptionCodes
  <2>3. CountMin(c, p, x) = Passes(x >= c.value, "COUNT_MINIMUM", None)
    BY <1>3 DEF CountMin
  <2> QED BY <2>1, <2>2, <2>3 DEF Passes, Says
<1>4. CASE c.code[1] \in OptionCodes /\ p.fact[c.code[1]] = x /\ x \notin {None, Unreadable}
  <2>1. Rule(c, p, o) = AttributeOption(c, x)
    BY <1>4, RuleOf
  <2>2. x \notin NotKnown /\ Inside(c, x)
    BY <1>4 DEF Meets, AreaCodes, CountCodes, OptionCodes, Inside
  <2>3. PICK reason : AttributeOption(c, x) = Passes(Inside(c, x), "ATTRIBUTE_OPTION", reason)
    BY <1>4, <2>2 DEF AttributeOption
  <2> QED BY <2>1, <2>2, <2>3 DEF Passes, Says
<1> QED BY <1>1, <1>2, <1>3, <1>4

-----------------------------------------------------------------------------
(* The maximum of a request, when it is asked                              *)

(* A criterion without a value is the column of a request that states no   *)
(* maximum, in its columns or in its rows.                                 *)
LEMMA NotStated ==
  ASSUME NEW q, RequestTyped(q), NEW i \in DOMAIN Criteria(q),
         Open(Criteria(q)[i].code[1], Criteria(q)[i])
  PROVE  q.max = None /\ ~InRows(q)
<1> DEFINE C == OfColumns(q)
           S == {FromRow(q, j) : j \in Kept(q, FALSE)}
           all == Columns(q) \o Rows(q, FALSE)
<1>1. q.rows \in Seq(Range(q.rows))
  BY DEF RequestTyped
<1>2. \A x \in S : ~Open(x.code, x) /\ "code" \in DOMAIN x /\ "value" \in DOMAIN x
  <2> SUFFICES ASSUME NEW j \in Kept(q, FALSE)
               PROVE  LET x == FromRow(q, j)
                      IN ~Open(x.code, x) /\ "code" \in DOMAIN x /\ "value" \in DOMAIN x
    OBVIOUS
  <2>1. PICK r, x : r = q.rows[j] /\ x = FromRow(q, j)
    OBVIOUS
  <2>2. r \in Range(q.rows)
    BY <2>1 DEF Kept, Range
  <2>3. r.code \in NumberCodes => r.value \in Int \union {Unreadable}
    BY <2>2 DEF RequestTyped
  <2>4. x.code = r.code /\ x.value = r.value /\ "code" \in DOMAIN x /\ "value" \in DOMAIN x
    BY <2>1 DEF FromRow
  <2>5. "BUDGET_MAX" \in NumberCodes
    BY DEF NumberCodes
  <2> QED BY <2>1, <2>3, <2>4, <2>5, Vocabulary DEF Open
<1>3. \A x \in C : /\ "code" \in DOMAIN x /\ "value" \in DOMAIN x
                   /\ Open(x.code, x) => q.max = None /\ ~InRows(q)
  BY DEF OfColumns, OfFirst, OfPrice, Column, Open
<1>4. Rows(q, FALSE) \in Seq(S) /\ Columns(q) \in Seq(C)
  BY <1>1, RowsTypes, ColumnsTypes
<1> HIDE DEF C, S
<1>5. \A k \in DOMAIN all : all[k] \in C \union S
  BY <1>4, JoinedIn
<1> HIDE DEF all
<1>6. DOMAIN Criteria(q) = DOMAIN all /\ \E n : Criteria(q)[i] = [all[i] EXCEPT !.code = <<all[i].code, n>>]
  BY DEF Criteria, all
<1>7. PICK x, c, n : x = all[i] /\ c = Criteria(q)[i] /\ c = [x EXCEPT !.code = <<x.code, n>>]
  BY <1>6
<1>8. "code" \in DOMAIN x /\ "value" \in DOMAIN x
  BY <1>2, <1>3, <1>5, <1>6, <1>7
<1>9. c.code[1] = x.code /\ c.value = x.value
  BY <1>7, <1>8
<1>10. Open(x.code, x)
  BY <1>7, <1>9 DEF Open
<1> QED BY <1>2, <1>3, <1>5, <1>6, <1>7, <1>10

(* Where two sequences are joined.                                         *)
LEMMA JoinedAt ==
  ASSUME NEW A, NEW s \in Seq(A), NEW t \in Seq(A)
  PROVE  /\ s \o t \in Seq(A) /\ DOMAIN (s \o t) = 1..(Len(s) + Len(t))
         /\ \A i \in DOMAIN (s \o t) :
              (s \o t)[i] = IF i <= Len(s) THEN s[i] ELSE t[i - Len(s)]
<1>1. Len(s \o t) = Len(s) + Len(t) /\ s \o t \in Seq(A) /\ Len(s) \in Nat /\ Len(t) \in Nat
  OBVIOUS
<1>2. DOMAIN (s \o t) = 1..Len(s \o t)
  BY <1>1
<1>3. \A i \in 1..(Len(s) + Len(t)) : (s \o t)[i] = IF i <= Len(s) THEN s[i] ELSE t[i - Len(s)]
  OBVIOUS
<1> QED BY <1>1, <1>2, <1>3

(* One member of a sequence is another, and the others are among some.     *)
Replaces(x, y, n, a, b, others) ==
  /\ DOMAIN y = DOMAIN x
  /\ \A i \in DOMAIN x : i = n => x[i] = a /\ y[i] = b
  /\ \A i \in DOMAIN x : i # n => y[i] = x[i] /\ x[i] \in others
LEMMA MiddleReplaced ==
  ASSUME NEW A, NEW s \in Seq(A), NEW t \in Seq(A), NEW a \in A, NEW b \in A,
         NEW x, x = (s \o <<a>>) \o t, NEW y, y = (s \o <<b>>) \o t, NEW m, m = Len(s) + 1
  PROVE  Replaces(x, y, m, a, b, Range(s) \union Range(t))
<1>1. PICK u, v : u = s \o <<a>> /\ v = s \o <<b>>
  OBVIOUS
<1>2. Len(s) \in Nat /\ Len(t) \in Nat /\ <<a>> \in Seq(A) /\ <<b>> \in Seq(A)
  OBVIOUS
<1>3. /\ u \in Seq(A) /\ v \in Seq(A) /\ Len(u) = Len(s) + 1 /\ Len(v) = Len(s) + 1
      /\ \A i \in 1..(Len(s) + 1) : u[i] = IF i <= Len(s) THEN s[i] ELSE a
      /\ \A i \in 1..(Len(s) + 1) : v[i] = IF i <= Len(s) THEN s[i] ELSE b
  <2>1. Len(<<a>>) = 1 /\ Len(<<b>>) = 1 /\ <<a>>[1] = a /\ <<b>>[1] = b
    OBVIOUS
  <2>2. PICK d, e : d = <<a>> /\ e = <<b>>
    OBVIOUS
  <2>3. /\ u \in Seq(A) /\ DOMAIN u = 1..(Len(s) + 1)
        /\ \A i \in DOMAIN u : u[i] = IF i <= Len(s) THEN s[i] ELSE d[i - Len(s)]
    BY <1>1, <1>2, <2>1, <2>2, JoinedAt
  <2>4. /\ v \in Seq(A) /\ DOMAIN v = 1..(Len(s) + 1)
        /\ \A i \in DOMAIN v : v[i] = IF i <= Len(s) THEN s[i] ELSE e[i - Len(s)]
    BY <1>1, <1>2, <2>1, <2>2, JoinedAt
  <2>5. \A i \in 1..(Len(s) + 1) : i <= Len(s) \/ i - Len(s) = 1
    BY <1>2
  <2>6. \A w : w \in Seq(A) /\ DOMAIN w = 1..(Len(s) + 1) => Len(w) = Len(s) + 1
    BY <1>2
  <2> QED BY <2>1, <2>2, <2>3, <2>4, <2>5, <2>6
<1>4. /\ DOMAIN (u \o t) = 1..(Len(s) + 1 + Len(t)) /\ DOMAIN (v \o t) = 1..(Len(s) + 1 + Len(t))
      /\ \A i \in DOMAIN (u \o t) : (u \o t)[i] = IF i <= Len(s) + 1 THEN u[i] ELSE t[i - (Len(s) + 1)]
      /\ \A i \in DOMAIN (v \o t) : (v \o t)[i] = IF i <= Len(s) + 1 THEN v[i] ELSE t[i - (Len(s) + 1)]
  <2>1. /\ DOMAIN (u \o t) = 1..(Len(u) + Len(t))
        /\ \A i \in DOMAIN (u \o t) : (u \o t)[i] = IF i <= Len(u) THEN u[i] ELSE t[i - Len(u)]
    BY <1>3, JoinedAt, ZenonT(40)
  <2>2. /\ DOMAIN (v \o t) = 1..(Len(v) + Len(t))
        /\ \A i \in DOMAIN (v \o t) : (v \o t)[i] = IF i <= Len(v) THEN v[i] ELSE t[i - Len(v)]
    BY <1>3, JoinedAt
  <2> QED BY <1>3, <2>1, <2>2
<1>5. PICK n, l : x = u \o t /\ y = v \o t /\ n = Len(s) /\ l = Len(t)
  BY <1>1
<1>6. n \in Nat /\ l \in Nat /\ DOMAIN s = 1..n /\ DOMAIN t = 1..l
  BY <1>2, <1>5
<1>7. /\ DOMAIN x = 1..(n + 1 + l) /\ DOMAIN y = DOMAIN x
      /\ \A i \in DOMAIN x : /\ x[i] = IF i <= n + 1 THEN u[i] ELSE t[i - (n + 1)]
                             /\ y[i] = IF i <= n + 1 THEN v[i] ELSE t[i - (n + 1)]
  BY <1>4, <1>5
<1>8. ASSUME NEW i \in DOMAIN x
      PROVE  /\ i = n + 1 => x[i] = a /\ y[i] = b
             /\ i # n + 1 => x[i] = y[i] /\ x[i] \in Range(s) \union Range(t)
  <2>1. CASE i = n + 1
    BY <1>3, <1>5, <1>6, <1>7, <1>8, <2>1
  <2>2. CASE i < n + 1
    <3>1. i \in 1..n /\ x[i] = u[i] /\ y[i] = v[i]
      BY <1>6, <1>7, <1>8, <2>2
    <3>2. u[i] = s[i] /\ v[i] = s[i]
      BY <1>3, <1>5, <1>6, <3>1
    <3> QED BY <1>6, <2>2, <3>1, <3>2 DEF Range
  <2>3. CASE i > n + 1
    <3>1. i - (n + 1) \in 1..l /\ x[i] = t[i - (n + 1)] /\ y[i] = t[i - (n + 1)]
      BY <1>6, <1>7, <1>8, <2>3
    <3> QED BY <1>6, <2>3, <3>1 DEF Range
  <2>4. i = n + 1 \/ i < n + 1 \/ i > n + 1
    BY <1>6, <1>7, <1>8
  <2> QED BY <2>1, <2>2, <2>3, <2>4
<1> QED BY <1>5, <1>7, <1>8 DEF Replaces

(* Two fields of a record may be written in either order.                  *)
LEMMA TwoFields ==
  ASSUME NEW y, NEW k, NEW x
  PROVE  [[y EXCEPT !.code = k] EXCEPT !.value = x] = [[y EXCEPT !.value = x] EXCEPT !.code = k]
OBVIOUS

(* Requests with the same rows are read with the same rows.                *)
LEMMA RowsSame ==
  ASSUME NEW q, q.rows \in Seq(Range(q.rows)), NEW r, r.rows = q.rows, NEW deferred
  PROVE  Rows(r, deferred) = Rows(q, deferred)
<1> DEFINE n == Len(q.rows)
           f == CHOOSE g : Keeps(q, deferred, g, n)
           h == CHOOSE g : Keeps(r, deferred, g, n)
           T == {i \in 0..n : f[i] # h[i]}
<1>1. n \in Nat /\ n = Len(r.rows)
  OBVIOUS
<1>2. Keeps(q, deferred, f, n) /\ Keeps(r, deferred, h, n)
  BY <1>1, KeepsExists
<1>3. Rows(q, deferred) = f[n]
  BY DEF Rows, Keeps, Keep
<1>4. Rows(r, deferred) = h[n]
  <2>1. Rows(r, deferred) = (CHOOSE g : Keeps(r, deferred, g, Len(r.rows)))[Len(r.rows)]
    BY DEF Rows, Keeps, Keep
  <2> QED BY <1>1, <2>1
<1> HIDE DEF n, f, h
<1>5. T = {}
  <2> SUFFICES ASSUME T # {} PROVE FALSE
    OBVIOUS
  <2>1. PICK m \in T : \A k \in T : m <= k
    <3>1. T \in SUBSET Nat
      BY <1>1
    <3> HIDE DEF T
    <3> QED BY <3>1, Least
  <2>2. /\ m \in 0..n /\ f[m] # h[m]
        /\ f[m] = Keep(q, deferred, f, m) /\ h[m] = Keep(r, deferred, h, m)
    BY <1>2 DEF Keeps
  <2>3. m # 0
    BY <2>2 DEF Keep
  <2>4. f[m - 1] = h[m - 1]
    BY <1>1, <2>1, <2>2, <2>3
  <2>5. FromRow(r, m) = FromRow(q, m)
    BY DEF FromRow
  <2> QED BY <2>2, <2>3, <2>4, <2>5 DEF Keep
<1>6. n \in 0..n
  BY <1>1
<1> QED BY <1>3, <1>4, <1>5, <1>6

(* When a request that states no maximum states one, its criteria are as   *)
(* they were, but for that value.                                          *)
LEMMA MaxStated ==
  ASSUME NEW q, RequestTyped(q), q.max = None, ~InRows(q), NEW x, x # None,
         NEW r, r = [q EXCEPT !.max = x]
  PROVE  /\ DOMAIN Criteria(r) = DOMAIN Criteria(q)
         /\ \A i \in DOMAIN Criteria(q) :
              LET c == Criteria(q)[i]
              IN Criteria(r)[i] = IF c.code[1] = "BUDGET_MAX" THEN [c EXCEPT !.value = x] ELSE c
<1> DEFINE a == Column("BUDGET_MAX", q.maxAs, "LTE", None)
           b == Column("BUDGET_MAX", q.maxAs, "LTE", x)
           S == {FromRow(q, j) : j \in Kept(q, FALSE)}
           A == OfFirst(q) \union S \union {a, b}
<1>1. /\ r.max = x /\ r.rows = q.rows /\ r.intent = q.intent /\ r.type = q.type /\ r.typeAs = q.typeAs
      /\ r.place = q.place /\ r.placeAs = q.placeAs /\ r.maxAs = q.maxAs
      /\ q.rows \in Seq(Range(q.rows))
  BY DEF RequestTyped
<1>2. PICK s, t : s = First(q) /\ t = Rows(q, FALSE)
  OBVIOUS
<1>3. First(r) = s /\ Rows(r, FALSE) = t
  <2>1. First(r) = s
    BY <1>1, <1>2 DEF First
  <2>2. Rows(r, FALSE) = t
    BY <1>1, <1>2, RowsSame
  <2> QED BY <2>1, <2>2
<1>4. Columns(q) = s \o <<a>> /\ Columns(r) = s \o <<b>>
  <2>1. Columns(q) = s \o <<a>>
    BY <1>2 DEF Columns, First, InRows
  <2>2. r.max # None
    BY <1>1
  <2>3. Columns(r) = First(r) \o <<Column("BUDGET_MAX", r.maxAs, "LTE", r.max)>>
    BY <2>2 DEF Columns, First
  <2> QED BY <1>1, <1>3, <2>1, <2>3
<1>5. s \in Seq(OfFirst(q)) /\ t \in Seq(S)
  BY <1>1, <1>2, FirstTypes, RowsTypes
<1>6. \A y \in OfFirst(q) : y.code # "BUDGET_MAX" /\ "code" \in DOMAIN y
  BY DEF OfFirst, Column
<1>7. \A y \in S : y.code # "BUDGET_MAX" /\ "code" \in DOMAIN y
  <2> SUFFICES ASSUME NEW j \in Kept(q, FALSE)
               PROVE  FromRow(q, j).code # "BUDGET_MAX" /\ "code" \in DOMAIN FromRow(q, j)
    OBVIOUS
  <2> QED BY DEF FromRow, Kept, InRows
<1>8. a.code = "BUDGET_MAX" /\ b.code = "BUDGET_MAX" /\ "code" \in DOMAIN a /\ "code" \in DOMAIN b
  BY DEF Column
<1>9. \A k : [[a EXCEPT !.code = k] EXCEPT !.value = x] = [b EXCEPT !.code = k]
  <2>1. PICK as : as = q.maxAs
    OBVIOUS
  <2>2. PICK y : y = a
    OBVIOUS
  <2>3. y = [code |-> "BUDGET_MAX", importance |-> as, operator |-> "LTE", value |-> None,
             blocking |-> FALSE, row |-> 0]
    BY <2>1, <2>2 DEF Column
  <2>4. PICK z : z = [y EXCEPT !.value = x]
    OBVIOUS
  <2>5. z = [code |-> "BUDGET_MAX", importance |-> as, operator |-> "LTE", value |-> x,
             blocking |-> FALSE, row |-> 0]
    BY <2>3, <2>4
  <2>6. z = b
    BY <2>1, <2>5 DEF Column
  <2> HIDE DEF a, b
  <2> QED BY <2>2, <2>4, <2>6, TwoFields
<1> HIDE DEF a, b, S
<1>10. s \in Seq(A) /\ t \in Seq(A) /\ a \in A /\ b \in A /\ Range(s) \subseteq OfFirst(q) /\ Range(t) \subseteq S
  <2>1. OfFirst(q) \subseteq A /\ S \subseteq A
    OBVIOUS
  <2>2. Range(s) \subseteq OfFirst(q) /\ Range(t) \subseteq S
    BY <1>5 DEF Range
  <2>3. a \in A /\ b \in A
    OBVIOUS
  <2> HIDE DEF A
  <2> QED BY <1>5, <2>1, <2>2, <2>3
<1> HIDE DEF A
<1>11. PICK u, v, n : u = (s \o <<a>>) \o t /\ v = (s \o <<b>>) \o t /\ n = Len(s) + 1
  OBVIOUS
<1>12. /\ DOMAIN v = DOMAIN u
       /\ \A i \in DOMAIN u : i = n => u[i] = a /\ v[i] = b
       /\ \A i \in DOMAIN u : i # n => v[i] = u[i] /\ u[i] \in Range(s) \union Range(t)
  <2>1. PICK c, d : c = a /\ d = b
    OBVIOUS
  <2>2. s \in Seq(A) /\ t \in Seq(A) /\ c \in A /\ d \in A
    BY <1>10, <2>1
  <2>3. u = (s \o <<c>>) \o t /\ v = (s \o <<d>>) \o t /\ n = Len(s) + 1
    BY <1>11, <2>1
  <2>4. Replaces(u, v, n, c, d, Range(s) \union Range(t))
    BY <2>2, <2>3, MiddleReplaced, Zenon
  <2> QED BY <2>1, <2>4 DEF Replaces
<1>13. /\ \A i \in DOMAIN u : v[i].code = u[i].code /\ "code" \in DOMAIN u[i]
       /\ \A i \in DOMAIN u : i # n => u[i].code # "BUDGET_MAX"
  BY <1>6, <1>7, <1>8, <1>10, <1>12
<1> DEFINE key(w, i) == <<w[i].code, Cardinality({j \in 1..i : w[j].code = w[i].code})>>
<1>14. /\ Criteria(q) = [i \in DOMAIN u |-> [u[i] EXCEPT !.code = key(u, i)]]
       /\ Criteria(r) = [i \in DOMAIN v |-> [v[i] EXCEPT !.code = key(v, i)]]
  BY <1>2, <1>3, <1>4, <1>11 DEF Criteria
<1>15. PICK l \in Nat : DOMAIN u = 1..l
  <2>1. u = Columns(q) \o Rows(q, FALSE)
    BY <1>2, <1>4, <1>11
  <2> QED BY <1>1, <2>1, CriteriaDomain
<1>16. ASSUME NEW i \in DOMAIN u
       PROVE  key(v, i) = key(u, i)
  <2>1. 1..i \subseteq DOMAIN u
    BY <1>15
  <2>2. {j \in 1..i : v[j].code = v[i].code} = {j \in 1..i : u[j].code = u[i].code}
    BY <1>13, <2>1
  <2> QED BY <1>13, <2>2
<1>17. ASSUME NEW i \in DOMAIN u
       PROVE  LET c == Criteria(q)[i]
              IN Criteria(r)[i] = IF c.code[1] = "BUDGET_MAX" THEN [c EXCEPT !.value = x] ELSE c
  <2>0. PICK k : k = key(u, i)
    OBVIOUS
  <2>1. PICK c, d : c = Criteria(q)[i] /\ d = Criteria(r)[i] /\ k = key(u, i) /\ k[1] = u[i].code
    BY <2>0
  <2>2. c = [u[i] EXCEPT !.code = k] /\ d = [v[i] EXCEPT !.code = k]
    BY <1>12, <1>14, <1>16, <2>1
  <2> HIDE DEF key
  <2>3. c.code[1] = u[i].code
    BY <1>13, <2>1, <2>2
  <2>4. CASE i = n
    <3>1. u[i] = a /\ v[i] = b
      BY <1>12, <2>4
    <3>2. d = [c EXCEPT !.value = x]
      BY <1>9, <2>2, <3>1
    <3>3. c.code[1] = "BUDGET_MAX"
      BY <1>8, <2>3, <3>1
    <3> QED BY <2>1, <3>2, <3>3
  <2>5. CASE i # n
    BY <1>12, <1>13, <2>1, <2>2, <2>3, <2>5
  <2> QED BY <2>4, <2>5
<1>18. DOMAIN Criteria(q) = DOMAIN u /\ DOMAIN Criteria(r) = DOMAIN u
  BY <1>12, <1>14
<1> QED BY <1>17, <1>18

-----------------------------------------------------------------------------
(* The answer to the one unknown                                           *)

(* All that stands between a match and its being eligible is a criterion   *)
(* that cannot be told.                                                    *)
Sole(m, i) ==
  /\ i \in DOMAIN m.results /\ Lacks(m.results[i])
  /\ \A j \in DOMAIN m.results : ~Fails(m.results[j]) /\ (j # i => ~Lacks(m.results[j]))
  /\ m.decided.fresh = "PASS" /\ m.decided.permitted = "PASS"

(* A high-value unknown is one.                                            *)
LEMMA HighValueIs ==
  ASSUME NEW m, Sound(m), Facts(m), NEW k \in HighValue(m)
  PROVE  \E i \in DOMAIN Criteria(m.q) : Sole(m, i) /\ Criteria(m.q)[i].code = k
<1>1. /\ m.decided.hard # "FAIL" /\ m.decided.fresh = "PASS" /\ m.decided.permitted = "PASS"
      /\ Cardinality(Missing(m.results)) = 1 /\ k \in {r.criterion.code : r \in Missing(m.results)}
  BY DEF HighValue
<1>2. IsFiniteSet(Missing(m.results))
  <2>1. Missing(m.results) \subseteq Range(m.results)
    BY DEF Missing
  <2> QED BY <2>1, ResultsOf, FS_Subset
<1>3. PICK r : Missing(m.results) = {r}
  BY <1>1, <1>2, FS_Singleton
<1>4. k = r.criterion.code
  BY <1>1, <1>3
<1>5. PICK i \in DOMAIN m.results : m.results[i] = r
  BY <1>3 DEF Missing, Range
<1>6. i \in DOMAIN Criteria(m.q) /\ r.criterion = Criteria(m.q)[i]
  BY <1>5, ResultsOf
<1>7. HardGate(m.results) # "FAIL"
  BY <1>1 DEF Sound, Decided
<1>8. ASSUME NEW j \in DOMAIN m.results
      PROVE  ~Fails(m.results[j]) /\ (j # i => ~Lacks(m.results[j]))
  <2>1. ~Fails(m.results[j])
    BY <1>7, HardGateIs
  <2>2. ASSUME j # i, Lacks(m.results[j]) PROVE FALSE
    <3>1. m.results[j] \in Range(m.results)
      BY DEF Range
    <3>2. m.results[j] = r
      BY <1>3, <2>2, <3>1 DEF Missing, Lacks
    <3>3. j \in DOMAIN Criteria(m.q) /\ Criteria(m.q)[j] = Criteria(m.q)[i]
      BY <1>6, <3>2, ResultsOf
    <3>4. m.q.rows \in Seq(Range(m.q.rows))
      BY DEF Sound
    <3> QED BY <1>6, <2>2, <3>3, <3>4, KeysDistinct
  <2> QED BY <2>1, <2>2
<1>9. Lacks(m.results[i])
  BY <1>3, <1>5 DEF Missing, Lacks
<1> QED BY <1>1, <1>4, <1>5, <1>6, <1>8, <1>9 DEF Sole

(* The criteria of a request, where only what one of them reads changes.   *)
Answered(m, i, w) ==
  LET C == Criteria(m.q)  D == Criteria(w.q)
  IN /\ DOMAIN D = DOMAIN C
     /\ \A j \in DOMAIN C : D[j].importance = C[j].importance /\ D[j].blocking = C[j].blocking
     /\ Rule(D[i], w.p, w.o).is = "PASS"
     /\ \A j \in DOMAIN C \ {i} : \/ Rule(D[j], w.p, w.o).is = Rule(C[j], m.p, m.o).is
                                  \/ Rule(D[j], w.p, w.o).is = "PASS"
                                  \/ Rule(C[j], m.p, m.o).is = "UNKNOWN"

(* A match is eligible once its one unknown is told, and passes.           *)
LEMMA AnswerSuffices ==
  ASSUME NEW m, Sound(m), NEW i, Sole(m, i), NEW w, Answered(m, i, w)
  PROVE  Decided(w.q, Evaluate(Criteria(w.q), w.p, w.o), w.o, m.freshness, m.permission).eligibility
           = "ELIGIBLE"
<1>1. PICK C, D, results : /\ C = Criteria(m.q) /\ D = Criteria(w.q)
                           /\ results = Evaluate(Criteria(w.q), w.p, w.o)
  OBVIOUS
<1>2. /\ DOMAIN results = DOMAIN C /\ DOMAIN m.results = DOMAIN C
      /\ \A j \in DOMAIN C :
           /\ results[j].criterion = D[j] /\ results[j].says = Rule(D[j], w.p, w.o)
           /\ results[j].blocks = Blocks(D[j].importance, Rule(D[j], w.p, w.o).is, D[j].blocking)
  BY <1>1, ResultsOf DEF Evaluate, Answered
<1>3. \A j \in DOMAIN C :
        /\ m.results[j].criterion = C[j] /\ m.results[j].says = Rule(C[j], m.p, m.o)
        /\ m.results[j].blocks = Blocks(C[j].importance, Rule(C[j], m.p, m.o).is, C[j].blocking)
  <2>1. ASSUME NEW j \in DOMAIN C
        PROVE  m.results[j].blocks = Blocks(m.results[j].criterion.importance, m.results[j].says.is,
                                            m.results[j].criterion.blocking)
    <3>1. PICK r, c, s : r = m.results[j] /\ c = r.criterion /\ s = r.says
      OBVIOUS
    <3>2. r = [criterion |-> c, says |-> s, blocks |-> Blocks(c.importance, s.is, c.blocking)]
      BY <1>2, <3>1, ResultsOf, ZenonT(40)
    <3> QED BY <3>1, <3>2
  <2>2. ASSUME NEW j \in DOMAIN C
        PROVE  m.results[j].criterion = C[j] /\ m.results[j].says = Rule(C[j], m.p, m.o)
    <3>1. j \in DOMAIN m.results
      BY <1>2
    <3>2. /\ m.results[j].criterion = Criteria(m.q)[j]
          /\ m.results[j].says = Rule(Criteria(m.q)[j], m.p, m.o)
      BY <3>1, ResultsOf
    <3> QED BY <1>1, <3>2
  <2> QED BY <2>1, <2>2
<1>4. ASSUME NEW j \in DOMAIN C
      PROVE  ~Fails(results[j]) /\ ~Unknown(results[j]) /\ ~Lacks(results[j])
  <2>1. PICK new, old, as, flagged : /\ new = Rule(D[j], w.p, w.o).is /\ old = Rule(C[j], m.p, m.o).is
                                     /\ as = C[j].importance /\ flagged = C[j].blocking
    OBVIOUS
  <2>2. D[j].importance = as /\ D[j].blocking = flagged
    BY <1>1, <2>1 DEF Answered
  <2>3. /\ Fails(results[j]) <=> as = "REQUIRED" /\ new = "FAIL"
        /\ Unknown(results[j]) <=> as = "REQUIRED" /\ new = "UNKNOWN"
        /\ Lacks(results[j]) <=> Blocks(as, new, flagged) /\ new = "UNKNOWN"
    BY <1>2, <2>1, <2>2 DEF Fails, Unknown, Lacks
  <2>4. /\ Fails(m.results[j]) <=> as = "REQUIRED" /\ old = "FAIL"
        /\ Lacks(m.results[j]) <=> Blocks(as, old, flagged) /\ old = "UNKNOWN"
    BY <1>3, <2>1 DEF Fails, Lacks
  <2>5. CASE j = i
    <3>1. new = "PASS"
      BY <1>1, <2>1, <2>5 DEF Answered
    <3> QED BY <2>3, <3>1
  <2>6. CASE j # i
    <3>1. new = old \/ new = "PASS" \/ old = "UNKNOWN"
      BY <1>1, <2>1, <2>6 DEF Answered
    <3>2. ~Fails(m.results[j]) /\ ~Lacks(m.results[j])
      BY <1>2, <2>6 DEF Sole
    <3> QED BY <2>3, <2>4, <3>1, <3>2 DEF Blocks
  <2> QED BY <2>5, <2>6
<1>5. HardGate(results) = "PASS"
  BY <1>2, <1>4, HardGateIs
<1>6. InformationGate(results) = "PASS"
  BY <1>2, <1>4, InformationGateIs
<1>7. FreshnessGate(m.freshness) = "PASS" /\ PermissionGate(States(m.permission)) = "PASS"
  BY DEF Sole, Sound, Decided
<1> QED BY <1>1, <1>5, <1>6, <1>7 DEF Decided, Eligibility

(* The one unknown is of a criterion that has a rule.                      *)
LEMMA SoleIs ==
  ASSUME NEW m, Sound(m), Facts(m), NEW i, Sole(m, i), NEW c, c = Criteria(m.q)[i]
  PROVE  /\ i \in DOMAIN Criteria(m.q) /\ WellRead(c) /\ Ruled(c)
         /\ Rule(c, m.p, m.o).is = "UNKNOWN"
<1>1. i \in DOMAIN Criteria(m.q) /\ i \in DOMAIN m.results
  BY ResultsOf DEF Sole
<1>2. WellRead(c)
  BY <1>1, CriteriaRead DEF Facts
<1>3. PICK r, old : r = m.results[i] /\ old = Rule(c, m.p, m.o)
  OBVIOUS
<1>4. r.criterion = c /\ r.says = old /\ Lacks(r)
  BY <1>1, <1>3, ResultsOf DEF Sole
<1>5. r = [criterion |-> c, says |-> old, blocks |-> Blocks(c.importance, old.is, c.blocking)]
  BY <1>1, <1>3, <1>4, ResultsOf
<1>6. old.is = "UNKNOWN" /\ Blocks(c.importance, old.is, c.blocking)
  BY <1>4, <1>5 DEF Lacks
<1>7. c.importance = "REQUIRED" \/ c.blocking
  BY <1>6 DEF Blocks
<1> QED BY <1>1, <1>2, <1>3, <1>6, <1>7 DEF WellRead

(* Nothing else is told otherwise when a fact that was not known is told.  *)
LEMMA FactTold ==
  ASSUME NEW m, Sound(m), Facts(m), NEW i \in DOMAIN Criteria(m.q), NEW p, NEW o,
         Rule(Criteria(m.q)[i], p, o).is = "PASS",
         \A j \in DOMAIN Criteria(m.q) \ {i} :
           LET c == Criteria(m.q)[j]
           IN \/ SameFacts(c.code[1], m.p, m.o, p, o)
              \/ Rule(c, m.p, m.o).is = "UNKNOWN" \/ Rule(c, p, o).is = "PASS"
  PROVE  Answered(m, i, [q |-> m.q, p |-> p, o |-> o])
<1>1. \A j \in DOMAIN Criteria(m.q) : WellRead(Criteria(m.q)[j])
  BY CriteriaRead DEF Facts
<1>2. \A j \in DOMAIN Criteria(m.q) \ {i} :
        LET c == Criteria(m.q)[j]
        IN \/ Rule(c, p, o).is = Rule(c, m.p, m.o).is
           \/ Rule(c, m.p, m.o).is = "UNKNOWN" \/ Rule(c, p, o).is = "PASS"
  <2> SUFFICES ASSUME NEW j \in DOMAIN Criteria(m.q) \ {i}, NEW c, c = Criteria(m.q)[j]
               PROVE  \/ Rule(c, p, o).is = Rule(c, m.p, m.o).is
                      \/ Rule(c, m.p, m.o).is = "UNKNOWN" \/ Rule(c, p, o).is = "PASS"
    OBVIOUS
  <2> QED BY <1>1, ReadsOnly
<1>3. PICK w : w = [q |-> m.q, p |-> p, o |-> o]
  OBVIOUS
<1>4. w.q = m.q /\ w.p = p /\ w.o = o
  BY <1>3
<1> QED BY <1>2, <1>3, <1>4 DEF Answered

(* What a criterion of a code without a rule says.                         *)
LEMMA RulelessUnknown ==
  ASSUME NEW c, ~Ruled(c), NEW p, NEW o
  PROVE  Rule(c, p, o).is = "UNKNOWN"
BY DEF Rule, NotSaid, Says

(* The answer to where a property is.                                      *)
LEMMA PlaceTold ==
  ASSUME NEW m, Sound(m), Facts(m), NEW i, Sole(m, i), Criteria(m.q)[i].code[1] = "LOCATION"
  PROVE  \E w \in Answers("LOCATION", m.q, m.p, m.o) : Answered(m, i, w)
<1>1. PICK c : c = Criteria(m.q)[i]
  OBVIOUS
<1>2. /\ i \in DOMAIN Criteria(m.q) /\ WellRead(c) /\ Ruled(c)
      /\ Rule(c, m.p, m.o).is = "UNKNOWN" /\ c.code[1] = "LOCATION"
  BY <1>1, SoleIs
<1>3. m.p.place = None
  BY <1>2, UnknownIs DEF Facts
<1>4. PICK x : x \in c.value /\ x \in Locations
  BY <1>2 DEF WellRead
<1>5. PICK p : p = [m.p EXCEPT !.place = x]
  OBVIOUS
<1>6. p.place = x /\ p.type = m.p.type /\ p.fact = m.p.fact
  BY <1>5 DEF Facts, PropertyTyped
<1>7. x \in Range(Above[x]) /\ x # None
  <2>1. Above[x] # <<>> /\ Above[x][1] = x /\ Above[x] \in Seq(Locations)
    BY <1>4, Vocabulary
  <2>2. 1 \in DOMAIN Above[x]
    BY <2>1
  <2>3. x # None
    BY <1>4, Vocabulary
  <2> QED BY <2>1, <2>2, <2>3 DEF Range
<1>8. Rule(c, p, m.o).is = "PASS"
  <2>1. Rule(c, p, m.o) = Location(c, p)
    BY <1>2, RuleOf
  <2>2. \E w \in c.value : Within(w, p.place)
    BY <1>4, <1>6, <1>7 DEF Within
  <2> QED BY <1>6, <1>7, <2>1, <2>2 DEF Location, Passes, Says
<1>9. \A j \in DOMAIN Criteria(m.q) \ {i} :
        LET d == Criteria(m.q)[j]
        IN \/ SameFacts(d.code[1], m.p, m.o, p, m.o)
           \/ Rule(d, m.p, m.o).is = "UNKNOWN" \/ Rule(d, p, m.o).is = "PASS"
  <2> SUFFICES ASSUME NEW j \in DOMAIN Criteria(m.q) \ {i}, NEW d, d = Criteria(m.q)[j]
               PROVE  \/ SameFacts(d.code[1], m.p, m.o, p, m.o) \/ Rule(d, m.p, m.o).is = "UNKNOWN"
    OBVIOUS
  <2>1. WellRead(d)
    BY CriteriaRead DEF Facts
  <2>2. CASE d.code[1] # "LOCATION"
    BY <1>6, <2>2 DEF SameFacts
  <2>3. CASE d.code[1] = "LOCATION"
    BY <1>3, <2>1, <2>3, NoneKnows, RulelessUnknown
  <2> QED BY <2>2, <2>3
<1>10. PICK w : w = [q |-> m.q, p |-> p, o |-> m.o]
  OBVIOUS
<1>11. Answered(m, i, w)
  BY <1>1, <1>2, <1>8, <1>9, <1>10, FactTold
<1>12. w \in Answers("LOCATION", m.q, m.p, m.o)
  BY <1>4, <1>5, <1>10 DEF Answers
<1> QED BY <1>11, <1>12

(* The answer to what a property has.                                      *)
LEMMA PropertyTold ==
  ASSUME NEW m, Sound(m), Facts(m), NEW i, Sole(m, i), NEW code \in FactCodes,
         Criteria(m.q)[i].code[1] = code
  PROVE  \E w \in Answers(code, m.q, m.p, m.o) : Answered(m, i, w)
<1>1. PICK c : c = Criteria(m.q)[i]
  OBVIOUS
<1>2. /\ i \in DOMAIN Criteria(m.q) /\ WellRead(c) /\ Ruled(c)
      /\ Rule(c, m.p, m.o).is = "UNKNOWN" /\ c.code[1] = code
  BY <1>1, SoleIs
<1>3. /\ code \in AreaCodes => m.p.fact[code] = None
      /\ code \in CountCodes => m.p.type \in AppliesTo[code] /\ m.p.fact[code] \in {None, Unreadable}
      /\ code \in OptionCodes => m.p.fact[code] \in {None, Unreadable} \union NotKnown
  BY <1>2, UnknownIs DEF Facts
<1>4. PICK x \in Values[code] : Meets(code, c.operator, c.value, x)
  <2>1. code \in NumberCodes \union OptionCodes /\ ~Open(code, c)
    BY DEF FactCodes, NumberCodes, OptionCodes, AreaCodes, CountCodes, Open
  <2> QED BY <1>2, <2>1 DEF WellRead
<1>5. x \notin {None, Unreadable}
  <2>1. code \in OptionCodes \/ code \in NumberCodes
    BY DEF FactCodes, NumberCodes
  <2> QED BY <1>4, <2>1, Snapshots, Vocabulary
<1>6. PICK p, f : p = [m.p EXCEPT !.fact[code] = x] /\ f = [m.p.fact EXCEPT ![code] = x]
  OBVIOUS
<1>7. p.fact = f /\ p.type = m.p.type /\ p.place = m.p.place
  BY <1>6 DEF Facts, PropertyTyped
<1>8. f[code] = x /\ \A d \in FactCodes : d # code => f[d] = m.p.fact[d]
  BY <1>6 DEF Facts, PropertyTyped
<1>9. Rule(c, p, m.o).is = "PASS"
  <2>1. p.fact[code] = x
    BY <1>7, <1>8
  <2>2. CASE c.code[1] \in AreaCodes
    BY <1>2, <1>4, <1>5, <2>1, <2>2, MeetsPasses
  <2>3. CASE c.code[1] \in CountCodes
    <3>1. p.type \in AppliesTo[c.code[1]]
      BY <1>2, <1>3, <1>7, <2>3
    <3> QED BY <1>2, <1>4, <1>5, <2>1, <2>3, <3>1, MeetsPasses
  <2>4. CASE c.code[1] \in OptionCodes
    BY <1>2, <1>4, <1>5, <2>1, <2>4, MeetsPasses
  <2> QED BY <1>2, <2>2, <2>3, <2>4 DEF FactCodes
<1>10. \A j \in DOMAIN Criteria(m.q) \ {i} :
         LET d == Criteria(m.q)[j]
         IN \/ SameFacts(d.code[1], m.p, m.o, p, m.o)
            \/ Rule(d, m.p, m.o).is = "UNKNOWN" \/ Rule(d, p, m.o).is = "PASS"
  <2> SUFFICES ASSUME NEW j \in DOMAIN Criteria(m.q) \ {i}, NEW d, d = Criteria(m.q)[j]
               PROVE  \/ SameFacts(d.code[1], m.p, m.o, p, m.o) \/ Rule(d, m.p, m.o).is = "UNKNOWN"
    OBVIOUS
  <2>1. WellRead(d)
    BY CriteriaRead DEF Facts
  <2>2. CASE d.code[1] # code
    BY <1>7, <1>8, <2>2 DEF SameFacts
  <2>3. CASE d.code[1] = code
    <3>1. CASE ~Ruled(d)
      BY <3>1, RulelessUnknown
    <3>2. CASE Ruled(d) /\ d.code[1] \in AreaCodes
      BY <1>3, <2>1, <2>3, <3>2, NoneKnows
    <3>3. CASE Ruled(d) /\ d.code[1] \in CountCodes
      BY <1>3, <2>1, <2>3, <3>3, NoneKnows
    <3>4. CASE Ruled(d) /\ d.code[1] \in OptionCodes
      BY <1>3, <2>1, <2>3, <3>4, NoneKnows
    <3> QED BY <2>3, <3>1, <3>2, <3>3, <3>4 DEF FactCodes
  <2> QED BY <2>2, <2>3
<1>11. PICK w : w = [q |-> m.q, p |-> p, o |-> m.o]
  OBVIOUS
<1>12. Answered(m, i, w)
  BY <1>1, <1>2, <1>9, <1>10, <1>11, FactTold
<1>13. w \in Answers(code, m.q, m.p, m.o)
  <2>1. code \notin {"TRANSACTION_INTENT", "PROPERTY_TYPE", "LOCATION", "BUDGET_MAX"}
    BY DEF FactCodes, OptionCodes, AreaCodes, CountCodes
  <2>2. Answers(code, m.q, m.p, m.o)
          = {[q |-> m.q, p |-> [m.p EXCEPT !.fact[code] = y], o |-> m.o] : y \in Values[code]}
    BY <2>1 DEF Answers
  <2> QED BY <1>4, <1>6, <1>11, <2>2
<1> QED BY <1>12, <1>13

(* The answer to a price that is not known, or that may be negotiated.     *)
LEMMA PriceTold ==
  ASSUME NEW m, Sound(m), Facts(m), NEW i, Sole(m, i), Criteria(m.q)[i].code[1] = "BUDGET_MAX",
         Criteria(m.q)[i].value # None
  PROVE  \E w \in Answers("BUDGET_MAX", m.q, m.p, m.o) : Answered(m, i, w)
<1>1. PICK c : c = Criteria(m.q)[i]
  OBVIOUS
<1>2. /\ i \in DOMAIN Criteria(m.q) /\ WellRead(c) /\ Ruled(c)
      /\ Rule(c, m.p, m.o).is = "UNKNOWN" /\ c.code[1] = "BUDGET_MAX" /\ c.value # None
  BY <1>1, SoleIs
<1>3. c.value \in Int /\ m.o.ask \in Int \union {None} /\ m.o.expectation \in Int \union {None}
  <2>1. c.value \in Int \union {None}
    BY <1>2 DEF WellRead
  <2>2. m.o.ask \in Int \union {None} /\ m.o.expectation \in Int \union {None}
    BY TypedNumbers DEF Facts
  <2> QED BY <1>2, <2>1, <2>2
<1>4. m.o.ask # None => m.o.ask > c.value /\ m.o.negotiable # "NO"
  <2>1. Rule(c, m.p, m.o) = BudgetMax(c, m.o)
    BY <1>2, RuleOf
  <2>2. m.o.ask # None => ~(m.o.ask <= c.value) /\ m.o.negotiable # "NO"
    BY <1>2, <2>1 DEF BudgetMax, Says
  <2> QED BY <1>3, <2>2
<1>5. PICK x \in Values["BUDGET_MAX"] : x <= c.value /\ x \in Int /\ x # None
  <2>1. "BUDGET_MAX" \in NumberCodes /\ ~Open("BUDGET_MAX", c)
    BY <1>2 DEF NumberCodes, Open
  <2>2. PICK x \in Values["BUDGET_MAX"] : Meets("BUDGET_MAX", c.operator, c.value, x)
    BY <1>2, <2>1 DEF WellRead
  <2>3. x <= c.value
    BY <2>2 DEF Meets, AreaCodes, CountCodes, OptionCodes
  <2>4. x \in Int /\ x # None
    BY <2>1, Snapshots, Vocabulary
  <2> QED BY <2>3, <2>4
<1>6. PICK o : o = [m.o EXCEPT !.ask = x]
  OBVIOUS
<1>7. /\ o.ask = x /\ o.type = m.o.type /\ o.expectation = m.o.expectation
      /\ o.negotiable = m.o.negotiable
  BY <1>6 DEF Facts, OfferTyped
<1>8. Rule(c, m.p, o).is = "PASS"
  <2>1. Rule(c, m.p, o) = BudgetMax(c, o)
    BY <1>2, RuleOf
  <2> QED BY <1>2, <1>5, <1>7, <2>1 DEF BudgetMax, Says
<1>9. \A j \in DOMAIN Criteria(m.q) \ {i} :
        LET d == Criteria(m.q)[j]
        IN \/ SameFacts(d.code[1], m.p, m.o, m.p, o)
           \/ Rule(d, m.p, m.o).is = "UNKNOWN" \/ Rule(d, m.p, o).is = "PASS"
  <2> SUFFICES ASSUME NEW j \in DOMAIN Criteria(m.q) \ {i}, NEW d, d = Criteria(m.q)[j]
               PROVE  \/ SameFacts(d.code[1], m.p, m.o, m.p, o)
                      \/ Rule(d, m.p, m.o).is = "UNKNOWN" \/ Rule(d, m.p, o).is = "PASS"
    OBVIOUS
  <2>1. WellRead(d)
    BY CriteriaRead DEF Facts
  <2>2. CASE d.code[1] # "BUDGET_MAX"
    BY <1>7, <2>2 DEF SameFacts
  <2>3. CASE d.code[1] = "BUDGET_MAX" /\ ~Ruled(d)
    BY <2>3, RulelessUnknown
  <2>4. CASE d.code[1] = "BUDGET_MAX" /\ Ruled(d)
    <3>1. Rule(d, m.p, m.o) = BudgetMax(d, m.o) /\ Rule(d, m.p, o) = BudgetMax(d, o)
      BY <2>1, <2>4, RuleOf
    <3>2. d.value \in Int \union {None}
      BY <2>1, <2>4 DEF WellRead
    <3>3. CASE d.value = None \/ m.o.ask = None
      <4>1. BudgetMax(d, m.o).is = "UNKNOWN"
        BY <3>3 DEF BudgetMax, NotSaid, Says
      <4> QED BY <3>1, <4>1
    <3>4. CASE d.value # None /\ m.o.ask # None
      <4>1. CASE x <= d.value
        <5>1. BudgetMax(d, o).is = "PASS"
          BY <1>5, <1>7, <3>4, <4>1 DEF BudgetMax, Says
        <5> QED BY <3>1, <5>1
      <4>2. CASE m.o.expectation # None /\ m.o.expectation <= d.value
        <5>1. BudgetMax(d, o).is = "PASS"
          BY <1>5, <1>7, <3>4, <4>2 DEF BudgetMax, Says
        <5> QED BY <3>1, <5>1
      <4>3. CASE ~(x <= d.value) /\ ~(m.o.expectation # None /\ m.o.expectation <= d.value)
        <5>1. ~(m.o.ask <= d.value)
          BY <1>3, <1>4, <1>5, <3>2, <3>4, <4>3
        <5>2. BudgetMax(d, m.o).is = "UNKNOWN"
          BY <1>4, <3>4, <4>3, <5>1 DEF BudgetMax, Says
        <5> QED BY <3>1, <5>2
      <4> QED BY <4>1, <4>2, <4>3
    <3> QED BY <3>3, <3>4
  <2> QED BY <2>2, <2>3, <2>4
<1>10. PICK w : w = [q |-> m.q, p |-> m.p, o |-> o]
  OBVIOUS
<1>11. Answered(m, i, w)
  BY <1>1, <1>2, <1>8, <1>9, <1>10, FactTold
<1>12. w \in Answers("BUDGET_MAX", m.q, m.p, m.o)
  BY <1>5, <1>6, <1>10 DEF Answers
<1> QED BY <1>11, <1>12

(* The answer to a maximum that is not stated: the price, and with it the  *)
(* price itself if that is not known.                                      *)
LEMMA MaximumTold ==
  ASSUME NEW m, Sound(m), Facts(m), NEW i, Sole(m, i), Criteria(m.q)[i].code[1] = "BUDGET_MAX",
         Criteria(m.q)[i].value = None
  PROVE  \E w \in Answers("BUDGET_MAX", m.q, m.p, m.o) : Answered(m, i, w)
<1>1. i \in DOMAIN Criteria(m.q) /\ Ruled(Criteria(m.q)[i])
  BY SoleIs
<1>2. m.q.max = None /\ ~InRows(m.q)
  BY <1>1, NotStated DEF Facts, Open
<1>3. "BUDGET_MAX" \in NumberCodes
  BY DEF NumberCodes
<1>4. PICK x, o : /\ x \in Values["BUDGET_MAX"] /\ o.ask = x /\ o.type = m.o.type
                  /\ \/ m.o.ask = x /\ o = m.o
                     \/ m.o.ask = None /\ o = [m.o EXCEPT !.ask = x]
  <2>1. CASE m.o.ask = None
    <3>1. PICK x \in Values["BUDGET_MAX"] : TRUE
      BY <1>3, Snapshots
    <3>2. PICK o : o = [m.o EXCEPT !.ask = x]
      OBVIOUS
    <3>3. o.ask = x /\ o.type = m.o.type
      BY <3>2 DEF Facts, OfferTyped
    <3> QED BY <2>1, <3>2, <3>3
  <2>2. CASE m.o.ask # None
    <3>1. m.o.ask \in Values["BUDGET_MAX"]
      BY <2>2 DEF Facts, OfferTyped, Known
    <3> QED BY <3>1
  <2> QED BY <2>1, <2>2
<1>5. x \in Int /\ x # None
  BY <1>3, <1>4, Snapshots, Vocabulary
<1>6. PICK q : q = [m.q EXCEPT !.max = x]
  OBVIOUS
<1>7. PICK C, D : C = Criteria(m.q) /\ D = Criteria(q)
  OBVIOUS
<1>8. /\ DOMAIN D = DOMAIN C
      /\ \A j \in DOMAIN C :
           D[j] = IF C[j].code[1] = "BUDGET_MAX" THEN [C[j] EXCEPT !.value = x] ELSE C[j]
  BY <1>2, <1>5, <1>6, <1>7, MaxStated DEF Facts
<1>9. ASSUME NEW j \in DOMAIN C
      PROVE  /\ D[j].importance = C[j].importance /\ D[j].blocking = C[j].blocking
             /\ C[j].code[1] = "BUDGET_MAX" /\ Ruled(C[j]) => Rule(D[j], m.p, o).is = "PASS"
             /\ \/ Rule(D[j], m.p, o).is = Rule(C[j], m.p, m.o).is \/ Rule(D[j], m.p, o).is = "PASS"
                \/ Rule(C[j], m.p, m.o).is = "UNKNOWN"
  <2>1. PICK c, d : c = C[j] /\ d = D[j]
    OBVIOUS
  <2>2. WellRead(c)
    BY <1>7, <2>1, <1>9, CriteriaRead DEF Facts
  <2>3. CASE c.code[1] # "BUDGET_MAX"
    <3>1. d = c
      BY <1>8, <2>1, <2>3
    <3>2. SameFacts(c.code[1], m.p, m.o, m.p, o)
      BY <1>4, <2>3 DEF SameFacts
    <3>3. Rule(c, m.p, o) = Rule(c, m.p, m.o)
      BY <2>2, <3>2, ReadsOnly
    <3> QED BY <2>1, <2>3, <3>1, <3>3
  <2>4. CASE c.code[1] = "BUDGET_MAX"
    <3>1. d = [c EXCEPT !.value = x]
      BY <1>8, <2>1, <2>4
    <3>2. c = [code |-> c.code, importance |-> c.importance, operator |-> c.operator,
               value |-> c.value, blocking |-> c.blocking, row |-> c.row]
      BY <2>2 DEF WellRead
    <3>3. /\ d.code = c.code /\ d.operator = c.operator /\ d.value = x
          /\ d.importance = c.importance /\ d.blocking = c.blocking
      BY <3>1, <3>2
    <3>4. ASSUME Ruled(c) PROVE Rule(d, m.p, o).is = "PASS"
      <4>1. Ruled(d) /\ d.code[1] = "BUDGET_MAX"
        BY <2>4, <3>3, <3>4 DEF Ruled
      <4>2. Rule(d, m.p, o) = BudgetMax(d, o)
        BY <4>1, RuleOf
      <4> QED BY <1>4, <1>5, <3>3, <4>2 DEF BudgetMax, Says
    <3>5. ~Ruled(c) => Rule(c, m.p, m.o).is = "UNKNOWN"
      BY RulelessUnknown
    <3> QED BY <2>1, <3>3, <3>4, <3>5
  <2> QED BY <2>3, <2>4
<1>10. PICK w : w = [q |-> q, p |-> m.p, o |-> o]
  OBVIOUS
<1>11. w.q = q /\ w.p = m.p /\ w.o = o
  BY <1>10
<1>12. Answered(m, i, w)
  BY <1>1, <1>7, <1>8, <1>9, <1>11 DEF Answered
<1>13. w \in Answers("BUDGET_MAX", m.q, m.p, m.o)
  <2>1. CASE o = m.o
    BY <1>4, <1>6, <1>10, <2>1 DEF Answers
  <2>2. CASE m.o.ask = None /\ o = [m.o EXCEPT !.ask = x]
    BY <1>2, <1>4, <1>6, <1>10, <2>2 DEF Answers
  <2> QED BY <1>4, <2>1, <2>2
<1> QED BY <1>12, <1>13

(* Every high-value unknown of a diagnostic has an answer that makes its   *)
(* match eligible.                                                         *)
LEMMA CitedHighValue ==
  ASSUME NEW d, Cites(d)
  PROVE  HighValueDecides(d)
<1> SUFFICES ASSUME NEW m \in d.found, NEW k \in HighValue(m)
             PROVE  \E w \in Answers(k[1], m.q, m.p, m.o) :
                      Decided(w.q, Evaluate(Criteria(w.q), w.p, w.o), w.o, m.freshness,
                              m.permission).eligibility = "ELIGIBLE"
  BY DEF HighValueDecides
<1>1. Sound(m) /\ Facts(m)
  BY DEF Cites
<1>2. PICK i \in DOMAIN Criteria(m.q) : Sole(m, i) /\ Criteria(m.q)[i].code = k
  BY <1>1, HighValueIs
<1>3. PICK c : c = Criteria(m.q)[i]
  OBVIOUS
<1>4. /\ WellRead(c) /\ Ruled(c) /\ Rule(c, m.p, m.o).is = "UNKNOWN" /\ c.code[1] = k[1]
  BY <1>1, <1>2, <1>3, SoleIs
<1>5. k[1] \in {"LOCATION"} \union NumberCodes \union OptionCodes
  BY <1>1, <1>4, UnknownIs DEF Facts
<1>6. \E w \in Answers(k[1], m.q, m.p, m.o) : Answered(m, i, w)
  <2>1. CASE Criteria(m.q)[i].code[1] = "LOCATION"
    BY <1>1, <1>2, <2>1, PlaceTold
  <2>2. CASE k[1] \in FactCodes
    BY <1>1, <1>2, <2>2, PropertyTold
  <2>3. CASE Criteria(m.q)[i].code[1] = "BUDGET_MAX" /\ Criteria(m.q)[i].value # None
    BY <1>1, <1>2, <2>3, PriceTold
  <2>4. CASE Criteria(m.q)[i].code[1] = "BUDGET_MAX" /\ Criteria(m.q)[i].value = None
    BY <1>1, <1>2, <2>4, MaximumTold
  <2> QED BY <1>2, <1>5, <2>1, <2>2, <2>3, <2>4 DEF NumberCodes, FactCodes
<1> QED BY <1>1, <1>2, <1>6, AnswerSuffices

-----------------------------------------------------------------------------
(* What the pre-check of a request decides                                 *)

(* What the facts may come to be, whatever the type of the property.       *)
Possible(code, q, p, o) == UNION {Answers(code, q, [p EXCEPT !.type = t], o) : t \in Types}

(* A criterion k is read as the row or the column r.                       *)
Stands(k, r) == k.code[1] = r.code /\ k.operator = r.operator /\ k.value = r.value

(* A criterion that stands for a row with a rule has one.                  *)
LEMMA StandsRuled ==
  ASSUME NEW r, HasRule(r), NEW k, Stands(k, r)
  PROVE  Ruled(k)
BY DEF HasRule, Stands, Ruled

(* There is a type of property, and each code is of one kind.              *)
LEMMA SomeType == Types # {}
<1>1. "ROOMS_MIN" \in CountCodes
  BY DEF CountCodes
<1> QED BY <1>1, Vocabulary

(* The intents an offer may serve.                                         *)
LEMMA PossibleIntents ==
  ASSUME NEW q, NEW p, NEW o, OfferTyped(o)
  PROVE  /\ \A w \in Possible("TRANSACTION_INTENT", q, p, o) : Serves(w.o) \in Intents
         /\ \A v \in Intents : \E w \in Possible("TRANSACTION_INTENT", q, p, o) : Serves(w.o) = v
<1>1. PICK t : t \in Types
  BY SomeType
<1>2. \A w \in Possible("TRANSACTION_INTENT", q, p, o) : Serves(w.o) \in Intents
  BY DEF Serves, Intents
<1>3. ASSUME NEW v \in Intents
      PROVE  \E w \in Possible("TRANSACTION_INTENT", q, p, o) : Serves(w.o) = v
  <2>1. PICK y : y = IF v = "BUY" THEN "SALE" ELSE "RENT"
    OBVIOUS
  <2>2. PICK u : u = [o EXCEPT !.type = y]
    OBVIOUS
  <2>3. u.type = y
    BY <2>2 DEF OfferTyped
  <2>4. PICK w : w = [q |-> q, p |-> [p EXCEPT !.type = t], o |-> u]
    OBVIOUS
  <2>5. w \in Answers("TRANSACTION_INTENT", q, [p EXCEPT !.type = t], o)
    BY <2>1, <2>2, <2>4 DEF Answers
  <2>6. w.o = u
    BY <2>4
  <2>7. Serves(w.o) = v
    BY <2>1, <2>3, <2>6 DEF Serves, Intents
  <2> QED BY <1>1, <2>5, <2>7 DEF Possible
<1> QED BY <1>2, <1>3

(* The types a property may be of.                                         *)
LEMMA PossibleTypes ==
  ASSUME NEW q, NEW p, PropertyTyped(p), NEW o
  PROVE  /\ \A w \in Possible("PROPERTY_TYPE", q, p, o) : w.p.type \in Types
         /\ \A v \in Types : \E w \in Possible("PROPERTY_TYPE", q, p, o) : w.p.type = v
<1>1. \A t : "type" \in DOMAIN [p EXCEPT !.type = t]
  BY DEF PropertyTyped
<1>2. \A t : Answers("PROPERTY_TYPE", q, [p EXCEPT !.type = t], o)
               = {[q |-> q, p |-> [[p EXCEPT !.type = t] EXCEPT !.type = x], o |-> o] : x \in Types}
  BY DEF Answers
<1>3. \A t, x : LET u == [[p EXCEPT !.type = t] EXCEPT !.type = x] IN u.type = x
  <2> SUFFICES ASSUME NEW t, NEW x, NEW y, y = [p EXCEPT !.type = t]
               PROVE  [y EXCEPT !.type = x].type = x
    OBVIOUS
  <2> QED BY <1>1
<1>4. \A w \in Possible("PROPERTY_TYPE", q, p, o) : w.p.type \in Types
  <2> SUFFICES ASSUME NEW w \in Possible("PROPERTY_TYPE", q, p, o) PROVE w.p.type \in Types
    OBVIOUS
  <2>1. PICK t \in Types : w \in Answers("PROPERTY_TYPE", q, [p EXCEPT !.type = t], o)
    BY DEF Possible
  <2>2. PICK y : y = [p EXCEPT !.type = t]
    OBVIOUS
  <2>3. w \in Answers("PROPERTY_TYPE", q, y, o) /\ "type" \in DOMAIN y
    BY <1>1, <2>1, <2>2
  <2>4. PICK x \in Types : w = [q |-> q, p |-> [y EXCEPT !.type = x], o |-> o]
    BY <2>3 DEF Answers
  <2> QED BY <2>3, <2>4
<1>5. ASSUME NEW v \in Types
      PROVE  \E w \in Possible("PROPERTY_TYPE", q, p, o) : w.p.type = v
  <2>1. PICK w : w = [q |-> q, p |-> [[p EXCEPT !.type = v] EXCEPT !.type = v], o |-> o]
    OBVIOUS
  <2>2. w.p.type = v
    BY <1>3, <2>1
  <2>3. w \in Answers("PROPERTY_TYPE", q, [p EXCEPT !.type = v], o)
    BY <1>2, <2>1
  <2> QED BY <2>2, <2>3 DEF Possible
<1> QED BY <1>4, <1>5

(* The places a property may be in.                                        *)
LEMMA PossiblePlaces ==
  ASSUME NEW q, NEW p, PropertyTyped(p), NEW o
  PROVE  /\ \A w \in Possible("LOCATION", q, p, o) : w.p.place \in Locations
         /\ \A v \in Locations : \E w \in Possible("LOCATION", q, p, o) : w.p.place = v
<1>0. PICK s : s \in Types
  BY SomeType
<1>1. \A t : "place" \in DOMAIN [p EXCEPT !.type = t]
  BY DEF PropertyTyped
<1>2. \A t : Answers("LOCATION", q, [p EXCEPT !.type = t], o)
               = {[q |-> q, p |-> [[p EXCEPT !.type = t] EXCEPT !.place = x], o |-> o] : x \in Locations}
  BY DEF Answers
<1>3. \A t, x : LET u == [[p EXCEPT !.type = t] EXCEPT !.place = x] IN u.place = x
  <2> SUFFICES ASSUME NEW t, NEW x, NEW y, y = [p EXCEPT !.type = t]
               PROVE  [y EXCEPT !.place = x].place = x
    OBVIOUS
  <2> QED BY <1>1
<1>4. \A w \in Possible("LOCATION", q, p, o) : w.p.place \in Locations
  <2> SUFFICES ASSUME NEW w \in Possible("LOCATION", q, p, o) PROVE w.p.place \in Locations
    OBVIOUS
  <2>1. PICK t \in Types : w \in Answers("LOCATION", q, [p EXCEPT !.type = t], o)
    BY DEF Possible
  <2>2. PICK y : y = [p EXCEPT !.type = t]
    OBVIOUS
  <2>3. w \in Answers("LOCATION", q, y, o) /\ "place" \in DOMAIN y
    BY <1>1, <2>1, <2>2
  <2>4. PICK x \in Locations : w = [q |-> q, p |-> [y EXCEPT !.place = x], o |-> o]
    BY <2>3 DEF Answers
  <2> QED BY <2>3, <2>4
<1>5. ASSUME NEW v \in Locations
      PROVE  \E w \in Possible("LOCATION", q, p, o) : w.p.place = v
  <2>1. PICK w : w = [q |-> q, p |-> [[p EXCEPT !.type = s] EXCEPT !.place = v], o |-> o]
    OBVIOUS
  <2>2. w.p.place = v
    BY <1>3, <2>1
  <2>3. w \in Answers("LOCATION", q, [p EXCEPT !.type = s], o)
    BY <1>2, <2>1
  <2> QED BY <1>0, <2>2, <2>3 DEF Possible
<1> QED BY <1>4, <1>5

(* A place lies in another that is above it on a chain.                    *)
LEMMA ChainWithin ==
  ASSUME NEW l \in Locations, NEW i \in DOMAIN Above[l], NEW j \in DOMAIN Above[l], i <= j
  PROVE  Within(Above[l][j], Above[l][i])
<1>1. PICK s : s = Above[l]
  OBVIOUS
<1>2. s \in Seq(Locations) /\ Above[s[i]] = SubSeq(s, i, Len(s)) /\ i \in DOMAIN s /\ j \in DOMAIN s
  BY <1>1, Vocabulary
<1>3. /\ Len(s) \in Nat /\ i \in 1..Len(s) /\ j \in 1..Len(s)
  BY <1>2
<1>4. PICK t : t = SubSeq(s, i, Len(s))
  OBVIOUS
<1>5. DOMAIN t = 1..(Len(s) - i + 1) /\ \A k \in DOMAIN t : t[k] = s[i + k - 1]
  BY <1>2, <1>3, <1>4
<1>6. j - i + 1 \in DOMAIN t /\ t[j - i + 1] = s[j]
  <2>1. j - i + 1 \in 1..(Len(s) - i + 1) /\ i + (j - i + 1) - 1 = j
    BY <1>3
  <2> QED BY <1>5, <2>1
<1> QED BY <1>1, <1>2, <1>4, <1>6 DEF Within, Range

(* Of two places above a third, one lies in the other.                     *)
LEMMA OneWithin ==
  ASSUME NEW l \in Locations, NEW x, Within(x, l), NEW y, Within(y, l)
  PROVE  Within(x, y) \/ Within(y, x)
<1>1. PICK i \in DOMAIN Above[l], j \in DOMAIN Above[l] : Above[l][i] = x /\ Above[l][j] = y
  BY DEF Within, Range
<1>2. i <= j \/ j <= i
  <2>1. Above[l] \in Seq(Locations)
    BY Vocabulary
  <2> QED BY <1>1, <2>1
<1> QED BY <1>1, <1>2, ChainWithin

(* Every place lies in itself.                                             *)
LEMMA SelfWithin ==
  ASSUME NEW l \in Locations
  PROVE  Within(l, l)
<1>1. Above[l] # <<>> /\ Above[l][1] = l /\ Above[l] \in Seq(Locations)
  BY Vocabulary
<1>2. 1 \in DOMAIN Above[l]
  BY <1>1
<1> QED BY <1>1, <1>2 DEF Within, Range

(* A row that can be read names what its code may be.                      *)
LEMMA ReadableIs ==
  ASSUME NEW r, HasRule(r), Readable(r)
  PROVE  /\ r.code \in {"TRANSACTION_INTENT", "PROPERTY_TYPE", "LOCATION"} \union NumberCodes \union OptionCodes
         /\ r.code \in {"TRANSACTION_INTENT", "PROPERTY_TYPE"} \union OptionCodes =>
              r.operator \in {"EQ", "NEQ", "IN", "NOT_IN"}
         /\ r.code = "PROPERTY_TYPE" => r.value \subseteq Types
         /\ r.code = "LOCATION" => r.value # {} /\ r.value \subseteq Locations
<1>1. r.code \in {"TRANSACTION_INTENT", "PROPERTY_TYPE", "LOCATION"} \union NumberCodes \union OptionCodes
  BY RuledCodes DEF HasRule, Deferred
<1>2. r.code \in {"TRANSACTION_INTENT", "PROPERTY_TYPE"} \union OptionCodes =>
        r.operator \in {"EQ", "NEQ", "IN", "NOT_IN"}
  BY DEF Readable, Reads, OptionCodes, AreaCodes, CountCodes
<1>3. r.code = "PROPERTY_TYPE" => r.value \subseteq Names("PROPERTY_TYPE")
  BY DEF Readable, Normalises
<1>4. r.code = "LOCATION" => r.value # {} /\ r.value \subseteq Names("LOCATION")
  BY DEF Readable, Normalises
<1>5. Names("PROPERTY_TYPE") = Types /\ Names("LOCATION") = Locations
  BY DEF Names
<1> QED BY <1>1, <1>2, <1>3, <1>4, <1>5

(* What passes, of the codes that name a member.                           *)
LEMMA MemberPasses ==
  ASSUME NEW k, Ruled(k), NEW p, NEW o
  PROVE  /\ k.code[1] = "TRANSACTION_INTENT" =>
              (Rule(k, p, o).is = "PASS" <=> Inside(k, Serves(o)))
         /\ k.code[1] = "PROPERTY_TYPE" => (Rule(k, p, o).is = "PASS" <=> Inside(k, p.type))
         /\ k.code[1] = "LOCATION" =>
              (Rule(k, p, o).is = "PASS" <=> p.place # None /\ \E v \in k.value : Within(v, p.place))
<1>1. ASSUME k.code[1] = "TRANSACTION_INTENT"
      PROVE  Rule(k, p, o).is = "PASS" <=> Inside(k, Serves(o))
  BY <1>1, RuleOf DEF Passes, Says
<1>2. ASSUME k.code[1] = "PROPERTY_TYPE"
      PROVE  Rule(k, p, o).is = "PASS" <=> Inside(k, p.type)
  BY <1>2, RuleOf DEF Passes, Says
<1>3. ASSUME k.code[1] = "LOCATION"
      PROVE  Rule(k, p, o).is = "PASS" <=> p.place # None /\ \E v \in k.value : Within(v, p.place)
  <2>1. Rule(k, p, o) = Location(k, p)
    BY <1>3, RuleOf
  <2> QED BY <2>1 DEF Location, Passes, NotSaid, Says
<1> QED BY <1>1, <1>2, <1>3

(* A row is refused exactly when no fact can pass it: a named intent or    *)
(* type,                                                                   *)
LEMMA NamedCheck ==
  ASSUME NEW q, NEW p, PropertyTyped(p), NEW o, OfferTyped(o),
         NEW r, HasRule(r), Readable(r), r.code \in {"TRANSACTION_INTENT", "PROPERTY_TYPE"},
         NEW k, Stands(k, r)
  PROVE  CanPass(r.code, r.operator, r.value) <=>
           \E w \in Possible(r.code, q, p, o) : Rule(k, w.p, w.o).is = "PASS"
<1>1. /\ Ruled(k) /\ k.operator = r.operator /\ k.value = r.value
      /\ r.operator \in {"EQ", "NEQ", "IN", "NOT_IN"} /\ k.code[1] = r.code
  BY StandsRuled, ReadableIs DEF Stands
<1>2. \A v : Inside(k, v) <=> IF r.operator \in {"EQ", "IN"} THEN v \in r.value ELSE v \notin r.value
  BY <1>1 DEF Inside
<1>3. r.code \notin OptionCodes
  BY DEF OptionCodes
<1>4. CASE r.code = "TRANSACTION_INTENT"
  <2>1. CanPass(r.code, r.operator, r.value) <=> \E v \in Intents : Inside(k, v)
    <3>1. CanPass(r.code, r.operator, r.value) <=>
            (IF r.operator \in {"EQ", "IN"} THEN Names(r.code) \intersect r.value
                                            ELSE Names(r.code) \ r.value) # {}
      BY <1>3, <1>4 DEF CanPass
    <3>2. Names(r.code) = Intents
      BY <1>4 DEF Names
    <3> QED BY <1>2, <3>1, <3>2
  <2>2. \A w : Rule(k, w.p, w.o).is = "PASS" <=> Inside(k, Serves(w.o))
    BY <1>1, <1>4, MemberPasses
  <2> QED BY <1>4, <2>1, <2>2, PossibleIntents
<1>5. CASE r.code = "PROPERTY_TYPE"
  <2>1. CanPass(r.code, r.operator, r.value) <=> \E v \in Types : Inside(k, v)
    <3>1. CanPass(r.code, r.operator, r.value) <=>
            (IF r.operator \in {"EQ", "IN"} THEN Names(r.code) \intersect r.value
                                            ELSE Names(r.code) \ r.value) # {}
      BY <1>3, <1>5 DEF CanPass
    <3>2. Names(r.code) = Types
      BY <1>5 DEF Names
    <3> QED BY <1>2, <3>1, <3>2
  <2>2. \A w : Rule(k, w.p, w.o).is = "PASS" <=> Inside(k, w.p.type)
    BY <1>1, <1>5, MemberPasses
  <2>3. /\ \A w \in Possible(r.code, q, p, o) : w.p.type \in Types
        /\ \A v \in Types : \E w \in Possible(r.code, q, p, o) : w.p.type = v
    BY <1>5, PossibleTypes
  <2>4. PICK P : P = Possible(r.code, q, p, o)
    OBVIOUS
  <2>5. (\E v \in Types : Inside(k, v)) <=> \E w \in P : Inside(k, w.p.type)
    BY <2>3, <2>4
  <2> QED BY <2>1, <2>2, <2>4, <2>5
<1> QED BY <1>4, <1>5

(* a place, of which none is refused,                                      *)
LEMMA PlaceCheck ==
  ASSUME NEW q, NEW p, PropertyTyped(p), NEW o,
         NEW r, HasRule(r), Readable(r), r.code = "LOCATION", NEW k, Stands(k, r)
  PROVE  /\ CanPass(r.code, r.operator, r.value)
         /\ \E w \in Possible(r.code, q, p, o) : Rule(k, w.p, w.o).is = "PASS"
<1>1. CanPass(r.code, r.operator, r.value)
  BY DEF CanPass, OptionCodes
<1>2. Ruled(k) /\ k.value = r.value /\ k.code[1] = "LOCATION"
  BY StandsRuled DEF Stands
<1>3. PICK v \in r.value : v \in Locations
  BY ReadableIs
<1>4. PICK w \in Possible("LOCATION", q, p, o) : w.p.place = v
  BY <1>3, PossiblePlaces
<1>5. v # None /\ Within(v, v)
  BY <1>3, SelfWithin, Vocabulary
<1> QED BY <1>1, <1>2, <1>3, <1>4, <1>5, MemberPasses

(* an amount or a count, of which none is refused either, and an option.   *)
LEMMA MetCheck ==
  ASSUME NEW q, RequestTyped(q), NEW p, PropertyTyped(p), NEW o, OfferTyped(o),
         NEW r \in Range(q.rows), HasRule(r), Readable(r), r.code \in NumberCodes \union OptionCodes,
         NEW k, Stands(k, r)
  PROVE  CanPass(r.code, r.operator, r.value) <=>
           \E w \in Possible(r.code, q, p, o) : Rule(k, w.p, w.o).is = "PASS"
<1>1. PICK code : code = r.code
  OBVIOUS
<1>2. /\ Ruled(k) /\ k.code[1] = code /\ k.operator = r.operator /\ k.value = r.value
      /\ code \in {"BUDGET_MAX"} \union FactCodes
  BY <1>1, StandsRuled DEF Stands, NumberCodes, FactCodes
<1>3. code \in NumberCodes => r.value \in Int
  BY <1>1 DEF RequestTyped, Readable, Normalises
<1>4. ASSUME CanPass(r.code, r.operator, r.value)
      PROVE  \E w \in Possible(code, q, p, o) : Rule(k, w.p, w.o).is = "PASS"
  <2>1. PICK x \in Values[code] : Meets(code, k.operator, k.value, x)
    <3>1. \E x \in Values[r.code] : Meets(r.code, r.operator, r.value, x)
      BY <1>4, RowMet
    <3> QED BY <1>1, <1>2, <3>1
  <2>2. x \notin {None, Unreadable}
    <3>1. CASE code \in NumberCodes
      BY <2>1, <3>1, Snapshots, Vocabulary
    <3>2. CASE code \in OptionCodes
      BY <2>1, <3>2, Snapshots
    <3> QED BY <1>1, <3>1, <3>2
  <2>3. PICK t \in Types : code \in CountCodes => t \in AppliesTo[code]
    BY SomeType, Vocabulary
  <2>4. PICK y : y = [p EXCEPT !.type = t]
    OBVIOUS
  <2>5. y.type = t /\ y.fact = p.fact /\ "fact" \in DOMAIN y
    BY <2>4 DEF PropertyTyped
  <2>6. CASE code = "BUDGET_MAX"
    <3>1. PICK u : u = [o EXCEPT !.ask = x]
      OBVIOUS
    <3>2. u.ask = x
      BY <3>1 DEF OfferTyped
    <3>3. PICK w : w = [q |-> q, p |-> y, o |-> u]
      OBVIOUS
    <3>4. w \in Answers(code, q, y, o)
      BY <2>1, <2>6, <3>1, <3>3 DEF Answers
    <3>5. w.p = y /\ w.o = u
      BY <3>3
    <3>6. k.value # None
      BY <1>2, <1>3, <2>6, Vocabulary DEF NumberCodes
    <3>7. Rule(k, y, u).is = "PASS"
      BY <1>2, <2>1, <2>2, <2>6, <3>2, <3>6, MeetsPasses
    <3>8. w \in Possible(code, q, p, o)
      BY <2>4, <3>4 DEF Possible
    <3> QED BY <3>5, <3>7, <3>8
  <2>7. CASE code \in FactCodes
    <3>1. PICK z : z = [y EXCEPT !.fact[code] = x]
      OBVIOUS
    <3>2. z.fact[code] = x /\ z.type = t
      BY <2>5, <2>7, <3>1 DEF PropertyTyped
    <3>3. PICK w : w = [q |-> q, p |-> z, o |-> o]
      OBVIOUS
    <3>4. w \in Answers(code, q, y, o)
      BY <2>1, <2>7, <3>1, <3>3 DEF Answers, FactCodes, OptionCodes, AreaCodes, CountCodes
    <3>5. w.p = z /\ w.o = o
      BY <3>3
    <3>6. Rule(k, z, o).is = "PASS"
      BY <1>2, <2>1, <2>2, <2>3, <2>7, <3>2, MeetsPasses DEF FactCodes
    <3>7. w \in Possible(code, q, p, o)
      BY <2>4, <3>4 DEF Possible
    <3> QED BY <3>5, <3>6, <3>7
  <2> QED BY <1>2, <2>6, <2>7
<1>5. ASSUME NEW w, Rule(k, w.p, w.o).is = "PASS"
      PROVE  CanPass(r.code, r.operator, r.value)
  <2>1. CASE code \in OptionCodes
    <3>1. PICK x : x = w.p.fact[code]
      OBVIOUS
    <3>2. Rule(k, w.p, w.o) = AttributeOption(k, x)
      BY <1>2, <2>1, <3>1, RuleOf
    <3>3. x \notin NotKnown /\ Inside(k, x)
      BY <1>5, <3>2 DEF AttributeOption, Passes, Says
    <3>4. r.operator \in {"EQ", "IN"} => ~(r.value \subseteq NotKnown)
      BY <1>2, <3>3 DEF Inside
    <3> QED BY <1>1, <2>1, <3>4 DEF CanPass, OptionCodes
  <2>2. CASE code \notin OptionCodes
    BY <1>1, <2>2 DEF CanPass, NumberCodes, OptionCodes, AreaCodes, CountCodes
  <2> QED BY <2>1, <2>2
<1> QED BY <1>1, <1>4, <1>5

(* A column beside which a row is compared states one member.              *)
LEMMA ComparedIs ==
  ASSUME NEW q, NEW r, NEW x \in Compared(q, r)
  PROVE  /\ x = Column(r.code, "REQUIRED", "EQ", x.value) /\ r.operator \in {"EQ", "IN"}
         /\ \/ r.code = "TRANSACTION_INTENT" /\ x.value = {q.intent}
            \/ r.code = "PROPERTY_TYPE" /\ x.value = {q.type}
            \/ r.code = "LOCATION" /\ q.place # None /\ x.value = {q.place}
<1>1. /\ x \in Range(Columns(q)) /\ x.code = r.code /\ x.importance = "REQUIRED"
      /\ r.code \in {"TRANSACTION_INTENT", "PROPERTY_TYPE", "LOCATION"}
      /\ r.operator \in {"EQ", "IN"}
  BY DEF Compared
<1>2. x \in OfColumns(q)
  <2>1. PICK s : s = Columns(q) /\ s \in Seq(OfColumns(q))
    BY ColumnsTypes
  <2> QED BY <1>1, <2>1 DEF Range
<1>3. x.code # "BUDGET_MAX"
  BY <1>1
<1>4. CASE x = Column("TRANSACTION_INTENT", "REQUIRED", "EQ", {q.intent})
  BY <1>1, <1>4 DEF Column
<1>5. CASE x = Column("PROPERTY_TYPE", q.typeAs, "EQ", {q.type})
  BY <1>1, <1>5 DEF Column
<1>6. CASE q.place # None /\ x = Column("LOCATION", q.placeAs, "EQ", {q.place})
  BY <1>1, <1>6 DEF Column
<1> QED BY <1>2, <1>3, <1>4, <1>5, <1>6 DEF OfColumns, OfFirst, OfPrice, Column

(* A required row is at odds with the request's own value exactly when no  *)
(* fact can pass both.                                                     *)
LEMMA BothCheck ==
  ASSUME NEW q, RequestTyped(q), NEW p, PropertyTyped(p), NEW o, OfferTyped(o),
         NEW r, HasRule(r), Readable(r), NEW x \in Compared(q, r),
         NEW k, Stands(k, r), NEW y, Stands(y, x)
  PROVE  (\A v \in x.value : Disjoint(r.code, v, r.value))
           <=> ~ \E w \in Possible(r.code, q, p, o) :
                   Rule(k, w.p, w.o).is = "PASS" /\ Rule(y, w.p, w.o).is = "PASS"
<1>1. PICK code, P : code = r.code /\ P = Possible(r.code, q, p, o)
  OBVIOUS
<1>2. /\ Ruled(k) /\ k.code[1] = code /\ k.operator \in {"EQ", "IN"} /\ k.value = r.value
      /\ y.code[1] = code /\ y.operator = "EQ" /\ y.value = x.value
  <2>1. x = Column(r.code, "REQUIRED", "EQ", x.value) /\ r.operator \in {"EQ", "IN"}
    BY ComparedIs
  <2>2. x.code = r.code /\ x.operator = "EQ"
    BY <2>1 DEF Column
  <2> QED BY <1>1, <2>1, <2>2, StandsRuled DEF Stands
<1>3. Ruled(y)
  BY <1>2 DEF Ruled
<1>4. \A v : /\ Inside(k, v) <=> v \in r.value
             /\ Inside(y, v) <=> v \in x.value
  BY <1>2 DEF Inside
<1>5. CASE code = "TRANSACTION_INTENT"
  <2>1. x.value = {q.intent} /\ q.intent \in Intents
    BY <1>1, <1>5, ComparedIs DEF RequestTyped
  <2>2. (\A v \in x.value : Disjoint(code, v, r.value)) <=> q.intent \notin r.value
    BY <1>5, <2>1 DEF Disjoint
  <2>3. \A w : /\ Rule(k, w.p, w.o).is = "PASS" <=> Serves(w.o) \in r.value
               /\ Rule(y, w.p, w.o).is = "PASS" <=> Serves(w.o) = q.intent
    BY <1>2, <1>3, <1>4, <1>5, <2>1, MemberPasses
  <2>4. \E w \in P : Serves(w.o) = q.intent
    BY <1>1, <1>5, <2>1, PossibleIntents
  <2> QED BY <1>1, <2>2, <2>3, <2>4
<1>6. CASE code = "PROPERTY_TYPE"
  <2>1. x.value = {q.type} /\ r.value \subseteq Types
    BY <1>1, <1>6, ComparedIs, ReadableIs
  <2>2. (\A v \in x.value : Disjoint(code, v, r.value)) <=> q.type \notin r.value
    BY <1>6, <2>1 DEF Disjoint
  <2>3. \A w : /\ Rule(k, w.p, w.o).is = "PASS" <=> w.p.type \in r.value
               /\ Rule(y, w.p, w.o).is = "PASS" <=> w.p.type = q.type
    BY <1>2, <1>3, <1>4, <1>6, <2>1, MemberPasses
  <2>4. q.type \in r.value => \E w \in P : w.p.type = q.type
    BY <1>1, <1>6, <2>1, PossibleTypes
  <2> QED BY <1>1, <2>2, <2>3, <2>4
<1>7. CASE code = "LOCATION"
  <2>1. x.value = {q.place} /\ q.place \in Locations /\ r.value \subseteq Locations
    BY <1>1, <1>7, ComparedIs, ReadableIs DEF RequestTyped
  <2>2. (\A v \in x.value : Disjoint(code, v, r.value))
          <=> \A v \in r.value : ~Within(q.place, v) /\ ~Within(v, q.place)
    BY <1>7, <2>1 DEF Disjoint
  <2>3. \A w : /\ Rule(k, w.p, w.o).is = "PASS"
                    <=> w.p.place # None /\ \E v \in r.value : Within(v, w.p.place)
               /\ Rule(y, w.p, w.o).is = "PASS" <=> w.p.place # None /\ Within(q.place, w.p.place)
    BY <1>2, <1>3, <1>7, <2>1, MemberPasses
  <2>4. ASSUME NEW v \in r.value, Within(q.place, v) \/ Within(v, q.place)
        PROVE  \E w \in P : Rule(k, w.p, w.o).is = "PASS" /\ Rule(y, w.p, w.o).is = "PASS"
    <3>1. PICK l \in Locations : Within(v, l) /\ Within(q.place, l)
      BY <2>1, <2>4, SelfWithin
    <3>2. PICK w \in P : w.p.place = l
      BY <1>1, <1>7, PossiblePlaces
    <3>3. l # None
      BY Vocabulary
    <3> QED BY <2>3, <3>1, <3>2, <3>3
  <2>5. ASSUME NEW w \in P, Rule(k, w.p, w.o).is = "PASS", Rule(y, w.p, w.o).is = "PASS"
        PROVE  \E v \in r.value : Within(q.place, v) \/ Within(v, q.place)
    <3>1. w.p.place \in Locations
      BY <1>1, <1>7, PossiblePlaces
    <3>2. Within(q.place, w.p.place) /\ \E v \in r.value : Within(v, w.p.place)
      BY <2>3, <2>5
    <3> QED BY <3>1, <3>2, OneWithin
  <2> QED BY <1>1, <2>2, <2>4, <2>5
<1> QED BY <1>1, <1>5, <1>6, <1>7, ComparedIs

(* The pre-check of one row, of one property and offer.                    *)
AsRule(x)    == [x EXCEPT !.code = <<@, 1>>]
Passed(x, w) == Rule(AsRule(x), w.p, w.o).is = "PASS"
Checked(q, p, o, r, c) ==
  /\ CanPass(r.code, r.operator, r.value) <=> \E w \in Possible(r.code, q, p, o) : Passed(c, w)
  /\ \A x \in Compared(q, r) :
       (\A v \in x.value : Disjoint(r.code, v, r.value))
         <=> ~ \E w \in Possible(r.code, q, p, o) : Passed(c, w) /\ Passed(x, w)

(* The pre-check is exact of every typed market.                           *)
LEMMA TypedPreChecks ==
  ASSUME MarketTyped
  PROVE  PreCheckExact
<1> SUFFICES ASSUME NEW a \in DOMAIN properties, NEW b \in DOMAIN offers,
                    NEW i \in DOMAIN request.rows,
                    HasRule(request.rows[i]), Readable(request.rows[i])
             PROVE  Checked(request, properties[a], offers[b], request.rows[i], FromRow(request, i))
  BY ZenonT(40) DEF PreCheckExact, Checked, Possible, Passed, AsRule
<1> SUFFICES ASSUME NEW p, p = properties[a], NEW o, o = offers[b], NEW r, r = request.rows[i],
                    NEW c, c = FromRow(request, i), HasRule(r), Readable(r)
             PROVE  Checked(request, p, o, r, c)
  OBVIOUS
<1>1. RequestTyped(request) /\ PropertyTyped(p) /\ OfferTyped(o)
  BY DEF MarketTyped
<1>2. r \in Range(request.rows)
  BY DEF Range
<1>3. Stands(AsRule(c), r)
  <2>1. PICK k : k = AsRule(c)
    OBVIOUS
  <2>2. k.code[1] = r.code /\ k.operator = r.operator /\ k.value = r.value
    BY <2>1 DEF FromRow, AsRule
  <2> QED BY <2>1, <2>2 DEF Stands
<1>4. ASSUME NEW x \in Compared(request, r)
      PROVE  Stands(AsRule(x), x)
  <2>1. PICK v : x = Column(r.code, "REQUIRED", "EQ", v)
    BY ComparedIs
  <2>2. PICK k : k = AsRule(x)
    OBVIOUS
  <2>3. k.code[1] = x.code /\ k.operator = x.operator /\ k.value = x.value
    BY <2>1, <2>2 DEF Column, AsRule
  <2> QED BY <2>2, <2>3 DEF Stands
<1>5. CanPass(r.code, r.operator, r.value) <=>
        \E w \in Possible(r.code, request, p, o) : Passed(c, w)
  <2>1. CASE r.code \in {"TRANSACTION_INTENT", "PROPERTY_TYPE"}
    BY <1>1, <1>3, <2>1, NamedCheck DEF Passed
  <2>2. CASE r.code = "LOCATION"
    <3>1. PICK k : k = AsRule(c) /\ Stands(k, r)
      BY <1>3
    <3>2. /\ CanPass(r.code, r.operator, r.value)
          /\ \E w \in Possible(r.code, request, p, o) : Rule(k, w.p, w.o).is = "PASS"
      BY <1>1, <2>2, <3>1, PlaceCheck
    <3> QED BY <3>1, <3>2 DEF Passed
  <2>3. CASE r.code \in NumberCodes \union OptionCodes
    BY <1>1, <1>2, <1>3, <2>3, MetCheck DEF Passed
  <2> QED BY <2>1, <2>2, <2>3, ReadableIs
<1>6. ASSUME NEW x \in Compared(request, r)
      PROVE  (\A v \in x.value : Disjoint(r.code, v, r.value))
               <=> ~ \E w \in Possible(r.code, request, p, o) : Passed(c, w) /\ Passed(x, w)
  BY <1>1, <1>3, <1>4, BothCheck DEF Passed
<1> QED BY <1>5, <1>6 DEF Checked

-----------------------------------------------------------------------------
(* The inductive invariant                                                 *)

IInv == MarketTyped /\ AllSound /\ (diagnostic # None => Cites(diagnostic))

(* The assumptions on the worlds are those a request is saved under.       *)
LEMMA InitInvariant == Init => IInv
<1> SUFFICES ASSUME Init PROVE IInv
  OBVIOUS
<1>1. PICK w \in Worlds : /\ request = w.request /\ properties = w.properties
                          /\ offers = w.offers /\ release = w.release
  BY DEF Init
<1>2. MarketTyped
  BY <1>1, Snapshots DEF MarketTyped, RequestTyped, PropertyTyped, OfferTyped
<1>3. AllSound /\ diagnostic = None
  BY DEF Init, AllSound
<1> QED BY <1>2, <1>3 DEF IInv

(* A run keeps it.                                                         *)
LEMMA RunKeeps ==
  ASSUME IInv, NEW listed, Run(listed)
  PROVE  IInv'
<1> DEFINE evaluated == {Evaluation(c) : c \in Candidates(listed)}
           found == {Stored(e) : e \in evaluated}
<1>0. MarketTyped /\ AllSound
  BY DEF IInv
<1>1. MarketTyped'
  BY <1>0 DEF Run, MarketTyped, market
<1>2. \A m \in found : Sound(m) /\ (m \in matches \/ m.at = now)
  <2> SUFFICES ASSUME NEW c \in Candidates(listed)
               PROVE  LET m == Stored(Evaluation(c)) IN Sound(m) /\ (m \in matches \/ m.at = now)
    OBVIOUS
  <2> QED BY <1>0, StoredSound
<1>7. \A c \in Candidates(listed) :
        LET m == Stored(Evaluation(c)) IN m.pair = c /\ m.q = request /\ Facts(m)
  <2> SUFFICES ASSUME NEW c \in Candidates(listed)
               PROVE  LET m == Stored(Evaluation(c)) IN m.pair = c /\ m.q = request /\ Facts(m)
    OBVIOUS
  <2>1. PICK m : m = Stored(Evaluation(c))
    OBVIOUS
  <2>2. m.pair = c /\ m.q = request /\ m.p = properties[c[1]] /\ m.o = offers[c[2]]
    BY <1>0, <2>1, StoredSound
  <2>3. c[1] \in DOMAIN properties /\ c[2] \in DOMAIN offers
    BY DEF Candidates, IsCandidate, Qualifying
  <2>4. Accepted(request)
    BY DEF Run
  <2> QED BY <1>0, <2>1, <2>2, <2>3, <2>4 DEF Facts, MarketTyped
<1>8. \A m, n \in found : Facts(m) /\ m.q = n.q /\ (m.pair = n.pair => m = n)
  BY <1>7
<1>3. /\ matches' = matches \union found
      /\ diagnostic'.found = found /\ diagnostic'.new = found \ matches /\ diagnostic'.at = now
      /\ diagnostic'.counts = Counts(evaluated) /\ diagnostic'.actions = Actions(found)
      /\ diagnostic'.scenarios = Scenarios(found)
  BY DEF Run
<1>4. Counts(evaluated) = Counts(found)
  <2>1. PICK E, F : E = evaluated /\ F = found
    OBVIOUS
  <2>2. E = {Evaluation(c) : c \in Candidates(listed)} /\ F = {Stored(e) : e \in E}
    BY <2>1
  <2>3. Counts(E) = Counts(F)
    BY <1>0, <2>2, CountsCited
  <2> QED BY <2>1, <2>3
<1> HIDE DEF evaluated, found
<1>5. AllSound'
  BY <1>0, <1>2, <1>3 DEF AllSound
<1>6. Cites(diagnostic')
  BY <1>2, <1>3, <1>4, <1>8 DEF Cites
<1> QED BY <1>1, <1>5, <1>6 DEF IInv

(* The writers of the facts, the clock and a release keep it.              *)
LEMMA OthersKeep ==
  ASSUME IInv, UNCHANGED <<matches, diagnostic>>, MarketTyped'
  PROVE  IInv'
BY DEF IInv, AllSound

(* A raised row has the value written, and its others as they were.        *)
LEMMA RaisedIs ==
  ASSUME NEW x, NEW field, NEW value
  PROVE  /\ DOMAIN Raised(x, field, value) = DOMAIN x
         /\ \A k \in DOMAIN x \ {"version"} :
              Raised(x, field, value)[k] = IF k = field THEN value ELSE x[k]
<1>1. PICK y : y = [x EXCEPT ![field] = value]
  OBVIOUS
<1>2. DOMAIN y = DOMAIN x /\ \A k \in DOMAIN x : y[k] = IF k = field THEN value ELSE x[k]
  BY <1>1
<1>3. Raised(x, field, value) = [y EXCEPT !.version = @ + 1]
  BY <1>1 DEF Raised
<1> QED BY <1>2, <1>3

(* A raised request keeps its rows.                                        *)
LEMMA MarketKept ==
  ASSUME MarketTyped,
         \/ \E p \in DOMAIN properties : PatchProperty(p) \/ RecordAttribute(p) \/ ConfirmAvailability(p)
         \/ \E o \in DOMAIN offers : PatchOffer(o) \/ ConfirmOffer(o)
         \/ \E b \in DOMAIN bindings : RevokeConsent(b)
         \/ ConfirmRequest \/ Tick \/ Release
         \/ \E w \in open : FinishTask(w)
  PROVE  MarketTyped' /\ UNCHANGED <<matches, diagnostic>>
<1>1. ASSUME NEW p \in DOMAIN properties,
             PatchProperty(p) \/ RecordAttribute(p) \/ ConfirmAvailability(p)
      PROVE  MarketTyped' /\ UNCHANGED <<matches, diagnostic>>
  <2>1. /\ UNCHANGED <<request, offers, release, matches, diagnostic>>
        /\ DOMAIN properties' = DOMAIN properties
        /\ \A x \in DOMAIN properties : x # p => properties'[x] = properties[x]
    BY <1>1 DEF PatchProperty, RecordAttribute, ConfirmAvailability, stored
  <2>2. PICK x : x = properties[p]
    OBVIOUS
  <2>3. PropertyTyped(x)
    BY <2>2 DEF MarketTyped
  <2>4. PropertyTyped(properties'[p])
    <3>1. CASE PatchProperty(p)
      <4>1. PICK e \in PropertyEdits : properties'[p] = Raised(x, e[1], e[2])
        BY <2>2, <3>1 DEF PatchProperty
      <4>2. e[1] # "fact" /\ (e[1] = "place" => e[2] \in Locations \union {None})
        BY Snapshots
      <4> QED BY <2>3, <4>1, <4>2 DEF PropertyTyped, Raised
    <3>2. CASE RecordAttribute(p)
      <4>1. PICK e \in FactEdits : properties'[p] = [x EXCEPT !.fact[e[1]] = e[2]]
        BY <2>2, <3>2 DEF RecordAttribute
      <4>2. PICK f : f = x.fact
        OBVIOUS
      <4>3. PICK g : g = [f EXCEPT ![e[1]] = e[2]]
        OBVIOUS
      <4>4. /\ FactCodes \subseteq DOMAIN g
            /\ \A c \in AreaCodes : g[c] \in Known(c)
            /\ \A c \in CountCodes : g[c] \in Known(c) \union {Unreadable}
        <5>1. /\ DOMAIN g = DOMAIN f
              /\ \A c \in DOMAIN g : g[c] = IF c = e[1] THEN e[2] ELSE f[c]
          BY <4>3
        <5>2. /\ FactCodes \subseteq DOMAIN f
              /\ \A c \in AreaCodes : f[c] \in Known(c)
              /\ \A c \in CountCodes : f[c] \in Known(c) \union {Unreadable}
          BY <2>3, <4>2 DEF PropertyTyped
        <5>3. /\ e[1] \in AreaCodes => e[2] \in Known(e[1])
              /\ e[1] \in CountCodes => e[2] \in Known(e[1]) \union {Unreadable}
          BY Snapshots
        <5>4. \A c \in AreaCodes \union CountCodes : c \in DOMAIN g
          BY <5>1, <5>2 DEF FactCodes
        <5> HIDE DEF AreaCodes, CountCodes
        <5> QED BY <5>1, <5>2, <5>3, <5>4
      <4>5. properties'[p] = [x EXCEPT !.fact = g]
        BY <4>1, <4>2, <4>3
      <4> QED BY <2>3, <4>4, <4>5 DEF PropertyTyped
    <3>3. CASE ConfirmAvailability(p)
      <4>1. PICK a : properties'[p] = Raised([x EXCEPT !.confirmed = now], "availability", a)
        BY <2>2, <3>3 DEF ConfirmAvailability
      <4> QED BY <2>3, <4>1 DEF PropertyTyped, Raised
    <3> QED BY <1>1, <3>1, <3>2, <3>3
  <2> QED BY <2>1, <2>4 DEF MarketTyped
<1>2. ASSUME NEW o \in DOMAIN offers, PatchOffer(o) \/ ConfirmOffer(o)
      PROVE  MarketTyped' /\ UNCHANGED <<matches, diagnostic>>
  <2>1. /\ UNCHANGED <<request, properties, release, matches, diagnostic>>
        /\ DOMAIN offers' = DOMAIN offers
        /\ \A x \in DOMAIN offers : x # o => offers'[x] = offers[x]
    BY <1>2 DEF PatchOffer, ConfirmOffer, stored
  <2>2. PICK x : x = offers[o]
    OBVIOUS
  <2>3. OfferTyped(x)
    BY <2>2 DEF MarketTyped
  <2>4. PICK field, value : /\ offers'[o] = Raised(x, field, value)
                            /\ field \in {"ask", "expectation"} => value \in Known("BUDGET_MAX")
    <3>1. CASE PatchOffer(o)
      BY <2>2, <3>1, Snapshots DEF PatchOffer
    <3>2. CASE ConfirmOffer(o)
      BY <2>2, <3>2 DEF ConfirmOffer
    <3> QED BY <1>2, <3>1, <3>2
  <2>5. OfferTyped(offers'[o])
    <3>1. /\ DOMAIN offers'[o] = DOMAIN x
          /\ offers'[o]["ask"] = IF field = "ask" THEN value ELSE x["ask"]
          /\ offers'[o]["expectation"] = IF field = "expectation" THEN value ELSE x["expectation"]
      BY <2>3, <2>4, RaisedIs DEF OfferTyped
    <3>2. offers'[o].ask \in Known("BUDGET_MAX") /\ offers'[o].expectation \in Known("BUDGET_MAX")
      BY <2>3, <2>4, <3>1 DEF OfferTyped
    <3> QED BY <2>3, <3>1, <3>2 DEF OfferTyped
  <2> QED BY <2>1, <2>5 DEF MarketTyped
<1>3. CASE \E b \in DOMAIN bindings : RevokeConsent(b)
  BY <1>3 DEF RevokeConsent, MarketTyped, stored
<1>4. CASE ConfirmRequest
  <2>1. UNCHANGED <<properties, offers, release, matches, diagnostic>>
    BY <1>4 DEF ConfirmRequest, stored
  <2>2. /\ DOMAIN request' = DOMAIN request
        /\ request'.rows = request.rows /\ request'.max = request.max
        /\ request'.intent = request.intent /\ request'.place = request.place
    BY <1>4 DEF ConfirmRequest, Raised, MarketTyped, RequestTyped
  <2>3. RequestTyped(request')
    BY <2>2 DEF MarketTyped, RequestTyped
  <2> QED BY <2>1, <2>3 DEF MarketTyped
<1>5. CASE Tick
  BY <1>5 DEF Tick, MarketTyped, market, stored
<1>6. CASE Release
  <2>1. UNCHANGED <<request, properties, offers, matches, diagnostic>>
    BY <1>6 DEF Release, market, stored
  <2>2. release' \in DOMAIN Releases
    BY <1>6 DEF Release, MarketTyped, Releases
  <2> QED BY <2>1, <2>2 DEF MarketTyped
<1>7. CASE \E w \in open : FinishTask(w)
  BY <1>7 DEF FinishTask, MarketTyped, market
<1> QED BY <1>1, <1>2, <1>3, <1>4, <1>5, <1>6, <1>7

(* Whatever is written, and whatever is released, each stored match still  *)
(* follows from its own snapshots, and the last diagnostic is of the       *)
(* matches it cites (Evaluation, Stored, Run).                             *)
THEOREM Invariance == Spec => []IInv
<1>1. Init => IInv
  BY InitInvariant
<1>2. IInv /\ [Next]_vars => IInv'
  <2> SUFFICES ASSUME IInv, [Next]_vars PROVE IInv'
    OBVIOUS
  <2>1. CASE \E listed \in Lists : Run(listed)
    BY <2>1, RunKeeps
  <2>2. CASE \/ \E p \in DOMAIN properties : PatchProperty(p) \/ RecordAttribute(p) \/ ConfirmAvailability(p)
             \/ \E o \in DOMAIN offers : PatchOffer(o) \/ ConfirmOffer(o)
             \/ \E b \in DOMAIN bindings : RevokeConsent(b)
             \/ ConfirmRequest \/ Tick \/ Release
             \/ \E w \in open : FinishTask(w)
    BY <2>2, MarketKept, OthersKeep DEF IInv
  <2>3. CASE UNCHANGED vars
    <3>1. UNCHANGED <<matches, diagnostic>> /\ MarketTyped'
      BY <2>3 DEF vars, market, stored, MarketTyped, IInv
    <3> QED BY <3>1, OthersKeep
  <2> QED BY <2>1, <2>2, <2>3 DEF Next
<1> QED BY <1>1, <1>2, PTL DEF Spec

(* Every stored match can be told again from its rows, its rules and its   *)
(* hash replay, and the last diagnostic counts the matches it cites, of    *)
(* any age, as the run counted its own evaluations.                        *)
THEOREM Replays == Spec => []StoredReplays
<1>1. IInv => StoredReplays
  <2> SUFFICES ASSUME IInv PROVE StoredReplays
    OBVIOUS
  <2>1. \A m \in matches :
          /\ Reconstructed(m) = <<m.results, m.freshness, m.permission, m.decided>>
          /\ Replayed(m) = <<[i \in DOMAIN m.results |-> m.results[i].says], m.hash>>
    BY SoundReplays DEF IInv, AllSound
  <2>2. diagnostic # None => /\ diagnostic.counts = Counts(diagnostic.found)
                             /\ \A m \in diagnostic.new : m.at = diagnostic.at
    BY DEF IInv, Cites
  <2> QED BY <2>1, <2>2 DEF StoredReplays
<1> QED BY <1>1, Invariance, PTL

(* The last diagnostic says the truth of the matches it was made of, of    *)
(* whatever market: a scenario turns the near matches it lists and no      *)
(* others, into what it says; a high-value unknown has an answer that      *)
(* makes its match eligible; and every match's next action is suggested    *)
(* (scenarios, high_value_unknown, next_actions).                          *)
THEOREM Truthful == Spec => []DiagnosticTrue
<1>1. IInv => DiagnosticTrue
  BY CitedScenarios, CitedHighValue, CitedSuggested DEF IInv, DiagnosticTrue
<1> QED BY <1>1, Invariance, PTL

(* The pre-check refuses a readable row exactly when no property or offer  *)
(* can pass it, and a required row beside a required value of the request  *)
(* exactly when none can pass both (can_pass, _disjoint).                  *)
THEOREM PreChecks == Spec => []PreCheckExact
<1>1. IInv => PreCheckExact
  BY TypedPreChecks DEF IInv
<1> QED BY <1>1, Invariance, PTL
=============================================================================
