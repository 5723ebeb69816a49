------------------------- MODULE MatchReviewProofs --------------------------
(* Proofs about MatchReview, for every set of actors and properties, every *)
(* workload and every state to start from.                                 *)
EXTENDS MatchReview, FiniteSetTheorems, WellFoundedInduction, TLAPS

(* What a job's fields are.                                                *)
LEMMA JobTypes ==
  ASSUME NEW j \in Job
  PROVE  /\ j.kind \in Reviewing \union Commands \union {"run", "write", "bind", "consolidate"}
         /\ j.property \in Properties /\ j.into \in Properties /\ j.fact \in Facts
         /\ j.value \in Classes
BY DEF Job, ReviewMatch, RunMatching, RevalidateOpportunity, ShareOpportunity, CloseOpportunity,
       Writers, Asked, Commands

(* The rows that can be locked.                                            *)
LEMMA Locked ==
  /\ <<"request", 0>> \in Facts
  /\ \A p \in Properties : /\ <<"property", p>> \in Facts /\ <<"offer", p>> \in Facts
                           /\ <<"binding", p>> \in Facts
  /\ \A f \in Facts : f \in Lockable
  /\ \A i \in Ids : <<"match", i>> \in Lockable /\ <<"opportunity", i>> \in Lockable
BY DEF Facts, Request, Lockable

(* The lock statements a transaction of any kind may make.                 *)
LEMMA LockStatements ==
  ASSUME NEW kind, NEW mode \in 1..4
  PROVE  /\ Locks("request", 0, mode) \in Statements(kind)
         /\ \A p \in Properties : /\ Locks("property", p, mode) \in Statements(kind)
                                  /\ Locks("offer", p, mode) \in Statements(kind)
                                  /\ Locks("binding", p, mode) \in Statements(kind)
         /\ \A i \in Ids : /\ Locks("match", i, mode) \in Statements(kind)
                           /\ Locks("opportunity", i, mode) \in Statements(kind)
         /\ \A f \in Facts : <<"lock", f, mode>> \in Statements(kind)
<1>1. \A r \in Lockable : <<"lock", r, mode>> \in Statements(kind)
  BY DEF Statements, Update
<1> QED BY <1>1, Locked DEF Locks

(* The other statements of each kind.                                      *)
LEMMA OtherStatements ==
  ASSUME NEW kind
  PROVE  /\ \A c \in Checks(kind) : Check(c) \in Statements(kind)
         /\ kind \in Reviewing \union Commands => <<"facts">> \in Statements(kind)
         /\ kind = "run" => /\ <<"snapshot">> \in Statements(kind)
                            /\ \A ms \in SUBSET Match : <<"insert", ms>> \in Statements(kind)
         /\ kind = "consolidate" => /\ <<"work">> \in Statements(kind)
                                    /\ \A is \in SUBSET Ids : <<"task", is>> \in Statements(kind)
<1>1. \A c \in Checks(kind) : Check(c) \in Statements(kind)
  BY DEF Statements, Check
<1>2. kind \in Reviewing \union Commands => <<"facts">> \in Statements(kind)
  BY DEF Statements, Reviewing, Commands
<1>3. kind = "run" => /\ <<"snapshot">> \in Statements(kind)
                      /\ \A ms \in SUBSET Match : <<"insert", ms>> \in Statements(kind)
  BY DEF Statements, Reviewing, Commands
<1>4. kind = "consolidate" => /\ <<"work">> \in Statements(kind)
                              /\ \A is \in SUBSET Ids : <<"task", is>> \in Statements(kind)
  BY DEF Statements, Reviewing, Commands
<1> QED BY <1>1, <1>2, <1>3, <1>4

(* What each statement is about.                                           *)
LEMMA Whats ==
  /\ \A kind, n, mode : What(Locks(kind, n, mode)) = "lock"
  /\ \A r, mode : What(<<"lock", r, mode>>) = "lock"
  /\ \A c : What(Check(c)) = c
  /\ What(<<"facts">>) = "facts" /\ What(<<"snapshot">>) = "snapshot" /\ What(<<"work">>) = "work"
  /\ \A s : What(<<"insert", s>>) = "insert" /\ What(<<"task", s>>) = "task"
BY DEF What, Locks, Check

(* What needs nothing before it.                                           *)
LEMMA NeedsNothing ==
  ASSUME NEW j, NEW i, NEW s, What(s) \in {"lock", "gates", "snapshot", "insert", "task"}
  PROVE  Needed(j, i, s) = {}
BY DEF Needed, Guards

(* What needs something comes after it.                                    *)
Ordered(j, i, q) ==
  \A k \in DOMAIN q : \A g \in Needed(j, i, q[k]) : \E m \in 1..(k - 1) : q[m] = g

(* A match has an id, and it is of a property.                             *)
LEMMA MatchTypes ==
  ASSUME TypeOK, Constants, NEW i \in DOMAIN matches
  PROVE  /\ i \in Ids /\ i \in Nat /\ i # 0
         /\ matches[i] \in Match /\ PropertyOf(i) \in Properties /\ matches[i].at \in Nat
         /\ matches[i].eligibility \in Eligibility
<1>1. matches \in Seq(Match) /\ DOMAIN matches \subseteq Ids
  BY DEF TypeOK
<1>2. i \in Nat /\ i # 0 /\ matches[i] \in Match
  BY <1>1
<1>3. \A m \in Match : /\ m.property \in Properties /\ m.at \in Nat
                       /\ m.eligibility \in Eligibility
  BY DEF Match
<1> QED BY <1>1, <1>2, <1>3 DEF PropertyOf

(* What a sequence holds.                                                  *)
LEMMA Members ==
  ASSUME NEW S, NEW q \in Seq(S)
  PROVE  DOMAIN q = 1..Len(q) /\ Len(q) \in Nat /\ \A k \in 1..Len(q) : q[k] \in Of(q) /\ q[k] \in S
BY DEF Of

(* The statements of an approval.                                          *)
LEMMA ApprovalText ==
  ASSUME TypeOK, Constants, NEW j \in Job, j.kind = "APPROVED", NEW i \in DOMAIN matches
  PROVE  LET q == Program(j, i)
             p == PropertyOf(i)
         IN /\ q \in Seq(Statements(j.kind)) /\ Len(q) = 12
            /\ q[1] = Locks("match", i, Update) /\ q[2] = Check("decided") /\ q[3] = Check("gates")
            /\ q[4] = Locks("request", 0, Update) /\ q[5] = Check("superseded")
            /\ q[6] = Locks("request", 0, NoKeyUpdate) /\ q[7] = Locks("property", p, Share)
            /\ q[8] = Locks("offer", p, Share) /\ q[9] = Locks("binding", p, Share)
            /\ q[10] = <<"facts">> /\ q[11] = Check("valid") /\ q[12] = Check("open")
<1> DEFINE p == PropertyOf(i)
           S == Statements(j.kind)
           q == Program(j, i)
<1>0. i \in Ids /\ i # 0 /\ p \in Properties
  BY MatchTypes
<1>1. q = <<Locks("match", i, Update), Check("decided")>>
           \o <<Check("gates"), Locks("request", 0, Update), Check("superseded")>>
           \o <<Locks("request", 0, NoKeyUpdate), Locks("property", p, Share),
                Locks("offer", p, Share), Locks("binding", p, Share), <<"facts">>>>
           \o <<Check("valid"), Check("open")>>
  BY <1>0 DEF Program, Currency, MatchMode, RequestMode
<1>2. /\ \A m \in 1..4 : /\ Locks("request", 0, m) \in S /\ Locks("match", i, m) \in S
                         /\ Locks("property", p, m) \in S /\ Locks("offer", p, m) \in S
                         /\ Locks("binding", p, m) \in S
      /\ Check("decided") \in S /\ Check("gates") \in S /\ Check("superseded") \in S
      /\ <<"facts">> \in S /\ Check("valid") \in S /\ Check("open") \in S
  BY <1>0, LockStatements, OtherStatements DEF Checks, Reviewing, Commands
<1> HIDE DEF p, q, S
<1>3. /\ q \in Seq(S) /\ Len(q) = 12
      /\ q[1] = Locks("match", i, Update) /\ q[2] = Check("decided") /\ q[3] = Check("gates")
      /\ q[4] = Locks("request", 0, Update) /\ q[5] = Check("superseded")
      /\ q[6] = Locks("request", 0, NoKeyUpdate) /\ q[7] = Locks("property", p, Share)
      /\ q[8] = Locks("offer", p, Share) /\ q[9] = Locks("binding", p, Share)
      /\ q[10] = <<"facts">> /\ q[11] = Check("valid") /\ q[12] = Check("open")
  BY <1>1, <1>2 DEF Update, NoKeyUpdate, Share
<1> QED BY <1>3 DEF p, q, S

(* The program of an approval.                                             *)
LEMMA ApprovalProgram ==
  ASSUME TypeOK, Constants, NEW j \in Job, j.kind = "APPROVED", NEW i \in DOMAIN matches
  PROVE  LET q == Program(j, i)
         IN /\ q \in Seq(Statements(j.kind)) /\ Ordered(j, i, q)
            /\ {Check("decided"), Check("gates"), Check("superseded"), <<"facts">>, Check("valid"),
                Check("open")} \subseteq Of(q)
<1> DEFINE p == PropertyOf(i)
           S == Statements(j.kind)
           q == Program(j, i)
<1> HIDE DEF p, q, S
<1>3. /\ q \in Seq(S) /\ Len(q) = 12
      /\ q[1] = Locks("match", i, Update) /\ q[2] = Check("decided") /\ q[3] = Check("gates")
      /\ q[4] = Locks("request", 0, Update) /\ q[5] = Check("superseded")
      /\ q[6] = Locks("request", 0, NoKeyUpdate) /\ q[7] = Locks("property", p, Share)
      /\ q[8] = Locks("offer", p, Share) /\ q[9] = Locks("binding", p, Share)
      /\ q[10] = <<"facts">> /\ q[11] = Check("valid") /\ q[12] = Check("open")
  BY ApprovalText DEF p, q, S
<1>4. Ordered(j, i, q)
  <2> SUFFICES ASSUME NEW k \in 1..12, NEW g \in Needed(j, i, q[k])
               PROVE  \E m \in 1..(k - 1) : q[m] = g
    BY <1>3 DEF Ordered
  <2> USE <1>3, Whats DEF Needed
  <2>1. CASE What(q[k]) \in {"lock", "gates"}
    BY <2>1, NeedsNothing
  <2>2. CASE k = 2
    BY <2>2 DEF Guards, MatchMode
  <2>3. CASE k = 5
    BY <2>3 DEF Guards, RequestMode
  <2>4. CASE k \in {10, 11}
    <3>1. g \in FactLocks(j, i) \/ (k = 11 /\ g = <<"facts">>)
      BY <2>4, SMTT(30) DEF Guards
    <3>2. FactLocks(j, i) = {q[6], q[7], q[8], q[9]}
      BY DEF FactLocks, p
    <3>3. CASE g \in {q[6], q[7], q[8], q[9]}
      <4>1. PICK m \in 6..9 : g = q[m]
        BY <3>3
      <4>2. m \in 1..(k - 1)
        BY <2>4
      <4> QED BY <4>1, <4>2
    <3>4. CASE k = 11 /\ g = <<"facts">>
      BY <3>4
    <3> QED BY <3>1, <3>2, <3>3, <3>4
  <2>5. CASE k = 12
    BY <2>5 DEF Guards, RequestMode, p
  <2> QED BY <2>1, <2>2, <2>3, <2>4, <2>5
<1>5. \A k \in 1..12 : q[k] \in Of(q)
  BY <1>3, Members
<1>6. /\ q[2] \in Of(q) /\ q[3] \in Of(q) /\ q[5] \in Of(q)
      /\ q[10] \in Of(q) /\ q[11] \in Of(q) /\ q[12] \in Of(q)
  BY <1>5
<1> QED BY <1>3, <1>4, <1>6 DEF q, S

(* The statements of a share.                                              *)
LEMMA ShareText ==
  ASSUME TypeOK, Constants, NEW j \in Job, j.kind = "share", NEW i \in DOMAIN matches
  PROVE  LET q == Program(j, i)
             p == PropertyOf(i)
         IN /\ q \in Seq(Statements(j.kind)) /\ Len(q) = 10
            /\ q[1] = Locks("opportunity", i, Update) /\ q[2] = Check("closed") /\ q[3] = Check("stored")
            /\ q[4] = Locks("request", 0, NoKeyUpdate) /\ q[5] = Locks("property", p, Update)
            /\ q[6] = Locks("offer", p, Update) /\ q[7] = Locks("binding", p, Share)
            /\ q[8] = <<"facts">> /\ q[9] = Check("valid") /\ q[10] = Check("contact")
<1> DEFINE p == PropertyOf(i)
           S == Statements(j.kind)
           q == Program(j, i)
<1>0. i \in Ids /\ i # 0 /\ p \in Properties
  BY MatchTypes
<1>1. q = <<Locks("opportunity", i, Update), Check("closed")>> \o <<Check("stored")>>
           \o <<Locks("request", 0, NoKeyUpdate), Locks("property", p, Update),
                Locks("offer", p, Update), Locks("binding", p, Share), <<"facts">>>>
           \o <<Check("valid"), Check("contact")>>
  BY <1>0 DEF Program, Currency, ShareMode, Reviewing
<1>2. /\ \A m \in 1..4 : /\ Locks("request", 0, m) \in S /\ Locks("opportunity", i, m) \in S
                         /\ Locks("property", p, m) \in S /\ Locks("offer", p, m) \in S
                         /\ Locks("binding", p, m) \in S
      /\ Check("closed") \in S /\ Check("stored") \in S
      /\ <<"facts">> \in S /\ Check("valid") \in S /\ Check("contact") \in S
  BY <1>0, LockStatements, OtherStatements DEF Checks, Reviewing, Commands
<1> HIDE DEF p, q, S
<1>3. /\ q \in Seq(S) /\ Len(q) = 10
      /\ q[1] = Locks("opportunity", i, Update) /\ q[2] = Check("closed") /\ q[3] = Check("stored")
      /\ q[4] = Locks("request", 0, NoKeyUpdate) /\ q[5] = Locks("property", p, Update)
      /\ q[6] = Locks("offer", p, Update) /\ q[7] = Locks("binding", p, Share)
      /\ q[8] = <<"facts">> /\ q[9] = Check("valid") /\ q[10] = Check("contact")
  BY <1>1, <1>2 DEF Update, NoKeyUpdate, Share
<1> QED BY <1>3 DEF p, q, S

(* The program of a share.                                                 *)
LEMMA ShareProgram ==
  ASSUME TypeOK, Constants, NEW j \in Job, j.kind = "share", NEW i \in DOMAIN matches
  PROVE  LET q == Program(j, i)
         IN /\ q \in Seq(Statements(j.kind)) /\ Ordered(j, i, q)
            /\ {Check("closed"), <<"facts">>, Check("valid"), Check("contact")} \subseteq Of(q)
<1> DEFINE p == PropertyOf(i)
           S == Statements(j.kind)
           q == Program(j, i)
<1> HIDE DEF p, q, S
<1>3. /\ q \in Seq(S) /\ Len(q) = 10
      /\ q[1] = Locks("opportunity", i, Update) /\ q[2] = Check("closed") /\ q[3] = Check("stored")
      /\ q[4] = Locks("request", 0, NoKeyUpdate) /\ q[5] = Locks("property", p, Update)
      /\ q[6] = Locks("offer", p, Update) /\ q[7] = Locks("binding", p, Share)
      /\ q[8] = <<"facts">> /\ q[9] = Check("valid") /\ q[10] = Check("contact")
  BY ShareText DEF p, q, S
<1>4. Ordered(j, i, q)
  <2> SUFFICES ASSUME NEW k \in 1..10, NEW g \in Needed(j, i, q[k])
               PROVE  \E m \in 1..(k - 1) : q[m] = g
    BY <1>3 DEF Ordered
  <2> USE <1>3, Whats DEF Needed
  <2>1. CASE What(q[k]) = "lock"
    BY <2>1, NeedsNothing
  <2>2. CASE k \in {2, 3}
    BY <2>2 DEF Guards
  <2>3. CASE k \in {8, 9}
    <3>1. g \in FactLocks(j, i) \/ (k = 9 /\ g = <<"facts">>)
      BY <2>3, SMTT(30) DEF Guards
    <3>2. FactLocks(j, i) = {q[4], q[5], q[6], q[7]}
      BY DEF FactLocks, p, ShareMode
    <3>3. CASE g \in {q[4], q[5], q[6], q[7]}
      <4>1. PICK m \in 4..7 : g = q[m]
        BY <3>3
      <4>2. m \in 1..(k - 1)
        BY <2>3
      <4> QED BY <4>1, <4>2
    <3>4. CASE k = 9 /\ g = <<"facts">>
      BY <3>4
    <3> QED BY <3>1, <3>2, <3>3, <3>4
  <2>4. CASE k = 10
    BY <2>4 DEF Guards, ShareMode, p
  <2> QED BY <2>1, <2>2, <2>3, <2>4
<1>5. \A k \in 1..10 : q[k] \in Of(q)
  BY <1>3, Members
<1>6. q[2] \in Of(q) /\ q[8] \in Of(q) /\ q[9] \in Of(q) /\ q[10] \in Of(q)
  BY <1>5
<1> QED BY <1>3, <1>4, <1>6 DEF q, S

(* The statements of a revalidation.                                       *)
LEMMA RevalidationText ==
  ASSUME TypeOK, Constants, NEW j \in Job, j.kind = "revalidate", NEW i \in DOMAIN matches
  PROVE  LET q == Program(j, i)
             p == PropertyOf(i)
         IN /\ q \in Seq(Statements(j.kind)) /\ Len(q) = 7
            /\ q[1] = Locks("opportunity", i, Update) /\ q[2] = Check("closed")
            /\ q[3] = Locks("request", 0, NoKeyUpdate) /\ q[4] = Locks("property", p, Share)
            /\ q[5] = Locks("offer", p, Share) /\ q[6] = Locks("binding", p, Share) /\ q[7] = <<"facts">>
<1> DEFINE p == PropertyOf(i)
           S == Statements(j.kind)
           q == Program(j, i)
<1>0. i \in Ids /\ i # 0 /\ p \in Properties
  BY MatchTypes
<1>1. q = <<Locks("opportunity", i, Update), Check("closed")>>
           \o <<Locks("request", 0, NoKeyUpdate), Locks("property", p, Share),
                Locks("offer", p, Share), Locks("binding", p, Share), <<"facts">>>>
  BY <1>0 DEF Program, Currency
<1>2. /\ \A m \in 1..4 : /\ Locks("request", 0, m) \in S /\ Locks("opportunity", i, m) \in S
                         /\ Locks("property", p, m) \in S /\ Locks("offer", p, m) \in S
                         /\ Locks("binding", p, m) \in S
      /\ Check("closed") \in S /\ <<"facts">> \in S
  BY <1>0, LockStatements, OtherStatements DEF Checks, Reviewing, Commands
<1> HIDE DEF p, q, S
<1>3. /\ q \in Seq(S) /\ Len(q) = 7
      /\ q[1] = Locks("opportunity", i, Update) /\ q[2] = Check("closed")
      /\ q[3] = Locks("request", 0, NoKeyUpdate) /\ q[4] = Locks("property", p, Share)
      /\ q[5] = Locks("offer", p, Share) /\ q[6] = Locks("binding", p, Share) /\ q[7] = <<"facts">>
  BY <1>1, <1>2 DEF Update, NoKeyUpdate, Share
<1> QED BY <1>3 DEF p, q, S

(* The program of a revalidation.                                          *)
LEMMA RevalidationProgram ==
  ASSUME TypeOK, Constants, NEW j \in Job, j.kind = "revalidate", NEW i \in DOMAIN matches
  PROVE  LET q == Program(j, i)
         IN /\ q \in Seq(Statements(j.kind)) /\ Ordered(j, i, q)
            /\ {Check("closed"), <<"facts">>} \subseteq Of(q)
<1> DEFINE p == PropertyOf(i)
           S == Statements(j.kind)
           q == Program(j, i)
<1> HIDE DEF p, q, S
<1>3. /\ q \in Seq(S) /\ Len(q) = 7
      /\ q[1] = Locks("opportunity", i, Update) /\ q[2] = Check("closed")
      /\ q[3] = Locks("request", 0, NoKeyUpdate) /\ q[4] = Locks("property", p, Share)
      /\ q[5] = Locks("offer", p, Share) /\ q[6] = Locks("binding", p, Share) /\ q[7] = <<"facts">>
  BY RevalidationText DEF p, q, S
<1>4. Ordered(j, i, q)
  <2> SUFFICES ASSUME NEW k \in 1..7, NEW g \in Needed(j, i, q[k])
               PROVE  \E m \in 1..(k - 1) : q[m] = g
    BY <1>3 DEF Ordered
  <2> USE <1>3, Whats DEF Needed
  <2>1. CASE What(q[k]) = "lock"
    BY <2>1, NeedsNothing
  <2>2. CASE k = 2
    BY <2>2 DEF Guards
  <2>3. CASE k = 7
    <3>1. g \in FactLocks(j, i)
      BY <2>3 DEF Guards
    <3>2. FactLocks(j, i) = {q[3], q[4], q[5], q[6]}
      BY DEF FactLocks, p
    <3> QED BY <3>1, <3>2, <2>3
  <2> QED BY <2>1, <2>2, <2>3
<1>5. \A k \in 1..7 : q[k] \in Of(q)
  BY <1>3, Members
<1>6. q[2] \in Of(q) /\ q[7] \in Of(q)
  BY <1>5
<1> QED BY <1>3, <1>4, <1>6 DEF q, S

(* The statements of a close.                                              *)
LEMMA CloseText ==
  ASSUME TypeOK, Constants, NEW j \in Job, j.kind = "close", NEW i \in DOMAIN matches
  PROVE  LET q == Program(j, i)
         IN /\ q \in Seq(Statements(j.kind)) /\ Len(q) = 2
            /\ q[1] = Locks("opportunity", i, Update) /\ q[2] = Check("closed")
<1> DEFINE S == Statements(j.kind)
           q == Program(j, i)
<1>0. i \in Ids /\ i # 0
  BY MatchTypes
<1>1. q = <<Locks("opportunity", i, Update), Check("closed")>>
  BY <1>0 DEF Program, Reviewing
<1>2. Locks("opportunity", i, Update) \in S /\ Check("closed") \in S
  BY <1>0, LockStatements, OtherStatements DEF Checks, Reviewing, Commands, Update
<1> HIDE DEF q, S
<1>3. /\ q \in Seq(S) /\ Len(q) = 2
      /\ q[1] = Locks("opportunity", i, Update) /\ q[2] = Check("closed")
  BY <1>1, <1>2
<1> QED BY <1>3 DEF q, S

(* The program of a close.                                                 *)
LEMMA CloseProgram ==
  ASSUME TypeOK, Constants, NEW j \in Job, j.kind = "close", NEW i \in DOMAIN matches
  PROVE  LET q == Program(j, i)
         IN /\ q \in Seq(Statements(j.kind)) /\ Ordered(j, i, q)
            /\ Check("closed") \in Of(q)
<1> DEFINE S == Statements(j.kind)
           q == Program(j, i)
<1> HIDE DEF q, S
<1>3. /\ q \in Seq(S) /\ Len(q) = 2
      /\ q[1] = Locks("opportunity", i, Update) /\ q[2] = Check("closed")
  BY CloseText DEF q, S
<1>4. Ordered(j, i, q)
  <2> SUFFICES ASSUME NEW k \in 1..2, NEW g \in Needed(j, i, q[k])
               PROVE  \E m \in 1..(k - 1) : q[m] = g
    BY <1>3 DEF Ordered
  <2>1. CASE k = 1
    BY <1>3, <2>1, Whats, NeedsNothing
  <2>2. CASE k = 2
    BY <1>3, <2>2, Whats DEF Needed, Guards
  <2> QED BY <2>1, <2>2
<1> QED BY <1>3, <1>4, Members DEF q, S

(* The statements of a rejection or a request for information.             *)
LEMMA ReviewText ==
  ASSUME TypeOK, Constants, NEW j \in Job, j.kind \in {"REJECTED", "NEED_MORE_INFORMATION"},
         NEW i \in DOMAIN matches
  PROVE  LET q == Program(j, i)
             p == PropertyOf(i)
         IN /\ q \in Seq(Statements(j.kind)) /\ Len(q) \in {2, 5}
            /\ q[1] = Locks("match", i, Update) /\ q[2] = Check("decided")
            /\ Len(q) = 5 => /\ q[3] = Locks("request", 0, KeyShare)
                             /\ q[4] = Locks("property", p, KeyShare)
                             /\ q[5] = Locks("match", i, KeyShare)
<1> DEFINE p == PropertyOf(i)
           S == Statements(j.kind)
           q == Program(j, i)
<1>0. i \in Ids /\ i # 0 /\ p \in Properties
  BY MatchTypes
<1>1. IF j.kind = "REJECTED" THEN q = <<Locks("match", i, Update), Check("decided")>>
      ELSE q = <<Locks("match", i, Update), Check("decided")>>
                 \o <<Locks("request", 0, KeyShare), Locks("property", p, KeyShare),
                      Locks("match", i, KeyShare)>>
  BY <1>0 DEF Program, TaskKeys, MatchMode
<1>2. /\ \A m \in 1..4 : /\ Locks("request", 0, m) \in S /\ Locks("match", i, m) \in S
                         /\ Locks("property", p, m) \in S
      /\ Check("decided") \in S
  BY <1>0, LockStatements, OtherStatements DEF Checks, Reviewing, Commands
<1> HIDE DEF p, q, S
<1>3. /\ q \in Seq(S) /\ Len(q) \in {2, 5}
      /\ q[1] = Locks("match", i, Update) /\ q[2] = Check("decided")
      /\ Len(q) = 5 => /\ q[3] = Locks("request", 0, KeyShare)
                       /\ q[4] = Locks("property", p, KeyShare)
                       /\ q[5] = Locks("match", i, KeyShare)
  <2>1. CASE j.kind = "REJECTED"
    <3>1. q = <<Locks("match", i, Update), Check("decided")>>
      BY <1>1, <2>1
    <3>2. Locks("match", i, Update) \in S /\ Check("decided") \in S
      BY <1>2 DEF Update
    <3> QED BY <3>1, <3>2
  <2>2. CASE j.kind # "REJECTED"
    <3>1. q = <<Locks("match", i, Update), Check("decided")>>
               \o <<Locks("request", 0, KeyShare), Locks("property", p, KeyShare),
                    Locks("match", i, KeyShare)>>
      BY <1>1, <2>2
    <3>2. /\ Locks("match", i, Update) \in S /\ Check("decided") \in S
          /\ Locks("request", 0, KeyShare) \in S /\ Locks("property", p, KeyShare) \in S
          /\ Locks("match", i, KeyShare) \in S
      BY <1>2 DEF Update, KeyShare
    <3> QED BY <3>1, <3>2
  <2> QED BY <2>1, <2>2
<1> QED BY <1>3 DEF p, q, S

(* The program of a rejection or a request for information.                *)
LEMMA ReviewProgram ==
  ASSUME TypeOK, Constants, NEW j \in Job, j.kind \in {"REJECTED", "NEED_MORE_INFORMATION"},
         NEW i \in DOMAIN matches
  PROVE  LET q == Program(j, i)
         IN /\ q \in Seq(Statements(j.kind)) /\ Ordered(j, i, q)
            /\ Check("decided") \in Of(q)
<1> DEFINE p == PropertyOf(i)
           S == Statements(j.kind)
           q == Program(j, i)
<1> HIDE DEF p, q, S
<1>3. /\ q \in Seq(S) /\ Len(q) \in {2, 5}
      /\ q[1] = Locks("match", i, Update) /\ q[2] = Check("decided")
      /\ Len(q) = 5 => /\ q[3] = Locks("request", 0, KeyShare)
                       /\ q[4] = Locks("property", p, KeyShare)
                       /\ q[5] = Locks("match", i, KeyShare)
  BY ReviewText DEF p, q, S
<1>4. Ordered(j, i, q)
  <2> SUFFICES ASSUME NEW k \in 1..Len(q), NEW g \in Needed(j, i, q[k])
               PROVE  \E m \in 1..(k - 1) : q[m] = g
    BY <1>3, Members DEF Ordered
  <2>1. CASE k = 2
    BY <1>3, <2>1, Whats DEF Needed, Guards, MatchMode
  <2>2. CASE k # 2
    <3>1. What(q[k]) = "lock"
      BY <1>3, <2>2, Whats
    <3> QED BY <3>1, NeedsNothing
  <2> QED BY <2>1, <2>2
<1>5. 2 \in 1..Len(q)
  BY <1>3
<1> QED BY <1>3, <1>4, <1>5, Members DEF q, S

(* The programs of a run and of the writers of facts.                      *)
LEMMA RunProgram ==
  ASSUME NEW j \in Job, j.kind = "run", NEW i
  PROVE  Program(j, i) = <<<<"snapshot">>>>
BY DEF Program

LEMMA WriterProgram ==
  ASSUME NEW j \in Job, j.kind \in {"write", "bind"}, NEW i
  PROVE  LET lock == <<"lock", j.fact, IF j.kind = "bind" THEN KeyShare ELSE WriteMode(j.fact[1])>>
         IN Program(j, i) = <<lock>> /\ lock \in Statements(j.kind) /\ What(lock) = "lock"
<1> DEFINE lock == <<"lock", j.fact, IF j.kind = "bind" THEN KeyShare ELSE WriteMode(j.fact[1])>>
<1>1. Program(j, i) = <<lock>>
  BY DEF Program
<1>2. lock \in Statements(j.kind)
  BY JobTypes, LockStatements DEF WriteMode, KeyShare, Update, NoKeyUpdate
<1> QED BY <1>1, <1>2, Whats

(* The program of a consolidation.                                         *)
LEMMA ConsolidationProgram ==
  ASSUME Constants, NEW j \in Job, j.kind = "consolidate", j.property # j.into
  PROVE  LET q == Program(j, 0)
         IN q \in Seq(Statements(j.kind)) /\ Ordered(j, 0, q) /\ <<"work">> \in Of(q)
<1> DEFINE p == j.property
           a == Min2(p, j.into)
           b == Max2(p, j.into)
           S == Statements(j.kind)
           q == Program(j, 0)
<1>0. p \in Properties /\ j.into \in Properties /\ Properties \subseteq Nat
  BY JobTypes DEF Constants
<1>1. {a, b} = {p, j.into} /\ a \in Properties /\ b \in Properties
  BY <1>0 DEF Min2, Max2
<1>2. q = <<Locks("property", a, Update), Locks("property", b, Update), Check("aliases"), <<"work">>>>
  BY DEF Program, Reviewing
<1>3. /\ Locks("property", a, Update) \in S /\ Locks("property", b, Update) \in S
      /\ Check("aliases") \in S /\ <<"work">> \in S
  BY <1>1, LockStatements, OtherStatements DEF Checks, Reviewing, Commands, Update
<1>4. {Locks("property", p, Update), Locks("property", j.into, Update)}
        = {Locks("property", a, Update), Locks("property", b, Update)}
  BY <1>1
<1> HIDE DEF p, a, b, q, S
<1>5. /\ q \in Seq(S) /\ Len(q) = 4
      /\ q[1] = Locks("property", a, Update) /\ q[2] = Locks("property", b, Update)
      /\ q[3] = Check("aliases") /\ q[4] = <<"work">>
  BY <1>2, <1>3
<1>6. Ordered(j, 0, q)
  <2> SUFFICES ASSUME NEW k \in 1..4, NEW g \in Needed(j, 0, q[k])
               PROVE  \E m \in 1..(k - 1) : q[m] = g
    BY <1>5 DEF Ordered
  <2>1. CASE k \in {1, 2}
    <3>1. What(q[k]) = "lock"
      BY <1>5, <2>1, Whats
    <3> QED BY <3>1, NeedsNothing
  <2>2. CASE k \in {3, 4}
    <3>1. What(q[k]) \in {"aliases", "work"}
      BY <1>5, <2>2, Whats
    <3>2. g \in {q[1], q[2]}
      BY <1>4, <1>5, <3>1 DEF Needed, Guards, p
    <3> QED BY <3>2, <2>2
  <2> QED BY <2>1, <2>2
<1>7. 4 \in 1..Len(q)
  BY <1>5
<1> QED BY <1>5, <1>6, <1>7, Members DEF q, S

(* A transaction's subject, and the program it begins with.                *)
Subjected(j, i) == j.kind # "run" => i \in Subjects(j)

LEMMA Programs ==
  ASSUME TypeOK, Constants, NEW t \in Actors, NEW i, Subjected(plan[t], i)
  PROVE  LET q == Program(plan[t], i)
         IN q \in Seq(Statements(plan[t].kind)) /\ Ordered(plan[t], i, q)
<1> DEFINE j == plan[t]
<1>1. j \in Job /\ (j.kind = "consolidate" => j.property # j.into)
  BY DEF TypeOK, Constants
<1>2. j.kind \in Reviewing \union Commands => i \in DOMAIN matches
  BY DEF Subjected, Subjects, Commands, Reviewing
<1>3. CASE j.kind \in Reviewing
  BY <1>1, <1>2, <1>3, ApprovalProgram, ReviewProgram DEF Reviewing
<1>4. CASE j.kind \in Commands
  BY <1>1, <1>2, <1>4, ShareProgram, RevalidationProgram, CloseProgram DEF Commands
<1>5. CASE j.kind \in {"run", "write", "bind"}
  <2>1. PICK s : Program(j, i) = <<s>> /\ s \in Statements(j.kind) /\ What(s) \in {"lock", "snapshot"}
    BY <1>1, <1>5, RunProgram, WriterProgram, Whats, OtherStatements, ZenonT(60)
  <2>2. /\ <<s>> \in Seq(Statements(j.kind)) /\ DOMAIN <<s>> = {1} /\ <<s>>[1] = s
    BY <2>1
  <2>3. Needed(j, i, s) = {}
    BY <2>1, NeedsNothing
  <2> QED BY <2>1, <2>2, <2>3 DEF Ordered
<1>6. CASE j.kind = "consolidate"
  <2>1. i = 0
    BY <1>6 DEF Subjected, Subjects, Commands, Reviewing
  <2> QED BY <1>1, <1>6, <2>1, ConsolidationProgram
<1> QED BY <1>1, <1>3, <1>4, <1>5, <1>6, JobTypes DEF Reviewing

(* What holds of a transaction that is ready to commit.                    *)
LEMMA Passed ==
  ASSUME TypeOK, Constants, NEW t \in Actors, Current(t), todo[t] = <<>>
  PROVE  /\ plan[t].kind \in Reviewing => Established(t, "decided")
         /\ plan[t].kind = "APPROVED" =>
              \A what \in {"gates", "superseded", "facts", "valid", "open"} : Established(t, what)
         /\ plan[t].kind \in Commands => Established(t, "closed")
         /\ plan[t].kind = "share" =>
              \A what \in {"facts", "valid", "contact"} : Established(t, what)
         /\ plan[t].kind = "revalidate" => Established(t, "facts")
         /\ plan[t].kind = "run" => Holds(t, Locks("request", 0, KeyShare))
         /\ plan[t].kind = "write" =>
              Holds(t, <<"lock", plan[t].fact, WriteMode(plan[t].fact[1])>>)
         /\ plan[t].kind = "bind" => Holds(t, <<"lock", plan[t].fact, KeyShare>>)
         /\ plan[t].kind = "consolidate" => Established(t, "work")
<1> DEFINE j == plan[t]
           i == doing[t]
           q == Program(j, i)
<1>1. j \in Job /\ (j.kind = "consolidate" => j.property # j.into)
  BY DEF TypeOK, Constants
<1>2. j.kind # "run" => i \in Subjects(j)
  BY DEF Current
<1>3. j.kind \in Reviewing \union Commands => i \in DOMAIN matches
  BY <1>2 DEF Subjects, Commands, Reviewing
<1>4. \A s \in Of(q) : Kept(t, s)
  BY DEF Current, Of
<1>5. \A c : Check(c) \in Of(q) => Established(t, c)
  <2>1. \A c : Kept(t, Check(c)) => Established(t, c)
    BY DEF Kept, Check, What
  <2> QED BY <1>4, <2>1
<1>6. \A s \in {<<"facts">>, <<"snapshot">>, <<"work">>} : s \in Of(q) => Established(t, s[1])
  <2>1. \A s \in {<<"facts">>, <<"snapshot">>, <<"work">>} : Kept(t, s) => Established(t, s[1])
    BY DEF Kept, What
  <2> QED BY <1>4, <2>1
<1> HIDE DEF q
<1>7. CASE j.kind = "APPROVED"
  <2>1. {Check("decided"), Check("gates"), Check("superseded"), <<"facts">>, Check("valid"),
         Check("open")} \subseteq Of(q)
    BY <1>1, <1>3, <1>7, ApprovalProgram DEF q, Reviewing
  <2> QED BY <1>5, <1>6, <1>7, <2>1 DEF Commands
<1>8. CASE j.kind \in {"REJECTED", "NEED_MORE_INFORMATION"}
  <2>1. Check("decided") \in Of(q)
    BY <1>1, <1>3, <1>8, ReviewProgram DEF q, Reviewing
  <2> QED BY <1>5, <1>8, <2>1 DEF Commands
<1>9. CASE j.kind = "share"
  <2>1. {Check("closed"), <<"facts">>, Check("valid"), Check("contact")} \subseteq Of(q)
    BY <1>1, <1>3, <1>9, ShareProgram DEF q, Commands
  <2> QED BY <1>5, <1>6, <1>9, <2>1 DEF Reviewing
<1>10. CASE j.kind = "revalidate"
  <2>1. {Check("closed"), <<"facts">>} \subseteq Of(q)
    BY <1>1, <1>3, <1>10, RevalidationProgram DEF q, Commands
  <2> QED BY <1>5, <1>6, <1>10, <2>1 DEF Reviewing
<1>11. CASE j.kind = "close"
  <2>1. Check("closed") \in Of(q)
    BY <1>1, <1>3, <1>11, CloseProgram DEF q, Commands
  <2> QED BY <1>5, <1>11, <2>1 DEF Reviewing
<1>12. CASE j.kind = "run"
  <2>1. q = <<<<"snapshot">>>>
    BY <1>1, <1>12, RunProgram DEF q
  <2>2. <<"snapshot">> \in Of(q)
    BY <2>1 DEF Of
  <2>3. Of(todo[t]) = {}
    BY DEF Of
  <2>4. Established(t, "snapshot")
    BY <1>6, <2>2
  <2> QED BY <1>12, <2>3, <2>4 DEF Established, Reviewing, Commands
<1>13. CASE j.kind \in {"write", "bind"}
  <2> DEFINE lock == <<"lock", j.fact, IF j.kind = "bind" THEN KeyShare ELSE WriteMode(j.fact[1])>>
  <2>1. q = <<lock>>
    BY <1>1, <1>13, WriterProgram DEF q
  <2>2. lock \in Of(q)
    BY <2>1 DEF Of
  <2>3. Holds(t, lock)
    BY <1>4, <2>2 DEF Kept
  <2> QED BY <1>13, <2>3 DEF Reviewing, Commands
<1>14. CASE j.kind = "consolidate"
  <2>1. i = 0
    BY <1>2, <1>14 DEF Subjects, Commands, Reviewing
  <2>2. <<"work">> \in Of(q)
    BY <1>1, <1>14, <2>1, ConsolidationProgram DEF q
  <2> QED BY <1>6, <1>14, <2>2 DEF Reviewing, Commands
<1> QED BY <1>1, <1>7, <1>8, <1>9, <1>10, <1>11, <1>12, <1>13, <1>14, JobTypes DEF Reviewing, Commands

(* What a COMMIT may change, and what its transaction holds or has checked *)
(* when it does.                                                           *)
Approves(u, i) ==
  /\ plan[u].kind = "APPROVED" /\ opp[i] = None
  /\ opp'[i] = [status |-> "NEW", validity |-> "VALID"]
  /\ Holds(u, Locks("match", i, Update))
  /\ \A what \in {"gates", "superseded", "facts", "valid", "open"} : Established(u, what)
Handles(u, i) ==
  /\ plan[u].kind \in Commands /\ opp[i] # None /\ opp[i].status # "CLOSED"
  /\ Holds(u, Locks("opportunity", i, Update))
  /\ opp'[i] \in Opportunity
Change(u) ==
  /\ DOMAIN matches \subseteq DOMAIN matches' /\ DOMAIN matches' \subseteq Ids
  /\ \A i \in DOMAIN matches : matches'[i] = matches[i]
  /\ matches' # matches => Holds(u, Locks("request", 0, KeyShare))
  /\ \A i \in Ids : review'[i] # review[i] =>
       /\ plan[u].kind \in Reviewing /\ i = doing[u] /\ i \in DOMAIN matches
       /\ ~Decided(i) /\ Holds(u, Locks("match", i, Update))
       /\ review'[i] = plan[u].kind
  /\ \A i \in Ids : opp'[i] # opp[i] =>
       i = doing[u] /\ i \in DOMAIN matches /\ (Approves(u, i) \/ Handles(u, i))
  /\ \A f \in Facts : fact'[f] # fact[f] => Holds(u, <<"lock", f, WriteMode(f[1])>>)
  /\ \A p \in Properties : contact'[p] # contact[p] =>
       Holds(u, Locks("offer", p, KeyShare)) \/ Holds(u, Locks("property", p, KeyShare))
  /\ \A p \in Properties : aliasOf'[p] # aliasOf[p] =>
       /\ p = plan[u].property /\ aliasOf'[p] = plan[u].into
       /\ Established(u, "work") /\ raised[u] \subseteq tasks'
  /\ tasks \subseteq tasks'

LEMMA Committed ==
  ASSUME TypeOK, Constants, Underway, NEW u \in Actors, Commit(u)
  PROVE  Change(u)
<1> DEFINE j == plan[u]
           i == doing[u]
<1>0. /\ Current(u) /\ todo[u] = <<>> /\ Effect(u)
  BY DEF Commit, Underway
<1>1. /\ j \in Job
      /\ j.kind = "bind" => j.fact \in {<<"offer", j.property>>, <<"property", j.property>>}
  BY DEF TypeOK, Constants
<1>2. /\ j.kind \in Reviewing \union Commands => i \in DOMAIN matches /\ i \in Ids
      /\ j.kind \in Commands => opp[i] # None
  <2>1. j.kind # "run" => i \in Subjects(j)
    BY <1>0 DEF Current
  <2>2. /\ j.kind \in Reviewing \union Commands => i \in DOMAIN matches
        /\ j.kind \in Commands => opp[i] # None
    BY <2>1 DEF Subjects, Commands, Reviewing
  <2> QED BY <2>2 DEF TypeOK
<1>3. /\ matches \in Seq(Match) /\ review \in [Ids -> Reviewing \union {None}]
      /\ opp \in [Ids -> Opportunity \union {None}] /\ fact \in [Facts -> Classes]
      /\ contact \in [Properties -> BOOLEAN] /\ aliasOf \in [Properties -> Properties \union {None}]
      /\ made[u] \in Seq(Match) /\ seen[u] \in Classes \union {None}
  BY DEF TypeOK
<1>4. /\ DOMAIN matches \subseteq DOMAIN matches' /\ DOMAIN matches' \subseteq Ids
      /\ \A k \in DOMAIN matches : matches'[k] = matches[k]
      /\ matches' # matches => Holds(u, Locks("request", 0, KeyShare))
  <2>1. CASE j.kind = "run"
    <3>1. /\ matches' = matches \o made[u] /\ DOMAIN matches' \subseteq Ids
          /\ Holds(u, Locks("request", 0, KeyShare))
      BY <1>0, <2>1, Passed DEF Effect, Reviewing
    <3> QED BY <1>3, <3>1
  <2>2. CASE j.kind # "run"
    BY <1>0, <2>2 DEF Effect, TypeOK
  <2> QED BY <2>1, <2>2
<1>5. ASSUME NEW k \in Ids, review'[k] # review[k]
      PROVE  /\ j.kind \in Reviewing /\ k = i /\ k \in DOMAIN matches
             /\ ~Decided(k) /\ Holds(u, Locks("match", k, Update))
             /\ review'[k] = j.kind
  <2>1. j.kind \in Reviewing /\ review' = [review EXCEPT ![i] = j.kind]
    BY <1>0, <1>5 DEF Effect
  <2>2. k = i /\ review'[k] = j.kind
    BY <1>3, <1>5, <2>1
  <2>3. Established(u, "decided")
    BY <1>0, <2>1, Passed
  <2>4. ~Refuses(u, "decided") /\ Holds(u, Locks("match", i, MatchMode))
    BY <2>1, <2>3 DEF Established, Checks, Guards, Reviewing, Commands
  <2> QED BY <1>2, <2>1, <2>2, <2>4 DEF Refuses, MatchMode
<1>6. ASSUME NEW k \in Ids, opp'[k] # opp[k]
      PROVE  k = i /\ k \in DOMAIN matches /\ (Approves(u, k) \/ Handles(u, k))
  <2>1. CASE j.kind = "APPROVED"
    <3>1. opp' = [opp EXCEPT ![i] = [status |-> "NEW", validity |-> "VALID"]]
      BY <1>0, <2>1 DEF Effect, Reviewing
    <3>2. /\ Established(u, "decided")
          /\ \A what \in {"gates", "superseded", "facts", "valid", "open"} : Established(u, what)
      BY <1>0, <2>1, Passed DEF Reviewing
    <3>3. ~Refuses(u, "decided") /\ Holds(u, Locks("match", i, Update))
      BY <2>1, <3>2 DEF Established, Checks, Guards, MatchMode, Reviewing, Commands
    <3>4. k = i /\ opp[k] = None /\ opp'[k] = [status |-> "NEW", validity |-> "VALID"]
      BY <1>3, <1>6, <3>1, <3>3 DEF Refuses, Decided
    <3> QED BY <1>2, <2>1, <3>2, <3>3, <3>4 DEF Approves, Reviewing
  <2>2. CASE j.kind \in Commands
    <3>1. Established(u, "closed")
      BY <1>0, <2>2, Passed
    <3>2. ~Refuses(u, "closed") /\ Holds(u, Locks("opportunity", i, Update))
      BY <2>2, <3>1 DEF Established, Checks, Guards, Reviewing, Commands
    <3>3. opp[i] \in Opportunity /\ opp[i].status # "CLOSED"
      BY <1>2, <1>3, <2>2, <3>2 DEF Refuses
    <3>4. \E o : opp' = [opp EXCEPT ![i] = o]
      <4>1. CASE j.kind = "revalidate"
        BY <1>0, <4>1 DEF Effect, Reviewing
      <4>2. CASE j.kind = "share"
        BY <1>0, <4>2 DEF Effect, Reviewing
      <4>3. CASE j.kind = "close"
        BY <1>0, <4>3 DEF Effect, Reviewing
      <4> QED BY <2>2, <4>1, <4>2, <4>3 DEF Commands
    <3>5. k = i
      BY <1>3, <1>6, <3>4
    <3>6. opp'[i] \in Opportunity
      <4>0. \A o \in Opportunity :
              /\ \A v \in Classes : [o EXCEPT !.validity = v] \in Opportunity
              /\ \A s \in {"NEW", "SHARED", "CLOSED"} : [o EXCEPT !.status = s] \in Opportunity
        BY DEF Opportunity
      <4>1. CASE j.kind = "revalidate"
        <5>1. seen[u] = Classify(PropertyOf(i))
          BY <1>0, <4>1, Passed DEF Established
        <5>2. seen[u] \in Classes
          BY <5>1 DEF Classify, Classes
        <5>3. opp'[i] = [opp[i] EXCEPT !.validity = seen[u]]
          BY <1>0, <1>2, <1>3, <2>2, <4>1 DEF Effect, Reviewing
        <5> QED BY <3>3, <4>0, <5>2, <5>3, ZenonT(60)
      <4>2. CASE j.kind = "share"
        <5> DEFINE to == IF opp[i].status = "NEW" THEN "SHARED" ELSE opp[i].status
        <5>1. opp'[i] = [opp[i] EXCEPT !.status = to]
          BY <1>0, <1>2, <1>3, <2>2, <4>2 DEF Effect, Reviewing
        <5>2. opp[i].status \in {"NEW", "SHARED", "CLOSED"}
          BY <3>3 DEF Opportunity
        <5>3. to \in {"NEW", "SHARED", "CLOSED"}
          BY <5>2
        <5> HIDE DEF to
        <5>4. [opp[i] EXCEPT !.status = to] \in Opportunity
          BY <3>3, <4>0, <5>3
        <5> QED BY <5>1, <5>4
      <4>3. CASE j.kind = "close"
        <5>1. opp'[i] = [opp[i] EXCEPT !.status = "CLOSED"]
          BY <1>0, <1>2, <1>3, <2>2, <4>3 DEF Effect, Reviewing
        <5> QED BY <3>3, <4>0, <5>1
      <4> QED BY <2>2, <4>1, <4>2, <4>3 DEF Commands
    <3> QED BY <1>2, <2>2, <3>2, <3>3, <3>5, <3>6 DEF Handles
  <2>3. j.kind = "APPROVED" \/ j.kind \in Commands
    BY <1>0, <1>6 DEF Effect, Commands
  <2> QED BY <2>1, <2>2, <2>3
<1>7. ASSUME NEW f \in Facts, fact'[f] # fact[f]
      PROVE  Holds(u, <<"lock", f, WriteMode(f[1])>>)
  <2>1. j.kind = "write" /\ fact' = [fact EXCEPT ![j.fact] = j.value]
    BY <1>0, <1>7 DEF Effect
  <2>2. f = j.fact
    BY <1>3, <1>7, <2>1
  <2> QED BY <1>0, <2>1, <2>2, Passed
<1>8. ASSUME NEW p \in Properties, contact'[p] # contact[p]
      PROVE  Holds(u, Locks("offer", p, KeyShare)) \/ Holds(u, Locks("property", p, KeyShare))
  <2>1. j.kind = "bind" /\ contact' = [contact EXCEPT ![j.property] = TRUE]
    BY <1>0, <1>8 DEF Effect
  <2>2. p = j.property
    BY <1>3, <1>8, <2>1
  <2>3. Holds(u, <<"lock", j.fact, KeyShare>>)
    BY <1>0, <2>1, Passed
  <2> QED BY <1>1, <2>1, <2>2, <2>3 DEF Locks
<1>9. ASSUME NEW p \in Properties, aliasOf'[p] # aliasOf[p]
      PROVE  /\ p = j.property /\ aliasOf'[p] = j.into
             /\ Established(u, "work") /\ raised[u] \subseteq tasks'
  <2>1. /\ j.kind = "consolidate" /\ aliasOf' = [aliasOf EXCEPT ![j.property] = j.into]
        /\ tasks' = tasks \union raised[u]
    BY <1>0, <1>9 DEF Effect
  <2> QED BY <1>0, <1>3, <1>9, <2>1, Passed
<1>10. tasks \subseteq tasks'
  BY <1>0 DEF Effect
<1> QED BY <1>4, <1>5, <1>6, <1>7, <1>8, <1>9, <1>10 DEF Change

(* Conflicting modes are not held together.                                *)
LEMMA Conflict ==
  ASSUME TypeOK, Compatible, NEW t \in Actors, NEW u \in Actors, t # u,
         NEW kind, NEW n, <<kind, n>> \in Lockable, NEW a \in 1..4, NEW b \in 1..4, a + b > 4,
         Holds(t, Locks(kind, n, a)), Holds(u, Locks(kind, n, b))
  PROVE  FALSE
<1> DEFINE r == <<kind, n>>
<1>1. held[t][r] >= a /\ held[u][r] >= b
  BY DEF Holds, Locks
<1>2. held[t][r] \in 0..4 /\ held[u][r] \in 0..4
  BY DEF TypeOK, HeldType, Update
<1>3. held[t][r] + held[u][r] <= 4
  BY DEF Compatible, Update
<1> QED BY <1>1, <1>2, <1>3

(* What another transaction's step leaves alone.                           *)
Bystander(t) ==
  /\ plan' = plan /\ todo'[t] = todo[t] /\ doing'[t] = doing[t] /\ seen'[t] = seen[t]
  /\ made'[t] = made[t] /\ raised'[t] = raised[t] /\ held'[t] = held[t] /\ answer'[t] = answer[t]

(* The facts of a match stay what they were while their locks are held.    *)
LEMMA FactsKept ==
  ASSUME TypeOK, Compatible, Constants, NEW t \in Actors, NEW u \in Actors, t # u, Change(u),
         NEW i \in DOMAIN matches, \A g \in FactLocks(plan[t], i) : Holds(t, g)
  PROVE  Classify(PropertyOf(i))' = Classify(PropertyOf(i))
<1> DEFINE p == PropertyOf(i)
           mode == IF plan[t].kind = "share" THEN ShareMode ELSE Share
<1>1. p \in Properties /\ matches'[i] = matches[i]
  BY MatchTypes DEF Change
<1>2. p' = p
  BY <1>1 DEF PropertyOf
<1>3. /\ Holds(t, Locks("request", 0, NoKeyUpdate)) /\ Holds(t, Locks("property", p, mode))
      /\ Holds(t, Locks("offer", p, mode)) /\ Holds(t, Locks("binding", p, Share))
  BY DEF FactLocks
<1>4. mode \in 2..4 /\ NoKeyUpdate = 3 /\ Share = 2 /\ Update = 4
  BY DEF ShareMode, Share, Update, NoKeyUpdate
<1>5. /\ <<"request", 0>> \in Facts /\ <<"property", p>> \in Facts /\ <<"offer", p>> \in Facts
      /\ <<"binding", p>> \in Facts
      /\ <<"request", 0>> \in Lockable /\ <<"property", p>> \in Lockable
      /\ <<"offer", p>> \in Lockable /\ <<"binding", p>> \in Lockable
  BY <1>1, Locked
<1> HIDE DEF mode, p
<1>6. \A kind, n : <<kind, n>> \in Facts /\ fact'[<<kind, n>>] # fact[<<kind, n>>] =>
        Holds(u, Locks(kind, n, WriteMode(kind)))
  BY DEF Change, Locks
<1>7. fact'[<<"request", 0>>] = fact[<<"request", 0>>]
  <2>1. WriteMode("request") = 4
    BY <1>4 DEF WriteMode
  <2> QED BY <1>3, <1>4, <1>5, <1>6, <2>1, Conflict
<1>8. fact'[<<"property", p>>] = fact[<<"property", p>>]
  <2>1. WriteMode("property") = 4
    BY <1>4 DEF WriteMode
  <2> QED BY <1>3, <1>4, <1>5, <1>6, <2>1, Conflict
<1>9. fact'[<<"offer", p>>] = fact[<<"offer", p>>]
  <2>1. WriteMode("offer") = 3
    BY <1>4 DEF WriteMode
  <2> QED BY <1>3, <1>4, <1>5, <1>6, <2>1, Conflict
<1>10. fact'[<<"binding", p>>] = fact[<<"binding", p>>]
  <2>1. WriteMode("binding") = 3
    BY <1>4 DEF WriteMode
  <2> QED BY <1>3, <1>4, <1>5, <1>6, <2>1, Conflict
<1>11. aliasOf'[p] = aliasOf[p]
  <2>1. aliasOf'[p] # aliasOf[p] => Holds(u, Locks("property", p, Update))
    BY <1>1 DEF Change, Established, Guards, p
  <2> QED BY <1>3, <1>4, <1>5, <2>1, Conflict
<1>12. {fact'[f] : f \in FactsOf(p)} = {fact[f] : f \in FactsOf(p)}
  BY <1>7, <1>8, <1>9, <1>10 DEF FactsOf, Request
<1> QED BY <1>2, <1>11, <1>12 DEF Classify, p

(* What a transaction of each kind establishes.                            *)
Effects(kind) ==
  Checks(kind) \union (IF kind \in Reviewing \union Commands THEN {"facts"} ELSE {})
    \union (IF kind = "consolidate" THEN {"work"} ELSE {}) \union {"snapshot", "insert", "task"}

LEMMA StatementEffects ==
  ASSUME NEW kind, NEW s \in Statements(kind)
  PROVE  s[1] = "lock" \/ What(s) \in Effects(kind)
<1>1. CASE s \in {"lock"} \X Lockable \X (1..Update)
  BY <1>1
<1>2. CASE s \in {"check"} \X Checks(kind)
  BY <1>2 DEF What, Effects
<1>3. CASE kind \in Reviewing \union Commands /\ s = <<"facts">>
  BY <1>3 DEF What, Effects
<1>4. CASE kind = "run" /\ (s = <<"snapshot">> \/ s \in {"insert"} \X SUBSET Match)
  BY <1>4 DEF What, Effects
<1>5. CASE kind = "consolidate" /\ (s = <<"work">> \/ s \in {"task"} \X SUBSET Ids)
  BY <1>5 DEF What, Effects
<1> QED BY <1>1, <1>2, <1>3, <1>4, <1>5 DEF Statements, Reviewing, Commands

(* An opportunity that is open after a COMMIT was open before, or is the   *)
(* one it approves.                                                        *)
LEMMA Opened ==
  ASSUME TypeOK, Constants, Consistent, NEW u \in Actors, Change(u),
         NEW k \in DOMAIN matches', IsOpen(k)'
  PROVE  /\ k \in DOMAIN matches /\ k \in Ids /\ PropertyOf(k)' = PropertyOf(k)
         /\ IsOpen(k) \/ (k = doing[u] /\ Approves(u, k))
<1>1. k \in Ids /\ opp'[k] # None /\ opp'[k].status # "CLOSED"
  BY DEF Change, IsOpen
<1>2. opp'[k] # opp[k] =>
        k = doing[u] /\ k \in DOMAIN matches /\ (Approves(u, k) \/ Handles(u, k))
  BY <1>1 DEF Change
<1>3. k \in DOMAIN matches
  <2>1. opp[k] # None => k \in DOMAIN matches
    BY <1>1 DEF Consistent
  <2> QED BY <1>1, <1>2, <2>1
<1>4. PropertyOf(k)' = PropertyOf(k)
  BY <1>3 DEF Change, PropertyOf
<1> QED BY <1>1, <1>2, <1>3, <1>4 DEF IsOpen, Handles

(* What an approval or a consolidation that commits holds.                 *)
LEMMA CommitLocks ==
  ASSUME TypeOK, Constants, NEW u \in Actors, Change(u)
  PROVE  /\ \A i \in Ids : Approves(u, i) /\ i = doing[u] =>
              /\ Holds(u, Locks("request", 0, Update))
              /\ Holds(u, Locks("property", PropertyOf(i), Share))
         /\ \A p \in Properties : aliasOf'[p] # aliasOf[p] =>
              /\ p = plan[u].property /\ aliasOf'[p] = plan[u].into /\ plan[u].into \in Properties
              /\ Holds(u, Locks("property", p, Update))
              /\ Holds(u, Locks("property", plan[u].into, Update))
<1>1. ASSUME NEW i \in Ids, Approves(u, i), i = doing[u]
      PROVE  /\ Holds(u, Locks("request", 0, Update))
             /\ Holds(u, Locks("property", PropertyOf(i), Share))
  <2>1. Established(u, "open")
    BY <1>1 DEF Approves
  <2> QED BY <1>1, <2>1 DEF Established, Guards, RequestMode
<1>2. plan[u].into \in Properties
  BY JobTypes DEF TypeOK, Constants
<1>3. ASSUME NEW p \in Properties, aliasOf'[p] # aliasOf[p]
      PROVE  /\ p = plan[u].property /\ aliasOf'[p] = plan[u].into
             /\ Holds(u, Locks("property", p, Update))
             /\ Holds(u, Locks("property", plan[u].into, Update))
  <2>1. p = plan[u].property /\ aliasOf'[p] = plan[u].into /\ Established(u, "work")
    BY <1>3 DEF Change
  <2> QED BY <2>1 DEF Established, Guards
<1> QED BY <1>1, <1>2, <1>3

(* No COMMIT of another transaction makes a check's answer stale.          *)
LEMMA ChecksKept ==
  ASSUME TypeOK, Compatible, Constants, Consistent, NEW t \in Actors, NEW u \in Actors, t # u,
         Bystander(t), Change(u), Current(t), NEW what \in Checks(plan[t].kind), Established(t, what)
  PROVE  ~Refuses(t, what)'
<1> DEFINE i == doing[t]
           j == plan[t]
           p == PropertyOf(i)
<1>0. /\ doing'[t] = i /\ plan'[t] = j /\ seen'[t] = seen[t]
      /\ ~Refuses(t, what) /\ \A g \in Guards(j, i, what) : Holds(t, g)
  BY DEF Bystander, Established
<1>1. j \in Job /\ j.property \in Properties /\ j.into \in Properties
  BY JobTypes DEF TypeOK, Constants
<1>2. KeyShare = 1 /\ Share = 2 /\ NoKeyUpdate = 3 /\ Update = 4 /\ MatchMode = 4 /\ RequestMode = 4
      /\ ShareMode = 4
  BY DEF KeyShare, Share, NoKeyUpdate, Update, MatchMode, RequestMode, ShareMode
<1>3. ASSUME j.kind \in Reviewing \union Commands
      PROVE  /\ i \in DOMAIN matches /\ i \in Ids /\ p \in Properties
             /\ matches'[i] = matches[i] /\ PropertyOf(i)' = p
             /\ <<"match", i>> \in Lockable /\ <<"opportunity", i>> \in Lockable
             /\ <<"property", p>> \in Lockable /\ <<"offer", p>> \in Lockable
             /\ j.kind \in Commands => opp[i] # None
  <2>1. i \in Subjects(j)
    BY <1>3 DEF Current, Reviewing, Commands
  <2>2. i \in DOMAIN matches /\ (j.kind \in Commands => opp[i] # None)
    BY <1>3, <2>1 DEF Subjects, Reviewing, Commands
  <2>3. i \in Ids /\ p \in Properties /\ matches'[i] = matches[i]
    BY <2>2, MatchTypes DEF Change
  <2>4. PropertyOf(i)' = p
    BY <1>0, <2>3 DEF PropertyOf
  <2>5. <<"match", i>> \in Lockable /\ <<"opportunity", i>> \in Lockable
    BY <2>3, Locked
  <2>6. <<"property", p>> \in Lockable /\ <<"offer", p>> \in Lockable
    BY <2>3, Locked
  <2> QED BY <2>2, <2>3, <2>4, <2>5, <2>6
<1>4. <<"request", 0>> \in Lockable /\ \A q \in Properties : <<"property", q>> \in Lockable
  BY Locked
<1>5. /\ what \in {"decided", "gates", "superseded", "open"} => j.kind \in Reviewing
      /\ what \in {"closed", "stored", "contact"} => j.kind \in Commands
      /\ what = "aliases" => j.kind = "consolidate"
      /\ what \in {"decided", "gates", "superseded", "open", "closed", "stored", "contact",
                   "aliases", "valid"}
  BY DEF Checks, Reviewing, Commands
<1> HIDE DEF p
<1>6. CASE what = "decided"
  <2>1. Holds(t, Locks("match", i, Update)) /\ ~Decided(i)
    BY <1>0, <1>6 DEF Guards, MatchMode, Refuses
  <2>2. ~Holds(u, Locks("match", i, Update))
    BY <1>2, <1>3, <1>5, <1>6, <2>1, Conflict
  <2>3. review'[i] = review[i]
    BY <1>3, <1>5, <1>6, <2>2 DEF Change
  <2>4. opp'[i] = opp[i]
    BY <1>3, <1>5, <1>6, <2>1, <2>2 DEF Change, Approves, Handles, Decided
  <2> QED BY <1>0, <1>6, <2>1, <2>3, <2>4 DEF Refuses, Decided
<1>7. CASE what = "gates"
  BY <1>0, <1>3, <1>5, <1>7 DEF Refuses
<1>8. CASE what = "superseded"
  <2>1. Holds(t, Locks("request", 0, Update)) /\ ~Superseded(i)
    BY <1>0, <1>8 DEF Guards, RequestMode, Refuses
  <2>2. matches' = matches
    BY <1>2, <1>4, <2>1, Conflict DEF Change
  <2> QED BY <1>0, <1>8, <2>1, <2>2 DEF Refuses, Superseded, PropertyOf
<1>9. CASE what = "open"
  <2>1. /\ Holds(t, Locks("request", 0, Update)) /\ Holds(t, Locks("property", p, Share))
        /\ ~OpenOnPlace(p)
    BY <1>0, <1>9 DEF Guards, RequestMode, Refuses, p
  <2>2. SUFFICES ASSUME OpenOnPlace(PropertyOf(i))' PROVE FALSE
    BY <1>0, <1>9 DEF Refuses
  <2>3. PICK k \in DOMAIN matches' :
          IsOpen(k)' /\ (PropertyOf(k)' = p \/ aliasOf'[PropertyOf(k)'] = p)
    BY <1>3, <1>5, <1>9, <2>2 DEF OpenOnPlace
  <2>4. /\ k \in DOMAIN matches /\ k \in Ids /\ PropertyOf(k)' = PropertyOf(k)
        /\ IsOpen(k) \/ (k = doing[u] /\ Approves(u, k))
    BY <2>3, Opened
  <2>5. ~Holds(u, Locks("request", 0, Update))
    BY <1>2, <1>4, <2>1, Conflict
  <2>6. IsOpen(k)
    BY <2>4, <2>5, CommitLocks
  <2>7. PropertyOf(k) \in Properties
    BY <2>4, MatchTypes
  <2>8. aliasOf'[PropertyOf(k)] = p /\ aliasOf[PropertyOf(k)] # p
    BY <2>1, <2>3, <2>4, <2>6 DEF OpenOnPlace
  <2>9. Holds(u, Locks("property", p, Update))
    BY <2>7, <2>8, CommitLocks
  <2> QED BY <1>2, <1>3, <1>5, <1>9, <2>1, <2>9, Conflict
<1>10. CASE what \in {"closed", "stored"}
  <2>1. Holds(t, Locks("opportunity", i, Update))
    BY <1>0, <1>10 DEF Guards
  <2>2. ~Holds(u, Locks("opportunity", i, Update))
    BY <1>2, <1>3, <1>5, <1>10, <2>1, Conflict
  <2>3. opp'[i] = opp[i]
    BY <1>3, <1>5, <1>10, <2>2 DEF Change, Approves, Handles
  <2> QED BY <1>0, <1>10, <2>3 DEF Refuses
<1>11. CASE what = "contact"
  <2>1. /\ Holds(t, Locks("property", p, Update)) /\ Holds(t, Locks("offer", p, Update))
        /\ ~contact[p]
    BY <1>0, <1>11 DEF Guards, ShareMode, Refuses, p
  <2>2. ~Holds(u, Locks("offer", p, KeyShare)) /\ ~Holds(u, Locks("property", p, KeyShare))
    BY <1>2, <1>3, <1>5, <1>11, <2>1, Conflict
  <2>3. contact'[p] = contact[p]
    BY <1>3, <1>5, <1>11, <2>2 DEF Change
  <2> QED BY <1>0, <1>3, <1>5, <1>11, <2>1, <2>3 DEF Refuses
<1>12. CASE what = "aliases"
  <2>1. /\ Holds(t, Locks("property", j.property, Update))
        /\ Holds(t, Locks("property", j.into, Update))
        /\ aliasOf[j.property] = None /\ aliasOf[j.into] = None
        /\ \A q \in Properties : aliasOf[q] # j.property
    BY <1>0, <1>12 DEF Guards, Refuses
  <2>2. ASSUME NEW q \in {j.property, j.into} PROVE ~Holds(u, Locks("property", q, Update))
    <3>1. <<"property", q>> \in Lockable /\ Holds(t, Locks("property", q, Update))
      BY <1>1, <1>4, <2>1
    <3> QED BY <1>2, <3>1, Conflict
  <2>3. aliasOf'[j.property] = aliasOf[j.property] /\ aliasOf'[j.into] = aliasOf[j.into]
    BY <1>1, <2>2, CommitLocks
  <2>4. \A q \in Properties : aliasOf'[q] # j.property
    BY <2>1, <2>2, CommitLocks
  <2> QED BY <1>0, <1>12, <2>1, <2>3, <2>4 DEF Refuses
<1>13. CASE what = "valid"
  BY <1>0, <1>13 DEF Refuses
<1> QED BY <1>5, <1>6, <1>7, <1>8, <1>9, <1>10, <1>11, <1>12, <1>13

(* No COMMIT of another transaction unsettles what a statement established.*)
LEMMA EstablishedKept ==
  ASSUME TypeOK, Compatible, Constants, Consistent, NEW t \in Actors, NEW u \in Actors, t # u,
         Bystander(t), Change(u), Current(t), NEW what \in Effects(plan[t].kind),
         Established(t, what)
  PROVE  Established(t, what)'
<1> DEFINE i == doing[t]
           j == plan[t]
<1>0. /\ doing'[t] = i /\ plan'[t] = j /\ seen'[t] = seen[t] /\ held'[t] = held[t]
      /\ todo'[t] = todo[t] /\ raised'[t] = raised[t]
  BY DEF Bystander
<1>1. j.kind \in Reviewing \union Commands => i \in DOMAIN matches /\ PropertyOf(i)' = PropertyOf(i)
  <2>1. j.kind \in Reviewing \union Commands => i \in Subjects(j)
    BY DEF Current, Reviewing, Commands
  <2>2. j.kind \in Reviewing \union Commands => i \in DOMAIN matches
    BY <2>1 DEF Subjects, Reviewing, Commands
  <2> QED BY <1>0, <2>2 DEF Change, PropertyOf
<1>2. what \in {"decided", "superseded", "facts", "valid", "open", "closed", "stored", "contact"} =>
        j.kind \in Reviewing \union Commands
  BY DEF Effects, Checks, Reviewing, Commands
<1>3. Guards(j, i, what)' = Guards(j, i, what)
  <2>1. CASE what \in {"facts", "valid", "open", "contact"}
    BY <1>0, <1>1, <1>2, <2>1 DEF Guards, FactLocks
  <2>2. CASE what \notin {"facts", "valid", "open", "contact"}
    BY <1>0, <2>2 DEF Guards
  <2> QED BY <2>1, <2>2
<1>4. \A g \in Guards(plan[t], doing[t], what)' : Holds(t, g)'
  <2>1. \A g \in Guards(j, i, what) : Holds(t, g)
    BY DEF Established
  <2> QED BY <1>0, <1>3, <2>1 DEF Holds
<1>5. what \in Checks(plan'[t].kind) => ~Refuses(t, what)'
  BY <1>0, ChecksKept
<1>6. what \in {"facts", "valid"} => seen'[t] = Classify(PropertyOf(doing[t]))'
  <2> SUFFICES ASSUME what \in {"facts", "valid"}
               PROVE  seen'[t] = Classify(PropertyOf(doing[t]))'
    OBVIOUS
  <2>1. seen[t] = Classify(PropertyOf(i)) /\ \A g \in FactLocks(j, i) : Holds(t, g)
    BY DEF Established, Guards
  <2>2. PICK k \in DOMAIN matches : k = i
    BY <1>1, <1>2
  <2>3. Classify(PropertyOf(k))' = Classify(PropertyOf(k))
    BY <2>1, <2>2, FactsKept
  <2> QED BY <1>0, <2>1, <2>2, <2>3 DEF Classify, PropertyOf
<1>7. what = "snapshot" =>
        LET key == Locks("request", 0, KeyShare) IN Holds(t, key)' \/ key \in Of(todo'[t])
  BY <1>0 DEF Established, Holds
<1>8. what = "work" =>
        \A a, b \in DOMAIN matches' :
          IsOpen(a)' /\ IsOpen(b)' /\ PropertyOf(a)' = plan'[t].property
            /\ PropertyOf(b)' = plan'[t].into =>
               \E w \in raised'[t] : w[1] = a /\ b \in w[2]
  <2> SUFFICES ASSUME what = "work", NEW a \in DOMAIN matches', NEW b \in DOMAIN matches',
                      IsOpen(a)', IsOpen(b)', PropertyOf(a)' = j.property, PropertyOf(b)' = j.into
               PROVE  \E w \in raised[t] : w[1] = a /\ b \in w[2]
    BY <1>0
  <2>1. /\ Holds(t, Locks("property", j.property, Update))
        /\ Holds(t, Locks("property", j.into, Update))
    BY DEF Established, Guards
  <2>2. ASSUME NEW k \in DOMAIN matches', IsOpen(k)', PropertyOf(k)' \in {j.property, j.into}
        PROVE  k \in DOMAIN matches /\ IsOpen(k) /\ PropertyOf(k) = PropertyOf(k)'
    <3>1. /\ k \in DOMAIN matches /\ k \in Ids /\ PropertyOf(k)' = PropertyOf(k)
          /\ IsOpen(k) \/ (k = doing[u] /\ Approves(u, k))
      BY <2>2, Opened
    <3>2. Approves(u, k) /\ k = doing[u] => Holds(u, Locks("property", PropertyOf(k), Share))
      BY <3>1, CommitLocks
    <3>3. <<"property", PropertyOf(k)>> \in Lockable
      BY <3>1, MatchTypes, Locked
    <3>4. Holds(t, Locks("property", PropertyOf(k), Update))
      BY <2>1, <2>2, <3>1
    <3>5. ~Holds(u, Locks("property", PropertyOf(k), Share))
      BY <3>3, <3>4, Conflict DEF Update, Share
    <3> QED BY <3>1, <3>2, <3>5
  <2>3. /\ a \in DOMAIN matches /\ b \in DOMAIN matches /\ IsOpen(a) /\ IsOpen(b)
        /\ PropertyOf(a) = j.property /\ PropertyOf(b) = j.into
    BY <2>2
  <2> QED BY <2>3 DEF Established
<1> QED BY <1>0, <1>4, <1>5, <1>6, <1>7, <1>8 DEF Established

(* What a statement needs is a lock, or the facts.                         *)
LEMMA NeededKinds ==
  ASSUME NEW j, NEW i, NEW s \in Statements(j.kind), NEW g \in Needed(j, i, s)
  PROVE  g[1] = "lock" \/ (g = <<"facts">> /\ What(g) = "facts" /\ "facts" \in Effects(j.kind))
<1>1. \A what : \A l \in Guards(j, i, what) : l[1] = "lock"
  BY DEF Guards, FactLocks, Locks
<1>2. CASE g \in Guards(j, i, What(s))
  BY <1>1, <1>2
<1>3. CASE What(s) = "valid" /\ g = <<"facts">>
  <2>1. s[1] # "lock"
    BY <1>3 DEF What
  <2>2. "valid" \in Effects(j.kind)
    BY <1>3, <2>1, StatementEffects
  <2>3. j.kind \in Reviewing \union Commands
    BY <2>2 DEF Effects, Checks, Reviewing, Commands
  <2> QED BY <1>3, <2>3 DEF Effects, What
<1> QED BY <1>2, <1>3 DEF Needed

(* So what is left of another transaction stays current.                   *)
LEMMA CurrentKept ==
  ASSUME TypeOK, Compatible, Constants, Consistent, NEW t \in Actors, NEW u \in Actors, t # u,
         Bystander(t), Change(u), Current(t)
  PROVE  Current(t)'
<1> DEFINE i == doing[t]
           j == plan[t]
<1>0. /\ doing'[t] = i /\ plan'[t] = j /\ held'[t] = held[t] /\ todo'[t] = todo[t]
  BY DEF Bystander
<1>1. ASSUME NEW s, s[1] = "lock" \/ What(s) \in Effects(j.kind), Kept(t, s)
      PROVE  Kept(t, s)'
  <2>1. CASE s[1] = "lock"
    BY <1>0, <1>1, <2>1 DEF Kept, Holds
  <2>2. CASE s[1] # "lock"
    <3>1. What(s) \in Effects(j.kind) /\ Established(t, What(s))
      BY <1>1, <2>2 DEF Kept
    <3> DEFINE what == What(s)
    <3> HIDE DEF what
    <3>2. Established(t, what)'
      BY <3>1, EstablishedKept DEF what
    <3> QED BY <2>2, <3>2 DEF Kept, what, What
  <2> QED BY <2>1, <2>2
<1>2. j.kind # "run" => i \in Subjects(j)
  BY DEF Current
<1>3. j.kind \in Reviewing \union Commands => i \in DOMAIN matches /\ PropertyOf(i)' = PropertyOf(i)
  <2>1. j.kind \in Reviewing \union Commands => i \in DOMAIN matches
    BY <1>2 DEF Subjects, Reviewing, Commands
  <2> QED BY <1>0, <2>1 DEF Change, PropertyOf
<1>4. j.kind # "run" => doing'[t] \in Subjects(plan[t])'
  <2>1. CASE j.kind \in Reviewing
    <3>1. i \in DOMAIN matches /\ PropertyOf(i) = j.property
      BY <1>2, <2>1 DEF Subjects, Reviewing
    <3>2. i \in DOMAIN matches'
      BY <3>1 DEF Change
    <3> QED BY <1>0, <1>3, <2>1, <3>1, <3>2 DEF Subjects, Reviewing, Commands
  <2>2. CASE j.kind \in Commands
    <3>1. i \in DOMAIN matches /\ PropertyOf(i) = j.property /\ opp[i] # None
      BY <1>2, <2>2 DEF Subjects, Reviewing, Commands
    <3>2. i \in Ids
      BY <3>1 DEF TypeOK
    <3>3. opp'[i] # None
      <4>0. [status |-> "NEW", validity |-> "VALID"] \in Opportunity
        BY DEF Opportunity, Classes
      <4>1. opp'[i] # opp[i] => opp'[i] \in Opportunity
        BY <3>2, <4>0 DEF Change, Approves, Handles
      <4> QED BY <3>1, <4>1 DEF Constants
    <3>4. i \in DOMAIN matches'
      BY <3>1 DEF Change
    <3> QED BY <1>0, <1>3, <2>2, <3>1, <3>3, <3>4 DEF Subjects, Reviewing, Commands
  <2>3. CASE j.kind \notin Reviewing \union Commands
    BY <1>0, <1>2, <2>3 DEF Subjects
  <2> QED BY <2>1, <2>2, <2>3
<1>5. Program(plan[t], doing[t])' = Program(j, i)
  <2>1. CASE j.kind \in Reviewing \union Commands
    BY <1>0, <1>3, <2>1 DEF Program, Reviewing, Commands
  <2>2. CASE j.kind = "run"
    BY <1>0, <2>2 DEF Program, Reviewing, Commands
  <2>3. CASE j.kind \notin Reviewing \union Commands \union {"run"}
    <3>1. i = 0
      BY <1>2, <2>3 DEF Subjects
    <3> QED BY <1>0, <3>1 DEF Program
  <2> QED BY <2>1, <2>2, <2>3
<1>6. /\ Program(j, i) \in Seq(Statements(j.kind))
      /\ todo[t] \in Seq(Statements(j.kind))
  BY <1>2, Programs DEF Subjected, TypeOK
<1>7. ASSUME NEW s \in Of(Program(j, i)) PROVE Kept(t, s)' \/ s \in Of(todo'[t])
  <2>1. s \in Statements(j.kind)
    BY <1>6, Members DEF Of
  <2>2. s[1] = "lock" \/ What(s) \in Effects(j.kind)
    BY <2>1, StatementEffects
  <2>3. Kept(t, s) \/ s \in Of(todo[t])
    BY DEF Current
  <2> QED BY <1>0, <1>1, <2>2, <2>3
<1>8. ASSUME NEW k \in DOMAIN todo[t], NEW g \in Needed(plan[t], doing[t], todo[t][k])'
      PROVE  Kept(t, g)' \/ \E m \in 1..(k - 1) : todo'[t][m] = g
  <2>1. todo[t][k] \in Statements(j.kind)
    BY <1>6, Members
  <2>2. Needed(plan[t], doing[t], todo[t][k])' = Needed(j, i, todo[t][k])
    <3> DEFINE s == todo[t][k]
    <3>1. What(s)' = What(s)
      BY <1>0 DEF What
    <3>2. What(s) \in {"facts", "valid", "open", "contact"} => j.kind \in Reviewing \union Commands
      <4>1. What(s) \in {"facts", "valid", "open", "contact"} => What(s) \in Effects(j.kind)
        BY <2>1, StatementEffects DEF What
      <4> QED BY <4>1 DEF Effects, Checks, Reviewing, Commands
    <3>3. CASE What(s) \in {"facts", "valid", "open", "contact"}
      BY <1>0, <1>3, <3>1, <3>2, <3>3 DEF Needed, Guards, FactLocks
    <3>4. CASE What(s) \notin {"facts", "valid", "open", "contact"}
      BY <1>0, <3>1, <3>4 DEF Needed, Guards
    <3> QED BY <3>3, <3>4
  <2>3. g[1] = "lock" \/ What(g) \in Effects(j.kind)
    BY <2>1, <2>2, NeededKinds
  <2>4. Kept(t, g) \/ \E m \in 1..(k - 1) : todo[t][m] = g
    BY <2>2 DEF Current
  <2> QED BY <1>0, <1>1, <2>3, <2>4
<1> QED BY <1>0, <1>4, <1>5, <1>7, <1>8 DEF Current

(* The guards' rows are rows that can be locked.                           *)
LEMMA GuardRows ==
  ASSUME TypeOK, Constants, NEW t \in Actors, NEW i, Subjected(plan[t], i),
         NEW what \in Effects(plan[t].kind), NEW g \in Guards(plan[t], i, what)
  PROVE  g[2] \in Lockable
<1> DEFINE j == plan[t]
<1>1. j \in Job /\ j.property \in Properties /\ j.into \in Properties
  BY JobTypes DEF TypeOK, Constants
<1>2. j.kind \in Reviewing \union Commands =>
        /\ i \in DOMAIN matches /\ i \in Ids /\ PropertyOf(i) \in Properties
  <2>1. j.kind \in Reviewing \union Commands => i \in DOMAIN matches
    BY DEF Subjected, Subjects, Reviewing, Commands
  <2> QED BY <2>1, MatchTypes
<1>3. what \in {"decided", "superseded", "facts", "valid", "open", "closed", "stored", "contact"} =>
        j.kind \in Reviewing \union Commands
  BY DEF Effects, Checks, Reviewing, Commands
<1>4. /\ <<"request", 0>> \in Lockable
      /\ <<"property", j.property>> \in Lockable /\ <<"property", j.into>> \in Lockable
  BY <1>1, Locked
<1>5. j.kind \in Reviewing \union Commands =>
         /\ <<"match", i>> \in Lockable /\ <<"opportunity", i>> \in Lockable
         /\ <<"property", PropertyOf(i)>> \in Lockable /\ <<"offer", PropertyOf(i)>> \in Lockable
         /\ <<"binding", PropertyOf(i)>> \in Lockable
  BY <1>2, Locked
<1>6. CASE what \in {"decided", "superseded", "closed", "stored"}
  BY <1>3, <1>6, <1>4, <1>5 DEF Guards, Locks
<1>7. CASE what \in {"facts", "valid"}
  <2>1. g \in FactLocks(j, i)
    BY <1>7 DEF Guards
  <2> QED BY <1>3, <1>7, <1>4, <1>5, <2>1, SMTT(30) DEF FactLocks, Locks
<1>8. CASE what \in {"open", "contact"}
  BY <1>3, <1>8, <1>4, <1>5 DEF Guards, Locks
<1>9. CASE what \in {"aliases", "work"}
  BY <1>9, <1>4 DEF Guards, Locks
<1>10. CASE what \notin {"decided", "superseded", "closed", "stored", "facts", "valid", "open",
                        "contact", "aliases", "work"}
  BY <1>10 DEF Guards
<1> QED BY <1>6, <1>7, <1>8, <1>9, <1>10

(* A step of a transaction's own, other than its COMMIT: it gives up no    *)
(* lock, and reads the facts or a consolidation's work as they are.        *)
WorkRead(t) ==
  \A i, k \in DOMAIN matches :
    IsOpen(i) /\ IsOpen(k) /\ PropertyOf(i) = plan[t].property /\ PropertyOf(k) = plan[t].into =>
      \E w \in raised[t] : w[1] = i /\ k \in w[2]
Advances(t) ==
  /\ UNCHANGED <<plan, store>> /\ doing'[t] = doing[t]
  /\ \A r \in Lockable : held'[t][r] \in Nat /\ held'[t][r] >= held[t][r]
  /\ seen'[t] = seen[t] \/ seen'[t] = Classify(PropertyOf(doing[t]))
  /\ raised'[t] = raised[t] \/ WorkRead(t)'
  /\ LET key == Locks("request", 0, KeyShare)
     IN key \in Of(todo[t]) => Holds(t, key)' \/ key \in Of(todo'[t])

LEMMA KeptByAdvance ==
  ASSUME TypeOK, Constants, NEW t \in Actors, Subjected(plan[t], doing[t]), Advances(t),
         NEW what \in Effects(plan[t].kind), Established(t, what)
  PROVE  Established(t, what)'
<1> DEFINE i == doing[t]
           j == plan[t]
<1>0. /\ doing'[t] = i /\ plan'[t] = j /\ matches' = matches /\ aliasOf' = aliasOf /\ fact' = fact
      /\ opp' = opp /\ review' = review /\ contact' = contact
      /\ held \in [Actors -> [Lockable -> 0..Update]] /\ Update = 4
  BY DEF Advances, store, TypeOK, HeldType, Update
<1>1. Classify(PropertyOf(i))' = Classify(PropertyOf(i))
  BY <1>0 DEF Classify, PropertyOf
<1>2. Guards(j, i, what)' = Guards(j, i, what)
  BY <1>0 DEF Guards, FactLocks, PropertyOf
<1>3. \A g \in Guards(plan[t], doing[t], what)' : Holds(t, g)'
  <2> SUFFICES ASSUME NEW g \in Guards(j, i, what) PROVE Holds(t, g)'
    BY <1>0, <1>2
  <2>1. Holds(t, g) /\ g[2] \in Lockable /\ g[3] \in 1..4
    <3>1. g[3] \in 1..4
      BY DEF Guards, FactLocks, Locks, MatchMode, RequestMode, ShareMode, KeyShare, Share, NoKeyUpdate,
             Update
    <3> QED BY <3>1, GuardRows DEF Established
  <2>2. /\ held'[t][g[2]] \in Nat /\ held'[t][g[2]] >= held[t][g[2]]
        /\ held[t][g[2]] \in 0..4
    BY <1>0, <2>1 DEF Advances
  <2> QED BY <2>1, <2>2 DEF Holds
<1>4. what \in Checks(plan'[t].kind) => ~Refuses(t, what)'
  <2>1. CASE what = "valid"
    <3>1. what \in Checks(j.kind) => seen[t] = "VALID"
      BY <2>1 DEF Established, Refuses
    <3>2. what \in Checks(j.kind) => seen'[t] = "VALID"
      BY <2>1, <3>1 DEF Established, Advances
    <3> QED BY <1>0, <2>1, <3>2 DEF Refuses
  <2>2. CASE what # "valid"
    <3>1. what \in Checks(j.kind) => ~Refuses(t, what)
      BY DEF Established
    <3>2. Refuses(t, what)' = Refuses(t, what)
      BY <1>0, <2>2 DEF Refuses, Decided, Superseded, OpenOnPlace, IsOpen, PropertyOf
    <3> QED BY <1>0, <3>1, <3>2
  <2> QED BY <2>1, <2>2
<1>5. what \in {"facts", "valid"} => seen'[t] = Classify(PropertyOf(doing[t]))'
  BY <1>0, <1>1 DEF Established, Advances
<1>6. what = "snapshot" =>
        LET key == Locks("request", 0, KeyShare) IN Holds(t, key)' \/ key \in Of(todo'[t])
  <2> DEFINE key == Locks("request", 0, KeyShare)
  <2>1. key[2] \in Lockable /\ key[3] = 1
    BY Locked DEF Locks, KeyShare
  <2>2. /\ held'[t][key[2]] \in Nat /\ held'[t][key[2]] >= held[t][key[2]]
        /\ held[t][key[2]] \in 0..4
    BY <1>0, <2>1 DEF Advances
  <2>3. Holds(t, key) => Holds(t, key)'
    BY <2>1, <2>2 DEF Holds
  <2> QED BY <2>3 DEF Established, Advances
<1>7. what = "work" => WorkRead(t)'
  <2>1. raised'[t] = raised[t] => (what = "work" => WorkRead(t)')
    BY <1>0 DEF Established, WorkRead, IsOpen, PropertyOf
  <2> QED BY <2>1 DEF Advances
<1> QED BY <1>0, <1>3, <1>4, <1>5, <1>6, <1>7 DEF Established, WorkRead

(* What a transaction is about to do has all it needs.                     *)
LEMMA Ready ==
  ASSUME TypeOK, NEW t \in Actors, Current(t), todo[t] # <<>>
  PROVE  /\ todo[t] \in Seq(Statements(plan[t].kind))
         /\ Head(todo[t]) = todo[t][1] /\ Head(todo[t]) \in Statements(plan[t].kind)
         /\ Len(todo[t]) \in Nat /\ Len(todo[t]) >= 1 /\ DOMAIN todo[t] = 1..Len(todo[t])
         /\ \A g \in Needed(plan[t], doing[t], Head(todo[t])) : Kept(t, g)
<1>1. todo[t] \in Seq(Statements(plan[t].kind))
  BY DEF TypeOK
<1>2. /\ Head(todo[t]) = todo[t][1] /\ todo[t][1] \in Statements(plan[t].kind)
      /\ Len(todo[t]) \in Nat /\ Len(todo[t]) >= 1 /\ DOMAIN todo[t] = 1..Len(todo[t])
  BY <1>1
<1>3. ASSUME NEW g \in Needed(plan[t], doing[t], todo[t][1]) PROVE Kept(t, g)
  <2>1. 1 \in DOMAIN todo[t]
    BY <1>2
  <2>2. Kept(t, g) \/ \E m \in 1..(1 - 1) : todo[t][m] = g
    BY <2>1 DEF Current
  <2> QED BY <2>2
<1> QED BY <1>1, <1>2, <1>3

(* Done with its head, and with what it pushed before and after the rest,  *)
(* what is left of it is current.                                          *)
LEMMA Advance ==
  ASSUME TypeOK, Constants, NEW t \in Actors, Current(t), todo[t] # <<>>, Advances(t),
         NEW head, Head(todo[t]) = head, Kept(t, head)',
         todo'[t] \in Seq(Statements(plan[t].kind)), NEW n \in Nat,
         \A k \in 2..Len(todo[t]) : k - 1 + n \in DOMAIN todo'[t] /\ todo'[t][k - 1 + n] = todo[t][k],
         \A k \in DOMAIN todo'[t] : \/ k + 1 - n \in 2..Len(todo[t])
                                    \/ Needed(plan[t], doing[t], todo'[t][k]) = {}
  PROVE  Current(t)'
<1> DEFINE i == doing[t]
           j == plan[t]
<1>0. /\ doing'[t] = i /\ plan'[t] = j /\ matches' = matches /\ opp' = opp
  BY DEF Advances, store
<1>1. /\ todo[t] \in Seq(Statements(j.kind)) /\ head = todo[t][1] /\ head \in Statements(j.kind)
      /\ Len(todo[t]) \in Nat /\ Len(todo[t]) >= 1 /\ DOMAIN todo[t] = 1..Len(todo[t])
      /\ \A k \in DOMAIN todo[t] : todo[t][k] \in Statements(j.kind)
      /\ DOMAIN todo'[t] \subseteq Nat
  BY Ready
<1>2. Subjected(j, i) /\ Program(j, i) \in Seq(Statements(j.kind))
  <2>1. Subjected(j, i)
    BY DEF Current, Subjected
  <2> QED BY <2>1, Programs
<1>3. ASSUME NEW s, s[1] = "lock" => s[2] \in Lockable /\ s[3] \in 1..4,
             s[1] = "lock" \/ What(s) \in Effects(j.kind), Kept(t, s)
      PROVE  Kept(t, s)'
  <2>1. CASE s[1] = "lock"
    <3>1. held[t][s[2]] \in 0..4
      BY <1>3, <2>1 DEF TypeOK, HeldType, Update
    <3>2. held'[t][s[2]] \in Nat /\ held'[t][s[2]] >= held[t][s[2]]
      BY <1>3, <2>1 DEF Advances
    <3>3. held[t][s[2]] >= s[3]
      BY <1>3, <2>1 DEF Kept, Holds
    <3> QED BY <1>3, <2>1, <3>1, <3>2, <3>3 DEF Kept, Holds
  <2>2. CASE s[1] # "lock"
    <3> DEFINE what == What(s)
    <3>1. what \in Effects(j.kind) /\ Established(t, what)
      BY <1>3, <2>2 DEF Kept
    <3> HIDE DEF what
    <3>2. Established(t, what)'
      BY <1>2, <3>1, KeptByAdvance
    <3> QED BY <2>2, <3>2 DEF Kept, what, What
  <2> QED BY <2>1, <2>2
<1>4. \A s \in Statements(j.kind) :
        /\ s[1] = "lock" => s[2] \in Lockable /\ s[3] \in 1..4
        /\ s[1] = "lock" \/ What(s) \in Effects(j.kind)
  <2>1. ASSUME NEW s \in Statements(j.kind), s[1] = "lock"
        PROVE  s[2] \in Lockable /\ s[3] \in 1..4
    BY <2>1 DEF Statements, Update
  <2> QED BY <2>1, StatementEffects
<1>5. ASSUME NEW s \in Statements(j.kind), NEW k \in DOMAIN todo[t], todo[t][k] = s
      PROVE  Kept(t, s)' \/ (k - 1 + n \in DOMAIN todo'[t] /\ todo'[t][k - 1 + n] = s)
  <2>1. CASE k = 1
    BY <1>1, <1>5, <2>1
  <2>2. CASE k # 1
    BY <1>1, <1>5, <2>2
  <2> QED BY <2>1, <2>2
<1>6. Program(plan[t], doing[t])' = Program(j, i) /\ Subjects(plan[t])' = Subjects(j)
  BY <1>0 DEF Program, Subjects, PropertyOf
<1>7. ASSUME NEW s \in Of(Program(j, i)) PROVE Kept(t, s)' \/ s \in Of(todo'[t])
  <2>1. s \in Statements(j.kind)
    BY <1>2, Members DEF Of
  <2>2. CASE Kept(t, s)
    BY <1>3, <1>4, <2>1, <2>2
  <2>3. CASE s \in Of(todo[t])
    BY <1>5, <2>1, <2>3 DEF Of
  <2> QED BY <2>2, <2>3 DEF Current
<1>8. ASSUME NEW l \in DOMAIN todo'[t], NEW g \in Needed(plan[t], doing[t], todo[t][l])'
      PROVE  Kept(t, g)' \/ \E m \in 1..(l - 1) : todo'[t][m] = g
  <2>0. Needed(plan[t], doing[t], todo[t][l])' = Needed(j, i, todo'[t][l])
    BY <1>0 DEF Needed, Guards, FactLocks, PropertyOf, What
  <2>1. PICK k \in 2..Len(todo[t]) : k - 1 + n = l
    <3>1. l \in Nat
      BY <1>1
    <3>2. l + 1 - n \in 2..Len(todo[t])
      BY <2>0
    <3> QED BY <3>1, <3>2
  <2>2. /\ k \in DOMAIN todo[t] /\ todo'[t][l] = todo[t][k]
        /\ todo[t][k] \in Statements(j.kind) /\ g \in Needed(j, i, todo[t][k])
    BY <1>1, <2>0, <2>1
  <2>3. g[1] = "lock" \/ What(g) \in Effects(j.kind)
    BY <2>2, NeededKinds
  <2>4. g[1] = "lock" => g[2] \in Lockable /\ g[3] \in 1..4
    <3> SUFFICES ASSUME g[1] = "lock" PROVE g[2] \in Lockable /\ g[3] \in 1..4
      OBVIOUS
    <3>1. g \in Guards(j, i, What(todo[t][k]))
      BY <2>2 DEF Needed
    <3>2. g[3] \in 1..4
      BY <3>1 DEF Guards, FactLocks, Locks, MatchMode, RequestMode, ShareMode, KeyShare, Share,
                  NoKeyUpdate, Update
    <3>3. todo[t][k][1] # "lock"
      BY <3>1 DEF Guards, What
    <3>4. What(todo[t][k]) \in Effects(j.kind)
      BY <2>2, <3>3, StatementEffects
    <3> QED BY <1>2, <3>1, <3>2, <3>4, GuardRows
  <2>5. CASE Kept(t, g)
    BY <1>3, <2>3, <2>4, <2>5
  <2>6. CASE \E m \in 1..(k - 1) : todo[t][m] = g
    <3>1. PICK m \in 1..(k - 1) : todo[t][m] = g
      BY <2>6
    <3>2. m \in DOMAIN todo[t] /\ g \in Statements(j.kind)
      BY <1>1, <2>1, <3>1
    <3>3. Kept(t, g)' \/ todo'[t][m - 1 + n] = g
      BY <1>5, <3>1, <3>2
    <3>4. CASE m = 1
      BY <1>1, <3>1, <3>4
    <3>5. CASE m # 1
      <4>1. m - 1 + n \in 1..(l - 1)
        BY <1>1, <2>1, <3>1, <3>5
      <4> QED BY <3>3, <4>1
    <3> QED BY <3>4, <3>5
  <2> QED BY <2>2, <2>5, <2>6 DEF Current
<1> QED BY <1>0, <1>6, <1>7, <1>8 DEF Current

(* Where the elements of two sequences are when they are joined.           *)
LEMMA Joined ==
  ASSUME NEW S, NEW a \in Seq(S), NEW b \in Seq(S)
  PROVE  /\ a \o b \in Seq(S) /\ Len(a \o b) = Len(a) + Len(b)
         /\ \A k \in 1..Len(a) : (a \o b)[k] = a[k]
         /\ \A k \in 1..Len(b) : (a \o b)[k + Len(a)] = b[k]
OBVIOUS

LEMMA Shifted ==
  ASSUME NEW a \in Nat, NEW b \in Nat, NEW c, c = a + b - 1, NEW k \in Nat
  PROVE  k + a + b - 1 = k + c
OBVIOUS

(* What is left of a transaction that has pushed statements before and     *)
(* after the rest of its program.                                          *)
Rest(t, more, after) == todo' = [todo EXCEPT ![t] = (more \o Tail(@)) \o after]

LEMMA RestTypes ==
  ASSUME TypeOK, NEW t \in Actors, todo[t] # <<>>, plan' = plan,
         NEW more \in Seq(Statements(plan[t].kind)), NEW after \in Seq(Statements(plan[t].kind)),
         Rest(t, more, after)
  PROVE  /\ DOMAIN todo' = Actors
         /\ \A u \in Actors : todo'[u] \in Seq(Statements(plan'[u].kind))
         /\ \A u \in Actors \ {t} : todo'[u] = todo[u]
         /\ Len(todo'[t]) \in Nat /\ DOMAIN todo'[t] = 1..Len(todo'[t])
         /\ \A k \in DOMAIN more : k \in DOMAIN todo'[t] /\ todo'[t][k] = more[k]
         /\ \A k \in 2..Len(todo[t]) : /\ k - 1 + Len(more) \in DOMAIN todo'[t]
                                       /\ todo'[t][k - 1 + Len(more)] = todo[t][k]
         /\ \A k \in DOMAIN todo'[t] :
              \/ k \in DOMAIN more /\ todo'[t][k] = more[k]
              \/ k + 1 - Len(more) \in 2..Len(todo[t]) /\ todo'[t][k] = todo[t][k + 1 - Len(more)]
              \/ \E l \in DOMAIN after : todo'[t][k] = after[l]
<1> DEFINE S == Statements(plan[t].kind)
           q == todo[t]
           r == (more \o Tail(q)) \o after
<1>1. q \in Seq(S) /\ q # <<>> /\ DOMAIN todo = Actors
  BY DEF TypeOK
<1>2. todo'[t] = r /\ \A u \in Actors \ {t} : todo'[u] = todo[u]
  BY <1>1 DEF Rest
<1>3. /\ Tail(q) \in Seq(S) /\ Len(Tail(q)) = Len(q) - 1 /\ Len(q) \in Nat /\ Len(q) >= 1
      /\ \A k \in 2..Len(q) : Tail(q)[k - 1] = q[k]
  BY <1>1
<1>4. /\ r \in Seq(S) /\ Len(r) = Len(more) + Len(q) - 1 + Len(after)
      /\ \A k \in 1..Len(more) : r[k] = more[k]
      /\ \A k \in 2..Len(q) : r[k - 1 + Len(more)] = q[k]
      /\ \A k \in 1..Len(after) : r[k + Len(more) + Len(q) - 1] = after[k]
  <2>0. Len(more) \in Nat /\ Len(after) \in Nat
    OBVIOUS
  <2> DEFINE rest == Tail(q)
  <2> HIDE DEF rest
  <2>1. /\ more \o rest \in Seq(S) /\ Len(more \o rest) = Len(more) + Len(q) - 1
        /\ \A k \in 1..Len(more) : (more \o rest)[k] = more[k]
        /\ \A k \in 1..(Len(q) - 1) : (more \o rest)[k + Len(more)] = rest[k]
    BY <1>3, Joined DEF rest
  <2> DEFINE front == more \o rest
  <2>7. front \in Seq(S)
    BY <2>1
  <2> HIDE DEF front
  <2>2. /\ front \o after \in Seq(S) /\ Len(front \o after) = Len(front) + Len(after)
        /\ \A k \in 1..Len(front) : (front \o after)[k] = front[k]
        /\ \A k \in 1..Len(after) : (front \o after)[k + Len(front)] = after[k]
    BY <2>7, Joined
  <2>3. r = front \o after /\ Len(front) = Len(more) + Len(q) - 1
    BY <2>1 DEF front, rest
  <2>4. \A k \in 1..Len(more) : r[k] = more[k]
    BY <1>3, <2>1, <2>2, <2>3 DEF front
  <2>5. ASSUME NEW k \in 2..Len(q) PROVE r[k - 1 + Len(more)] = q[k]
    <3>1. k - 1 \in 1..(Len(q) - 1) /\ k - 1 + Len(more) \in 1..Len(front)
      BY <1>3, <2>3
    <3> QED BY <1>3, <2>1, <2>2, <2>3, <3>1 DEF front, rest
  <2>6. ASSUME NEW k \in 1..Len(after) PROVE r[k + Len(more) + Len(q) - 1] = after[k]
    <3> DEFINE a == Len(more)
               b == Len(q)
               c == Len(front)
    <3>1. a \in Nat /\ b \in Nat /\ c = a + b - 1 /\ k \in Nat
      BY <1>3, <2>0, <2>3
    <3>2. r[k + c] = after[k]
      BY <2>2, <2>3
    <3> HIDE DEF a, b, c
    <3>3. k + a + b - 1 = k + c
      BY <3>1, Shifted
    <3>4. r[k + a + b - 1] = after[k]
      BY <3>2, <3>3
    <3> QED BY <3>4 DEF a, b
  <2> QED BY <2>2, <2>3, <2>4, <2>5, <2>6
<1> HIDE DEF r
<1>5. \A k \in 1..Len(r) : \/ k \in 1..Len(more) /\ r[k] = more[k]
                           \/ k + 1 - Len(more) \in 2..Len(q) /\ r[k] = q[k + 1 - Len(more)]
                           \/ \E l \in 1..Len(after) : r[k] = after[l]
  <2> SUFFICES ASSUME NEW k \in 1..Len(r), k \notin 1..Len(more), k + 1 - Len(more) \notin 2..Len(q)
               PROVE  \E l \in 1..Len(after) : r[k] = after[l]
    <3>1. ASSUME NEW k \in 1..Len(r), k + 1 - Len(more) \in 2..Len(q)
          PROVE  r[k] = q[k + 1 - Len(more)]
      <4>1. (k + 1 - Len(more)) - 1 + Len(more) = k
        BY <1>3, <1>4
      <4> QED BY <1>4, <3>1, <4>1
    <3> QED BY <1>4, <3>1
  <2> DEFINE l == k - (Len(more) + Len(q) - 1)
  <2>1. l \in 1..Len(after) /\ l + Len(more) + Len(q) - 1 = k
    BY <1>3, <1>4
  <2> QED BY <1>4, <2>1
<1>6. /\ \A k \in 2..Len(q) : k - 1 + Len(more) \in 1..Len(r)
      /\ \A k \in 1..Len(more) : k \in 1..Len(r)
  BY <1>3, <1>4
<1>7. /\ DOMAIN r = 1..Len(r) /\ Len(r) \in Nat
      /\ DOMAIN more = 1..Len(more) /\ DOMAIN after = 1..Len(after)
  BY <1>4
<1>8. \A u \in Actors : todo'[u] \in Seq(Statements(plan'[u].kind))
  BY <1>2, <1>4 DEF TypeOK
<1>9. DOMAIN todo' = Actors
  BY <1>1 DEF Rest
<1> QED BY <1>2, <1>4, <1>5, <1>6, <1>7, <1>8, <1>9, ZenonT(60)

(* The types of the store, and of what is each transaction's own.          *)
StoreOK ==
  /\ plan \in Plans
  /\ fact \in [Facts -> Classes] /\ version \in [Facts -> Nat]
  /\ contact \in [Properties -> BOOLEAN] /\ aliasOf \in [Properties -> Properties \union {None}]
  /\ matches \in Seq(Match) /\ DOMAIN matches \subseteq Ids
  /\ review \in [Ids -> Reviewing \union {None}]
  /\ opp \in [Ids -> Opportunity \union {None}]
  /\ tasks \subseteq Ids \X SUBSET Ids
TodoOK == DOMAIN todo = Actors /\ \A t \in Actors : todo[t] \in Seq(Statements(plan[t].kind))
OwnOK ==
  /\ clock \in Nat /\ doing \in [Actors -> Nat]
  /\ seen \in [Actors -> Classes \union {None}]
  /\ made \in [Actors -> Seq(Match)] /\ raised \in [Actors -> SUBSET (Ids \X SUBSET Ids)]
  /\ HeldType
  /\ answer \in [Actors -> {"idle", "open", "written", "refused", "error"}]

LEMMA Types == TypeOK <=> StoreOK /\ TodoOK /\ OwnOK
BY DEF TypeOK, StoreOK, TodoOK, OwnOK

LEMMA StoreStays ==
  ASSUME StoreOK, UNCHANGED <<plan, store>>
  PROVE  StoreOK'
BY DEF StoreOK, store

Others(t) == \A u \in Actors \ {t} : Bystander(u)

(* A transaction that ends.                                                *)
LEMMA Ends ==
  ASSUME TypeOK, Compatible, NEW t \in Actors, NEW what \in {"written", "refused", "error"},
         End(t, what), UNCHANGED <<plan, clock>>
  PROVE  /\ TodoOK' /\ OwnOK' /\ Compatible' /\ Others(t)
         /\ answer'[t] # "open" /\ todo'[t] = <<>> /\ made'[t] = <<>>
<1> USE DEF End
<1>1. OwnOK /\ TodoOK
  BY Types
<1>2. held \in [Actors -> [Lockable -> 0..Update]] /\ 0 \in 0..Update
  BY <1>1 DEF OwnOK, HeldType, Update
<1>3. held' = [held EXCEPT ![t] = [r \in Lockable |-> 0]]
  BY DEF Release
<1>4. HeldType'
  BY <1>2, <1>3 DEF HeldType
<1>5. OwnOK'
  <2>1. /\ doing' \in [Actors -> Nat] /\ seen' \in [Actors -> Classes \union {None}]
        /\ clock' \in Nat
        /\ answer' \in [Actors -> {"idle", "open", "written", "refused", "error"}]
    BY <1>1 DEF OwnOK
  <2>2. made' \in [Actors -> Seq(Match)]
    <3>1. <<>> \in Seq(Match) /\ made \in [Actors -> Seq(Match)]
      BY <1>1 DEF OwnOK
    <3> QED BY <3>1
  <2>3. raised' \in [Actors -> SUBSET (Ids \X SUBSET Ids)]
    BY <1>1 DEF OwnOK
  <2> QED BY <1>4, <2>1, <2>2, <2>3 DEF OwnOK
<1>6. TodoOK'
  <2>1. \A u \in Actors : todo'[u] = IF u = t THEN <<>> ELSE todo[u]
    BY <1>1 DEF TodoOK
  <2>2. ASSUME NEW u \in Actors PROVE todo'[u] \in Seq(Statements(plan'[u].kind))
    <3>1. <<>> \in Seq(Statements(plan[u].kind)) /\ todo[u] \in Seq(Statements(plan[u].kind))
      BY <1>1 DEF TodoOK
    <3> QED BY <2>1, <3>1
  <2> QED BY <1>1, <2>2 DEF TodoOK
<1>7. Compatible'
  <2>1. \A u \in Actors, r \in Lockable : held'[u][r] = IF u = t THEN 0 ELSE held[u][r]
    BY <1>2, <1>3
  <2>2. \A u \in Actors, r \in Lockable : held[u][r] \in 0..4
    BY <1>2 DEF Update
  <2> QED BY <2>1, <2>2 DEF Compatible, Update
<1>8. ASSUME NEW u \in Actors \ {t} PROVE Bystander(u)
  BY <1>1, <1>3, <1>8 DEF Bystander, OwnOK, TodoOK, HeldType
<1>9. answer'[t] # "open" /\ todo'[t] = <<>> /\ made'[t] = <<>>
  BY <1>1 DEF OwnOK, TodoOK
<1> QED BY <1>4, <1>5, <1>6, <1>7, <1>8, <1>9 DEF Others

(* What a step that is not a COMMIT comes to.                              *)
Stepped(t) ==
  /\ TypeOK' /\ Compatible' /\ Others(t) /\ UNCHANGED <<plan, store>>
  /\ IF answer'[t] = "open" THEN Current(t)' ELSE todo'[t] = <<>> /\ made'[t] = <<>>

LEMMA FailStep ==
  ASSUME TypeOK, Compatible, NEW t \in Actors, Fail(t)
  PROVE  Stepped(t)
<1>1. End(t, "error") /\ UNCHANGED <<plan, store, clock>>
  BY DEF Fail
<1>2. /\ TodoOK' /\ OwnOK' /\ Compatible' /\ Others(t)
      /\ answer'[t] # "open" /\ todo'[t] = <<>> /\ made'[t] = <<>>
  BY <1>1, Ends
<1>3. StoreOK'
  BY <1>1, Types, StoreStays
<1>4. TypeOK'
  BY <1>2, <1>3, Types, PTL
<1> QED BY <1>1, <1>2, <1>4 DEF Stepped

LEMMA BeginStep ==
  ASSUME TypeOK, Compatible, Constants, NEW t \in Actors, Begin(t)
  PROVE  Stepped(t)
<1> DEFINE j == plan[t]
<1>1. /\ UNCHANGED <<plan, store, seen, made, raised, held>>
      /\ answer' = [answer EXCEPT ![t] = "open"]
      /\ clock' = IF j.kind = "run" THEN clock + 1 ELSE clock
  BY DEF Begin
<1>2. PICK i \in Subjects(j) :
        /\ todo' = [todo EXCEPT ![t] = Program(j, i)]
        /\ doing' = [doing EXCEPT ![t] = IF j.kind = "run" THEN clock + 1 ELSE i]
  BY DEF Begin
<1> DEFINE d == IF j.kind = "run" THEN clock + 1 ELSE i
<1>3. StoreOK /\ TodoOK /\ OwnOK /\ j \in Job
  BY Types DEF StoreOK, Constants
<1>4. i \in Nat
  BY MatchTypes DEF Subjects
<1>5. d \in Nat /\ clock' \in Nat
  BY <1>1, <1>3, <1>4 DEF OwnOK
<1>6. Program(j, d) = Program(j, i) /\ Subjected(j, d)
  <2>1. CASE j.kind = "run"
    BY <1>3, <2>1, RunProgram DEF Subjected
  <2>2. CASE j.kind # "run"
    BY <2>2 DEF Subjected
  <2> QED BY <2>1, <2>2
<1>7. Program(j, d) \in Seq(Statements(j.kind)) /\ Ordered(j, d, Program(j, d))
  BY <1>6, Programs
<1> HIDE DEF d
<1>8. /\ todo'[t] = Program(j, d) /\ doing'[t] = d /\ answer'[t] = "open"
      /\ \A u \in Actors \ {t} : todo'[u] = todo[u] /\ doing'[u] = doing[u] /\ answer'[u] = answer[u]
  BY <1>1, <1>2, <1>3, <1>6 DEF TodoOK, OwnOK, d
<1>9. TypeOK'
  <2>1. StoreOK'
    BY <1>1, <1>3, StoreStays
  <2>2. TodoOK'
    BY <1>1, <1>2, <1>3, <1>7, <1>8 DEF TodoOK
  <2>3. OwnOK'
    BY <1>1, <1>2, <1>3, <1>5 DEF OwnOK, HeldType, d
  <2> QED BY <2>1, <2>2, <2>3, Types, PTL
<1>10. Compatible'
  BY <1>1 DEF Compatible
<1>11. Others(t)
  BY <1>1, <1>8 DEF Others, Bystander
<1>12. Current(t)'
  <2>1. /\ Subjects(plan[t])' = Subjects(j) /\ Program(plan[t], doing[t])' = Program(j, d)
        /\ \A s : Needed(plan[t], doing[t], s)' = Needed(j, d, s)
    BY <1>1, <1>8 DEF store, Subjects, Program, Needed, Guards, FactLocks, PropertyOf
  <2>2. j.kind # "run" => d \in Subjects(j)
    BY <1>6 DEF Subjected
  <2>3. ASSUME NEW k \in DOMAIN todo'[t], NEW g \in Needed(plan[t], doing[t], todo[t][k])'
        PROVE  \E m \in 1..(k - 1) : todo'[t][m] = g
    <3>1. g \in Needed(j, d, todo'[t][k])
      BY <1>1, <1>8, <2>3 DEF store, Needed, Guards, FactLocks, PropertyOf, What
    <3> QED BY <1>7, <1>8, <3>1 DEF Ordered
  <2> QED BY <1>1, <1>8, <2>1, <2>2, <2>3 DEF Current
<1> QED BY <1>1, <1>8, <1>9, <1>10, <1>11, <1>12 DEF Stepped

(* A step that goes on with its program, having pushed statements that need*)
(* nothing before them.                                                    *)
LEMMA Continues ==
  ASSUME TypeOK, Constants, NEW t \in Actors, Current(t), todo[t] # <<>>, answer'[t] = "open",
         UNCHANGED <<plan, store>>, doing'[t] = doing[t], OwnOK', Compatible',
         \A u \in Actors \ {t} :
           /\ doing'[u] = doing[u] /\ seen'[u] = seen[u] /\ made'[u] = made[u]
           /\ raised'[u] = raised[u] /\ held'[u] = held[u] /\ answer'[u] = answer[u],
         \A r \in Lockable : held'[t][r] >= held[t][r],
         seen'[t] = seen[t] \/ seen'[t] = Classify(PropertyOf(doing[t])),
         raised'[t] = raised[t] \/ WorkRead(t)',
         NEW head, Head(todo[t]) = head, Kept(t, head)',
         NEW more \in Seq(Statements(plan[t].kind)), NEW after \in Seq(Statements(plan[t].kind)),
         Rest(t, more, after),
         \A k \in DOMAIN more : Needed(plan[t], doing[t], more[k]) = {},
         \A k \in DOMAIN after : Needed(plan[t], doing[t], after[k]) = {}
  PROVE  Stepped(t)
<1>1. /\ DOMAIN todo' = Actors
      /\ \A u \in Actors : todo'[u] \in Seq(Statements(plan'[u].kind))
      /\ \A u \in Actors \ {t} : todo'[u] = todo[u]
      /\ Len(todo'[t]) \in Nat /\ DOMAIN todo'[t] = 1..Len(todo'[t])
      /\ \A k \in 2..Len(todo[t]) : /\ k - 1 + Len(more) \in DOMAIN todo'[t]
                                    /\ todo'[t][k - 1 + Len(more)] = todo[t][k]
      /\ \A k \in DOMAIN todo'[t] :
           \/ k \in DOMAIN more /\ todo'[t][k] = more[k]
           \/ k + 1 - Len(more) \in 2..Len(todo[t]) /\ todo'[t][k] = todo[t][k + 1 - Len(more)]
           \/ \E l \in DOMAIN after : todo'[t][k] = after[l]
  BY RestTypes
<1>2. head = todo[t][1] /\ Len(todo[t]) \in Nat /\ DOMAIN todo[t] = 1..Len(todo[t]) /\ Len(more) \in Nat
  BY Ready
<1>3. TypeOK'
  <2>1. StoreOK'
    BY Types, StoreStays
  <2>2. TodoOK'
    BY <1>1 DEF TodoOK
  <2> QED BY <2>1, <2>2, Types, PTL
<1>4. Others(t)
  BY <1>1 DEF Others, Bystander
<1>5. LET key == Locks("request", 0, KeyShare)
      IN key \in Of(todo[t]) => Holds(t, key)' \/ key \in Of(todo'[t])
  <2> DEFINE key == Locks("request", 0, KeyShare)
  <2> SUFFICES ASSUME key \in Of(todo[t]) PROVE Holds(t, key)' \/ key \in Of(todo'[t])
    OBVIOUS
  <2>1. PICK k \in DOMAIN todo[t] : todo[t][k] = key
    BY DEF Of
  <2>2. CASE k = 1
    <3>1. head = key /\ head[1] = "lock"
      BY <1>2, <2>1, <2>2 DEF Locks
    <3> QED BY <3>1 DEF Kept
  <2>3. CASE k # 1
    <3>1. k \in 2..Len(todo[t])
      BY <1>2, <2>3
    <3>2. k - 1 + Len(more) \in DOMAIN todo'[t] /\ todo'[t][k - 1 + Len(more)] = key
      BY <1>1, <2>1, <3>1
    <3> QED BY <3>2 DEF Of
  <2> QED BY <2>2, <2>3
<1>6. \A r \in Lockable : held'[t][r] \in Nat /\ held'[t][r] >= held[t][r]
  <2>1. held' \in [Actors -> [Lockable -> 0..4]]
    BY DEF OwnOK, HeldType, Update
  <2>2. \A r \in Lockable : held'[t][r] \in 0..4
    BY <2>1
  <2>3. 0..4 \subseteq Nat
    OBVIOUS
  <2> QED BY <2>2, <2>3
<1>7. Advances(t)
  BY <1>5, <1>6 DEF Advances
<1>8. Current(t)'
  <2>1. todo'[t] \in Seq(Statements(plan[t].kind))
    BY <1>1
  <2>2. \A k \in DOMAIN todo'[t] : \/ k + 1 - Len(more) \in 2..Len(todo[t])
                                   \/ Needed(plan[t], doing[t], todo'[t][k]) = {}
    BY <1>1
  <2> QED BY <1>1, <1>2, <1>7, <2>1, <2>2, Advance
<1> QED BY <1>3, <1>4, <1>8 DEF Stepped

LEMMA HeldStays ==
  ASSUME TypeOK, NEW t \in Actors, UNCHANGED held
  PROVE  \A r \in Lockable : held'[t][r] >= held[t][r]
<1>1. held \in [Actors -> [Lockable -> 0..4]]
  BY DEF TypeOK, HeldType, Update
<1> SUFFICES ASSUME NEW r \in Lockable PROVE held[t][r] >= held[t][r]
  OBVIOUS
<1>2. held[t][r] \in Nat
  BY <1>1
<1> QED BY <1>2

(* A step that only drops its head.                                        *)
LEMMA Drops ==
  ASSUME TypeOK, NEW t \in Actors, todo[t] # <<>>, NEW more \in Seq(Statements(plan[t].kind)),
         Continue(t, more)
  PROVE  Rest(t, more, <<>>)
<1> DEFINE S == Statements(plan[t].kind)
           rest == Tail(todo[t])
<1>1. DOMAIN todo = Actors /\ rest \in Seq(S)
  BY DEF TypeOK
<1> HIDE DEF rest
<1>2. more \o rest \in Seq(S)
  BY <1>1
<1>3. (more \o rest) \o <<>> = more \o rest
  <2> DEFINE front == more \o rest
  <2> HIDE DEF front
  <2>1. front \in Seq(S) => front \o <<>> = front
    OBVIOUS
  <2> QED BY <1>2, <2>1 DEF front
<1> QED BY <1>3 DEF Continue, Rest, rest

LEMMA TakeLockStep ==
  ASSUME TypeOK, Compatible, Constants, NEW t \in Actors, Current(t), TakeLock(t)
  PROVE  Stepped(t)
<1> DEFINE head == Head(todo[t])
           r == head[2]
           mode == head[3]
<1>1. /\ answer[t] = "open" /\ todo[t] # <<>> /\ head[1] = "lock"
      /\ Lock(t, r, mode) /\ Continue(t, <<>>)
      /\ UNCHANGED <<plan, store, clock, own, answer>>
  BY DEF TakeLock, At
<1>2. head \in Statements(plan[t].kind) /\ OwnOK
  BY <1>1, Ready, Types
<1>3. r \in Lockable /\ mode \in 1..4
  BY <1>1, <1>2 DEF Statements, Update
<1>4. held \in [Actors -> [Lockable -> 0..4]]
  BY <1>2 DEF OwnOK, HeldType, Update
<1> HIDE DEF r, mode
<1>5. /\ \A u \in Actors \ {t} : held'[u] = held[u]
      /\ \A x \in Lockable : held'[t][x] =
           IF x = r /\ mode > held[t][x] THEN mode ELSE held[t][x]
      /\ held' \in [Actors -> [Lockable -> 0..4]]
  BY <1>1, <1>3, <1>4 DEF Lock
<1>6. OwnOK'
  BY <1>1, <1>2, <1>5 DEF OwnOK, own, HeldType, Update
<1>7. Compatible'
  <2> SUFFICES ASSUME NEW a \in Actors, NEW b \in Actors, a # b, NEW x \in Lockable
               PROVE  held'[a][x] + held'[b][x] <= 4
    BY DEF Compatible, Update
  <2>1. held[a][x] + held[b][x] <= 4 /\ held[a][x] \in 0..4 /\ held[b][x] \in 0..4
    BY <1>4 DEF Compatible, Update
  <2>2. ASSUME NEW u \in Actors \ {t} PROVE held[u][r] + mode <= 4
    <3>1. ~(held[u][r] + mode > 4)
      BY <1>1 DEF Lock, Blockers, Update
    <3>2. held[u][r] \in 0..4
      BY <1>3, <1>4
    <3> QED BY <1>3, <3>1, <3>2
  <2>3. CASE a # t /\ b # t
    BY <1>5, <2>1, <2>3
  <2>4. CASE a = t
    BY <1>3, <1>5, <2>1, <2>2, <2>4
  <2>5. CASE b = t
    BY <1>3, <1>5, <2>1, <2>2, <2>5
  <2> QED BY <2>3, <2>4, <2>5
<1>8. \A x \in Lockable : held'[t][x] >= held[t][x]
  <2> SUFFICES ASSUME NEW x \in Lockable PROVE held'[t][x] >= held[t][x]
    OBVIOUS
  <2>1. held[t][x] \in 0..4
    BY <1>4
  <2> QED BY <1>3, <1>5, <2>1
<1>9. PICK h : h = head
  OBVIOUS
<1>10. Kept(t, h)'
  <2>1. held'[t][h[2]] >= h[3] /\ h[1] = "lock"
    BY <1>1, <1>3, <1>4, <1>5, <1>9 DEF r, mode
  <2> QED BY <2>1 DEF Kept, Holds
<1>11. <<>> \in Seq(Statements(plan[t].kind)) /\ DOMAIN <<>> = {}
  OBVIOUS
<1>12. Rest(t, <<>>, <<>>)
  BY <1>1, <1>11, Drops
<1>13. /\ answer'[t] = "open" /\ UNCHANGED <<plan, store, doing, seen, made, raised, answer>>
  BY <1>1 DEF own
<1> HIDE DEF head
<1> QED BY <1>1, <1>5, <1>6, <1>7, <1>8, <1>9, <1>10, <1>11, <1>12, <1>13, Continues DEF head

(* A transaction holds what its next statement rests on.                   *)
LEMMA HeadGuards ==
  ASSUME TypeOK, NEW t \in Actors, Current(t), todo[t] # <<>>
  PROVE  /\ \A g \in Guards(plan[t], doing[t], What(Head(todo[t]))) : Holds(t, g)
         /\ What(Head(todo[t])) = "valid" => seen[t] = Classify(PropertyOf(doing[t]))
<1> DEFINE what == What(Head(todo[t]))
<1>1. \A g \in Needed(plan[t], doing[t], Head(todo[t])) : Kept(t, g)
  BY Ready
<1>2. \A g \in Guards(plan[t], doing[t], what) : Kept(t, g) /\ g[1] = "lock"
  BY <1>1 DEF Needed, Guards, FactLocks, Locks
<1>3. what = "valid" => Kept(t, <<"facts">>)
  BY <1>1 DEF Needed
<1>4. Kept(t, <<"facts">>) => seen[t] = Classify(PropertyOf(doing[t]))
  BY DEF Kept, Established, What
<1> QED BY <1>2, <1>3, <1>4 DEF Kept

LEMMA CheckPasses ==
  ASSUME TypeOK, Constants, NEW t \in Actors, Current(t), todo[t] # <<>>,
         NEW h, h = Head(todo[t]), h[1] = "check", ~Refuses(t, h[2]),
         UNCHANGED <<plan, store, own, held>>
  PROVE  Kept(t, h)'
<1> DEFINE what == What(h)
<1>1. what = h[2] /\ what \in Checks(plan[t].kind)
  <2>1. h \in Statements(plan[t].kind)
    BY Ready
  <2> QED BY <2>1 DEF Statements, What
<1>2. what \notin {"facts", "snapshot", "work"}
  BY <1>1 DEF Checks
<1> HIDE DEF what
<1>3. Established(t, what)
  <2>1. \A g \in Guards(plan[t], doing[t], what) : Holds(t, g)
    BY HeadGuards DEF what
  <2>2. what = "valid" => seen[t] = Classify(PropertyOf(doing[t]))
    BY HeadGuards DEF what
  <2> QED BY <1>1, <1>2, <2>1, <2>2 DEF Established
<1>4. Guards(plan[t], doing[t], what)' = Guards(plan[t], doing[t], what)
  BY DEF store, own, Guards, FactLocks, PropertyOf
<1>5. Refuses(t, what)' = Refuses(t, what)
  BY DEF store, own, Refuses, Decided, Superseded, OpenOnPlace, IsOpen, PropertyOf
<1>6. Classify(PropertyOf(doing[t]))' = Classify(PropertyOf(doing[t]))
  BY DEF store, own, Classify, PropertyOf
<1>7. seen'[t] = seen[t] /\ plan'[t] = plan[t] /\ \A g : Holds(t, g)' <=> Holds(t, g)
  BY DEF own, Holds
<1>8. Established(t, what)'
  BY <1>2, <1>3, <1>4, <1>5, <1>6, <1>7 DEF Established
<1> QED BY <1>8 DEF Kept, what, What

LEMMA CheckStepStep ==
  ASSUME TypeOK, Compatible, Constants, NEW t \in Actors, Current(t), CheckStep(t)
  PROVE  Stepped(t)
<1>1. PICK h : h = Head(todo[t])
  OBVIOUS
<1>2. /\ answer[t] = "open" /\ todo[t] # <<>> /\ h[1] = "check" /\ UNCHANGED <<plan, store, clock>>
      /\ IF Refuses(t, h[2]) THEN End(t, "refused")
         ELSE Continue(t, <<>>) /\ UNCHANGED <<own, held, answer>>
  BY <1>1 DEF CheckStep, At
<1>3. CASE Refuses(t, h[2])
  <2>1. /\ TodoOK' /\ OwnOK' /\ Compatible' /\ Others(t)
        /\ answer'[t] # "open" /\ todo'[t] = <<>> /\ made'[t] = <<>>
    BY <1>2, <1>3, Ends
  <2>2. StoreOK'
    BY <1>2, Types, StoreStays
  <2>3. TypeOK'
    BY <2>1, <2>2, Types, PTL
  <2> QED BY <1>2, <2>1, <2>3 DEF Stepped
<1>4. CASE ~Refuses(t, h[2])
  <2>1. Kept(t, h)'
    BY <1>1, <1>2, <1>4, CheckPasses
  <2>2. <<>> \in Seq(Statements(plan[t].kind)) /\ DOMAIN <<>> = {}
    OBVIOUS
  <2>3. Rest(t, <<>>, <<>>)
    BY <1>2, <1>4, <2>2, Drops
  <2>4. UNCHANGED <<plan, store, doing, seen, made, raised, held, clock, answer>>
    BY <1>2, <1>4 DEF own
  <2>5. OwnOK'
    BY <2>4, Types DEF OwnOK, HeldType
  <2>6. Compatible'
    BY <2>4 DEF Compatible
  <2>7. \A r \in Lockable : held'[t][r] >= held[t][r]
    BY <2>4, HeldStays
  <2> QED BY <1>1, <1>2, <2>1, <2>2, <2>3, <2>4, <2>5, <2>6, <2>7, Continues
<1> QED BY <1>3, <1>4

LEMMA ReadFactsStep ==
  ASSUME TypeOK, Compatible, Constants, NEW t \in Actors, Current(t), ReadFacts(t)
  PROVE  Stepped(t)
<1>1. PICK h : h = Head(todo[t])
  OBVIOUS
<1>2. /\ answer[t] = "open" /\ todo[t] # <<>> /\ h[1] = "facts"
      /\ seen' = [seen EXCEPT ![t] = Classify(PropertyOf(doing[t]))]
      /\ Continue(t, <<>>)
      /\ UNCHANGED <<plan, store, clock, doing, made, raised, held, answer>>
  BY <1>1 DEF ReadFacts, At
<1>3. StoreOK /\ OwnOK
  BY Types
<1>4. /\ seen'[t] = Classify(PropertyOf(doing[t])) /\ \A u \in Actors \ {t} : seen'[u] = seen[u]
  BY <1>2, <1>3 DEF OwnOK
<1>5. Classify(PropertyOf(doing[t])) \in Classes
  BY DEF Classify, Classes
<1>6. OwnOK'
  BY <1>2, <1>3, <1>5 DEF OwnOK, HeldType
<1>7. Compatible'
  BY <1>2 DEF Compatible
<1>8. Kept(t, h)'
  <2>1. What(h) = "facts"
    BY <1>2 DEF What
  <2>2. \A g \in Guards(plan[t], doing[t], "facts") : Holds(t, g)
    BY <1>1, <1>2, <2>1, HeadGuards
  <2>3. Guards(plan[t], doing[t], "facts")' = Guards(plan[t], doing[t], "facts")
    BY <1>2 DEF store, Guards, FactLocks, PropertyOf
  <2>4. Classify(PropertyOf(doing[t]))' = Classify(PropertyOf(doing[t]))
    BY <1>2 DEF store, Classify, PropertyOf
  <2>5. "facts" \notin Checks(plan'[t].kind)
    BY DEF Checks
  <2>6. Established(t, "facts")'
    BY <1>2, <1>4, <2>2, <2>3, <2>4, <2>5 DEF Established, Holds
  <2> QED BY <1>2, <2>6 DEF Kept, What
<1>9. <<>> \in Seq(Statements(plan[t].kind)) /\ DOMAIN <<>> = {}
  OBVIOUS
<1>10. Rest(t, <<>>, <<>>)
  BY <1>2, <1>9, Drops
<1>11. \A r \in Lockable : held'[t][r] >= held[t][r]
  BY <1>2, HeldStays
<1> QED BY <1>1, <1>2, <1>4, <1>6, <1>7, <1>8, <1>9, <1>10, <1>11, Continues

(* What a run reads is matches, one for each property.                     *)
LEMMA EvaluatedTypes ==
  ASSUME TypeOK, Constants, NEW p \in Properties, NEW at \in Nat
  PROVE  Evaluated(p, at) \in Match /\ Evaluated(p, at).property = p
<1>1. /\ Request \in Facts /\ <<"property", p>> \in Facts /\ <<"offer", p>> \in Facts
      /\ <<"binding", p>> \in Facts /\ version \in [Facts -> Nat]
  BY Locked DEF Request, TypeOK
<1>2. <<version[Request], version[<<"property", p>>], version[<<"offer", p>>], version[<<"binding", p>>]>>
        \in Nat \X Nat \X Nat \X Nat
  BY <1>1
<1>3. EligibilityOf(p) \in Eligibility
  BY DEF EligibilityOf, Eligibility
<1> QED BY <1>2, <1>3 DEF Evaluated, Match

(* What is pushed needs nothing before it.                                 *)
LEMMA Pushed ==
  ASSUME NEW t \in Actors, NEW S, NEW a \in Seq(S),
         \A k \in DOMAIN a : What(a[k]) \in {"lock", "gates", "snapshot", "insert", "task"}
  PROVE  \A k \in DOMAIN a : Needed(plan[t], doing[t], a[k]) = {}
BY NeedsNothing

LEMMA InsertsTypes ==
  ASSUME NEW ms \in SUBSET Match
  PROVE  /\ Inserts(ms) \in Seq(Statements("run")) /\ Len(Inserts(ms)) \in {0, 1}
         /\ \A k \in DOMAIN Inserts(ms) : k = 1 /\ Inserts(ms)[k] = <<"insert", ms>>
<1>1. <<"insert", ms>> \in Statements("run")
  BY OtherStatements
<1>2. CASE ms = {}
  BY <1>2 DEF Inserts
<1>3. CASE ms # {}
  <2>1. Inserts(ms) = <<<<"insert", ms>>>>
    BY <1>3 DEF Inserts
  <2> QED BY <1>1, <2>1
<1> QED BY <1>2, <1>3

LEMMA TasksTypes ==
  ASSUME NEW is \in SUBSET Ids
  PROVE  /\ Tasks(is) \in Seq(Statements("consolidate")) /\ Len(Tasks(is)) \in {0, 1}
         /\ \A k \in DOMAIN Tasks(is) : k = 1 /\ Tasks(is)[k] = <<"task", is>>
<1>1. <<"task", is>> \in Statements("consolidate")
  BY OtherStatements
<1>2. CASE is = {}
  BY <1>2 DEF Tasks
<1>3. CASE is # {}
  <2>1. Tasks(is) = <<<<"task", is>>>>
    BY <1>3 DEF Tasks
  <2> QED BY <1>1, <2>1
<1> QED BY <1>2, <1>3

LEMMA TaskKeysTypes ==
  ASSUME NEW kind, NEW p \in Properties, NEW i \in Ids
  PROVE  /\ TaskKeys(p, i) \in Seq(Statements(kind)) /\ Len(TaskKeys(p, i)) = 3
         /\ \A k \in DOMAIN TaskKeys(p, i) : What(TaskKeys(p, i)[k]) = "lock"
<1> DEFINE S == Statements(kind)
           a == Locks("request", 0, KeyShare)
           b == Locks("property", p, KeyShare)
           c == Locks("match", i, KeyShare)
<1>1. a \in S /\ b \in S /\ c \in S
  BY LockStatements DEF KeyShare
<1>2. What(a) = "lock" /\ What(b) = "lock" /\ What(c) = "lock"
  BY Whats
<1>3. TaskKeys(p, i) = <<a, b, c>>
  BY DEF TaskKeys
<1> HIDE DEF S, a, b, c
<1>4. /\ <<a, b, c>> \in Seq(S) /\ Len(<<a, b, c>>) = 3
      /\ \A k \in DOMAIN <<a, b, c>> : <<a, b, c>>[k] \in {a, b, c}
  BY <1>1
<1> QED BY <1>2, <1>3, <1>4 DEF S

(* Which kinds of transaction make which statements.                       *)
LEMMA KindOf ==
  ASSUME NEW kind, NEW s \in Statements(kind)
  PROVE  /\ s[1] \in {"snapshot", "insert"} => kind = "run"
         /\ s[1] \in {"work", "task"} => kind = "consolidate"
         /\ s[1] = "insert" => s[2] \in SUBSET Match
         /\ s[1] = "task" => s[2] \in SUBSET Ids
<1>1. CASE s \in {"lock"} \X Lockable \X (1..Update)
  BY <1>1
<1>2. CASE s \in {"check"} \X Checks(kind)
  BY <1>2
<1>3. CASE kind \in Reviewing \union Commands /\ s = <<"facts">>
  BY <1>3
<1>4. CASE kind = "run" /\ (s = <<"snapshot">> \/ s \in {"insert"} \X SUBSET Match)
  BY <1>4
<1>5. CASE kind = "consolidate" /\ (s = <<"work">> \/ s \in {"task"} \X SUBSET Ids)
  BY <1>5
<1> QED BY <1>1, <1>2, <1>3, <1>4, <1>5 DEF Statements, Reviewing, Commands

(* What is pushed, joined.                                                 *)
LEMMA PushedJoined ==
  ASSUME NEW S, NEW a \in Seq(S), NEW b \in Seq(S), NEW what,
         \A k \in DOMAIN a : What(a[k]) \in what, \A k \in DOMAIN b : What(b[k]) \in what
  PROVE  a \o b \in Seq(S) /\ \A k \in DOMAIN (a \o b) : What((a \o b)[k]) \in what
<1>1. /\ a \o b \in Seq(S) /\ Len(a \o b) = Len(a) + Len(b)
      /\ \A l \in 1..Len(a) : (a \o b)[l] = a[l]
      /\ \A l \in 1..Len(b) : (a \o b)[l + Len(a)] = b[l]
  BY Joined
<1>2. /\ Len(a) \in Nat /\ Len(b) \in Nat /\ DOMAIN a = 1..Len(a) /\ DOMAIN b = 1..Len(b)
      /\ DOMAIN (a \o b) = 1..Len(a \o b)
  BY <1>1
<1>3. ASSUME NEW k \in DOMAIN (a \o b) PROVE What((a \o b)[k]) \in what
  <2>1. CASE k <= Len(a)
    BY <1>1, <1>2, <1>3, <2>1
  <2>2. CASE k > Len(a)
    <3>1. k - Len(a) \in 1..Len(b) /\ (k - Len(a)) + Len(a) = k
      BY <1>1, <1>2, <1>3, <2>2
    <3> QED BY <1>1, <1>2, <3>1
  <2> QED BY <1>1, <1>2, <1>3, <2>1, <2>2
<1> QED BY <1>1, <1>3

(* The step in which a run reads its snapshot.                             *)
LEMMA SnapshotStep ==
  ASSUME TypeOK, Compatible, Constants, NEW t \in Actors, Current(t), Snapshot(t)
  PROVE  Stepped(t)
<1>1. PICK h : h = Head(todo[t])
  OBVIOUS
<1>2. /\ answer[t] = "open" /\ todo[t] # <<>> /\ h[1] = "snapshot" /\ UNCHANGED <<plan, store, clock>>
  BY <1>1 DEF Snapshot, At
<1>3. CASE End(t, "refused")
  <2>1. /\ TodoOK' /\ OwnOK' /\ Compatible' /\ Others(t)
        /\ answer'[t] # "open" /\ todo'[t] = <<>> /\ made'[t] = <<>>
    BY <1>2, <1>3, Ends
  <2>2. StoreOK'
    BY <1>2, Types, StoreStays
  <2>3. TypeOK'
    BY <2>1, <2>2, Types, PTL
  <2> QED BY <1>2, <2>1, <2>3 DEF Stepped
<1>4. CASE ~End(t, "refused")
  <2>1. PICK offers : Continue(t, Inserts({Evaluated(p, doing[t]) : p \in Candidates(offers)})
                                    \o <<Locks("request", 0, KeyShare)>>)
    BY <1>4 DEF Snapshot
  <2>2. UNCHANGED <<own, held, answer>>
    BY <1>4 DEF Snapshot
  <2> DEFINE ms == {Evaluated(p, doing[t]) : p \in Candidates(offers)}
             key == Locks("request", 0, KeyShare)
             more == Inserts(ms) \o <<key>>
  <2>3. ms \in SUBSET Match
    <3>1. doing[t] \in Nat
      BY DEF TypeOK
    <3>2. \A p \in Properties : Evaluated(p, doing[t]) \in Match
      BY <3>1, EvaluatedTypes
    <3>3. Candidates(offers) \subseteq Properties
      BY DEF Candidates
    <3> HIDE DEF Evaluated, Candidates
    <3> QED BY <3>2, <3>3
  <2>4. plan[t].kind = "run"
    BY <1>1, <1>2, Ready, KindOf
  <2> HIDE DEF ms
  <2>5. /\ Inserts(ms) \in Seq(Statements("run"))
        /\ \A k \in DOMAIN Inserts(ms) : What(Inserts(ms)[k]) \in {"insert", "lock"}
    BY <2>3, InsertsTypes, Whats
  <2>6. key \in Statements("run") /\ What(key) = "lock"
    BY LockStatements, Whats DEF KeyShare
  <2> HIDE DEF key
  <2>7. /\ <<key>> \in Seq(Statements("run"))
        /\ \A k \in DOMAIN <<key>> : What(<<key>>[k]) \in {"insert", "lock"}
    BY <2>6
  <2>8. /\ more \in Seq(Statements("run"))
        /\ \A k \in DOMAIN more : What(more[k]) \in {"insert", "lock"}
    BY <2>5, <2>7, PushedJoined
  <2>9. Len(more) \in DOMAIN more /\ more[Len(more)] = key
    <3>1. /\ Len(more) = Len(Inserts(ms)) + 1 /\ more[1 + Len(Inserts(ms))] = key
          /\ Len(Inserts(ms)) \in Nat
      BY <2>5, <2>7, Joined
    <3> QED BY <3>1
  <2> HIDE DEF more
  <2>10. <<>> \in Seq(Statements(plan[t].kind)) /\ DOMAIN <<>> = {}
    OBVIOUS
  <2>11. Rest(t, more, <<>>)
    BY <1>2, <2>1, <2>4, <2>8, Drops DEF more, key, ms
  <2>12. \A k \in DOMAIN more : Needed(plan[t], doing[t], more[k]) = {}
    BY <2>8, Pushed
  <2>13. Kept(t, h)'
    <3>1. todo'[t] = (more \o Tail(todo[t])) \o <<>>
      BY <2>11 DEF Rest, TypeOK
    <3>2. key \in Of(todo'[t])
      <4>1. Tail(todo[t]) \in Seq(Statements(plan[t].kind))
        BY <1>2 DEF TypeOK
      <4> DEFINE rest == Tail(todo[t])
                 front == more \o rest
      <4> HIDE DEF rest
      <4>2. front \in Seq(Statements(plan[t].kind)) /\ front[Len(more)] = key
            /\ Len(more) \in DOMAIN front
        BY <2>4, <2>8, <2>9, <4>1 DEF rest
      <4> HIDE DEF front
      <4>3. front \o <<>> = front
        BY <4>2
      <4> QED BY <3>1, <4>2, <4>3 DEF Of, front, rest
    <3>3. Guards(plan'[t], doing'[t], "snapshot") = {} /\ "snapshot" \notin Checks(plan'[t].kind)
      BY DEF Guards, Checks
    <3>4. Established(t, "snapshot")'
      BY <3>2, <3>3 DEF Established, key, Guards
    <3> QED BY <1>2, <3>4 DEF Kept, What
  <2>14. UNCHANGED <<plan, store, doing, seen, made, raised, held, clock, answer>>
    BY <1>2, <2>2 DEF own
  <2>15. OwnOK' /\ Compatible'
    BY <2>14, Types DEF OwnOK, HeldType, Compatible
  <2>16. \A r \in Lockable : held'[t][r] >= held[t][r]
    BY <2>14, HeldStays
  <2> QED BY <1>1, <1>2, <2>4, <2>8, <2>10, <2>11, <2>12, <2>13, <2>14, <2>15, <2>16, Continues
<1> QED BY <1>3, <1>4

(* The step in which a consolidation inserts a task.                       *)
LEMMA RaiseTaskStep ==
  ASSUME TypeOK, Compatible, Constants, NEW t \in Actors, Current(t), RaiseTask(t)
  PROVE  Stepped(t)
<1>1. PICK h : h = Head(todo[t])
  OBVIOUS
<1>2. PICK i \in h[2] :
        /\ answer[t] = "open" /\ todo[t] # <<>> /\ h[1] = "task"
        /\ Continue(t, TaskKeys(plan[t].property, i) \o Tasks(h[2] \ {i}))
        /\ UNCHANGED <<plan, store, clock, own, held, answer>>
  BY <1>1 DEF RaiseTask, At
<1>3. plan[t].kind = "consolidate" /\ h[2] \in SUBSET Ids
  BY <1>1, <1>2, Ready, KindOf
<1>4. plan[t].property \in Properties
  BY JobTypes DEF TypeOK, Constants
<1> DEFINE more == TaskKeys(plan[t].property, i) \o Tasks(h[2] \ {i})
<1>5. /\ more \in Seq(Statements(plan[t].kind))
      /\ \A k \in DOMAIN more : What(more[k]) \in {"task", "lock"}
  <2>1. /\ TaskKeys(plan[t].property, i) \in Seq(Statements("consolidate"))
        /\ \A k \in DOMAIN TaskKeys(plan[t].property, i) :
             What(TaskKeys(plan[t].property, i)[k]) \in {"task", "lock"}
    BY <1>3, <1>4, TaskKeysTypes
  <2>2. /\ Tasks(h[2] \ {i}) \in Seq(Statements("consolidate"))
        /\ \A k \in DOMAIN Tasks(h[2] \ {i}) : What(Tasks(h[2] \ {i})[k]) \in {"task", "lock"}
    BY <1>3, TasksTypes, Whats
  <2> QED BY <1>3, <2>1, <2>2, PushedJoined
<1>6. Continue(t, more)
  BY <1>2
<1> HIDE DEF more
<1>7. \A k \in DOMAIN more : Needed(plan[t], doing[t], more[k]) = {}
  BY <1>5, Pushed
<1>8. <<>> \in Seq(Statements(plan[t].kind)) /\ DOMAIN <<>> = {}
  OBVIOUS
<1>9. Rest(t, more, <<>>)
  BY <1>2, <1>5, <1>6, Drops
<1>10. Kept(t, h)'
  <2>1. Guards(plan[t], doing[t], "task")' = {} /\ "task" \notin Checks(plan'[t].kind)
    BY DEF Guards, Checks
  <2> QED BY <1>2, <2>1 DEF Kept, What, Established
<1>11. UNCHANGED <<plan, store, doing, seen, made, raised, held, clock, answer>>
  BY <1>2 DEF own
<1>12. OwnOK' /\ Compatible'
  BY <1>11, Types DEF OwnOK, HeldType, Compatible
<1>13. \A r \in Lockable : held'[t][r] >= held[t][r]
  BY <1>11, HeldStays
<1> QED BY <1>1, <1>2, <1>5, <1>7, <1>8, <1>9, <1>10, <1>11, <1>12, <1>13, Continues

(* The step in which a consolidation reads the work it has to raise.       *)
LEMMA ReadWorkStep ==
  ASSUME TypeOK, Compatible, Constants, NEW t \in Actors, Current(t), ReadWork(t)
  PROVE  Stepped(t)
<1> DEFINE j == plan[t]
           here == {i \in DOMAIN matches : PropertyOf(i) = j.property}
           opps == {i \in here : IsOpen(i)}
           opens == {i \in here : OpenMatch(i)}
           named == {<<i, Duplicates(j.property, j.into)>> : i \in opps}
           more == Tasks(opens) \o Tasks(opps)
<1>1. PICK h : h = Head(todo[t])
  OBVIOUS
<1>2. /\ answer[t] = "open" /\ todo[t] # <<>> /\ h[1] = "work"
      /\ raised' = [raised EXCEPT ![t] = named]
      /\ Continue(t, more)
      /\ UNCHANGED <<plan, store, clock, doing, seen, made, held, answer>>
  BY <1>1 DEF ReadWork, At
<1>3. j.kind = "consolidate" /\ What(h) = "work"
  BY <1>1, <1>2, Ready, KindOf DEF What
<1>4. opps \in SUBSET Ids /\ opens \in SUBSET Ids
  BY DEF TypeOK
<1>5. named \in SUBSET (Ids \X SUBSET Ids)
  <2>1. Duplicates(j.property, j.into) \in SUBSET Ids
    BY DEF Duplicates, TypeOK
  <2> HIDE DEF opps
  <2> QED BY <1>4, <2>1
<1>6. raised'[t] = named /\ \A u \in Actors \ {t} : raised'[u] = raised[u]
  BY <1>2 DEF TypeOK
<1>7. OwnOK' /\ Compatible'
  <2>1. raised' \in [Actors -> SUBSET (Ids \X SUBSET Ids)]
    BY <1>2, <1>5 DEF TypeOK
  <2>2. OwnOK
    BY Types
  <2>3. OwnOK'
    BY <1>2, <2>1, <2>2 DEF OwnOK, HeldType
  <2> QED BY <1>2, <2>3 DEF Compatible
<1>8. WorkRead(t)'
  <2> SUFFICES ASSUME NEW i \in DOMAIN matches, NEW k \in DOMAIN matches, IsOpen(i), IsOpen(k),
                      PropertyOf(i) = j.property, PropertyOf(k) = j.into
               PROVE  \E w \in named : w[1] = i /\ k \in w[2]
    BY <1>2, <1>6 DEF WorkRead, IsOpen, PropertyOf, store
  <2>1. <<i, Duplicates(j.property, j.into)>> \in named /\ k \in Duplicates(j.property, j.into)
    BY DEF Duplicates
  <2> DEFINE w == <<i, Duplicates(j.property, j.into)>>
  <2>2. w[1] = i /\ w[2] = Duplicates(j.property, j.into)
    OBVIOUS
  <2> HIDE DEF named
  <2> QED BY <2>1, <2>2
<1>9. /\ more \in Seq(Statements(plan[t].kind))
      /\ \A k \in DOMAIN more : What(more[k]) \in {"task"}
  <2> HIDE DEF opps, opens
  <2>1. \A is \in SUBSET Ids : /\ Tasks(is) \in Seq(Statements("consolidate"))
                               /\ \A k \in DOMAIN Tasks(is) : What(Tasks(is)[k]) \in {"task"}
    BY TasksTypes, Whats
  <2> QED BY <1>3, <1>4, <2>1, PushedJoined
<1>10. Kept(t, h)'
  <2>1. \A g \in Guards(j, doing[t], "work") : Holds(t, g)
    BY <1>1, <1>2, <1>3, HeadGuards
  <2>2. Guards(plan[t], doing[t], "work")' = Guards(j, doing[t], "work")
    BY <1>2 DEF Guards
  <2>3. "work" \notin Checks(plan'[t].kind)
    BY DEF Checks
  <2>4. Established(t, "work")'
    BY <1>2, <1>8, <2>1, <2>2, <2>3 DEF Established, Holds, WorkRead
  <2> QED BY <1>2, <1>3, <2>4 DEF Kept, What
<1> HIDE DEF more, named
<1>11. \A k \in DOMAIN more : Needed(plan[t], doing[t], more[k]) = {}
  BY <1>9, Pushed
<1>12. <<>> \in Seq(Statements(plan[t].kind)) /\ DOMAIN <<>> = {}
  OBVIOUS
<1>13. Rest(t, more, <<>>)
  BY <1>2, <1>9, Drops
<1>14. \A r \in Lockable : held'[t][r] >= held[t][r]
  BY <1>2, HeldStays
<1> QED BY <1>1, <1>2, <1>6, <1>7, <1>8, <1>9, <1>10, <1>11, <1>12, <1>13, <1>14, Continues

(* What the insertion of a match pushes and adds.                          *)
Pushes(q) == q \in Seq(Statements("run")) /\ \A k \in DOMAIN q : What(q[k]) = "lock"
Keys(q) ==
  \A k \in DOMAIN q :
    /\ q[k][3] = KeyShare /\ q[k][2][1] \in {"request", "property", "offer", "match"}
    /\ q[k][2][1] = "match" =>
         q[k][2][2] \in DOMAIN matches /\ matches[q[k][2][2]].eligibility # "ELIGIBLE"
    /\ q[k][2][1] = "offer" =>
         \E m \in 1..(k - 1) : q[m] = Locks("property", q[k][2][2], KeyShare)
Inserted(t, ms, m, keys, after) ==
  /\ Pushes(keys) /\ Pushes(after) /\ Rest(t, keys \o Inserts(ms \ {m}), after)
  /\ Keys(keys) /\ Keys(after) /\ \A k \in DOMAIN after : after[k][2][1] # "offer"
  /\ m \in First(ms) /\ Inserting(t, m) = {}
  /\ \/ made' = made
     \/ /\ made' = [made EXCEPT ![t] = Append(@, m)]
        /\ \A i \in DOMAIN matches : ~SameInput(m, matches[i])

LEMMA InsertForm ==
  ASSUME TypeOK, Constants, NEW t \in Actors, Current(t), InsertMatch(t),
         NEW h, h = Head(todo[t])
  PROVE  /\ plan[t].kind = "run" /\ h[1] = "insert" /\ h[2] \in SUBSET Match
         /\ answer[t] = "open" /\ todo[t] # <<>>
         /\ UNCHANGED <<plan, store, clock, doing, seen, raised, held, answer>>
         /\ \E m \in h[2] : \E keys, after : Inserted(t, h[2], m, keys, after)
<1> DEFINE S == Statements("run")
<1>1. /\ answer[t] = "open" /\ todo[t] # <<>> /\ h[1] = "insert"
      /\ UNCHANGED <<plan, store, clock, doing, seen, raised, held, answer>>
  BY DEF InsertMatch, At
<1>2. plan[t].kind = "run" /\ h[2] \in SUBSET Match
  BY <1>1, Ready, KindOf
<1>3. PICK m \in First(h[2]) :
        LET found == {i \in DOMAIN matches : SameInput(m, matches[i])}
            rest  == Inserts(h[2] \ {m})
        IN /\ Inserting(t, m) = {}
           /\ \/ /\ found = {}
                 /\ made' = [made EXCEPT ![t] = Append(@, m)]
                 /\ Continue(t, <<Locks("request", 0, KeyShare),
                                  Locks("property", m.property, KeyShare),
                                  Locks("offer", m.property, KeyShare)>> \o rest)
              \/ /\ UNCHANGED made
                 /\ \E i \in found : todo' = [todo EXCEPT ![t] = rest \o Tail(@) \o
                      IF matches[i].eligibility = "ELIGIBLE" THEN <<>>
                      ELSE TaskKeys(m.property, i)]
  BY DEF InsertMatch
<1>9. m \in h[2]
  BY DEF First
<1> DEFINE rest == Inserts(h[2] \ {m})
<1>4. m \in Match /\ m.property \in Properties /\ rest \in Seq(S)
  BY <1>2, <1>9, InsertsTypes DEF Match
<1>5. Pushes(<<>>) /\ Keys(<<>>) /\ DOMAIN <<>> = {}
  BY DEF Pushes, Keys
<1> HIDE DEF rest
<1>6. CASE /\ \A i \in DOMAIN matches : ~SameInput(m, matches[i])
           /\ made' = [made EXCEPT ![t] = Append(@, m)]
           /\ Continue(t, <<Locks("request", 0, KeyShare), Locks("property", m.property, KeyShare),
                            Locks("offer", m.property, KeyShare)>> \o rest)
  <2> DEFINE a == Locks("request", 0, KeyShare)
             b == Locks("property", m.property, KeyShare)
             c == Locks("offer", m.property, KeyShare)
             keys == <<a, b, c>>
  <2>1. a \in S /\ b \in S /\ c \in S
    <3>1. KeyShare \in 1..4
      BY DEF KeyShare
    <3> QED BY <1>4, <3>1, LockStatements
  <2>2. What(a) = "lock" /\ What(b) = "lock" /\ What(c) = "lock"
    BY Whats
  <2>3. Continue(t, keys \o rest)
    BY <1>6
  <2>9. Keys(keys)
    <3>1. /\ a[2][1] = "request" /\ b[2][1] = "property" /\ c[2] = <<"offer", m.property>>
          /\ a[3] = KeyShare /\ b[3] = KeyShare /\ c[3] = KeyShare
      BY DEF Locks
    <3>2. b = Locks("property", c[2][2], KeyShare)
      BY <3>1
    <3> HIDE DEF a, b, c
    <3>3. /\ DOMAIN keys = 1..3 /\ keys[1] = a /\ keys[2] = b /\ keys[3] = c
      OBVIOUS
    <3> HIDE DEF keys
    <3> QED BY <3>1, <3>2, <3>3 DEF Keys
  <2> HIDE DEF a, b, c
  <2>4. /\ keys \in Seq(S) /\ \A k \in DOMAIN keys : keys[k] \in {a, b, c}
    BY <2>1
  <2>5. Pushes(keys)
    BY <2>2, <2>4 DEF Pushes
  <2>6. keys \o rest \in Seq(S)
    BY <1>4, <2>4
  <2> HIDE DEF keys
  <2>7. Rest(t, keys \o rest, <<>>)
    BY <1>1, <1>2, <2>3, <2>6, Drops
  <2>8. Inserted(t, h[2], m, keys, <<>>)
    BY <1>3, <1>5, <1>6, <2>5, <2>7, <2>9 DEF Inserted, rest
  <2> QED BY <1>1, <1>2, <1>9, <2>8
<1>7. CASE /\ UNCHANGED made
           /\ \E i \in DOMAIN matches : todo' = [todo EXCEPT ![t] = rest \o Tail(@) \o
                IF matches[i].eligibility = "ELIGIBLE" THEN <<>> ELSE TaskKeys(m.property, i)]
  <2>1. PICK i \in DOMAIN matches : todo' = [todo EXCEPT ![t] = rest \o Tail(@) \o
                IF matches[i].eligibility = "ELIGIBLE" THEN <<>> ELSE TaskKeys(m.property, i)]
    BY <1>7
  <2> DEFINE after == IF matches[i].eligibility = "ELIGIBLE" THEN <<>> ELSE TaskKeys(m.property, i)
  <2>2. Pushes(after)
    BY <1>4, <1>5, MatchTypes, TaskKeysTypes DEF Pushes
  <2>6. Keys(after) /\ \A k \in DOMAIN after : after[k][2][1] # "offer"
    <3>1. CASE matches[i].eligibility = "ELIGIBLE"
      BY <1>5, <3>1
    <3>2. CASE matches[i].eligibility # "ELIGIBLE"
      BY <3>2 DEF TaskKeys, Keys, Locks
    <3> QED BY <3>1, <3>2
  <2>3. Rest(t, rest, after)
    BY <2>1 DEF Rest
  <2>4. <<>> \o rest = rest
    BY <1>4
  <2> HIDE DEF after
  <2>5. Inserted(t, h[2], m, <<>>, after)
    BY <1>3, <1>5, <1>7, <2>2, <2>3, <2>4, <2>6 DEF Inserted, rest
  <2> QED BY <1>1, <1>2, <1>9, <2>5
<1> QED BY <1>3, <1>6, <1>7 DEF rest

(* The step in which a run inserts a match.                                *)
LEMMA InsertMatchStep ==
  ASSUME TypeOK, Compatible, Constants, NEW t \in Actors, Current(t), InsertMatch(t)
  PROVE  Stepped(t)
<1>1. PICK h : h = Head(todo[t])
  OBVIOUS
<1>2. /\ plan[t].kind = "run" /\ h[1] = "insert" /\ h[2] \in SUBSET Match
      /\ answer[t] = "open" /\ todo[t] # <<>>
      /\ UNCHANGED <<plan, store, clock, doing, seen, raised, held, answer>>
  BY <1>1, InsertForm
<1>13. PICK m \in h[2] : \E keys, after : Inserted(t, h[2], m, keys, after)
  BY <1>1, InsertForm
<1>3. PICK keys, after : Inserted(t, h[2], m, keys, after)
  BY <1>13
<1> DEFINE rest == Inserts(h[2] \ {m})
           more == keys \o rest
<1>4. /\ rest \in Seq(Statements("run"))
      /\ \A k \in DOMAIN rest : What(rest[k]) \in {"insert", "lock"}
  BY <1>2, InsertsTypes, Whats
<1> HIDE DEF rest
<1>5. /\ keys \in Seq(Statements("run")) /\ after \in Seq(Statements("run"))
      /\ \A k \in DOMAIN keys : What(keys[k]) \in {"insert", "lock"}
      /\ \A k \in DOMAIN after : What(after[k]) \in {"insert", "lock"}
  BY <1>3 DEF Inserted, Pushes
<1>6. /\ more \in Seq(Statements("run"))
      /\ \A k \in DOMAIN more : What(more[k]) \in {"insert", "lock"}
  BY <1>4, <1>5, PushedJoined
<1>7. Rest(t, more, after)
  BY <1>3 DEF Inserted, rest
<1> HIDE DEF more
<1>8. /\ \A k \in DOMAIN more : Needed(plan[t], doing[t], more[k]) = {}
      /\ \A k \in DOMAIN after : Needed(plan[t], doing[t], after[k]) = {}
  BY <1>5, <1>6, Pushed
<1>9. Kept(t, h)'
  <2>1. Guards(plan[t], doing[t], "insert")' = {} /\ "insert" \notin Checks(plan'[t].kind)
    BY DEF Guards, Checks
  <2> QED BY <1>2, <2>1 DEF Kept, What, Established
<1>10. OwnOK' /\ (\A u \in Actors \ {t} : made'[u] = made[u])
  <2>1. m \in Match /\ made \in [Actors -> Seq(Match)] /\ OwnOK
    BY <1>2, Types DEF OwnOK
  <2>2. Append(made[t], m) \in Seq(Match)
    BY <2>1
  <2>3. made' \in [Actors -> Seq(Match)] /\ (\A u \in Actors \ {t} : made'[u] = made[u])
    BY <1>3, <2>1, <2>2 DEF Inserted
  <2> QED BY <1>2, <2>1, <2>3 DEF OwnOK, HeldType
<1>11. Compatible'
  BY <1>2 DEF Compatible
<1>12. \A r \in Lockable : held'[t][r] >= held[t][r]
  BY <1>2, HeldStays
<1> QED BY <1>1, <1>2, <1>5, <1>6, <1>7, <1>8, <1>9, <1>10, <1>11, <1>12, Continues

(* What a COMMIT leaves.                                                   *)
LEMMA CommitTypes ==
  ASSUME TypeOK, Compatible, Constants, Underway, NEW t \in Actors, Commit(t)
  PROVE  /\ TypeOK' /\ Compatible' /\ Others(t) /\ Change(t) /\ UNCHANGED plan
         /\ answer'[t] # "open" /\ todo'[t] = <<>> /\ made'[t] = <<>>
<1> DEFINE j == plan[t]
           i == doing[t]
<1>1. End(t, "written") /\ Effect(t) /\ UNCHANGED <<plan, clock>> /\ Change(t)
  BY Committed DEF Commit
<1>2. /\ TodoOK' /\ OwnOK' /\ Compatible' /\ Others(t)
      /\ answer'[t] # "open" /\ todo'[t] = <<>> /\ made'[t] = <<>>
  BY <1>1, Ends
<1>3. /\ j \in Job /\ j.fact \in Facts /\ j.value \in Classes /\ j.into \in Properties
  BY JobTypes DEF TypeOK, Constants
<1>4. StoreOK
  BY Types
<1>5. fact' \in [Facts -> Classes] /\ version' \in [Facts -> Nat]
  <2>1. UNCHANGED <<fact, version>> \/ (/\ fact' = [fact EXCEPT ![j.fact] = j.value]
                                        /\ version' = [version EXCEPT ![j.fact] = @ + 1])
    BY <1>1 DEF Effect
  <2>2. fact \in [Facts -> Classes] /\ version \in [Facts -> Nat]
    BY <1>4 DEF StoreOK
  <2>3. [fact EXCEPT ![j.fact] = j.value] \in [Facts -> Classes]
    BY <1>3, <2>2
  <2>4. [version EXCEPT ![j.fact] = @ + 1] \in [Facts -> Nat]
    BY <1>3, <2>2
  <2> QED BY <2>1, <2>2, <2>3, <2>4, Zenon
<1>6. contact' \in [Properties -> BOOLEAN] /\ aliasOf' \in [Properties -> Properties \union {None}]
  <2>1. contact' = contact \/ contact' = [contact EXCEPT ![j.property] = TRUE]
    BY <1>1 DEF Effect
  <2>2. aliasOf' = aliasOf \/ aliasOf' = [aliasOf EXCEPT ![j.property] = j.into]
    BY <1>1 DEF Effect
  <2>3. contact' \in [Properties -> BOOLEAN]
    BY <1>4, <2>1, Zenon DEF StoreOK
  <2>4. aliasOf' \in [Properties -> Properties \union {None}]
    BY <1>3, <1>4, <2>2 DEF StoreOK
  <2> QED BY <2>3, <2>4
<1>7. matches' \in Seq(Match) /\ DOMAIN matches' \subseteq Ids
  <2>1. matches' = matches \/ matches' = matches \o made[t]
    BY <1>1 DEF Effect
  <2>2. matches \in Seq(Match) /\ made[t] \in Seq(Match)
    BY DEF TypeOK
  <2>3. DOMAIN matches' \subseteq Ids
    BY <1>1 DEF Change
  <2>4. matches \o made[t] \in Seq(Match)
    BY <2>2
  <2> QED BY <2>1, <2>2, <2>3, <2>4, Zenon
<1>8. review' \in [Ids -> Reviewing \union {None}]
  <2>1. review' = review \/ (j.kind \in Reviewing /\ review' = [review EXCEPT ![i] = j.kind])
    BY <1>1 DEF Effect
  <2> QED BY <1>4, <2>1 DEF StoreOK
<1>9. opp' \in [Ids -> Opportunity \union {None}]
  <2>1. opp' = opp \/ \E o : opp' = [opp EXCEPT ![i] = o]
    <3>1. opp' = opp \/ (\E o : opp' = [opp EXCEPT ![i] = o])
            \/ (j.kind = "revalidate" /\ opp' = [opp EXCEPT ![i].validity = seen[t]])
            \/ opp' = [opp EXCEPT ![i].status = IF @ = "NEW" THEN "SHARED" ELSE @]
            \/ opp' = [opp EXCEPT ![i].status = "CLOSED"]
      BY <1>1 DEF Effect
    <3> QED BY <3>1
  <2>2. [status |-> "NEW", validity |-> "VALID"] \in Opportunity
    BY DEF Opportunity, Classes
  <2>3. \A k \in Ids : opp'[k] # opp[k] => opp'[k] \in Opportunity
    BY <1>1, <2>2 DEF Change, Approves, Handles
  <2>4. opp \in [Ids -> Opportunity \union {None}]
    BY <1>4 DEF StoreOK
  <2>5. \A k \in Ids : opp'[k] \in Opportunity \union {None}
    BY <2>3, <2>4
  <2>6. DOMAIN opp' = Ids /\ opp' = [k \in Ids |-> opp'[k]]
    BY <2>1, <2>4
  <2> QED BY <2>5, <2>6
<1>10. tasks' \subseteq Ids \X SUBSET Ids
  <2>1. tasks' = tasks \/ tasks' = tasks \union raised[t]
    BY <1>1 DEF Effect
  <2>2. raised[t] \subseteq Ids \X SUBSET Ids /\ tasks \subseteq Ids \X SUBSET Ids
    BY DEF TypeOK
  <2> QED BY <2>1, <2>2
<1>11. StoreOK'
  BY <1>1, <1>4, <1>5, <1>6, <1>7, <1>8, <1>9, <1>10 DEF StoreOK
<1>12. TypeOK'
  BY <1>2, <1>11, Types, PTL
<1> QED BY <1>1, <1>2, <1>12

(* Every step of a transaction changes no more than a COMMIT may, and it   *)
(* alone.                                                                  *)
Moved(t) ==
  /\ TypeOK' /\ Compatible' /\ Others(t) /\ Change(t) /\ UNCHANGED plan
  /\ IF answer'[t] = "open" THEN Current(t)' ELSE todo'[t] = <<>> /\ made'[t] = <<>>
  /\ Commit(t) \/ UNCHANGED store

LEMMA NoChange ==
  ASSUME NEW t \in Actors, TypeOK, UNCHANGED <<plan, store>>
  PROVE  Change(t)
BY DEF store, Change, TypeOK

LEMMA EveryStep ==
  ASSUME TypeOK, Compatible, Constants, Underway, NEW t \in Actors, Step(t) \/ Fail(t)
  PROVE  Moved(t)
<1>1. answer[t] = "open" => Current(t)
  BY DEF Underway
<1>2. CASE Commit(t)
  BY <1>2, CommitTypes DEF Moved
<1>3. CASE ~Commit(t)
  <2>1. Stepped(t)
    <3>1. CASE Begin(t)
      BY <3>1, BeginStep
    <3>2. CASE TakeLock(t)
      BY <1>1, <3>2, TakeLockStep DEF TakeLock, At
    <3>3. CASE CheckStep(t)
      BY <1>1, <3>3, CheckStepStep DEF CheckStep, At
    <3>4. CASE ReadFacts(t)
      BY <1>1, <3>4, ReadFactsStep DEF ReadFacts, At
    <3>5. CASE Snapshot(t)
      BY <1>1, <3>5, SnapshotStep DEF Snapshot, At
    <3>6. CASE InsertMatch(t)
      BY <1>1, <3>6, InsertMatchStep DEF InsertMatch, At
    <3>7. CASE ReadWork(t)
      BY <1>1, <3>7, ReadWorkStep DEF ReadWork, At
    <3>8. CASE RaiseTask(t)
      BY <1>1, <3>8, RaiseTaskStep DEF RaiseTask, At
    <3>9. CASE Fail(t)
      BY <3>9, FailStep
    <3> QED BY <1>3, <3>1, <3>2, <3>3, <3>4, <3>5, <3>6, <3>7, <3>8, <3>9 DEF Step
  <2>2. Change(t)
    BY <2>1, NoChange DEF Stepped
  <2> QED BY <2>1, <2>2 DEF Stepped, Moved
<1> QED BY <1>2, <1>3

(* Whoever moves, every open transaction is current and no other has work. *)
LEMMA AllCurrent ==
  ASSUME TypeOK, Compatible, Constants, Consistent, Underway, NEW t \in Actors, Moved(t),
         NEW u \in Actors
  PROVE  /\ answer'[u] = "open" => Current(u)'
         /\ answer'[u] # "open" => todo'[u] = <<>> /\ made'[u] = <<>>
<1>1. CASE u = t
  BY <1>1 DEF Moved
<1>2. CASE u # t
  <2>1. Bystander(u) /\ Change(t)
    BY <1>2 DEF Moved, Others
  <2>2. answer[u] = "open" => Current(u)
    BY DEF Underway
  <2>3. answer[u] = "open" => Current(u)'
    BY <1>2, <2>1, <2>2, CurrentKept
  <2> QED BY <2>1, <2>3 DEF Bystander, Underway
<1> QED BY <1>1, <1>2

(* Fresh, for all transactions: what the runs have inserted, and what each *)
(* has still to insert.                                                    *)
MadeApart ==
  \A t \in Actors : \A k \in DOMAIN made[t] :
    /\ \A i \in DOMAIN matches : ~SameInput(matches[i], made[t][k])
    /\ \A u \in Actors : \A l \in DOMAIN made[u] :
         t # u \/ k # l => ~SameInput(made[t][k], made[u][l])
Batched(t) ==
  /\ \A a \in DOMAIN todo[t] : todo[t][a][1] = "insert" =>
       /\ \A b \in DOMAIN todo[t] : todo[t][b][1] = "insert" => a = b
       /\ \A m \in todo[t][a][2] :
            /\ \A n \in todo[t][a][2] : m.property = n.property => m = n
            /\ \A k \in DOMAIN made[t] : made[t][k].property # m.property
  /\ <<"snapshot">> \in Of(todo[t]) => todo[t] = <<<<"snapshot">>>> /\ made[t] = <<>>

AllBatched == \A t \in Actors : Batched(t)
AllFresh   == \A t \in Actors : Fresh(t)

LEMMA FreshParts == AllFresh <=> MadeApart /\ AllBatched
BY DEF Fresh, MadeApart, Batched, AllBatched, AllFresh

(* SameInput is an equivalence, and tells properties apart.                *)
LEMMA SameInputs ==
  /\ \A m, n : SameInput(m, n) <=> SameInput(n, m)
  /\ \A m, n : m.property # n.property => ~SameInput(m, n)
BY DEF SameInput

(* What a run's COMMIT adds.                                               *)
LEMMA CommitMatches ==
  ASSUME TypeOK, NEW t \in Actors, Commit(t), NEW i \in DOMAIN matches'
  PROVE  \/ i \in DOMAIN matches /\ matches'[i] = matches[i]
         \/ \E k \in DOMAIN made[t] : i = k + Len(matches) /\ matches'[i] = made[t][k]
<1>1. matches \in Seq(Match) /\ made[t] \in Seq(Match)
  BY DEF TypeOK
<1>2. matches' = matches \/ matches' = matches \o made[t]
  BY DEF Commit, Effect
<1>3. CASE matches' = matches
  BY <1>3
<1>4. CASE matches' = matches \o made[t]
  <2> DEFINE a == matches
             b == made[t]
  <2>1. /\ a \o b \in Seq(Match) /\ Len(a \o b) = Len(a) + Len(b)
        /\ \A l \in 1..Len(a) : (a \o b)[l] = a[l]
        /\ \A l \in 1..Len(b) : (a \o b)[l + Len(a)] = b[l]
    BY <1>1, Joined
  <2>2. /\ Len(a) \in Nat /\ Len(b) \in Nat /\ DOMAIN a = 1..Len(a) /\ DOMAIN b = 1..Len(b)
        /\ DOMAIN (a \o b) = 1..Len(a \o b)
    BY <1>1, <2>1
  <2>3. CASE i <= Len(matches)
    BY <1>4, <2>1, <2>2, <2>3
  <2>4. CASE i > Len(matches)
    <3>1. i - Len(a) \in 1..Len(b) /\ (i - Len(a)) + Len(a) = i
      BY <1>4, <2>1, <2>2, <2>4
    <3> QED BY <1>4, <2>1, <2>2, <3>1
  <2> QED BY <1>4, <2>1, <2>2, <2>3, <2>4
<1> QED BY <1>2, <1>3, <1>4

(* A step that inserts nothing leaves what was inserted, or discards it.   *)
LEMMA MadeOnly ==
  ASSUME TypeOK, NEW t \in Actors, Step(t) \/ Fail(t), ~InsertMatch(t)
  PROVE  \A u \in Actors : made'[u] = made[u] \/ made'[u] = <<>>
<1>1. made' = made \/ made' = [made EXCEPT ![t] = <<>>]
  BY DEF Step, Begin, TakeLock, CheckStep, ReadFacts, Snapshot, ReadWork, RaiseTask, Commit, Fail,
         End, own
<1> QED BY <1>1 DEF TypeOK

(* What a run's new match adds to what it has made.                        *)
LEMMA Appended ==
  ASSUME TypeOK, NEW t \in Actors, NEW m \in Match, made' = [made EXCEPT ![t] = Append(@, m)]
  PROVE  /\ DOMAIN made'[t] = 1..(Len(made[t]) + 1) /\ made'[t][Len(made[t]) + 1] = m
         /\ DOMAIN made[t] = 1..Len(made[t]) /\ Len(made[t]) \in Nat
         /\ \A k \in DOMAIN made[t] : made'[t][k] = made[t][k]
         /\ \A u \in Actors \ {t} : made'[u] = made[u]
<1> DEFINE q == made[t]
<1>1. made' = [made EXCEPT ![t] = Append(q, m)] /\ q \in Seq(Match)
  BY DEF TypeOK
<1> HIDE DEF q
<1>2. made'[t] = Append(q, m) /\ \A u \in Actors \ {t} : made'[u] = made[u]
  BY <1>1 DEF TypeOK
<1>3. /\ DOMAIN Append(q, m) = 1..(Len(q) + 1) /\ Append(q, m)[Len(q) + 1] = m
      /\ DOMAIN q = 1..Len(q) /\ Len(q) \in Nat
      /\ \A k \in DOMAIN q : Append(q, m)[k] = q[k]
  BY <1>1
<1> QED BY <1>2, <1>3 DEF q

(* What the runs insert stays apart, whoever moves.                        *)
LEMMA ApartKept ==
  ASSUME TypeOK, Compatible, Constants, Underway, NEW t \in Actors, Step(t) \/ Fail(t), Moved(t)
  PROVE  MadeApart'
<1>0. MadeApart /\ (\A u \in Actors : Batched(u)) /\ TypeOK' /\ (answer[t] = "open" => Current(t))
  BY FreshParts DEF Underway, Moved, AllFresh, AllBatched
<1>1. CASE InsertMatch(t)
  <2>1. PICK h : h = Head(todo[t])
    OBVIOUS
  <2>2. /\ h[1] = "insert" /\ h[2] \in SUBSET Match /\ todo[t] # <<>> /\ matches' = matches
    BY <1>0, <1>1, <2>1, InsertForm DEF store, InsertMatch, At
  <2>3. PICK m \in h[2] : \E keys, after : Inserted(t, h[2], m, keys, after)
    BY <1>0, <1>1, <2>1, InsertForm DEF InsertMatch, At
  <2>4. CASE made' = made
    BY <1>0, <2>2, <2>4 DEF MadeApart
  <2>5. CASE /\ made' = [made EXCEPT ![t] = Append(@, m)]
             /\ \A i \in DOMAIN matches : ~SameInput(m, matches[i])
    <3>1. m \in Match /\ made[t] \in Seq(Match) /\ \A u \in Actors : made[u] \in Seq(Match)
      BY <2>2, <2>3 DEF TypeOK
    <3>2. /\ DOMAIN made'[t] = 1..(Len(made[t]) + 1) /\ made'[t][Len(made[t]) + 1] = m
          /\ DOMAIN made[t] = 1..Len(made[t]) /\ Len(made[t]) \in Nat
          /\ \A k \in DOMAIN made[t] : made'[t][k] = made[t][k]
          /\ \A u \in Actors \ {t} : made'[u] = made[u]
      BY <2>5, <3>1, Appended
    <3>3. \A u \in Actors \ {t} : \A l \in DOMAIN made[u] : ~SameInput(m, made[u][l])
      BY <2>3 DEF Inserted, Inserting
    <3>4. \A l \in DOMAIN made[t] : ~SameInput(m, made[t][l])
      <4>1. 1 \in DOMAIN todo[t] /\ todo[t][1] = h
        BY <2>1, <2>2 DEF TypeOK
      <4>2. \A l \in DOMAIN made[t] : made[t][l].property # m.property
        BY <1>0, <2>2, <4>1 DEF Batched
      <4> QED BY <4>2, SameInputs
    <3>5. \A u \in Actors : \A k \in DOMAIN made'[u] :
            \/ k \in DOMAIN made[u] /\ made'[u][k] = made[u][k]
            \/ u = t /\ k = Len(made[t]) + 1 /\ made'[u][k] = m
      BY <3>2
    <3>6. \A u \in Actors : \A k \in DOMAIN made[u] : ~SameInput(made[u][k], m)
      BY <3>3, <3>4, SameInputs
    <3>7. ASSUME NEW u \in Actors, NEW k \in DOMAIN made'[u]
          PROVE  /\ \A i \in DOMAIN matches' : ~SameInput(matches'[i], made'[u][k])
                 /\ \A v \in Actors : \A l \in DOMAIN made'[v] :
                      u # v \/ k # l => ~SameInput(made'[u][k], made'[v][l])
      <4>1. CASE k \in DOMAIN made[u] /\ made'[u][k] = made[u][k]
        BY <1>0, <2>2, <3>5, <3>6, <4>1 DEF MadeApart
      <4>2. CASE u = t /\ k = Len(made[t]) + 1 /\ made'[u][k] = m
        BY <2>2, <2>5, <3>3, <3>4, <3>5, <4>2, SameInputs
      <4> QED BY <3>5, <3>7, <4>1, <4>2
    <3> QED BY <3>7 DEF MadeApart, SameInput
  <2> QED BY <2>3, <2>4, <2>5 DEF Inserted
<1>2. CASE ~InsertMatch(t)
  <2>1. \A u \in Actors : \A k \in DOMAIN made'[u] : k \in DOMAIN made[u] /\ made'[u][k] = made[u][k]
    <3>1. DOMAIN <<>> = {}
      OBVIOUS
    <3> QED BY <1>2, <3>1, MadeOnly
  <2>2. ASSUME NEW i \in DOMAIN matches', NEW u \in Actors, NEW k \in DOMAIN made'[u]
        PROVE  ~SameInput(matches'[i], made'[u][k])
    <3>1. CASE i \in DOMAIN matches /\ matches'[i] = matches[i]
      BY <1>0, <2>1, <2>2, <3>1 DEF MadeApart
    <3>2. CASE ~(i \in DOMAIN matches /\ matches'[i] = matches[i])
      <4>1. Commit(t)
        BY <2>2, <3>2 DEF Moved, store
      <4>2. PICK l \in DOMAIN made[t] : matches'[i] = made[t][l]
        BY <2>2, <3>2, <4>1, CommitMatches
      <4>3. made'[t] = <<>>
        BY <4>1 DEF Commit, End, TypeOK
      <4>4. u # t
        BY <2>2, <4>3
      <4> QED BY <1>0, <2>1, <2>2, <4>2, <4>4 DEF MadeApart
    <3> QED BY <3>1, <3>2
  <2> QED BY <1>0, <2>1, <2>2 DEF MadeApart, SameInput
<1> QED BY <1>1, <1>2

(* Only a run has matches to insert, or a snapshot to read.                *)
LEMMA BatchedOthers == TypeOK => \A t \in Actors : plan[t].kind # "run" => Batched(t)
<1> SUFFICES ASSUME TypeOK, NEW t \in Actors, plan[t].kind # "run" PROVE Batched(t)
  OBVIOUS
<1>1. todo[t] \in Seq(Statements(plan[t].kind))
  BY DEF TypeOK
<1>2. \A k \in DOMAIN todo[t] : todo[t][k] \in Statements(plan[t].kind)
  BY <1>1
<1>3. \A k \in DOMAIN todo[t] : todo[t][k][1] \notin {"insert", "snapshot"}
  BY <1>2, KindOf
<1> QED BY <1>3 DEF Batched, Of

LEMMA BatchedOthersNext ==
  ASSUME TypeOK'
  PROVE  (\A t \in Actors : plan[t].kind # "run" => Batched(t))'
BY BatchedOthers, PTL

(* A batch with statements before it that insert nothing.                  *)
LEMMA OneBatch ==
  ASSUME NEW ms \in SUBSET Match, NEW keys, Pushes(keys)
  PROVE  LET q == keys \o Inserts(ms)
         IN /\ q \in Seq(Statements("run"))
            /\ DOMAIN keys = 1..Len(keys) /\ Len(keys) \in Nat
            /\ \A a \in DOMAIN keys : a \in DOMAIN q /\ q[a] = keys[a]
            /\ \A a \in DOMAIN q : a \in DOMAIN keys \/ q[a] = <<"insert", ms>>
            /\ \A a \in DOMAIN q : q[a][1] \in {"insert", "snapshot"} =>
                 a = Len(keys) + 1 /\ q[a] = <<"insert", ms>>
<1> DEFINE b == Inserts(ms)
           q == keys \o b
<1>1. /\ keys \in Seq(Statements("run")) /\ \A k \in DOMAIN keys : What(keys[k]) = "lock"
      /\ b \in Seq(Statements("run"))
      /\ \A k \in DOMAIN b : k = 1 /\ b[k] = <<"insert", ms>>
  BY InsertsTypes DEF Pushes
<1> HIDE DEF b
<1>2. /\ q \in Seq(Statements("run")) /\ Len(q) = Len(keys) + Len(b)
      /\ \A l \in 1..Len(keys) : q[l] = keys[l]
      /\ \A l \in 1..Len(b) : q[l + Len(keys)] = b[l]
  BY <1>1, Joined
<1>3. /\ Len(keys) \in Nat /\ Len(b) \in Nat /\ DOMAIN keys = 1..Len(keys) /\ DOMAIN b = 1..Len(b)
      /\ DOMAIN q = 1..Len(q)
  BY <1>1, <1>2
<1> HIDE DEF q
<1>4. ASSUME NEW a \in DOMAIN q, q[a][1] \in {"insert", "snapshot"}
      PROVE  a = Len(keys) + 1 /\ q[a] = <<"insert", ms>>
  <2>1. CASE a <= Len(keys)
    <3>1. a \in DOMAIN keys /\ q[a] = keys[a]
      BY <1>2, <1>3, <1>4, <2>1
    <3>2. What(keys[a]) = "lock"
      BY <1>1, <3>1
    <3>3. keys[a][1] = "snapshot" \/ keys[a][1] = "insert"
      BY <1>4, <3>1
    <3> QED BY <3>2, <3>3 DEF What
  <2>2. CASE a > Len(keys)
    <3>1. a - Len(keys) \in 1..Len(b) /\ (a - Len(keys)) + Len(keys) = a
      BY <1>2, <1>3, <1>4, <2>2
    <3>2. q[a] = b[a - Len(keys)] /\ a - Len(keys) = 1
      BY <1>1, <1>2, <1>3, <3>1
    <3> QED BY <1>1, <1>3, <3>1, <3>2
  <2> QED BY <1>2, <1>3, <1>4, <2>1, <2>2
<1>5. ASSUME NEW a \in DOMAIN q, a \notin DOMAIN keys PROVE q[a] = <<"insert", ms>>
  <2>1. a - Len(keys) \in 1..Len(b) /\ (a - Len(keys)) + Len(keys) = a
    BY <1>2, <1>3, <1>5
  <2>2. q[a] = b[a - Len(keys)] /\ a - Len(keys) = 1
    BY <1>1, <1>2, <1>3, <2>1
  <2> QED BY <1>1, <1>3, <2>1, <2>2
<1>6. \A a \in DOMAIN keys : a \in DOMAIN q /\ q[a] = keys[a]
  BY <1>2, <1>3
<1> QED BY <1>2, <1>3, <1>4, <1>5, <1>6 DEF q, b

(* What is left of a run that only drops its head.                         *)
LEMMA BatchedDrops ==
  ASSUME TypeOK, NEW t \in Actors, Batched(t), todo[t] # <<>>, made'[t] = made[t],
         Continue(t, <<>>)
  PROVE  Batched(t)'
<1> DEFINE q == todo[t]
           r == Tail(q)
<1>1. todo'[t] = <<>> \o r
  BY DEF Continue, TypeOK
<1>2. q \in Seq(Statements(plan[t].kind)) /\ q # <<>>
  BY DEF TypeOK
<1> HIDE DEF q
<1>3. /\ r \in Seq(Statements(plan[t].kind)) /\ \A k \in DOMAIN r : k + 1 \in DOMAIN q /\ r[k] = q[k + 1]
      /\ DOMAIN r \subseteq Nat /\ (q = <<<<"snapshot">>>> => DOMAIN r = {})
  <2>1. /\ r \in Seq(Statements(plan[t].kind)) /\ Len(r) = Len(q) - 1 /\ Len(q) \in Nat
        /\ \A k \in 1..Len(r) : r[k] = q[k + 1]
    BY <1>2
  <2>2. q = <<<<"snapshot">>>> => Len(q) = 1
    OBVIOUS
  <2> HIDE DEF r
  <2>3. DOMAIN r = 1..Len(r) /\ DOMAIN q = 1..Len(q)
    BY <1>2, <2>1
  <2> QED BY <2>1, <2>2, <2>3, SMTT(30)
<1> HIDE DEF r
<1>4. todo'[t] = r
  BY <1>1, <1>3
<1>5. ASSUME NEW a \in DOMAIN r, r[a][1] = "insert"
      PROVE  /\ \A b \in DOMAIN r : r[b][1] = "insert" => a = b
             /\ \A m \in r[a][2] :
                  /\ \A n \in r[a][2] : m.property = n.property => m = n
                  /\ \A k \in DOMAIN made[t] : made[t][k].property # m.property
  <2>1. a + 1 \in DOMAIN q /\ q[a + 1] = r[a] /\ a \in Nat
    BY <1>3, <1>5
  <2>2. \A b \in DOMAIN r : r[b][1] = "insert" => a + 1 = b + 1 /\ b \in Nat
    BY <1>3, <1>5, <2>1 DEF Batched, q
  <2> QED BY <1>5, <2>1, <2>2 DEF Batched, q
<1>6. <<"snapshot">> \notin Of(r)
  <2> SUFFICES ASSUME NEW k \in DOMAIN r, r[k] = <<"snapshot">> PROVE FALSE
    BY DEF Of
  <2>1. <<"snapshot">> \in Of(q)
    BY <1>3 DEF Of
  <2>2. q = <<<<"snapshot">>>>
    BY <2>1 DEF Batched, q
  <2> QED BY <1>3, <2>2
<1> QED BY <1>4, <1>5, <1>6 DEF Batched

(* What is left of a run that has read its snapshot.                       *)
LEMMA BatchedSnapshot ==
  ASSUME TypeOK, Constants, NEW t \in Actors, Current(t), Batched(t), Snapshot(t),
         ~End(t, "refused")
  PROVE  Batched(t)'
<1>1. PICK h : h = Head(todo[t])
  OBVIOUS
<1>2. todo[t] # <<>> /\ h[1] = "snapshot"
  BY <1>1 DEF Snapshot, At
<1>3. PICK offers : Continue(t, Inserts({Evaluated(p, doing[t]) : p \in Candidates(offers)})
                                  \o <<Locks("request", 0, KeyShare)>>)
  BY DEF Snapshot
<1>4. made' = made
  BY DEF Snapshot, own
<1>5. plan[t].kind = "run" /\ h = <<"snapshot">> /\ todo[t][1] = h /\ 1 \in DOMAIN todo[t]
  <2>1. h \in Statements(plan[t].kind) /\ todo[t][1] = h /\ 1 \in DOMAIN todo[t]
    BY <1>1, <1>2, Ready
  <2>2. plan[t].kind = "run"
    BY <1>2, <2>1, KindOf
  <2>3. \/ h \in {"lock"} \X Lockable \X (1..Update) \/ h \in {"check"} \X Checks("run")
        \/ h = <<"snapshot">> \/ h \in {"insert"} \X SUBSET Match
    BY <2>1, <2>2 DEF Statements, Reviewing, Commands
  <2> QED BY <1>2, <2>1, <2>2, <2>3
<1>6. todo[t] = <<<<"snapshot">>>> /\ made[t] = <<>>
  BY <1>5 DEF Batched, Of
<1> DEFINE ms == {Evaluated(p, doing[t]) : p \in Candidates(offers)}
           key == Locks("request", 0, KeyShare)
           b == Inserts(ms)
           q == b \o <<key>>
<1>7. ms \in SUBSET Match /\ (\A m, n \in ms : m.property = n.property => m = n)
  <2>1. doing[t] \in Nat
    BY DEF TypeOK
  <2>2. \A p \in Properties :
          Evaluated(p, doing[t]) \in Match /\ Evaluated(p, doing[t]).property = p
    BY <2>1, EvaluatedTypes
  <2>3. Candidates(offers) \subseteq Properties
    BY DEF Candidates
  <2>4. ASSUME NEW m \in ms, NEW n \in ms, m.property = n.property PROVE m = n
    <3>1. PICK p \in Properties : m = Evaluated(p, doing[t])
      BY <2>3
    <3>2. PICK o \in Properties : n = Evaluated(o, doing[t])
      BY <2>3
    <3> QED BY <2>2, <2>4, <3>1, <3>2
  <2> QED BY <2>2, <2>3, <2>4
<1> HIDE DEF ms
<1>8. /\ b \in Seq(Statements("run")) /\ \A k \in DOMAIN b : k = 1 /\ b[k] = <<"insert", ms>>
      /\ key \in Statements("run") /\ key[1] = "lock"
  BY <1>7, InsertsTypes, LockStatements DEF Locks, KeyShare
<1> HIDE DEF b, key
<1>9. <<key>> \in Seq(Statements("run")) /\ Len(<<key>>) = 1 /\ <<key>>[1] = key
  BY <1>8
<1>10. /\ q \in Seq(Statements("run")) /\ Len(q) = Len(b) + 1
       /\ \A l \in 1..Len(b) : q[l] = b[l]
       /\ q[1 + Len(b)] = key
  BY <1>8, <1>9, Joined
<1>11. Len(b) \in Nat /\ DOMAIN b = 1..Len(b) /\ DOMAIN q = 1..Len(q)
  BY <1>8, <1>10
<1>12. todo'[t] = q
  <2>1. todo' = [todo EXCEPT ![t] = q \o Tail(@)]
    BY <1>3 DEF Continue, q, ms, key, b
  <2> HIDE DEF q
  <2>2. todo'[t] = q \o <<>>
    BY <1>6, <2>1 DEF TypeOK
  <2> QED BY <1>10, <2>2
<1> HIDE DEF q
<1>13. ASSUME NEW a \in DOMAIN q, q[a][1] \in {"insert", "snapshot"}
       PROVE  a = 1 /\ q[a] = <<"insert", ms>>
  <2>1. CASE a <= Len(b)
    BY <1>8, <1>10, <1>11, <1>13, <2>1
  <2>2. CASE a > Len(b)
    <3>1. a = 1 + Len(b)
      BY <1>10, <1>11, <1>13, <2>2
    <3> QED BY <1>8, <1>10, <1>13, <3>1
  <2> QED BY <1>10, <1>11, <1>13, <2>1, <2>2
<1>14. ASSUME NEW a \in DOMAIN q, q[a][1] = "insert"
       PROVE  /\ \A c \in DOMAIN q : q[c][1] = "insert" => a = c
              /\ \A m \in q[a][2] : \A n \in q[a][2] : m.property = n.property => m = n
  <2>1. q[a][2] = ms /\ a = 1
    BY <1>13, <1>14
  <2> QED BY <1>7, <1>13, <2>1
<1>15. <<"snapshot">> \notin Of(q)
  BY <1>13 DEF Of
<1>16. DOMAIN made'[t] = {}
  BY <1>4, <1>6
<1> QED BY <1>12, <1>14, <1>15, <1>16 DEF Batched

(* What is left of a run that has inserted a match.                        *)
LEMMA BatchedInsert ==
  ASSUME TypeOK, Constants, NEW t \in Actors, Current(t), Batched(t), InsertMatch(t)
  PROVE  Batched(t)'
<1>1. PICK h : h = Head(todo[t])
  OBVIOUS
<1>2. /\ plan[t].kind = "run" /\ h[1] = "insert" /\ h[2] \in SUBSET Match /\ todo[t] # <<>>
      /\ plan' = plan
  BY <1>1, InsertForm
<1>3. PICK m \in h[2] : \E keys, after : Inserted(t, h[2], m, keys, after)
  BY <1>1, InsertForm
<1>4. PICK keys, after : Inserted(t, h[2], m, keys, after)
  BY <1>3
<1> DEFINE q == todo[t]
           ms == h[2] \ {m}
           more == keys \o Inserts(ms)
<1>5. /\ q \in Seq(Statements("run")) /\ 1 \in DOMAIN q /\ q[1] = h
      /\ DOMAIN q = 1..Len(q) /\ Len(q) \in Nat
  BY <1>1, <1>2, Ready
<1>6. /\ \A c \in DOMAIN q : q[c][1] = "insert" => c = 1
      /\ \A n, o \in h[2] : n.property = o.property => n = o
      /\ \A n \in h[2] : \A k \in DOMAIN made[t] : made[t][k].property # n.property
  BY <1>2, <1>5 DEF Batched
<1>7. \A c \in DOMAIN q : q[c] # <<"snapshot">>
  <2>1. <<<<"snapshot">>>>[1] = <<"snapshot">> /\ <<"snapshot">>[1] = "snapshot"
    OBVIOUS
  <2>2. q # <<<<"snapshot">>>>
    BY <1>2, <1>5, <2>1
  <2> QED BY <2>2 DEF Batched, Of
<1>8. Pushes(keys) /\ Pushes(after) /\ Rest(t, more, after) /\ ms \in SUBSET Match
  BY <1>2, <1>4 DEF Inserted
<1> HIDE DEF ms
<1>9. /\ more \in Seq(Statements("run"))
      /\ \A a \in DOMAIN more : more[a][1] \in {"insert", "snapshot"} =>
           a = Len(keys) + 1 /\ more[a] = <<"insert", ms>>
  BY <1>8, OneBatch
<1>10. /\ after \in Seq(Statements("run"))
       /\ \A k \in DOMAIN after : after[k][1] \notin {"insert", "snapshot"}
  <2>1. \A k \in DOMAIN after : What(after[k]) = "lock"
    BY <1>8 DEF Pushes
  <2> QED BY <1>8, <2>1 DEF Pushes, What
<1> HIDE DEF more
<1>11. \A a \in DOMAIN todo'[t] :
         \/ a \in DOMAIN more /\ todo'[t][a] = more[a]
         \/ a + 1 - Len(more) \in 2..Len(q) /\ todo'[t][a] = q[a + 1 - Len(more)]
         \/ \E l \in DOMAIN after : todo'[t][a] = after[l]
  BY <1>2, <1>8, <1>9, <1>10, RestTypes
<1> HIDE DEF q
<1>12. ASSUME NEW a \in DOMAIN todo'[t],
              todo'[t][a][1] = "insert" \/ todo'[t][a] = <<"snapshot">>
       PROVE  a = Len(keys) + 1 /\ todo'[t][a] = <<"insert", ms>>
  <2>1. CASE a \in DOMAIN more /\ todo'[t][a] = more[a]
    BY <1>9, <1>12, <2>1
  <2>2. CASE a + 1 - Len(more) \in 2..Len(q) /\ todo'[t][a] = q[a + 1 - Len(more)]
    <3>1. a + 1 - Len(more) \in DOMAIN q /\ a + 1 - Len(more) # 1
      BY <1>5, <2>2
    <3> QED BY <1>6, <1>7, <1>12, <2>2, <3>1
  <2>3. CASE \E l \in DOMAIN after : todo'[t][a] = after[l]
    BY <1>10, <1>12, <2>3
  <2> QED BY <1>11, <2>1, <2>2, <2>3
<1>13. ASSUME NEW n \in ms, NEW k \in DOMAIN made'[t] PROVE made'[t][k].property # n.property
  <2>1. n \in h[2] /\ n # m
    BY DEF ms
  <2>2. CASE made' = made
    BY <1>6, <1>13, <2>1, <2>2
  <2>3. CASE made' = [made EXCEPT ![t] = Append(@, m)]
    <3>1. m \in Match
      BY <1>2, <1>3
    <3>2. (k \in DOMAIN made[t] /\ made'[t][k] = made[t][k]) \/ made'[t][k] = m
      BY <1>13, <2>3, <3>1, Appended
    <3> QED BY <1>3, <1>6, <2>1, <3>2
  <2> QED BY <1>4, <2>2, <2>3 DEF Inserted
<1>14. ASSUME NEW a \in DOMAIN todo'[t], todo'[t][a][1] = "insert"
       PROVE  /\ \A c \in DOMAIN todo'[t] : todo'[t][c][1] = "insert" => a = c
              /\ \A n \in todo'[t][a][2] :
                   /\ \A o \in todo'[t][a][2] : n.property = o.property => n = o
                   /\ \A k \in DOMAIN made'[t] : made'[t][k].property # n.property
  <2>1. todo'[t][a][2] = ms /\ a = Len(keys) + 1
    BY <1>12, <1>14
  <2>2. \A n \in ms : \A o \in ms : n.property = o.property => n = o
    BY <1>6 DEF ms
  <2> QED BY <1>12, <1>13, <2>1, <2>2
<1>15. <<"snapshot">> \notin Of(todo'[t])
  <2>1. <<"snapshot">>[1] # "insert"
    OBVIOUS
  <2> QED BY <1>12, <2>1 DEF Of
<1> QED BY <1>14, <1>15 DEF Batched

(* What a transaction has still to insert stays one batch, whoever moves.  *)
LEMMA BatchedKept ==
  ASSUME TypeOK, Compatible, Constants, Underway, NEW t \in Actors, Step(t) \/ Fail(t), Moved(t),
         NEW u \in Actors
  PROVE  Batched(u)'
<1>0. Batched(u) /\ Batched(t) /\ plan' = plan /\ TypeOK'
  BY FreshParts DEF Underway, Moved, AllFresh, AllBatched
<1>1. CASE u # t
  <2>1. Bystander(u)
    BY <1>1 DEF Moved, Others
  <2>2. todo'[u] = todo[u] /\ made'[u] = made[u]
    BY <2>1 DEF Bystander
  <2> QED BY <1>0, <2>2 DEF Batched, Of
<1>2. CASE u = t /\ plan[t].kind # "run"
  <2>1. (plan[u].kind # "run" => Batched(u))'
    BY <1>0, BatchedOthersNext
  <2> QED BY <1>0, <1>2, <2>1
<1>3. CASE u = t /\ answer'[t] # "open"
  <2>1. todo'[t] = <<>> /\ DOMAIN <<>> = {}
    BY <1>3 DEF Moved
  <2> QED BY <1>3, <2>1 DEF Batched, Of
<1>4. CASE u = t /\ plan[t].kind = "run" /\ answer'[t] = "open"
  <2>0. answer \in [Actors -> {"idle", "open", "written", "refused", "error"}]
    BY DEF TypeOK
  <2>1. CASE Begin(t)
    <3>1. made'[t] = <<>>
      BY <2>1 DEF Begin, Underway
    <3>2. plan[t] \in Job
      BY DEF TypeOK, Constants
    <3>3. todo'[t] = <<<<"snapshot">>>>
      BY <1>4, <2>1, <3>2, RunProgram DEF Begin, TypeOK
    <3>4. \A k \in DOMAIN <<<<"snapshot">>>> : <<<<"snapshot">>>>[k][1] # "insert"
      OBVIOUS
    <3> QED BY <1>4, <3>1, <3>3, <3>4 DEF Batched
  <2>2. CASE TakeLock(t)
    <3>1. todo[t] # <<>> /\ made'[t] = made[t] /\ Continue(t, <<>>)
      BY <2>2 DEF TakeLock, At, own
    <3> QED BY <1>0, <1>4, <3>1, BatchedDrops
  <2>3. CASE CheckStep(t)
    <3>1. todo[t] # <<>> /\ made'[t] = made[t] /\ Continue(t, <<>>)
      BY <1>4, <2>0, <2>3 DEF CheckStep, At, own, End
    <3> QED BY <1>0, <1>4, <3>1, BatchedDrops
  <2>4. CASE ReadFacts(t)
    <3>1. todo[t] # <<>> /\ made'[t] = made[t] /\ Continue(t, <<>>)
      BY <2>4 DEF ReadFacts, At
    <3> QED BY <1>0, <1>4, <3>1, BatchedDrops
  <2>5. CASE Snapshot(t)
    <3>1. Current(t)
      BY <2>5 DEF Snapshot, At, Underway
    <3>2. ~End(t, "refused")
      BY <1>4, <2>0 DEF End
    <3> QED BY <1>0, <1>4, <2>5, <3>1, <3>2, BatchedSnapshot
  <2>6. CASE InsertMatch(t)
    <3>1. Current(t)
      BY <2>6 DEF InsertMatch, At, Underway
    <3> QED BY <1>0, <1>4, <2>6, <3>1, BatchedInsert
  <2>7. CASE ReadWork(t) \/ RaiseTask(t)
    <3>1. todo[t] # <<>> /\ Head(todo[t])[1] \in {"work", "task"} /\ Current(t)
      BY <2>7 DEF ReadWork, RaiseTask, At, Underway
    <3>2. Head(todo[t]) \in Statements(plan[t].kind)
      BY <3>1, Ready
    <3> QED BY <1>4, <3>1, <3>2, KindOf
  <2>8. CASE Commit(t) \/ Fail(t)
    BY <1>4, <2>0, <2>8 DEF Commit, Fail, End
  <2> QED BY <2>1, <2>2, <2>3, <2>4, <2>5, <2>6, <2>7, <2>8 DEF Step
<1> QED BY <1>1, <1>2, <1>3, <1>4

(* What is under way stays so, whoever moves.                              *)
LEMMA UnderwayKept ==
  ASSUME TypeOK, Compatible, Constants, Consistent, Underway, NEW t \in Actors,
         Step(t) \/ Fail(t), Moved(t)
  PROVE  Underway'
<1>1. MadeApart'
  BY ApartKept
<1>2. \A u \in Actors : Batched(u)'
  BY BatchedKept
<1>3. AllFresh'
  <2>1. AllBatched'
    BY <1>2 DEF AllBatched
  <2> QED BY <1>1, <2>1, FreshParts, PTL
<1>4. \A u \in Actors : /\ answer'[u] = "open" => Current(u)'
                        /\ answer'[u] # "open" => todo'[u] = <<>> /\ made'[u] = <<>>
  BY AllCurrent
<1> QED BY <1>3, <1>4 DEF Underway, AllFresh

(* An approval that commits finds no open opportunity on its property, nor *)
(* on an alias of it, and its property is no alias.                        *)
LEMMA ApprovedAlone ==
  ASSUME TypeOK, Constants, NEW u \in Actors, NEW i \in DOMAIN matches, i = doing[u],
         Approves(u, i)
  PROVE  /\ aliasOf[PropertyOf(i)] = None /\ Classify(PropertyOf(i)) = "VALID"
         /\ matches[i].eligibility = "ELIGIBLE" /\ ~Superseded(i)
         /\ \A k \in DOMAIN matches : IsOpen(k) =>
              PropertyOf(k) # PropertyOf(i) /\ aliasOf[PropertyOf(k)] # PropertyOf(i)
<1>1. plan[u].kind = "APPROVED" /\ "APPROVED" \in Reviewing
  BY DEF Approves, Reviewing
<1>2. {"gates", "superseded", "valid", "open"} \subseteq Checks(plan[u].kind)
  BY <1>1 DEF Checks, Reviewing, Commands
<1>3. ~Refuses(u, "gates") /\ ~Refuses(u, "superseded") /\ ~Refuses(u, "valid") /\ ~Refuses(u, "open")
  BY <1>2 DEF Approves, Established
<1>4. seen[u] = Classify(PropertyOf(i))
  BY DEF Approves, Established
<1>5. Classify(PropertyOf(i)) = "VALID" /\ aliasOf[PropertyOf(i)] = None
  <2>1. Classify(PropertyOf(i)) = "VALID"
    BY <1>3, <1>4 DEF Refuses
  <2> QED BY <2>1 DEF Classify
<1>6. matches[i].eligibility = "ELIGIBLE" /\ ~Superseded(i) /\ ~OpenOnPlace(PropertyOf(i))
  BY <1>3 DEF Refuses
<1> QED BY <1>5, <1>6 DEF OpenOnPlace

(* What is consistent stays so, whoever moves.                             *)
LEMMA ConsistentKept ==
  ASSUME TypeOK, Constants, Consistent, Underway, NEW t \in Actors, Moved(t)
  PROVE  Consistent'
<1>1. CASE UNCHANGED store
  BY <1>1 DEF store, Consistent, IsOpen, PropertyOf
<1>2. CASE Commit(t)
  <2> DEFINE j == plan[t]
             i == doing[t]
  <2>0. /\ Change(t) /\ Effect(t) /\ todo[t] = <<>> /\ Current(t)
        /\ opp \in [Ids -> Opportunity \union {None}] /\ review \in [Ids -> Reviewing \union {None}]
        /\ None \notin Opportunity /\ None \notin Reviewing
    BY <1>2 DEF Moved, Commit, Underway, TypeOK, Constants
  <2>1. ASSUME NEW k \in Ids
        PROVE  /\ opp'[k] # None <=> review'[k] = "APPROVED"
               /\ opp'[k] # None => k \in DOMAIN matches'
    <3>0. [status |-> "NEW", validity |-> "VALID"] \in Opportunity
      BY DEF Opportunity, Classes
    <3>1. opp[k] # None <=> review[k] = "APPROVED"
      BY DEF Consistent
    <3>2. CASE j.kind \in Reviewing
      <4>1. ~Refuses(t, "decided")
        <5>1. Established(t, "decided")
          BY <2>0, <3>2, Passed
        <5>2. "decided" \in Checks(j.kind)
          BY <3>2 DEF Checks, Reviewing, Commands
        <5> QED BY <5>1, <5>2 DEF Established
      <4>2. /\ review' = [review EXCEPT ![i] = j.kind]
            /\ opp' = IF j.kind # "APPROVED" THEN opp
                      ELSE [opp EXCEPT ![i] = [status |-> "NEW", validity |-> "VALID"]]
        BY <2>0, <3>2 DEF Effect, Reviewing
      <4>3. ASSUME k = i PROVE opp'[k] # None <=> review'[k] = "APPROVED"
        <5>1. opp[k] = None /\ review'[k] = j.kind
          BY <2>0, <4>1, <4>2, <4>3 DEF Refuses, Decided
        <5>2. opp'[k] = IF j.kind = "APPROVED" THEN [status |-> "NEW", validity |-> "VALID"] ELSE None
          BY <2>0, <4>2, <4>3, <5>1
        <5> QED BY <2>0, <3>0, <5>1, <5>2
      <4>4. ASSUME k # i PROVE opp'[k] # None <=> review'[k] = "APPROVED"
        <5>1. opp'[k] = opp[k] /\ review'[k] = review[k]
          BY <2>0, <4>2, <4>4
        <5> QED BY <3>1, <5>1
      <4>5. opp'[k] # None => k \in DOMAIN matches'
        <5>1. opp'[k] # opp[k] => k \in DOMAIN matches
          BY <2>0 DEF Change
        <5>2. opp[k] # None => k \in DOMAIN matches
          BY DEF Consistent
        <5> QED BY <2>0, <5>1, <5>2 DEF Change
      <4> QED BY <4>3, <4>4, <4>5
    <3>3. CASE j.kind \notin Reviewing
      <4>1. review' = review
        BY <2>0, <3>3 DEF Effect
      <4>2. opp'[k] # opp[k] => opp[k] # None /\ opp'[k] # None
        BY <2>0, <3>3 DEF Change, Approves, Handles, Reviewing
      <4>3. opp[k] # None => k \in DOMAIN matches
        BY DEF Consistent
      <4>4. DOMAIN matches \subseteq DOMAIN matches'
        BY <2>0 DEF Change
      <4> QED BY <3>1, <4>1, <4>2, <4>3, <4>4
    <3> QED BY <3>2, <3>3
  <2>2. ASSUME NEW a \in DOMAIN matches', NEW b \in DOMAIN matches', a # b
        PROVE  ~SameInput(matches'[a], matches'[b])
    <3>1. MadeApart
      BY FreshParts DEF Underway, AllFresh
    <3>2. \A k \in DOMAIN matches' :
            \/ k \in DOMAIN matches /\ matches'[k] = matches[k]
            \/ \E l \in DOMAIN made[t] : k = l + Len(matches) /\ matches'[k] = made[t][l]
      BY <1>2, CommitMatches
    <3>3. CASE a \in DOMAIN matches /\ matches'[a] = matches[a]
      <4>1. CASE b \in DOMAIN matches /\ matches'[b] = matches[b]
        BY <2>2, <3>3, <4>1 DEF Consistent
      <4>2. CASE \E l \in DOMAIN made[t] : b = l + Len(matches) /\ matches'[b] = made[t][l]
        BY <3>1, <3>3, <4>2 DEF MadeApart
      <4> QED BY <3>2, <4>1, <4>2
    <3>4. CASE \E l \in DOMAIN made[t] : a = l + Len(matches) /\ matches'[a] = made[t][l]
      <4>1. CASE b \in DOMAIN matches /\ matches'[b] = matches[b]
        BY <3>1, <3>4, <4>1, SameInputs DEF MadeApart
      <4>2. CASE \E l \in DOMAIN made[t] : b = l + Len(matches) /\ matches'[b] = made[t][l]
        BY <2>2, <3>1, <3>4, <4>2 DEF MadeApart
      <4> QED BY <3>2, <4>1, <4>2
    <3> QED BY <3>2, <3>3, <3>4
  <2>3. ASSUME NEW a \in DOMAIN matches', NEW b \in DOMAIN matches', a # b,
               IsOpen(a)', IsOpen(b)', PropertyOf(a)' = PropertyOf(b)'
        PROVE  FALSE
    <3>1. /\ a \in DOMAIN matches /\ PropertyOf(a)' = PropertyOf(a)
          /\ IsOpen(a) \/ (a = i /\ Approves(t, a))
      BY <2>0, <2>3, Opened
    <3>2. /\ b \in DOMAIN matches /\ PropertyOf(b)' = PropertyOf(b)
          /\ IsOpen(b) \/ (b = i /\ Approves(t, b))
      BY <2>0, <2>3, Opened
    <3>3. CASE IsOpen(a) /\ IsOpen(b)
      BY <2>3, <3>1, <3>2, <3>3 DEF Consistent
    <3>4. CASE a = i /\ Approves(t, a) /\ IsOpen(b)
      BY <2>3, <3>1, <3>2, <3>4, ApprovedAlone, ZenonT(60)
    <3>5. CASE b = i /\ Approves(t, b) /\ IsOpen(a)
      BY <2>3, <3>1, <3>2, <3>5, ApprovedAlone
    <3> QED BY <2>3, <3>1, <3>2, <3>3, <3>4, <3>5
  <2> QED BY <2>1, <2>2, <2>3 DEF Consistent
<1> QED BY <1>1, <1>2 DEF Moved

(* The queues hold what they should wherever the tables are consistent.    *)
LEMMA QueuesComplete == TypeOK /\ Constants /\ Consistent => Queued
<1> SUFFICES ASSUME TypeOK, Constants, Consistent PROVE Queued
  OBVIOUS
<1>0. /\ opp \in [Ids -> Opportunity \union {None}] /\ review \in [Ids -> Reviewing \union {None}]
      /\ DOMAIN matches \subseteq Ids
      /\ \A o \in Opportunity : o.status \in {"NEW", "SHARED", "CLOSED"} /\ o.validity \in Classes
  BY DEF TypeOK, Opportunity
<1>1. ASSUME NEW i \in DOMAIN matches, Approvable(i)
      PROVE  i \in MatchQueue /\ MatchItem(i).priority = "HIGH"
  <2>1. review[i] \in {None, "NEED_MORE_INFORMATION"} /\ opp[i] = None
    BY <1>0, <1>1 DEF Approvable, Decided, Reviewing, Final
  <2>2. aliasOf[PropertyOf(i)] = None
    BY <1>1 DEF Approvable, Classify
  <2>3. matches[i].eligibility = "ELIGIBLE" /\ ~Superseded(i)
    BY <1>1 DEF Approvable
  <2> QED BY <2>1, <2>2, <2>3 DEF MatchQueue, MatchItem
<1>2. ASSUME NEW i \in DOMAIN matches, IsOpen(i), i \notin OpportunityQueue
      PROVE  opp[i].status = "SHARED" /\ opp[i].validity = "VALID"
  <2>1. opp[i] \in Opportunity /\ opp[i].status # "CLOSED"
    BY <1>0, <1>2 DEF IsOpen
  <2>2. opp[i].validity = "VALID" /\ opp[i].status # "NEW"
    BY <1>2 DEF OpportunityQueue
  <2> QED BY <1>0, <2>1, <2>2
<1>3. ASSUME NEW i \in OpportunityQueue, OpportunityItem(i).reason = "NOT_YET_SHARED"
      PROVE  opp[i].status = "NEW" /\ i \notin MatchQueue
  <2>1. i \in DOMAIN matches /\ IsOpen(i) /\ (opp[i].validity # "VALID" \/ opp[i].status = "NEW")
    BY DEF OpportunityQueue
  <2>2. opp[i] # None /\ opp[i].validity \in Classes
    BY <1>0, <2>1 DEF IsOpen
  <2>3. opp[i].validity = "VALID"
    BY <1>3, <2>2 DEF OpportunityItem, Classes
  <2> QED BY <2>1, <2>2, <2>3 DEF MatchQueue
<1> QED BY <1>1, <1>2, <1>3 DEF Queued

(* Two open opportunities on an alias and its record are named, whoever    *)
(* moves.                                                                  *)
LEMMA NamedKept ==
  ASSUME TypeOK, Constants, Consistent, Underway, DuplicateNamed, NEW t \in Actors, Moved(t)
  PROVE  DuplicateNamed'
<1>1. CASE UNCHANGED store
  BY <1>1 DEF store, DuplicateNamed, IsOpen, PropertyOf
<1>2. CASE Commit(t)
  <2> SUFFICES ASSUME NEW i \in DOMAIN matches', NEW k \in DOMAIN matches', IsOpen(i)', IsOpen(k)',
                      aliasOf'[PropertyOf(i)'] = PropertyOf(k)'
               PROVE  \E w \in tasks' : w[1] = i /\ k \in w[2]
    BY DEF DuplicateNamed
  <2>0. Change(t) /\ Effect(t)
    BY <1>2 DEF Moved, Commit
  <2>1. /\ i \in DOMAIN matches /\ PropertyOf(i)' = PropertyOf(i)
        /\ IsOpen(i) \/ (i = doing[t] /\ Approves(t, i))
    BY <2>0, Opened
  <2>2. /\ k \in DOMAIN matches /\ PropertyOf(k)' = PropertyOf(k)
        /\ IsOpen(k) \/ (k = doing[t] /\ Approves(t, k))
    BY <2>0, Opened
  <2>3. PropertyOf(i) \in Properties /\ PropertyOf(k) \in Properties
    BY <2>1, <2>2, MatchTypes
  <2>4. CASE aliasOf'[PropertyOf(i)] = aliasOf[PropertyOf(i)]
    <3>1. aliasOf[PropertyOf(i)] = PropertyOf(k) /\ PropertyOf(k) # None
      BY <2>1, <2>2, <2>3, <2>4 DEF Constants
    <3>2. IsOpen(i)
      BY <2>1, <3>1, ApprovedAlone
    <3>3. IsOpen(k)
      BY <2>1, <2>2, <3>1, <3>2, ApprovedAlone
    <3>4. \E w \in tasks : w[1] = i /\ k \in w[2]
      BY <2>1, <2>2, <3>1, <3>2, <3>3 DEF DuplicateNamed
    <3> QED BY <2>0, <3>4 DEF Change
  <2>5. CASE aliasOf'[PropertyOf(i)] # aliasOf[PropertyOf(i)]
    <3>1. /\ PropertyOf(i) = plan[t].property /\ PropertyOf(k) = plan[t].into
          /\ Established(t, "work") /\ raised[t] \subseteq tasks'
      BY <2>0, <2>1, <2>2, <2>3, <2>5 DEF Change
    <3>2. plan[t].kind = "consolidate"
      BY <2>0, <2>5 DEF Effect
    <3>3. IsOpen(i) /\ IsOpen(k)
      BY <2>1, <2>2, <3>2 DEF Approves
    <3>4. \E w \in raised[t] : w[1] = i /\ k \in w[2]
      BY <2>1, <2>2, <3>1, <3>3 DEF Established
    <3> QED BY <3>1, <3>4
  <2> QED BY <2>4, <2>5
<1> QED BY <1>1, <1>2 DEF Moved

-----------------------------------------------------------------------------
(* The inductive invariant: what runs check in every state, with the tasks *)
(* that name duplicates.                                                   *)
Inv == IInv /\ DuplicateNamed

(* A transaction's program stays what it is: matches are only added.       *)
LEMMA ProgramStays ==
  ASSUME TypeOK, Constants, NEW t \in Actors, Current(t), plan' = plan, doing'[t] = doing[t],
         DOMAIN matches \subseteq DOMAIN matches', \A k \in DOMAIN matches : matches'[k] = matches[k]
  PROVE  /\ Program(plan[t], doing[t])' = Program(plan[t], doing[t])
         /\ Program(plan[t], doing[t]) \in Seq(Statements(plan[t].kind))
<1> DEFINE j == plan[t]
           i == doing[t]
<1>1. j.kind # "run" => i \in Subjects(j)
  BY DEF Current
<1>2. j.kind \in Reviewing \union Commands => i \in DOMAIN matches /\ matches'[i] = matches[i]
  BY <1>1 DEF Subjects, Reviewing, Commands
<1>3. Program(plan[t], doing[t])' = Program(j, i)
  <2>1. CASE j.kind \in Reviewing \union Commands
    BY <1>2, <2>1 DEF Program, PropertyOf, Reviewing, Commands
  <2>2. CASE j.kind = "run"
    BY <2>2 DEF Program, Reviewing, Commands
  <2>3. CASE j.kind \notin Reviewing \union Commands \union {"run"}
    <3>1. i = 0
      BY <1>1, <2>3 DEF Subjects
    <3> QED BY <3>1 DEF Program
  <2> QED BY <2>1, <2>2, <2>3
<1> QED BY <1>1, <1>3, Programs DEF Subjected

(* What a transaction that is in its program's order holds and is about to *)
(* do stays in that order, whatever another transaction does.              *)
LEMMA LockOrderOthers ==
  ASSUME TypeOK, Constants, Underway, NEW t \in Actors, NEW u \in Actors, Change(t),
         Bystander(u), LockOrder(u)
  PROVE  LockOrder(u)'
<1> DEFINE j == plan[u]
           i == doing[u]
<1>0. /\ plan' = plan /\ todo'[u] = todo[u] /\ doing'[u] = i /\ made'[u] = made[u]
      /\ held'[u] = held[u] /\ answer'[u] = answer[u]
      /\ DOMAIN matches \subseteq DOMAIN matches' /\ \A k \in DOMAIN matches : matches'[k] = matches[k]
  BY DEF Bystander, Change
<1>1. answer[u] = "open" /\ j.kind = "run" => KeysOnly(u)'
  <2>1. \A k \in DOMAIN todo[u] : KeyStatement(u, k) => KeyStatement(u, k)'
    BY <1>0 DEF KeyStatement
  <2> QED BY <1>0, <2>1 DEF LockOrder, KeysOnly
<1>2. answer[u] = "open" => Program(plan[u], doing[u])' = Program(j, i)
  BY <1>0, ProgramStays DEF Underway
<1>3. answer[u] = "open" /\ j.kind \notin {"run", "consolidate"} =>
        \E n \in 0..Len(Program(plan[u], doing[u])') : Reached(u, n)'
  <2>1. answer[u] = "open" => \A n : Reached(u, n) => Reached(u, n)'
    BY <1>0, <1>2 DEF Reached, Holds
  <2> QED BY <1>2, <2>1 DEF LockOrder
<1> QED BY <1>0, <1>1, <1>3 DEF LockOrder

(* A transaction that ends holds nothing.                                  *)
LEMMA LockOrderEnds ==
  ASSUME TypeOK, NEW t \in Actors, NEW what, what # "open", End(t, what)
  PROVE  LockOrder(t)'
<1>1. held' = [held EXCEPT ![t] = [r \in Lockable |-> 0]] /\ made' = [made EXCEPT ![t] = <<>>]
      /\ answer' = [answer EXCEPT ![t] = what]
  BY DEF End, Release
<1>2. held'[t] = [r \in Lockable |-> 0] /\ answer'[t] = what /\ made'[t] = <<>>
  BY <1>1 DEF TypeOK, HeldType
<1> QED BY <1>2 DEF LockOrder

(* What is left of a transaction that only drops its head.                 *)
LEMMA Dropped ==
  ASSUME TypeOK, NEW t \in Actors, todo[t] # <<>>, Continue(t, <<>>)
  PROVE  /\ Len(todo[t]) \in Nat /\ Len(todo[t]) >= 1 /\ DOMAIN todo[t] = 1..Len(todo[t])
         /\ Head(todo[t]) = todo[t][1] /\ todo[t][1] \in Statements(plan[t].kind)
         /\ Len(todo'[t]) = Len(todo[t]) - 1 /\ DOMAIN todo'[t] = 1..Len(todo'[t])
         /\ \A k \in DOMAIN todo'[t] : k + 1 \in DOMAIN todo[t] /\ todo'[t][k] = todo[t][k + 1]
<1> DEFINE q == todo[t]
           r == Tail(q)
<1>1. todo'[t] = <<>> \o r
  BY DEF Continue, TypeOK
<1>2. q \in Seq(Statements(plan[t].kind)) /\ q # <<>>
  BY DEF TypeOK
<1> HIDE DEF q
<1>3. /\ r \in Seq(Statements(plan[t].kind)) /\ Len(r) = Len(q) - 1 /\ Len(q) \in Nat
      /\ \A k \in 1..Len(r) : r[k] = q[k + 1]
  BY <1>2
<1>4. /\ Len(q) >= 1 /\ DOMAIN q = 1..Len(q) /\ Head(q) = q[1] /\ q[1] \in Statements(plan[t].kind)
  BY <1>2
<1> HIDE DEF r
<1>5. todo'[t] = r /\ DOMAIN r = 1..Len(r)
  BY <1>1, <1>3
<1>6. \A k \in 1..Len(r) : k + 1 \in 1..Len(q)
  BY <1>3
<1> QED BY <1>3, <1>4, <1>5, <1>6 DEF q

(* What a transaction holds once it has made a statement.                  *)
AfterStatement(t, s) ==
  \/ /\ s[1] = "lock"
     /\ \A x \in Lockable : held'[t][x] = IF x = s[2] /\ s[3] > held[t][x] THEN s[3] ELSE held[t][x]
  \/ s[1] # "lock" /\ held'[t] = held[t]

(* A statement adds to what its transaction holds its own lock, or nothing.*)
LEMMA HeldAfter ==
  ASSUME TypeOK, NEW t \in Actors, NEW s \in Statements(plan[t].kind), AfterStatement(t, s)
  PROVE  /\ s[1] = "lock" => s = <<"lock", s[2], s[3]>> /\ s[2] \in Lockable /\ s[3] \in 1..4
         /\ \A r \in Lockable : held[t][r] \in 0..4 /\ held'[t][r] \in 0..4 /\ held'[t][r] >= held[t][r]
         /\ s[1] = "lock" => held'[t][s[2]] >= s[3]
         /\ \A r \in Lockable : \/ held'[t][r] = held[t][r]
                                \/ s[1] = "lock" /\ s = <<"lock", r, held'[t][r]>>
<1>1. s[1] = "lock" => s = <<"lock", s[2], s[3]>> /\ s[2] \in Lockable /\ s[3] \in 1..4
  BY DEF Statements, Update
<1>2. \A r \in Lockable : held[t][r] \in 0..4
  BY DEF TypeOK, HeldType, Update
<1> QED BY <1>1, <1>2 DEF AfterStatement

(* A transaction reaches its program's next statement.                     *)
LEMMA ReachedNext ==
  ASSUME TypeOK, Constants, NEW t \in Actors, Current(t), NEW n \in Nat, Reached(t, n),
         todo[t] # <<>>, Continue(t, <<>>), plan' = plan, doing'[t] = doing[t], matches' = matches,
         NEW s, s = Head(todo[t]), AfterStatement(t, s)
  PROVE  n + 1 \in 0..Len(Program(plan[t], doing[t])') /\ Reached(t, n + 1)'
<1> DEFINE q == Program(plan[t], doing[t])
<1>1. Program(plan[t], doing[t])' = q /\ q \in Seq(Statements(plan[t].kind))
  BY ProgramStays
<1>2. /\ Len(todo[t]) \in Nat /\ Len(todo[t]) >= 1 /\ DOMAIN todo[t] = 1..Len(todo[t])
      /\ s = todo[t][1] /\ s \in Statements(plan[t].kind)
      /\ Len(todo'[t]) = Len(todo[t]) - 1 /\ DOMAIN todo'[t] = 1..Len(todo'[t])
      /\ \A k \in DOMAIN todo'[t] : k + 1 \in DOMAIN todo[t] /\ todo'[t][k] = todo[t][k + 1]
  BY Dropped
<1>3. /\ Len(todo[t]) + n = Len(q)
      /\ \A k \in DOMAIN todo[t] : todo[t][k] = q[k + n]
      /\ \A k \in 1..n : q[k][1] = "lock" => Holds(t, q[k])
      /\ \A r \in Lockable : held[t][r] # 0 => \E k \in 1..n : q[k] = <<"lock", r, held[t][r]>>
  BY DEF Reached
<1>4. /\ s[1] = "lock" => s = <<"lock", s[2], s[3]>> /\ s[2] \in Lockable /\ s[3] \in 1..4
      /\ \A r \in Lockable : held[t][r] \in 0..4 /\ held'[t][r] \in 0..4 /\ held'[t][r] >= held[t][r]
      /\ s[1] = "lock" => held'[t][s[2]] >= s[3]
      /\ \A r \in Lockable : \/ held'[t][r] = held[t][r]
                             \/ s[1] = "lock" /\ s = <<"lock", r, held'[t][r]>>
  BY <1>2, HeldAfter
<1>5. Len(q) \in Nat /\ \A k \in 1..Len(q) : q[k] \in Statements(plan[t].kind)
  BY <1>1
<1> HIDE DEF q
<1>6. q[n + 1] = s /\ n + 1 \in 1..Len(q)
  <2>1. 1 \in DOMAIN todo[t] /\ 1 + n = n + 1
    BY <1>2
  <2>2. q[n + 1] = s
    BY <1>2, <1>3, <2>1
  <2>3. PICK a, b : a = Len(todo[t]) /\ b = Len(q)
    OBVIOUS
  <2>4. a \in Nat /\ a >= 1 /\ b \in Nat /\ a + n = b
    BY <1>2, <1>3, <1>5, <2>3
  <2>5. n + 1 \in 1..b
    BY <2>4
  <2> QED BY <2>2, <2>3, <2>5
<1>7. Len(todo'[t]) + (n + 1) = Len(q)
  <2>1. PICK a, b, c : a = Len(todo[t]) /\ b = Len(q) /\ c = Len(todo'[t])
    OBVIOUS
  <2>2. a \in Nat /\ c = a - 1 /\ a + n = b
    BY <1>2, <1>3, <2>1
  <2>3. c + (n + 1) = b
    BY <2>2
  <2> QED BY <2>1, <2>3
<1>8. ASSUME NEW k \in DOMAIN todo'[t] PROVE todo'[t][k] = q[k + (n + 1)]
  <2>1. k + 1 \in DOMAIN todo[t] /\ todo'[t][k] = todo[t][k + 1] /\ k \in Nat
    BY <1>2
  <2>2. (k + 1) + n = k + (n + 1)
    BY <2>1
  <2>3. todo[t][k + 1] = q[(k + 1) + n]
    BY <1>3, <2>1
  <2> QED BY <2>1, <2>2, <2>3
<1>9. ASSUME NEW k \in 1..(n + 1), q[k][1] = "lock" PROVE held'[t][q[k][2]] >= q[k][3]
  <2>1. CASE k = n + 1
    BY <1>4, <1>6, <1>9, <2>1
  <2>2. CASE k # n + 1
    <3>1. k \in 1..n /\ k \in 1..Len(q)
      BY <1>6, <2>2
    <3>2. held[t][q[k][2]] >= q[k][3]
      BY <1>3, <1>9, <3>1 DEF Holds
    <3>3. q[k][2] \in Lockable /\ q[k][3] \in 1..4
      BY <1>5, <1>9, <3>1 DEF Statements, Update
    <3>4. PICK a, b, c : a = held[t][q[k][2]] /\ b = held'[t][q[k][2]] /\ c = q[k][3]
      OBVIOUS
    <3>5. a \in 0..4 /\ b \in 0..4 /\ b >= a /\ c \in 1..4 /\ a >= c
      BY <1>4, <3>2, <3>3, <3>4
    <3>6. b >= c
      BY <3>5
    <3> QED BY <3>4, <3>6
  <2> QED BY <2>1, <2>2
<1>10. ASSUME NEW r \in Lockable, held'[t][r] # 0
       PROVE  \E k \in 1..(n + 1) : q[k] = <<"lock", r, held'[t][r]>>
  <2>1. CASE held'[t][r] = held[t][r]
    <3>1. PICK k \in 1..n : q[k] = <<"lock", r, held[t][r]>>
      BY <1>3, <1>10, <2>1
    <3>2. k \in 1..(n + 1)
      OBVIOUS
    <3> QED BY <2>1, <3>1, <3>2
  <2>2. CASE s = <<"lock", r, held'[t][r]>>
    <3>1. n + 1 \in 1..(n + 1)
      OBVIOUS
    <3> QED BY <1>6, <2>2, <3>1
  <2> QED BY <1>4, <2>1, <2>2
<1>11. n + 1 \in 0..Len(q)
  BY <1>5, <1>6
<1> QED BY <1>1, <1>7, <1>8, <1>9, <1>10, <1>11 DEF Reached, Holds

(* A run that drops its head still asks for foreign keys' locks only, in   *)
(* order.                                                                  *)
LEMMA KeysOnlyNext ==
  ASSUME TypeOK, Constants, NEW t \in Actors, KeysOnly(t),
         todo[t] # <<>>, Continue(t, <<>>), plan' = plan, matches' = matches, made'[t] = made[t],
         NEW s, s = Head(todo[t]), AfterStatement(t, s)
  PROVE  KeysOnly(t)'
<1>1. /\ Len(todo[t]) \in Nat /\ Len(todo[t]) >= 1 /\ DOMAIN todo[t] = 1..Len(todo[t])
      /\ s = todo[t][1] /\ s \in Statements(plan[t].kind)
      /\ Len(todo'[t]) = Len(todo[t]) - 1 /\ DOMAIN todo'[t] = 1..Len(todo'[t])
      /\ \A k \in DOMAIN todo'[t] : k + 1 \in DOMAIN todo[t] /\ todo'[t][k] = todo[t][k + 1]
  BY Dropped
<1>2. 1 \in DOMAIN todo[t]
  BY <1>1
<1>3. /\ s[1] = "lock" => s = <<"lock", s[2], s[3]>> /\ s[2] \in Lockable /\ s[3] \in 1..4
      /\ \A r \in Lockable : held[t][r] \in 0..4 /\ held'[t][r] \in 0..4 /\ held'[t][r] >= held[t][r]
      /\ s[1] = "lock" => held'[t][s[2]] >= s[3]
      /\ \A r \in Lockable : \/ held'[t][r] = held[t][r]
                             \/ s[1] = "lock" /\ s = <<"lock", r, held'[t][r]>>
  BY <1>1, HeldAfter
<1>4. \A r \in Lockable : held[t][r] # 0 => held'[t][r] # 0
  BY <1>3
<1>5. \A p \in Properties : <<"offer", p>> \in Lockable /\ <<"property", p>> \in Lockable
  BY Locked
<1>6. s[1] = "lock" =>
        /\ s[3] = KeyShare /\ s[2][1] \in {"request", "property", "offer", "match"}
        /\ s[2][1] = "offer" => held[t][<<"property", s[2][2]>>] # 0
  <2>1. KeyStatement(t, 1) /\ todo[t][1] = s
    BY <1>1, <1>2 DEF KeysOnly
  <2>2. 1..(1 - 1) = {}
    OBVIOUS
  <2> QED BY <2>1, <2>2 DEF KeyStatement
<1>7. \A r \in Lockable : held'[t][r] \in {0, KeyShare}
  BY <1>3, <1>6 DEF KeysOnly
<1>8. ASSUME NEW p \in Properties, held'[t][<<"offer", p>>] # 0
      PROVE  held'[t][<<"property", p>>] # 0
  <2>1. CASE held'[t][<<"offer", p>>] = held[t][<<"offer", p>>]
    BY <1>4, <1>5, <1>8, <2>1 DEF KeysOnly
  <2>2. CASE s[1] = "lock" /\ s[2] = <<"offer", p>>
    BY <1>4, <1>5, <1>6, <2>2
  <2>3. PICK h : h = held'[t][<<"offer", p>>]
    OBVIOUS
  <2>4. h = held[t][<<"offer", p>>] \/ (s[1] = "lock" /\ s = <<"lock", <<"offer", p>>, h>>)
    BY <1>3, <1>5, <2>3
  <2>5. s = <<"lock", <<"offer", p>>, h>> => s[2] = <<"offer", p>>
    OBVIOUS
  <2> QED BY <2>1, <2>2, <2>3, <2>4, <2>5
<1>9. ASSUME NEW k \in DOMAIN todo'[t]
      PROVE  /\ todo'[t][k][1] = "lock" =>
                  /\ todo'[t][k][3] = KeyShare
                  /\ todo'[t][k][2][1] \in {"request", "property", "offer", "match"}
                  /\ todo'[t][k][2][1] = "match" =>
                       /\ todo'[t][k][2][2] \in DOMAIN matches
                       /\ matches[todo'[t][k][2][2]].eligibility # "ELIGIBLE"
             /\ todo'[t][k][1] = "insert" =>
                  \A m \in todo'[t][k][2] : \A l \in DOMAIN made[t] : made[t][l].property < m.property
  <2>1. KeyStatement(t, k + 1) /\ todo'[t][k] = todo[t][k + 1]
    BY <1>1 DEF KeysOnly
  <2> QED BY <2>1 DEF KeyStatement
<1>10. ASSUME NEW k \in DOMAIN todo'[t], todo'[t][k][1] = "lock", todo'[t][k][2][1] = "offer"
       PROVE  \/ held'[t][<<"property", todo'[t][k][2][2]>>] # 0
              \/ \E m \in 1..(k - 1) : todo'[t][m] = Locks("property", todo'[t][k][2][2], KeyShare)
  <2>1. PICK p : p = todo'[t][k][2][2]
    OBVIOUS
  <2>2. k + 1 \in DOMAIN todo[t] /\ todo'[t][k] = todo[t][k + 1] /\ k \in Nat /\ k \in 1..Len(todo'[t])
    BY <1>1
  <2>3. \/ held[t][<<"property", p>>] # 0
        \/ \E m \in 1..((k + 1) - 1) : todo[t][m] = Locks("property", p, KeyShare)
    <3>1. KeyStatement(t, k + 1)
      BY <2>2 DEF KeysOnly
    <3> QED BY <1>10, <2>1, <2>2, <3>1 DEF KeyStatement
  <2>4. p \in Properties
    <3>1. todo[t][k + 1] \in Statements(plan[t].kind)
      <4>1. todo[t] \in Seq(Statements(plan[t].kind))
        BY DEF TypeOK
      <4> QED BY <2>2, <4>1
    <3>2. todo[t][k + 1][2] \in Lockable
      BY <1>10, <2>2, <3>1 DEF Statements
    <3> QED BY <1>10, <2>1, <2>2, <3>2 DEF Lockable, Facts, Request
  <2>5. CASE held[t][<<"property", p>>] # 0
    BY <1>4, <1>5, <2>1, <2>4, <2>5
  <2>6. CASE \E m \in 1..((k + 1) - 1) : todo[t][m] = Locks("property", p, KeyShare)
    <3>1. PICK m \in 1..k : todo[t][m] = Locks("property", p, KeyShare)
      BY <2>2, <2>6
    <3>2. CASE m = 1
      <4>1. s = <<"lock", <<"property", p>>, 1>>
        BY <1>1, <3>1, <3>2 DEF Locks, KeyShare
      <4>2. held'[t][<<"property", p>>] >= 1
        BY <1>3, <4>1
      <4>3. held'[t][<<"property", p>>] # 0
        BY <4>2
      <4> QED BY <2>1, <4>3
    <3>3. CASE m # 1
      <4>1. m - 1 \in 1..(k - 1) /\ m - 1 \in 1..Len(todo'[t]) /\ (m - 1) + 1 = m
        BY <2>2, <3>3
      <4>2. todo'[t][m - 1] = todo[t][m]
        BY <1>1, <4>1
      <4> QED BY <2>1, <3>1, <4>1, <4>2
    <3> QED BY <3>2, <3>3
  <2> QED BY <2>3, <2>5, <2>6
<1>11. \A k \in DOMAIN todo'[t] : KeyStatement(t, k)'
  BY <1>9, <1>10 DEF KeyStatement
<1> QED BY <1>7, <1>8, <1>11 DEF KeysOnly

(* A run that has read its snapshot asks for the request's key, having     *)
(* inserted.                                                               *)
LEMMA KeysOnlySnapshot ==
  ASSUME TypeOK, Constants, NEW t \in Actors, Current(t), Batched(t), KeysOnly(t), Snapshot(t),
         ~End(t, "refused")
  PROVE  KeysOnly(t)'
<1>1. PICK h : h = Head(todo[t])
  OBVIOUS
<1>2. todo[t] # <<>> /\ h[1] = "snapshot" /\ plan' = plan
  BY <1>1 DEF Snapshot, At
<1>3. PICK offers : Continue(t, Inserts({Evaluated(p, doing[t]) : p \in Candidates(offers)})
                                  \o <<Locks("request", 0, KeyShare)>>)
  BY DEF Snapshot
<1>4. made' = made /\ held' = held
  BY DEF Snapshot, own
<1>5. plan[t].kind = "run" /\ h = <<"snapshot">> /\ todo[t][1] = h /\ 1 \in DOMAIN todo[t]
  <2>1. h \in Statements(plan[t].kind) /\ todo[t][1] = h /\ 1 \in DOMAIN todo[t]
    BY <1>1, <1>2, Ready
  <2>2. plan[t].kind = "run"
    BY <1>2, <2>1, KindOf
  <2>3. \/ h \in {"lock"} \X Lockable \X (1..Update) \/ h \in {"check"} \X Checks("run")
        \/ h = <<"snapshot">> \/ h \in {"insert"} \X SUBSET Match
    BY <2>1, <2>2 DEF Statements, Reviewing, Commands
  <2> QED BY <1>2, <2>1, <2>2, <2>3
<1>6. todo[t] = <<<<"snapshot">>>> /\ made[t] = <<>>
  BY <1>5 DEF Batched, Of
<1> DEFINE ms == {Evaluated(p, doing[t]) : p \in Candidates(offers)}
           key == Locks("request", 0, KeyShare)
           b == Inserts(ms)
           more == b \o <<key>>
<1>7. ms \in SUBSET Match
  <2>1. doing[t] \in Nat
    BY DEF TypeOK
  <2>2. \A p \in Properties : Evaluated(p, doing[t]) \in Match
    BY <2>1, EvaluatedTypes
  <2>3. Candidates(offers) \subseteq Properties
    BY DEF Candidates
  <2> HIDE DEF Evaluated, Candidates
  <2> QED BY <2>2, <2>3
<1> HIDE DEF ms
<1>8. /\ b \in Seq(Statements("run")) /\ \A k \in DOMAIN b : b[k] = <<"insert", ms>>
      /\ key \in Statements("run") /\ key = <<"lock", <<"request", 0>>, KeyShare>>
  BY <1>7, InsertsTypes, LockStatements DEF Locks, KeyShare
<1> HIDE DEF b, key
<1>9. <<key>> \in Seq(Statements("run")) /\ Len(<<key>>) = 1 /\ <<key>>[1] = key
  BY <1>8
<1>10. /\ more \in Seq(Statements("run")) /\ Len(more) = Len(b) + 1
       /\ \A l \in 1..Len(b) : more[l] = b[l]
       /\ more[1 + Len(b)] = key
  BY <1>8, <1>9, Joined
<1>11. \A k \in DOMAIN more : more[k] \in {key, <<"insert", ms>>}
  <2> SUFFICES ASSUME NEW k \in DOMAIN more PROVE more[k] \in {key, <<"insert", ms>>}
    OBVIOUS
  <2>1. Len(b) \in Nat /\ DOMAIN b = 1..Len(b) /\ DOMAIN more = 1..Len(more)
    BY <1>8, <1>10
  <2>2. CASE k \in 1..Len(b)
    BY <1>8, <1>10, <2>1, <2>2
  <2>3. CASE k \notin 1..Len(b)
    <3>1. k = 1 + Len(b)
      BY <1>10, <2>1, <2>3
    <3> QED BY <1>10, <3>1
  <2> QED BY <2>2, <2>3
<1> HIDE DEF more
<1>12. Rest(t, more, <<>>)
  BY <1>2, <1>3, <1>5, <1>10, Drops DEF more, key, b, ms
<1>13. <<>> \in Seq(Statements("run")) /\ DOMAIN <<>> = {} /\ Len(<<<<"snapshot">>>>) = 1 /\ 2..1 = {}
  OBVIOUS
<1>14. \A k \in DOMAIN todo'[t] :
         \/ k \in DOMAIN more /\ todo'[t][k] = more[k]
         \/ k + 1 - Len(more) \in 2..Len(todo[t]) /\ todo'[t][k] = todo[t][k + 1 - Len(more)]
  <2>1. PICK none : none = <<>>
    OBVIOUS
  <2>2. none \in Seq(Statements(plan[t].kind)) /\ more \in Seq(Statements(plan[t].kind))
    BY <1>5, <1>10, <1>13, <2>1
  <2>3. \A k \in DOMAIN todo'[t] :
         \/ k \in DOMAIN more /\ todo'[t][k] = more[k]
         \/ k + 1 - Len(more) \in 2..Len(todo[t]) /\ todo'[t][k] = todo[t][k + 1 - Len(more)]
         \/ \E l \in DOMAIN none : todo'[t][k] = none[l]
    <3>1. Rest(t, more, none)
      BY <1>12, <2>1
    <3> HIDE DEF Rest, Statements, TypeOK
    <3> QED BY <1>2, <3>1, <2>2, RestTypes, SMTT(30)
  <2> QED BY <1>13, <2>1, <2>3
<1>15. \A k \in DOMAIN todo'[t] : todo'[t][k] \in {key, <<"insert", ms>>}
  BY <1>6, <1>11, <1>13, <1>14
<1>16. \A k \in DOMAIN todo'[t] : KeyStatement(t, k)'
  <2> SUFFICES ASSUME NEW k \in DOMAIN todo'[t] PROVE KeyStatement(t, k)'
    OBVIOUS
  <2>1. CASE todo'[t][k] = key
    BY <1>8, <2>1 DEF KeyStatement
  <2>2. CASE todo'[t][k] = <<"insert", ms>>
    <3>1. DOMAIN made'[t] = {}
      BY <1>4, <1>6
    <3> QED BY <2>2, <3>1 DEF KeyStatement
  <2> QED BY <1>15, <2>1, <2>2
<1> QED BY <1>4, <1>16 DEF KeysOnly

(* A run that has inserted a match asks for its keys, and the others are   *)
(* of greater properties.                                                  *)
LEMMA KeysOnlyInsert ==
  ASSUME TypeOK, Constants, NEW t \in Actors, Current(t), Batched(t), KeysOnly(t), InsertMatch(t)
  PROVE  KeysOnly(t)'
<1>1. PICK h : h = Head(todo[t])
  OBVIOUS
<1>2. /\ plan[t].kind = "run" /\ h[1] = "insert" /\ h[2] \in SUBSET Match /\ todo[t] # <<>>
      /\ plan' = plan /\ held' = held /\ matches' = matches
  <2>1. /\ plan[t].kind = "run" /\ h[1] = "insert" /\ h[2] \in SUBSET Match /\ todo[t] # <<>>
        /\ UNCHANGED <<plan, store, held>>
    BY <1>1, InsertForm
  <2> QED BY <2>1 DEF store
<1>3. PICK m \in h[2] : \E keys, after : Inserted(t, h[2], m, keys, after)
  BY <1>1, InsertForm
<1>4. PICK keys, after : Inserted(t, h[2], m, keys, after)
  BY <1>3
<1> DEFINE q == todo[t]
           ms == h[2] \ {m}
           more == keys \o Inserts(ms)
<1>5. /\ q \in Seq(Statements("run")) /\ 1 \in DOMAIN q /\ q[1] = h
      /\ DOMAIN q = 1..Len(q) /\ Len(q) \in Nat
  BY <1>1, <1>2, Ready
<1>6. /\ \A c \in DOMAIN q : q[c][1] = "insert" => c = 1
      /\ \A n, o \in h[2] : n.property = o.property => n = o
  BY <1>2, <1>5 DEF Batched
<1>8. /\ Pushes(keys) /\ Pushes(after) /\ Rest(t, more, after) /\ ms \in SUBSET Match
      /\ Keys(keys) /\ Keys(after) /\ \A k \in DOMAIN after : after[k][2][1] # "offer"
      /\ m \in First(h[2])
  BY <1>2, <1>4 DEF Inserted
<1> HIDE DEF ms
<1>9. /\ more \in Seq(Statements("run"))
      /\ DOMAIN keys = 1..Len(keys) /\ Len(keys) \in Nat
      /\ \A a \in DOMAIN keys : a \in DOMAIN more /\ more[a] = keys[a]
      /\ \A a \in DOMAIN more : a \in DOMAIN keys \/ more[a] = <<"insert", ms>>
  BY <1>8, OneBatch
<1>10. /\ after \in Seq(Statements("run"))
       /\ \A k \in DOMAIN after : What(after[k]) = "lock"
       /\ \A k \in DOMAIN keys : What(keys[k]) = "lock"
  BY <1>8 DEF Pushes
<1> HIDE DEF more
<1>11. /\ \A k \in DOMAIN more : k \in DOMAIN todo'[t] /\ todo'[t][k] = more[k]
       /\ \A k \in 2..Len(q) : /\ k - 1 + Len(more) \in DOMAIN todo'[t]
                               /\ todo'[t][k - 1 + Len(more)] = q[k]
       /\ \A a \in DOMAIN todo'[t] :
            \/ a \in DOMAIN more /\ todo'[t][a] = more[a]
            \/ a + 1 - Len(more) \in 2..Len(q) /\ todo'[t][a] = q[a + 1 - Len(more)]
            \/ \E l \in DOMAIN after : todo'[t][a] = after[l]
       /\ Len(todo'[t]) \in Nat /\ DOMAIN todo'[t] = 1..Len(todo'[t])
  BY <1>2, <1>8, <1>9, <1>10, RestTypes, SMTT(30)
<1>12. Len(more) \in Nat
  BY <1>9
<1>13. \A k \in DOMAIN q : KeyStatement(t, k)
  BY DEF KeysOnly
<1>14. h[2] # {} /\ \A n \in h[2] : \A l \in DOMAIN made[t] : made[t][l].property < n.property
  BY <1>2, <1>5, <1>13 DEF KeyStatement
<1> HIDE DEF q
<1>15. ASSUME NEW n \in ms, NEW l \in DOMAIN made'[t] PROVE made'[t][l].property < n.property
  <2>1. n \in h[2] /\ n # m /\ m.property <= n.property
    BY <1>8 DEF ms, First
  <2>2. m.property \in Nat /\ n.property \in Nat
    BY <1>2, <2>1 DEF Match, Constants
  <2>3. m.property < n.property
    BY <1>6, <2>1, <2>2
  <2>4. CASE made' = made
    BY <1>14, <1>15, <2>1, <2>4
  <2>5. CASE made' = [made EXCEPT ![t] = Append(@, m)]
    <3>1. m \in Match
      BY <1>2, <1>3
    <3>2. (l \in DOMAIN made[t] /\ made'[t][l] = made[t][l]) \/ made'[t][l] = m
      BY <1>15, <2>5, <3>1, Appended
    <3> QED BY <1>14, <2>1, <2>3, <3>2
  <2> QED BY <1>4, <2>4, <2>5 DEF Inserted
<1>16. ASSUME NEW a \in DOMAIN keys PROVE KeyStatement(t, a)'
  <2>1. todo'[t][a] = keys[a] /\ keys[a][1] # "insert"
    BY <1>9, <1>10, <1>11 DEF What
  <2>2. \A k \in 1..(a - 1) : k \in DOMAIN keys /\ todo'[t][k] = keys[k]
    BY <1>9, <1>11
  <2> QED BY <1>2, <1>8, <2>1, <2>2 DEF KeyStatement, Keys
<1>17. ASSUME NEW a \in DOMAIN todo'[t], todo'[t][a] = <<"insert", ms>> PROVE KeyStatement(t, a)'
  BY <1>15, <1>17 DEF KeyStatement
<1>18. ASSUME NEW a \in DOMAIN todo'[t], NEW l \in DOMAIN after, todo'[t][a] = after[l]
       PROVE  KeyStatement(t, a)'
  <2>1. after[l][1] # "insert"
    BY <1>10 DEF What
  <2> QED BY <1>2, <1>8, <1>18, <2>1 DEF KeyStatement, Keys
<1>19. ASSUME NEW a \in DOMAIN todo'[t], NEW c \in 2..Len(q), c = a + 1 - Len(more),
              todo'[t][a] = q[c]
       PROVE  KeyStatement(t, a)'
  <2>1. c \in DOMAIN q /\ KeyStatement(t, c) /\ q[c][1] # "insert" /\ c - 1 + Len(more) = a
        /\ a \in Nat /\ c \in Nat
    <3>1. c \in DOMAIN q /\ c # 1 /\ a \in Nat /\ c \in Nat
      BY <1>5, <1>11
    <3>2. c - 1 + Len(more) = a
      BY <1>12, <1>19, <3>1
    <3> QED BY <1>6, <1>13, <3>1, <3>2
  <2>2. ASSUME NEW k \in 1..(c - 1), q[k][1] = "lock"
        PROVE  k - 1 + Len(more) \in 1..(a - 1) /\ todo'[t][k - 1 + Len(more)] = q[k]
    <3>1. k # 1
      BY <1>2, <1>5, <2>2
    <3>2. k \in 2..Len(q) /\ k - 1 + Len(more) \in 1..(a - 1)
      BY <1>5, <1>12, <2>1, <3>1
    <3> QED BY <1>11, <3>2
  <2>3. \A r : (\E k \in 1..(c - 1) : q[k] = Locks("property", r, KeyShare)) =>
               \E k \in 1..(a - 1) : todo'[t][k] = Locks("property", r, KeyShare)
    <3>1. \A r : Locks("property", r, KeyShare)[1] = "lock"
      BY DEF Locks
    <3> QED BY <2>2, <3>1
  <2>4. q[c][1] = "lock" =>
          /\ q[c][3] = KeyShare /\ q[c][2][1] \in {"request", "property", "offer", "match"}
          /\ q[c][2][1] = "match" =>
               q[c][2][2] \in DOMAIN matches /\ matches[q[c][2][2]].eligibility # "ELIGIBLE"
          /\ q[c][2][1] = "offer" =>
               \/ held[t][<<"property", q[c][2][2]>>] # 0
               \/ \E k \in 1..(c - 1) : q[k] = Locks("property", q[c][2][2], KeyShare)
    BY <2>1 DEF KeyStatement, q
  <2>5. PICK s : s = q[c]
    OBVIOUS
  <2>6. todo'[t][a] = s /\ s[1] # "insert"
    BY <1>19, <2>1, <2>5
  <2>7. s[1] = "lock" =>
          /\ s[3] = KeyShare /\ s[2][1] \in {"request", "property", "offer", "match"}
          /\ s[2][1] = "match" =>
               s[2][2] \in DOMAIN matches' /\ matches'[s[2][2]].eligibility # "ELIGIBLE"
          /\ s[2][1] = "offer" =>
               \/ held'[t][<<"property", s[2][2]>>] # 0
               \/ \E k \in 1..(a - 1) : todo'[t][k] = Locks("property", s[2][2], KeyShare)
    BY <1>2, <2>3, <2>4, <2>5, Zenon
  <2> QED BY <2>6, <2>7 DEF KeyStatement
<1>20. \A a \in DOMAIN todo'[t] : KeyStatement(t, a)'
  BY <1>9, <1>11, <1>16, <1>17, <1>18, <1>19
<1> QED BY <1>2, <1>20 DEF KeysOnly

(* A transaction keeps its order when it drops its head.                   *)
LEMMA LockOrderNext ==
  ASSUME TypeOK, Constants, NEW t \in Actors, Current(t), LockOrder(t), answer[t] = "open",
         answer'[t] = "open", todo[t] # <<>>, Continue(t, <<>>), UNCHANGED <<plan, matches>>,
         doing'[t] = doing[t], made'[t] = made[t], AfterStatement(t, Head(todo[t]))
  PROVE  LockOrder(t)'
<1>1. PICK s : s = Head(todo[t])
  OBVIOUS
<1>2. plan[t].kind = "run" => KeysOnly(t)'
  <2>1. plan[t].kind = "run" => KeysOnly(t)
    BY DEF LockOrder
  <2> QED BY <1>1, <2>1, KeysOnlyNext
<1>3. plan[t].kind \notin {"run", "consolidate"} =>
        \E n \in 0..Len(Program(plan[t], doing[t])') : Reached(t, n)'
  <2> SUFFICES ASSUME plan[t].kind \notin {"run", "consolidate"}
               PROVE  \E n \in 0..Len(Program(plan[t], doing[t])') : Reached(t, n)'
    OBVIOUS
  <2>1. PICK n \in 0..Len(Program(plan[t], doing[t])) : Reached(t, n)
    BY DEF LockOrder
  <2>2. n \in Nat
    OBVIOUS
  <2>3. n + 1 \in 0..Len(Program(plan[t], doing[t])') /\ Reached(t, n + 1)'
    BY <1>1, <2>1, <2>2, ReachedNext
  <2>4. PICK k : k = n + 1
    OBVIOUS
  <2> QED BY <2>3, <2>4
<1>4. plan'[t].kind # "run" => made'[t] = <<>>
  BY DEF LockOrder
<1> QED BY <1>2, <1>3, <1>4 DEF LockOrder

(* A transaction begins with its program before it and no locks.           *)
LEMMA LockOrderBegins ==
  ASSUME TypeOK, Constants, Underway, NEW t \in Actors, LockOrder(t), Begin(t)
  PROVE  LockOrder(t)'
<1> DEFINE j == plan[t]
<1>1. /\ answer[t] = "idle" /\ UNCHANGED <<plan, store, made, held>>
      /\ answer' = [answer EXCEPT ![t] = "open"]
  BY DEF Begin
<1>2. PICK i \in Subjects(j) :
        /\ todo' = [todo EXCEPT ![t] = Program(j, i)]
        /\ doing' = [doing EXCEPT ![t] = IF j.kind = "run" THEN clock + 1 ELSE i]
  BY DEF Begin
<1>3. /\ answer'[t] = "open" /\ plan' = plan /\ matches' = matches /\ made'[t] = <<>>
      /\ todo'[t] = Program(j, i) /\ (j.kind # "run" => doing'[t] = i)
      /\ \A r \in Lockable : held'[t][r] = 0
  BY <1>1, <1>2 DEF TypeOK, store, LockOrder, Underway
<1>4. j.kind = "run" => KeysOnly(t)'
  <2> SUFFICES ASSUME j.kind = "run" PROVE KeysOnly(t)'
    OBVIOUS
  <2>1. j \in Job
    BY DEF TypeOK, Constants
  <2>2. todo'[t] = <<<<"snapshot">>>>
    BY <1>3, <2>1, RunProgram
  <2>3. \A k \in DOMAIN todo'[t] : todo'[t][k] = <<"snapshot">>
    BY <2>2
  <2>4. \A k \in DOMAIN todo'[t] : KeyStatement(t, k)'
    BY <2>3 DEF KeyStatement
  <2>5. \A p \in Properties : <<"offer", p>> \in Lockable
    BY Locked
  <2> QED BY <1>3, <2>4, <2>5 DEF KeysOnly
<1>5. j.kind # "run" => Reached(t, 0)' /\ 0 \in 0..Len(Program(plan[t], doing[t])')
  <2> SUFFICES ASSUME j.kind # "run"
               PROVE  Reached(t, 0)' /\ 0 \in 0..Len(Program(plan[t], doing[t])')
    OBVIOUS
  <2>1. Program(plan[t], doing[t])' = Program(j, i)
    BY <1>3 DEF Program, PropertyOf
  <2>2. Program(j, i) \in Seq(Statements(j.kind))
    BY Programs DEF Subjected
  <2>3. PICK q : q = Program(j, i)
    OBVIOUS
  <2>4. /\ Len(q) \in Nat /\ Len(q) + 0 = Len(q) /\ \A k \in DOMAIN q : q[k] = q[k + 0]
        /\ 0 \in 0..Len(q) /\ 1..0 = {}
    BY <2>2, <2>3
  <2> QED BY <1>3, <2>1, <2>3, <2>4 DEF Reached
<1> QED BY <1>3, <1>4, <1>5 DEF LockOrder

(* Whoever moves, every transaction keeps its order.                       *)
LEMMA LockOrderKept ==
  ASSUME TypeOK, Compatible, Constants, Underway, NEW t \in Actors, Step(t) \/ Fail(t), Moved(t),
         \A u \in Actors : LockOrder(u), NEW u \in Actors
  PROVE  LockOrder(u)'
<1>1. CASE u # t
  <2>1. Bystander(u) /\ Change(t)
    BY <1>1 DEF Moved, Others
  <2> QED BY <2>1, LockOrderOthers
<1>2. CASE u = t /\ answer'[t] # "open"
  <2>0. answer \in [Actors -> {"idle", "open", "written", "refused", "error"}]
    BY DEF TypeOK
  <2>1. \E what \in {"written", "refused", "error"} : End(t, what)
    BY <1>2, <2>0 DEF Step, Begin, TakeLock, CheckStep, ReadFacts, Snapshot, InsertMatch, ReadWork,
                      RaiseTask, Commit, Fail, At, own
  <2> QED BY <1>2, <2>1, LockOrderEnds
<1>3. CASE u = t /\ answer'[t] = "open"
  <2>0. /\ answer \in [Actors -> {"idle", "open", "written", "refused", "error"}]
        /\ \A what : End(t, what) => what = "open"
    BY <1>3 DEF TypeOK, End
  <2>1. CASE Begin(t)
    BY <1>3, <2>1, LockOrderBegins
  <2>2. CASE ~Begin(t)
    <3>1. answer[t] = "open" /\ ~Commit(t) /\ ~Fail(t)
      BY <2>0, <2>2 DEF Step, TakeLock, CheckStep, ReadFacts, Snapshot, InsertMatch, ReadWork,
                        RaiseTask, Commit, Fail, At
    <3>2. Current(t) /\ Batched(t) /\ LockOrder(t)
      BY <3>1, FreshParts DEF Underway, AllFresh, AllBatched
    <3>3. CASE TakeLock(t)
      <4>1. PICK s : s = Head(todo[t])
        OBVIOUS
      <4>2. /\ todo[t] # <<>> /\ s[1] = "lock" /\ Lock(t, s[2], s[3]) /\ Continue(t, <<>>)
            /\ UNCHANGED <<plan, store, own>>
        BY <3>3, <4>1 DEF TakeLock, At
      <4>3. s \in Statements(plan[t].kind)
        BY <3>2, <4>1, <4>2, Ready
      <4>4. held \in [Actors -> [Lockable -> 0..4]] /\ s[2] \in Lockable
        BY <4>2, <4>3 DEF TypeOK, HeldType, Update, Statements
      <4>5. AfterStatement(t, s)
        BY <4>2, <4>4 DEF Lock, AfterStatement
      <4> QED BY <1>3, <3>1, <3>2, <4>1, <4>2, <4>5, LockOrderNext DEF store, own
    <3>4. CASE CheckStep(t) \/ ReadFacts(t)
      <4>1. /\ todo[t] # <<>> /\ Head(todo[t])[1] \in {"check", "facts"} /\ Continue(t, <<>>)
            /\ plan' = plan /\ matches' = matches /\ held' = held /\ doing' = doing /\ made' = made
        BY <2>0, <3>4 DEF CheckStep, ReadFacts, At, store, own
      <4>2. AfterStatement(t, Head(todo[t]))
        BY <4>1 DEF AfterStatement
      <4> QED BY <1>3, <3>1, <3>2, <4>1, <4>2, LockOrderNext
    <3>5. CASE Snapshot(t)
      <4>1. ~End(t, "refused")
        BY <2>0
      <4>2. plan' = plan
        BY <3>5 DEF Snapshot
      <4>3. plan[t].kind = "run"
        <5>1. todo[t] # <<>> /\ Head(todo[t])[1] = "snapshot"
          BY <3>5 DEF Snapshot, At
        <5>2. Head(todo[t]) \in Statements(plan[t].kind)
          BY <3>2, <5>1, Ready
        <5> QED BY <5>1, <5>2, KindOf
      <4>4. KeysOnly(t)'
        BY <3>1, <3>2, <3>5, <4>1, <4>3, KeysOnlySnapshot DEF LockOrder
      <4> QED BY <1>3, <4>2, <4>3, <4>4 DEF LockOrder
    <3>6. CASE InsertMatch(t)
      <4>1. plan[t].kind = "run" /\ plan' = plan
        BY <3>2, <3>6, InsertForm
      <4>2. KeysOnly(t)'
        BY <3>1, <3>2, <3>6, <4>1, KeysOnlyInsert DEF LockOrder
      <4> QED BY <1>3, <4>1, <4>2 DEF LockOrder
    <3>7. CASE ReadWork(t) \/ RaiseTask(t)
      <4>1. todo[t] # <<>> /\ Head(todo[t])[1] \in {"work", "task"} /\ plan' = plan /\ made' = made
        BY <3>7 DEF ReadWork, RaiseTask, At, own
      <4>2. plan[t].kind = "consolidate"
        <5>1. Head(todo[t]) \in Statements(plan[t].kind)
          BY <3>2, <4>1, Ready
        <5> QED BY <4>1, <5>1, KindOf
      <4> QED BY <1>3, <3>2, <4>1, <4>2 DEF LockOrder
    <3> QED BY <2>2, <3>1, <3>3, <3>4, <3>5, <3>6, <3>7 DEF Step
  <2> QED BY <2>1, <2>2
<1> QED BY <1>1, <1>2, <1>3

(* The states to start from are what they should be.                       *)
LEMMA Starts ==
  ASSUME Constants, Init
  PROVE  Inv
<1>1. PICK w \in Worlds :
        /\ version = [f \in Facts |-> w.rounds] /\ clock = w.rounds
        /\ aliasOf = w.aliasOf /\ matches = w.matches /\ review = w.review /\ opp = w.opp
  BY DEF Init
<1>2. /\ w.rounds \in Nat
      /\ w.aliasOf \in [Properties -> Properties \union {None}]
      /\ w.matches \in Seq(Match) /\ DOMAIN w.matches \subseteq Ids
      /\ w.review \in [Ids -> Reviewing \union {None}]
      /\ w.opp \in [Ids -> Opportunity \union {None}]
      /\ \A i \in Ids : /\ w.opp[i] # None <=> w.review[i] = "APPROVED"
                        /\ w.opp[i] # None => i \in DOMAIN w.matches
      /\ \A i, k \in DOMAIN w.matches : i # k => ~SameInput(w.matches[i], w.matches[k])
  BY DEF Constants, World
<1>3. \A i, k \in DOMAIN matches : \A p, q \in Properties :
        IsOpen(i) /\ PropertyOf(i) = p /\ IsOpen(k) /\ PropertyOf(k) = q =>
          (p = q => i = k) /\ aliasOf[p] # q
  <2>1. World(w)
    BY DEF Constants
  <2> QED BY <1>1, <2>1 DEF World, IsOpen, PropertyOf
<1>4. /\ plan \in Plans /\ fact = [f \in Facts |-> "VALID"] /\ contact = [p \in Properties |-> FALSE]
      /\ tasks = {} /\ todo = [t \in Actors |-> <<>>] /\ doing = [t \in Actors |-> 0]
      /\ seen = [t \in Actors |-> None] /\ made = [t \in Actors |-> <<>>]
      /\ raised = [t \in Actors |-> {}] /\ held = [t \in Actors |-> [r \in Lockable |-> 0]]
      /\ answer = [t \in Actors |-> "idle"]
  BY DEF Init, Unlocked
<1>5. TypeOK
  <2>1. fact \in [Facts -> Classes] /\ version \in [Facts -> Nat]
    BY <1>1, <1>2, <1>4 DEF Classes
  <2>2. contact \in [Properties -> BOOLEAN] /\ aliasOf \in [Properties -> Properties \union {None}]
    BY <1>1, <1>2, <1>4
  <2>3. /\ matches \in Seq(Match) /\ DOMAIN matches \subseteq Ids
        /\ review \in [Ids -> Reviewing \union {None}] /\ opp \in [Ids -> Opportunity \union {None}]
        /\ tasks \subseteq Ids \X SUBSET Ids
    BY <1>1, <1>2, <1>4
  <2>4. StoreOK
    BY <1>4, <2>1, <2>2, <2>3 DEF StoreOK
  <2>5. TodoOK
    BY <1>4 DEF TodoOK
  <2>6. clock \in Nat /\ doing \in [Actors -> Nat] /\ seen \in [Actors -> Classes \union {None}]
    BY <1>1, <1>2, <1>4
  <2>7. made \in [Actors -> Seq(Match)]
    <3>1. <<>> \in Seq(Match)
      OBVIOUS
    <3> QED BY <1>4, <3>1
  <2>8. raised \in [Actors -> SUBSET (Ids \X SUBSET Ids)]
    BY <1>4
  <2>9. HeldType /\ answer \in [Actors -> {"idle", "open", "written", "refused", "error"}]
    BY <1>4 DEF HeldType, Update
  <2>10. OwnOK
    BY <2>6, <2>7, <2>8, <2>9 DEF OwnOK
  <2> QED BY <2>4, <2>5, <2>10, Types
<1>6. Compatible
  BY <1>4 DEF Compatible, Update
<1>7. Consistent
  <2>1. \A i, k \in DOMAIN matches : i # k => ~SameInput(matches[i], matches[k])
    BY <1>1, <1>2
  <2>2. \A i \in Ids : /\ opp[i] # None <=> review[i] = "APPROVED"
                       /\ opp[i] # None => i \in DOMAIN matches
    BY <1>1, <1>2
  <2>3. \A i, k \in DOMAIN matches :
          i # k => ~(IsOpen(i) /\ IsOpen(k) /\ PropertyOf(i) = PropertyOf(k))
    BY <1>3, <1>5, MatchTypes
  <2> QED BY <2>1, <2>2, <2>3 DEF Consistent
<1>8. Underway
  <2>1. \A t \in Actors : todo[t] = <<>> /\ made[t] = <<>> /\ answer[t] = "idle"
    BY <1>4
  <2>2. DOMAIN <<>> = {}
    OBVIOUS
  <2> QED BY <2>1, <2>2 DEF Underway, Fresh, Of
<1>9. DuplicateNamed
  BY <1>3, <1>5, MatchTypes DEF DuplicateNamed
<1>10. \A t \in Actors : LockOrder(t)
  BY <1>4 DEF LockOrder
<1> QED BY <1>5, <1>6, <1>7, <1>8, <1>9, <1>10, QueuesComplete DEF Inv, IInv

(* Every step keeps it.                                                    *)
LEMMA StepKeeps ==
  ASSUME Constants, Inv, NEW t \in Actors, Step(t) \/ Fail(t)
  PROVE  Moved(t) /\ Inv'
<1>1. TypeOK /\ Compatible /\ Consistent /\ Underway /\ DuplicateNamed
  BY DEF Inv, IInv
<1>2. Moved(t)
  BY <1>1, EveryStep
<1>3. TypeOK' /\ Compatible'
  BY <1>2 DEF Moved
<1>4. Consistent'
  BY <1>1, <1>2, ConsistentKept
<1>5. Queued'
  BY <1>3, <1>4, QueuesComplete, PTL
<1>6. Underway' /\ DuplicateNamed'
  BY <1>1, <1>2, UnderwayKept, NamedKept
<1>7. \A u \in Actors : LockOrder(u)'
  BY <1>1, <1>2, LockOrderKept DEF Inv, IInv
<1> QED BY <1>2, <1>3, <1>4, <1>5, <1>6, <1>7 DEF Inv, IInv

LEMMA Inductive == Spec => []Inv
<1>1. Init => Inv
  BY Constants, Starts
<1>2. Inv /\ [Next]_vars => Inv'
  <2> SUFFICES ASSUME Inv, [Next]_vars PROVE Inv'
    OBVIOUS
  <2>1. CASE UNCHANGED vars
    <3>1. UNCHANGED <<plan, fact, version, contact, aliasOf, matches, review, opp, tasks, clock, todo,
                      doing, seen, made, raised, held, answer>>
      BY <2>1 DEF vars, store, own
    <3>2. Inv' = Inv
      <4>1. TypeOK' = TypeOK /\ Compatible' = Compatible /\ Consistent' = Consistent
        BY <3>1 DEF TypeOK, HeldType, Compatible, Consistent, IsOpen, PropertyOf
      <4>2. Queued' = Queued
        BY <3>1 DEF Queued, Approvable, Decided, Superseded, Classify, OpenOnPlace, MatchQueue,
                    MatchItem, OpportunityQueue, OpportunityItem, IsOpen, PropertyOf
      <4>3. DuplicateNamed' = DuplicateNamed
        BY <3>1 DEF DuplicateNamed, IsOpen, PropertyOf
      <4>4. \A t \in Actors : Fresh(t)' = Fresh(t)
        BY <3>1 DEF Fresh, Of
      <4>5. \A t \in Actors : Current(t)' = Current(t)
        <5>1. \A t, what : Established(t, what)' = Established(t, what)
          BY <3>1 DEF Established, Guards, FactLocks, Holds, Refuses, Decided, Superseded, Classify,
                      OpenOnPlace, IsOpen, PropertyOf, Of
        <5>2. \A t, s : Kept(t, s)' = Kept(t, s)
          BY <3>1, <5>1 DEF Kept, Holds
        <5>3. \A t : Subjects(plan[t])' = Subjects(plan[t])
          BY <3>1 DEF Subjects, PropertyOf
        <5>4. \A t : Program(plan[t], doing[t])' = Program(plan[t], doing[t])
          BY <3>1 DEF Program, PropertyOf
        <5>5. \A t, k : Needed(plan[t], doing[t], todo[t][k])' = Needed(plan[t], doing[t], todo[t][k])
          BY <3>1 DEF Needed, Guards, FactLocks, PropertyOf, What
        <5>6. \A t : Of(Program(plan[t], doing[t]))' = Of(Program(plan[t], doing[t]))
          BY <5>4 DEF Of
        <5>7. \A t : Of(todo[t])' = Of(todo[t])
          BY <3>1 DEF Of
        <5> QED BY <3>1, <5>2, <5>3, <5>5, <5>6, <5>7 DEF Current
      <4>6. Underway' = Underway
        BY <3>1, <4>4, <4>5 DEF Underway
      <4>7. \A t \in Actors : LockOrder(t)' = LockOrder(t)
        <5>1. \A t, i : Program(plan[t], i)' = Program(plan[t], i)
          BY <3>1 DEF Program, PropertyOf
        <5>2. \A t, k : KeyStatement(t, k)' = KeyStatement(t, k)
          BY <3>1 DEF KeyStatement
        <5>3. \A t \in Actors : KeysOnly(t)' = KeysOnly(t)
          BY <3>1, <5>2 DEF KeysOnly
        <5>4. ASSUME NEW t, NEW n PROVE Reached(t, n)' = Reached(t, n)
          <6>1. PICK q : q = Program(plan[t], doing[t])
            OBVIOUS
          <6>2. q = Program(plan[t], doing[t])'
            BY <3>1, <5>1, <6>1
          <6>3. \A k : Holds(t, q[k])' <=> Holds(t, q[k])
            BY <3>1 DEF Holds
          <6> QED BY <3>1, <6>1, <6>2, <6>3 DEF Reached
        <5> QED BY <3>1, <5>1, <5>3, <5>4 DEF LockOrder
      <4> QED BY <4>1, <4>2, <4>3, <4>6, <4>7 DEF Inv, IInv
    <3> QED BY <3>2
  <2>2. CASE Finished
    BY <2>1, <2>2 DEF Finished
  <2>3. CASE \E t \in Actors : Step(t) \/ Fail(t)
    BY <2>3, Constants, StepKeeps
  <2> QED BY <2>1, <2>2, <2>3 DEF Next
<1> QED BY <1>1, <1>2, PTL DEF Spec

(* Whatever reviews, runs, opportunity commands, writers and consolidations*)
(* overlap, an opportunity stands on an APPROVED review, one request has   *)
(* one open opportunity on a property, no input is matched twice, the      *)
(* queues hide nothing that staff must decide or share, and what an open   *)
(* transaction has checked still holds.                                    *)
THEOREM Invariance == Spec => []IInv
<1>1. Inv => IInv
  BY DEF Inv
<1> QED BY <1>1, Inductive, PTL

(* Two open opportunities, one on an alias and one on the property it is an*)
(* alias of, are always named together by a task (raise_review_work, E04). *)
THEOREM Named == Spec => []DuplicateNamed
<1>1. Inv => DuplicateNamed
  BY DEF Inv
<1> QED BY <1>1, Inductive, PTL

(* A step that changes the store is a COMMIT of one transaction.           *)
LEMMA Changes ==
  ASSUME Constants, Inv, [Next]_vars
  PROVE  (\E t \in Actors : (Step(t) \/ Fail(t)) /\ Moved(t)) \/ UNCHANGED vars
<1>1. CASE \E t \in Actors : Step(t) \/ Fail(t)
  BY <1>1, StepKeeps
<1> QED BY <1>1 DEF Next, Finished

(* What creates an opportunity is an approval.                             *)
LEMMA CreatedByApproval ==
  ASSUME Constants, Inv, [Next]_vars, NEW i \in DOMAIN matches, Created(i)
  PROVE  \E t \in Actors : i = doing[t] /\ Approves(t, i)
<1>1. i \in Ids /\ opp'[i] # opp[i]
  BY DEF Inv, IInv, TypeOK, Created
<1>2. PICK t \in Actors : Moved(t)
  BY <1>1, Changes DEF vars, store
<1>3. i = doing[t] /\ (Approves(t, i) \/ Handles(t, i))
  BY <1>1, <1>2 DEF Moved, Change
<1> QED BY <1>3 DEF Handles, Created

(* An opportunity is created only where the request has no other open one  *)
(* on the same physical property (match_review._open_opportunity).         *)
THEOREM OnePerPlace == Spec => OneOpenPerPlace
<1>1. Inv /\ [Next]_vars =>
        [\A i, k \in DOMAIN matches : Created(i) /\ IsOpen(k) => ~SamePlace(i, k)]_vars
  <2> SUFFICES ASSUME Inv, [Next]_vars, NEW i \in DOMAIN matches, NEW k \in DOMAIN matches,
                      Created(i), IsOpen(k)
               PROVE  ~SamePlace(i, k)
    OBVIOUS
  <2>1. TypeOK
    BY DEF Inv, IInv
  <2>2. PICK t \in Actors : i = doing[t] /\ Approves(t, i)
    BY Constants, CreatedByApproval
  <2>3. /\ aliasOf[PropertyOf(i)] = None
        /\ PropertyOf(k) # PropertyOf(i) /\ aliasOf[PropertyOf(k)] # PropertyOf(i)
    BY <2>1, <2>2, Constants, ApprovedAlone
  <2> QED BY <2>3 DEF SamePlace, Place
<1> QED BY <1>1, Inductive, PTL DEF Spec, OneOpenPerPlace

(* When an approval commits, the facts it read are still current, and no   *)
(* later evaluation of its property has been committed.                    *)
THEOREM CurrentFacts == Spec => ApprovedOnCurrentFacts
<1>1. Inv /\ [Next]_vars =>
        [\A i \in DOMAIN matches :
           Created(i) => matches[i].eligibility = "ELIGIBLE" /\ Classify(PropertyOf(i)) = "VALID"
                           /\ ~Superseded(i)]_vars
  <2> SUFFICES ASSUME Inv, [Next]_vars, NEW i \in DOMAIN matches, Created(i)
               PROVE  /\ matches[i].eligibility = "ELIGIBLE" /\ Classify(PropertyOf(i)) = "VALID"
                      /\ ~Superseded(i)
    OBVIOUS
  <2>1. TypeOK
    BY DEF Inv, IInv
  <2>2. PICK t \in Actors : i = doing[t] /\ Approves(t, i)
    BY Constants, CreatedByApproval
  <2> QED BY <2>1, <2>2, Constants, ApprovedAlone
<1> QED BY <1>1, Inductive, PTL DEF Spec, ApprovedOnCurrentFacts

(* When a share commits, its opportunity is open, the facts are VALID and  *)
(* no one has asked to be contacted first (prepare_share).                 *)
THEOREM Consented == Spec => SharedOnlyWhileConsented
<1>1. Inv /\ [Next]_vars =>
        [\A t \in Actors :
           plan[t].kind = "share" /\ answer[t] = "open" /\ answer'[t] = "written" =>
             LET i == doing[t]
             IN IsOpen(i) /\ Classify(PropertyOf(i)) = "VALID" /\ ~contact[PropertyOf(i)]]_vars
  <2> SUFFICES ASSUME Inv, [Next]_vars, NEW t \in Actors, plan[t].kind = "share",
                      answer[t] = "open", answer'[t] = "written"
               PROVE  /\ IsOpen(doing[t]) /\ Classify(PropertyOf(doing[t])) = "VALID"
                      /\ ~contact[PropertyOf(doing[t])]
    OBVIOUS
  <2>1. TypeOK /\ Underway
    BY DEF Inv, IInv
  <2>2. PICK u \in Actors : (Step(u) \/ Fail(u)) /\ Moved(u)
    BY Constants, Changes DEF vars
  <2>3. u = t
    BY <2>2 DEF Moved, Others, Bystander
  <2>4. Commit(t)
    <3>1. answer \in [Actors -> {"idle", "open", "written", "refused", "error"}]
      BY <2>1 DEF TypeOK
    <3> QED BY <2>2, <2>3, <3>1 DEF Step, Begin, TakeLock, CheckStep, ReadFacts, Snapshot,
               InsertMatch, ReadWork, RaiseTask, Fail, End
  <2>5. Current(t) /\ todo[t] = <<>>
    BY <2>1, <2>4 DEF Commit, Underway
  <2>6. /\ Established(t, "closed") /\ Established(t, "facts") /\ Established(t, "valid")
        /\ Established(t, "contact")
    BY <2>1, <2>5, Constants, Passed DEF Commands
  <2>7. {"closed", "valid", "contact"} \subseteq Checks(plan[t].kind)
    BY DEF Checks, Reviewing, Commands
  <2>8. ~Refuses(t, "closed") /\ ~Refuses(t, "valid") /\ ~Refuses(t, "contact")
    BY <2>6, <2>7 DEF Established
  <2>9. opp[doing[t]] # None
    BY <2>5 DEF Current, Subjects, Reviewing, Commands
  <2>10. seen[t] = Classify(PropertyOf(doing[t]))
    BY <2>6 DEF Established
  <2> QED BY <2>8, <2>9, <2>10 DEF Refuses, IsOpen
<1> QED BY <1>1, Inductive, PTL DEF Spec, SharedOnlyWhileConsented

(* A final review and a closed opportunity never change, whoever waited on *)
(* the match or the opportunity meanwhile (match_review._decided, 0006).   *)
THEOREM Settled == Spec => Finality
<1>1. Inv /\ [Next]_vars =>
        [\A i \in DOMAIN matches :
           /\ review[i] \in Final => review'[i] = review[i]
           /\ opp[i] # None /\ opp[i].status = "CLOSED" => opp'[i] = opp[i]]_vars
  <2> SUFFICES ASSUME Inv, [Next]_vars, NEW i \in DOMAIN matches
               PROVE  /\ review[i] \in Final => review'[i] = review[i]
                      /\ opp[i] # None /\ opp[i].status = "CLOSED" => opp'[i] = opp[i]
    OBVIOUS
  <2>1. i \in Ids
    BY DEF Inv, IInv, TypeOK
  <2>2. CASE UNCHANGED vars
    BY <2>2 DEF vars, store
  <2>3. CASE \E t \in Actors : Moved(t)
    <3>1. PICK t \in Actors : Change(t)
      BY <2>3 DEF Moved
    <3>2. review'[i] # review[i] => ~Decided(i)
      BY <2>1, <3>1 DEF Change
    <3>3. opp'[i] # opp[i] => opp[i] = None \/ opp[i].status # "CLOSED"
      BY <2>1, <3>1 DEF Change, Approves, Handles
    <3> QED BY <3>2, <3>3 DEF Decided
  <2> QED BY <2>2, <2>3, Constants, Changes
<1> QED BY <1>1, Inductive, PTL DEF Spec, Finality

(* What a transaction waits for.                                           *)
Row(t)  == Head(todo[t])[2]
Mode(t) == Head(todo[t])[3]

(* The facts a currency check locks in Share or Update.                    *)
Belongs(r) == r[1] \in {"property", "offer", "binding"}

(* The stages at which a transaction that is no run and no consolidation   *)
(* waits for a lock, with what others may find locked by it.  Each one     *)
(* waits only for those below it in this list, and for runs.               *)
Starting(t) == \A r \in Lockable : held[t][r] = 0
AtRequest(t) ==
  /\ Row(t) = Request
  /\ \A r \in Lockable : held[t][r] # 0 =>
       r[1] = "opportunity" \/ (r[1] = "match" /\ matches[r[2]].eligibility = "ELIGIBLE")
Sharing(t) ==
  /\ Row(t)[1] = "property" /\ held[t][Request] = NoKeyUpdate
  /\ \A r \in Lockable : held[t][r] # 0 => r[1] = "opportunity" \/ r = Request
Revalidating(t) ==
  /\ Belongs(Row(t)) /\ Mode(t) = Share /\ held[t][Request] = NoKeyUpdate
  /\ \A r \in Lockable : held[t][r] # 0 =>
       r[1] = "opportunity" \/ r = Request \/ (Belongs(r) /\ held[t][r] <= Share)
Informing(t) ==
  /\ Mode(t) = KeyShare
  /\ Row(t) = Request \/ Row(t)[1] = "property" \/ held[t][Row(t)] = Update
  /\ \A r \in Lockable : held[t][r] # 0 =>
       r[1] = "match" \/ ((r = Request \/ r[1] = "property") /\ held[t][r] = KeyShare)
Approving(t) ==
  /\ Row(t) = Request \/ (Belongs(Row(t)) /\ Mode(t) = Share)
  /\ held[t][Request] = Update
  /\ \A r \in Lockable : Belongs(r) => held[t][r] <= Share
Shared(t) ==
  /\ held[t][Request] = NoKeyUpdate
  /\ \E p \in Properties :
       /\ held[t][<<"property", p>>] = Update
       /\ Row(t) = <<"offer", p>> \/ (Row(t) = <<"binding", p>> /\ Mode(t) = Share)
  /\ \A r \in Lockable : held[t][r] # 0 =>
       r[1] = "opportunity" \/ r = Request \/ r[1] \in {"property", "offer"}
Stage(t) ==
  \/ Starting(t) \/ AtRequest(t) \/ Sharing(t) \/ Revalidating(t) \/ Informing(t)
  \/ Approving(t) \/ Shared(t)

(* A transaction that waits for a lock is at a lock of its program, and it *)
(* holds those before it.                                                  *)
Placed(t, n, q) ==
  /\ n + 1 \in 1..Len(q) /\ q[n + 1] = Head(todo[t]) /\ q[n + 1][1] = "lock"
  /\ held[t] \in [Lockable -> 0..4]
  /\ \A k \in 1..n : q[k][1] = "lock" => held[t][q[k][2]] >= q[k][3]
  /\ \A r \in Lockable : held[t][r] # 0 => \E k \in 1..n : q[k] = <<"lock", r, held[t][r]>>

LEMMA Position ==
  ASSUME TypeOK, NEW t \in Actors, NEW n \in Nat, Reached(t, n), At(t, "lock"),
         NEW q, q = Program(plan[t], doing[t]), q \in Seq(Statements(plan[t].kind))
  PROVE  Placed(t, n, q)
<1>1. /\ todo[t] \in Seq(Statements(plan[t].kind)) /\ todo[t] # <<>> /\ Head(todo[t])[1] = "lock"
      /\ held[t] \in [Lockable -> 0..4]
  BY DEF TypeOK, HeldType, Update, At
<1>2. PICK s : s = todo[t]
  OBVIOUS
<1>3. Len(s) \in Nat /\ Len(s) >= 1 /\ 1 \in DOMAIN s /\ Head(s) = s[1] /\ Len(q) \in Nat
  BY <1>1, <1>2
<1>4. Len(s) + n = Len(q) /\ s[1] = q[1 + n]
  BY <1>2, <1>3 DEF Reached
<1>5. n + 1 \in 1..Len(q) /\ q[n + 1] = Head(s)
  <2>1. PICK l, d : l = Len(s) /\ d = Len(q)
    OBVIOUS
  <2>2. n + 1 \in 1..d /\ 1 + n = n + 1
    BY <1>3, <1>4, <2>1
  <2> QED BY <1>3, <1>4, <2>1, <2>2
<1> QED BY <1>1, <1>2, <1>5 DEF Reached, Holds, Placed

(* An approval that has passed its gates is of a match that is ELIGIBLE.   *)
LEMMA PassedGates ==
  ASSUME TypeOK, Constants, NEW t \in Actors, Current(t), plan[t].kind = "APPROVED",
         NEW n \in 3..12, Reached(t, n)
  PROVE  matches[doing[t]].eligibility = "ELIGIBLE"
<1>0. plan[t] \in Job /\ doing[t] \in DOMAIN matches
  BY DEF TypeOK, Constants, Current, Subjects, Reviewing
<1>1. PICK j \in Job, i \in DOMAIN matches : j = plan[t] /\ i = doing[t] /\ j.kind = "APPROVED"
  BY <1>0
<1>2. PICK q : q = Program(j, i)
  OBVIOUS
<1>3. /\ Len(q) = 12 /\ q \in Seq(Statements(j.kind))
      /\ q[3] = Check("gates") /\ q[4] = Locks("request", 0, Update) /\ q[5] = Check("superseded")
      /\ q[6] = Locks("request", 0, NoKeyUpdate) /\ q[7] = Locks("property", PropertyOf(i), Share)
      /\ q[8] = Locks("offer", PropertyOf(i), Share) /\ q[9] = Locks("binding", PropertyOf(i), Share)
      /\ q[10] = <<"facts">> /\ q[11] = Check("valid") /\ q[12] = Check("open")
  BY <1>1, <1>2, ApprovalText, ZenonT(60)
<1>4. \A k \in 4..12 : What(q[k]) # "gates"
  <2>1. \A k \in 4..12 : k \in {4, 5, 6, 7, 8, 9, 10, 11, 12}
    OBVIOUS
  <2>2. /\ What(q[4]) = "lock" /\ What(q[5]) = "superseded" /\ What(q[6]) = "lock"
        /\ What(q[7]) = "lock" /\ What(q[8]) = "lock" /\ What(q[9]) = "lock"
        /\ What(q[10]) = "facts" /\ What(q[11]) = "valid" /\ What(q[12]) = "open"
    BY <1>3, Whats
  <2> QED BY <2>1, <2>2
<1>5. Check("gates") \notin Of(todo[t])
  <2>1. todo[t] \in Seq(Statements(plan[t].kind))
    BY DEF TypeOK
  <2>2. PICK s : s = todo[t]
    OBVIOUS
  <2>3. Len(s) + n = 12 /\ DOMAIN s = 1..Len(s) /\ Len(s) \in Nat /\ \A k \in DOMAIN s : s[k] = q[k + n]
    BY <1>1, <1>2, <1>3, <2>1, <2>2 DEF Reached
  <2>4. \A k \in DOMAIN s : k + n \in 4..12
    BY <2>3, SMTT(30)
  <2>5. \A k \in DOMAIN s : What(s[k]) # "gates"
    BY <1>4, <2>3, <2>4
  <2> QED BY <2>2, <2>5, Whats DEF Of
<1>6. Check("gates") \in Of(q)
  <2>1. 3 \in DOMAIN q
    BY <1>3
  <2> QED BY <1>3, <2>1 DEF Of
<1>7. Kept(t, Check("gates"))
  BY <1>1, <1>2, <1>5, <1>6 DEF Current
<1>8. ~Refuses(t, "gates")
  <2>1. Check("gates")[1] # "lock" /\ What(Check("gates")) = "gates"
    BY Whats DEF Check
  <2>2. Established(t, "gates")
    BY <1>7, <2>1 DEF Kept
  <2>3. "gates" \in Checks(plan[t].kind)
    BY DEF Checks, Reviewing, Commands
  <2> QED BY <2>2, <2>3 DEF Established
<1> QED BY <1>1, <1>8 DEF Refuses

(* The stages of an approval.                                              *)
LEMMA ApprovalStages ==
  ASSUME TypeOK, Constants, NEW t \in Actors, Current(t), plan[t].kind = "APPROVED",
         NEW n \in Nat, Reached(t, n), At(t, "lock")
  PROVE  Starting(t) \/ AtRequest(t) \/ Approving(t)
<1>0. plan[t] \in Job /\ doing[t] \in DOMAIN matches
  BY DEF TypeOK, Constants, Current, Subjects, Reviewing
<1>1. PICK j \in Job, i \in DOMAIN matches : j = plan[t] /\ i = doing[t] /\ j.kind = "APPROVED"
  BY <1>0
<1>2. PICK q : q = Program(j, i)
  OBVIOUS
<1>3. PICK p \in Properties : p = PropertyOf(i)
  BY <1>1, MatchTypes
<1>4. /\ Len(q) = 12 /\ q \in Seq(Statements(j.kind))
      /\ q[1] = <<"lock", <<"match", i>>, 4>> /\ q[2] = <<"check", "decided">>
      /\ q[3] = <<"check", "gates">> /\ q[4] = <<"lock", <<"request", 0>>, 4>>
      /\ q[5] = <<"check", "superseded">> /\ q[6] = <<"lock", <<"request", 0>>, 3>>
      /\ q[7] = <<"lock", <<"property", p>>, 2>> /\ q[8] = <<"lock", <<"offer", p>>, 2>>
      /\ q[9] = <<"lock", <<"binding", p>>, 2>> /\ q[10] = <<"facts">>
      /\ q[11] = <<"check", "valid">> /\ q[12] = <<"check", "open">>
  <2>1. /\ Len(q) = 12 /\ q \in Seq(Statements(j.kind))
        /\ q[1] = Locks("match", i, Update) /\ q[2] = Check("decided") /\ q[3] = Check("gates")
        /\ q[4] = Locks("request", 0, Update) /\ q[5] = Check("superseded")
        /\ q[6] = Locks("request", 0, NoKeyUpdate) /\ q[7] = Locks("property", p, Share)
        /\ q[8] = Locks("offer", p, Share) /\ q[9] = Locks("binding", p, Share)
        /\ q[10] = <<"facts">> /\ q[11] = Check("valid") /\ q[12] = Check("open")
    BY <1>1, <1>2, <1>3, ApprovalText, ZenonT(60)
  <2> QED BY <2>1 DEF Locks, Check, Update, NoKeyUpdate, Share
<1>5. Placed(t, n, q)
  <2>1. q = Program(plan[t], doing[t]) /\ q \in Seq(Statements(plan[t].kind))
    BY <1>1, <1>2, <1>4
  <2> QED BY <2>1, Position
<1>6. n \in {0, 3, 5, 6, 7, 8}
  <2>1. n \in {0, 1, 2, 3, 4, 5, 6, 7, 8, 9, 10, 11}
    BY <1>4, <1>5 DEF Placed
  <2> QED BY <1>4, <1>5, <2>1, SMTT(30) DEF Placed
<1>7. CASE n = 0
  <2>1. 1..0 = {}
    OBVIOUS
  <2> QED BY <1>5, <1>7, <2>1 DEF Starting, Placed
<1>8. CASE n = 3
  <2>1. matches[i].eligibility = "ELIGIBLE"
    <3>1. n \in 3..12
      BY <1>8
    <3> QED BY <1>1, <3>1, PassedGates
  <2>2. \A k \in 1..3 : k \in {1, 2, 3}
    OBVIOUS
  <2>3. ASSUME NEW r \in Lockable, held[t][r] # 0 PROVE r = <<"match", i>>
    BY <1>4, <1>5, <1>8, <2>2, <2>3 DEF Placed
  <2>4. Row(t) = Request
    BY <1>4, <1>5, <1>8 DEF Row, Request, Placed
  <2> QED BY <2>1, <2>3, <2>4 DEF AtRequest
<1>9. CASE n \in {5, 6, 7, 8}
  <2>1. \A k \in 1..n : k \in {1, 2, 3, 4, 5, 6, 7, 8}
    BY <1>9
  <2>2. ASSUME NEW r \in Lockable, Belongs(r) PROVE held[t][r] <= 2
    <3>1. held[t][r] \in 0..4
      BY <1>5 DEF Placed
    <3>2. CASE held[t][r] # 0
      <4>1. PICK k \in 1..n : q[k] = <<"lock", r, held[t][r]>>
        BY <1>5, <3>2 DEF Placed
      <4>2. r[1] \in {"property", "offer", "binding"}
        BY <2>2 DEF Belongs
      <4>3. PICK h : h = held[t][r]
        OBVIOUS
      <4>4. k \in {1, 2, 3, 4, 5, 6, 7, 8} /\ q[k][1] = "lock" /\ q[k][2] = r /\ q[k][3] = h
        BY <2>1, <4>1, <4>3
      <4>5. k \in {1, 4, 6, 7, 8}
        BY <1>4, <4>4
      <4>6. k \in {7, 8}
        BY <1>4, <4>2, <4>4, <4>5
      <4> QED BY <1>4, <4>3, <4>4, <4>6
    <3> QED BY <3>1, <3>2
  <2>3. held[t][Request] = 4
    <3>1. Request \in Lockable /\ held[t][Request] \in 0..4
      BY <1>5, Locked DEF Request, Placed
    <3>2. 4 \in 1..n
      BY <1>9
    <3>3. held[t][<<"request", 0>>] >= 4
      <4>1. q[4][1] = "lock" /\ q[4][2] = <<"request", 0>> /\ q[4][3] = 4
        BY <1>4
      <4>2. held[t][q[4][2]] >= q[4][3]
        BY <1>5, <3>2, <4>1 DEF Placed
      <4> QED BY <4>1, <4>2
    <3> QED BY <3>1, <3>3 DEF Request
  <2>4. Row(t) = Request \/ (Belongs(Row(t)) /\ Mode(t) = 2)
    <3>1. n + 1 \in {6, 7, 8, 9}
      BY <1>9
    <3> QED BY <1>4, <1>5, <3>1, SMTT(30) DEF Row, Mode, Request, Belongs, Placed
  <2> QED BY <2>2, <2>3, <2>4 DEF Approving, Share, Update
<1> QED BY <1>6, <1>7, <1>8, <1>9

(* The stages of another review.                                           *)
LEMMA ReviewStages ==
  ASSUME TypeOK, Constants, NEW t \in Actors, Current(t),
         plan[t].kind \in {"REJECTED", "NEED_MORE_INFORMATION"},
         NEW n \in Nat, Reached(t, n), At(t, "lock")
  PROVE  Starting(t) \/ Informing(t)
<1>0. plan[t] \in Job /\ doing[t] \in DOMAIN matches
  BY DEF TypeOK, Constants, Current, Subjects, Reviewing
<1>1. PICK j \in Job, i \in DOMAIN matches :
        j = plan[t] /\ i = doing[t] /\ j.kind \in {"REJECTED", "NEED_MORE_INFORMATION"}
  BY <1>0
<1>2. PICK q : q = Program(j, i)
  OBVIOUS
<1>3. PICK p \in Properties : p = PropertyOf(i)
  BY <1>1, MatchTypes
<1>4. /\ Len(q) \in {2, 5} /\ q \in Seq(Statements(j.kind))
      /\ q[1] = <<"lock", <<"match", i>>, 4>> /\ q[2] = <<"check", "decided">>
      /\ Len(q) = 5 => /\ q[3] = <<"lock", <<"request", 0>>, 1>>
                       /\ q[4] = <<"lock", <<"property", p>>, 1>>
                       /\ q[5] = <<"lock", <<"match", i>>, 1>>
  <2>1. /\ Len(q) \in {2, 5} /\ q \in Seq(Statements(j.kind))
        /\ q[1] = Locks("match", i, Update) /\ q[2] = Check("decided")
        /\ Len(q) = 5 => /\ q[3] = Locks("request", 0, KeyShare)
                         /\ q[4] = Locks("property", p, KeyShare)
                         /\ q[5] = Locks("match", i, KeyShare)
    BY <1>1, <1>2, <1>3, ReviewText, ZenonT(60)
  <2> QED BY <2>1 DEF Locks, Check, Update, KeyShare
<1>5. Placed(t, n, q)
  <2>1. q = Program(plan[t], doing[t]) /\ q \in Seq(Statements(plan[t].kind))
    BY <1>1, <1>2, <1>4
  <2> QED BY <2>1, Position
<1>6. n = 0 \/ (n \in {2, 3, 4} /\ Len(q) = 5)
  <2>1. n \in {0, 1} \/ (n \in {0, 1, 2, 3, 4} /\ Len(q) = 5)
    <3>1. PICK l : l = Len(q)
      OBVIOUS
    <3>2. n + 1 \in 1..l /\ l \in {2, 5}
      BY <1>4, <1>5, <3>1 DEF Placed
    <3> QED BY <3>1, <3>2
  <2> QED BY <1>4, <1>5, <2>1 DEF Placed
<1>7. CASE n = 0
  <2>1. 1..0 = {}
    OBVIOUS
  <2> QED BY <1>5, <1>7, <2>1 DEF Starting, Placed
<1>8. CASE n \in {2, 3, 4} /\ Len(q) = 5
  <2>1. \A k \in 1..n : k \in {1, 2, 3, 4}
    BY <1>8
  <2>2. ASSUME NEW r \in Lockable, held[t][r] # 0
        PROVE  r[1] = "match" \/ ((r = Request \/ r[1] = "property") /\ held[t][r] = 1)
    <3>1. PICK k \in 1..n : q[k] = <<"lock", r, held[t][r]>>
      BY <1>5, <2>2 DEF Placed
    <3>2. PICK h : h = held[t][r]
      OBVIOUS
    <3>3. k \in {1, 2, 3, 4} /\ q[k][1] = "lock" /\ q[k][2] = r /\ q[k][3] = h
      BY <2>1, <3>1, <3>2
    <3>4. k \in {1, 3, 4}
      BY <1>4, <3>3
    <3> QED BY <1>4, <1>8, <3>2, <3>3, <3>4 DEF Request
  <2>3. held[t][<<"match", i>>] = 4
    <3>1. <<"match", i>> \in Lockable /\ held[t] \in [Lockable -> 0..4]
      BY <1>1, <1>5, MatchTypes, Locked DEF Placed
    <3>2. 1 \in 1..n /\ q[1][1] = "lock" /\ q[1][2] = <<"match", i>> /\ q[1][3] = 4
      BY <1>4, <1>8
    <3>3. held[t][q[1][2]] >= q[1][3]
      BY <1>5, <3>2 DEF Placed
    <3> QED BY <3>1, <3>2, <3>3
  <2>4. /\ Mode(t) = 1
        /\ Row(t) = Request \/ Row(t)[1] = "property" \/ Row(t) = <<"match", i>>
    <3>1. n + 1 \in {3, 4, 5}
      BY <1>8
    <3> QED BY <1>4, <1>5, <1>8, <3>1 DEF Row, Mode, Request, Placed
  <2> QED BY <2>2, <2>3, <2>4 DEF Informing, KeyShare, Update
<1> QED BY <1>6, <1>7, <1>8

(* The stages of a revalidation.                                           *)
LEMMA RevalidationStages ==
  ASSUME TypeOK, Constants, NEW t \in Actors, Current(t), plan[t].kind = "revalidate",
         NEW n \in Nat, Reached(t, n), At(t, "lock")
  PROVE  Starting(t) \/ AtRequest(t) \/ Revalidating(t)
<1>0. plan[t] \in Job /\ doing[t] \in DOMAIN matches
  BY DEF TypeOK, Constants, Current, Subjects, Commands, Reviewing
<1>1. PICK j \in Job, i \in DOMAIN matches : j = plan[t] /\ i = doing[t] /\ j.kind = "revalidate"
  BY <1>0
<1>2. PICK q : q = Program(j, i)
  OBVIOUS
<1>3. PICK p \in Properties : p = PropertyOf(i)
  BY <1>1, MatchTypes
<1>4. /\ Len(q) = 7 /\ q \in Seq(Statements(j.kind))
      /\ q[1] = <<"lock", <<"opportunity", i>>, 4>> /\ q[2] = <<"check", "closed">>
      /\ q[3] = <<"lock", <<"request", 0>>, 3>> /\ q[4] = <<"lock", <<"property", p>>, 2>>
      /\ q[5] = <<"lock", <<"offer", p>>, 2>> /\ q[6] = <<"lock", <<"binding", p>>, 2>>
      /\ q[7] = <<"facts">>
  <2>1. /\ Len(q) = 7 /\ q \in Seq(Statements(j.kind))
        /\ q[1] = Locks("opportunity", i, Update) /\ q[2] = Check("closed")
        /\ q[3] = Locks("request", 0, NoKeyUpdate) /\ q[4] = Locks("property", p, Share)
        /\ q[5] = Locks("offer", p, Share) /\ q[6] = Locks("binding", p, Share)
        /\ q[7] = <<"facts">>
    BY <1>1, <1>2, <1>3, RevalidationText, ZenonT(60)
  <2> QED BY <2>1 DEF Locks, Check, Update, NoKeyUpdate, Share
<1>5. Placed(t, n, q)
  <2>1. q = Program(plan[t], doing[t]) /\ q \in Seq(Statements(plan[t].kind))
    BY <1>1, <1>2, <1>4
  <2> QED BY <2>1, Position
<1>6. n \in {0, 2, 3, 4, 5}
  <2>1. n \in {0, 1, 2, 3, 4, 5, 6}
    BY <1>4, <1>5 DEF Placed
  <2> QED BY <1>4, <1>5, <2>1 DEF Placed
<1>7. CASE n = 0
  <2>1. 1..0 = {}
    OBVIOUS
  <2> QED BY <1>5, <1>7, <2>1 DEF Starting, Placed
<1>8. CASE n = 2
  <2>1. \A k \in 1..2 : k \in {1, 2}
    OBVIOUS
  <2>2. ASSUME NEW r \in Lockable, held[t][r] # 0 PROVE r[1] = "opportunity"
    BY <1>4, <1>5, <1>8, <2>1, <2>2 DEF Placed
  <2>3. Row(t) = Request
    BY <1>4, <1>5, <1>8 DEF Row, Request, Placed
  <2> QED BY <2>2, <2>3 DEF AtRequest
<1>9. CASE n \in {3, 4, 5}
  <2>1. \A k \in 1..n : k \in {1, 2, 3, 4, 5}
    BY <1>9
  <2>2. ASSUME NEW r \in Lockable, held[t][r] # 0
        PROVE  \/ r[1] = "opportunity" \/ (r = Request /\ held[t][r] = 3)
               \/ (r[1] \in {"property", "offer"} /\ held[t][r] = 2)
    <3>1. PICK k \in 1..n : q[k] = <<"lock", r, held[t][r]>>
      BY <1>5, <2>2 DEF Placed
    <3>2. PICK h : h = held[t][r]
      OBVIOUS
    <3>3. k \in {1, 2, 3, 4, 5} /\ q[k][1] = "lock" /\ q[k][2] = r /\ q[k][3] = h
      BY <2>1, <3>1, <3>2
    <3>4. k \in {1, 3, 4, 5}
      BY <1>4, <3>3
    <3> QED BY <1>4, <3>2, <3>3, <3>4 DEF Request
  <2>3. held[t][Request] = 3
    <3>1. Request \in Lockable /\ held[t][Request] \in 0..4
      BY <1>5, Locked DEF Request, Placed
    <3>2. 3 \in 1..n /\ q[3][1] = "lock" /\ q[3][2] = <<"request", 0>> /\ q[3][3] = 3
      BY <1>4, <1>9
    <3>3. held[t][q[3][2]] >= q[3][3]
      BY <1>5, <3>2 DEF Placed
    <3>4. held[t][Request] # 0
      BY <3>1, <3>2, <3>3 DEF Request
    <3>5. Request[1] = "request"
      BY DEF Request
    <3> QED BY <2>2, <3>1, <3>4, <3>5
  <2>4. Belongs(Row(t)) /\ Mode(t) = 2
    <3>1. n + 1 \in {4, 5, 6}
      BY <1>9
    <3> QED BY <1>4, <1>5, <3>1 DEF Row, Mode, Belongs, Placed
  <2> QED BY <2>2, <2>3, <2>4 DEF Revalidating, Belongs, Share, NoKeyUpdate
<1> QED BY <1>6, <1>7, <1>8, <1>9

(* The stages of a share.                                                  *)
LEMMA ShareStages ==
  ASSUME TypeOK, Constants, NEW t \in Actors, Current(t), plan[t].kind = "share",
         NEW n \in Nat, Reached(t, n), At(t, "lock")
  PROVE  Starting(t) \/ AtRequest(t) \/ Sharing(t) \/ Shared(t)
<1>0. plan[t] \in Job /\ doing[t] \in DOMAIN matches
  BY DEF TypeOK, Constants, Current, Subjects, Commands, Reviewing
<1>1. PICK j \in Job, i \in DOMAIN matches : j = plan[t] /\ i = doing[t] /\ j.kind = "share"
  BY <1>0
<1>2. PICK q : q = Program(j, i)
  OBVIOUS
<1>3. PICK p \in Properties : p = PropertyOf(i)
  BY <1>1, MatchTypes
<1>4. /\ Len(q) = 10 /\ q \in Seq(Statements(j.kind))
      /\ q[1] = <<"lock", <<"opportunity", i>>, 4>> /\ q[2] = <<"check", "closed">>
      /\ q[3] = <<"check", "stored">> /\ q[4] = <<"lock", <<"request", 0>>, 3>>
      /\ q[5] = <<"lock", <<"property", p>>, 4>> /\ q[6] = <<"lock", <<"offer", p>>, 4>>
      /\ q[7] = <<"lock", <<"binding", p>>, 2>> /\ q[8] = <<"facts">>
      /\ q[9] = <<"check", "valid">> /\ q[10] = <<"check", "contact">>
  <2>1. /\ Len(q) = 10 /\ q \in Seq(Statements(j.kind))
        /\ q[1] = Locks("opportunity", i, Update) /\ q[2] = Check("closed")
        /\ q[3] = Check("stored") /\ q[4] = Locks("request", 0, NoKeyUpdate)
        /\ q[5] = Locks("property", p, Update) /\ q[6] = Locks("offer", p, Update)
        /\ q[7] = Locks("binding", p, Share) /\ q[8] = <<"facts">>
        /\ q[9] = Check("valid") /\ q[10] = Check("contact")
    BY <1>1, <1>2, <1>3, ShareText, ZenonT(60)
  <2> QED BY <2>1 DEF Locks, Check, Update, NoKeyUpdate, Share
<1>5. Placed(t, n, q)
  <2>1. q = Program(plan[t], doing[t]) /\ q \in Seq(Statements(plan[t].kind))
    BY <1>1, <1>2, <1>4
  <2> QED BY <2>1, Position
<1>6. n \in {0, 3, 4, 5, 6}
  <2>1. n \in {0, 1, 2, 3, 4, 5, 6, 7, 8, 9}
    BY <1>4, <1>5 DEF Placed
  <2> QED BY <1>4, <1>5, <2>1 DEF Placed
<1>7. CASE n = 0
  <2>1. 1..0 = {}
    OBVIOUS
  <2> QED BY <1>5, <1>7, <2>1 DEF Starting, Placed
<1>8. CASE n = 3
  <2>1. \A k \in 1..3 : k \in {1, 2, 3}
    OBVIOUS
  <2>2. ASSUME NEW r \in Lockable, held[t][r] # 0 PROVE r[1] = "opportunity"
    BY <1>4, <1>5, <1>8, <2>1, <2>2 DEF Placed
  <2>3. Row(t) = Request
    BY <1>4, <1>5, <1>8 DEF Row, Request, Placed
  <2> QED BY <2>2, <2>3 DEF AtRequest
<1>9. n \in {4, 5, 6} => held[t][Request] = 3
  <2> SUFFICES ASSUME n \in {4, 5, 6} PROVE held[t][Request] = 3
    OBVIOUS
  <2>1. Request \in Lockable /\ held[t][Request] \in 0..4
    BY <1>5, Locked DEF Request, Placed
  <2>2. 4 \in 1..n /\ q[4][1] = "lock" /\ q[4][2] = <<"request", 0>> /\ q[4][3] = 3
    BY <1>4
  <2>3. held[t][q[4][2]] >= q[4][3]
    BY <1>5, <2>2 DEF Placed
  <2>4. held[t][Request] # 0
    BY <2>1, <2>2, <2>3 DEF Request
  <2>5. PICK k \in 1..n : q[k] = <<"lock", Request, held[t][Request]>>
    BY <1>5, <2>1, <2>4 DEF Placed
  <2>6. PICK h : h = held[t][Request]
    OBVIOUS
  <2>7. k \in {1, 2, 3, 4, 5, 6} /\ q[k][2] = <<"request", 0>> /\ q[k][3] = h /\ q[k][1] = "lock"
    BY <2>5, <2>6 DEF Request
  <2>8. k \in {1, 4, 5, 6}
    BY <1>4, <2>7
  <2> QED BY <1>4, <2>6, <2>7, <2>8
<1>10. CASE n = 4
  <2>1. \A k \in 1..4 : k \in {1, 2, 3, 4}
    OBVIOUS
  <2>2. ASSUME NEW r \in Lockable, held[t][r] # 0 PROVE r[1] = "opportunity" \/ r = Request
    BY <1>4, <1>5, <1>10, <2>1, <2>2 DEF Placed, Request
  <2>3. Row(t) = <<"property", p>>
    BY <1>4, <1>5, <1>10 DEF Row, Placed
  <2> QED BY <1>9, <1>10, <2>2, <2>3 DEF Sharing, NoKeyUpdate
<1>11. CASE n \in {5, 6}
  <2>1. \A k \in 1..n : k \in {1, 2, 3, 4, 5, 6}
    BY <1>11
  <2>2. ASSUME NEW r \in Lockable, held[t][r] # 0
        PROVE  r[1] = "opportunity" \/ r = Request \/ r[1] \in {"property", "offer"}
    <3>1. PICK k \in 1..n : q[k] = <<"lock", r, held[t][r]>>
      BY <1>5, <2>2 DEF Placed
    <3>2. k \in {1, 2, 3, 4, 5, 6} /\ q[k][1] = "lock" /\ q[k][2] = r
      BY <2>1, <3>1
    <3>3. k \in {1, 4, 5, 6}
      BY <1>4, <3>2
    <3> QED BY <1>4, <3>2, <3>3 DEF Request
  <2>3. held[t][<<"property", p>>] = 4
    <3>1. <<"property", p>> \in Lockable /\ held[t] \in [Lockable -> 0..4]
      BY <1>5, Locked DEF Placed
    <3>2. 5 \in 1..n /\ q[5][1] = "lock" /\ q[5][2] = <<"property", p>> /\ q[5][3] = 4
      BY <1>4, <1>11
    <3>3. held[t][q[5][2]] >= q[5][3]
      BY <1>5, <3>2 DEF Placed
    <3> QED BY <3>1, <3>2, <3>3
  <2>4. Row(t) = <<"offer", p>> \/ (Row(t) = <<"binding", p>> /\ Mode(t) = 2)
    <3>1. n + 1 \in {6, 7}
      BY <1>11
    <3> QED BY <1>4, <1>5, <3>1 DEF Row, Mode, Placed
  <2> QED BY <1>9, <1>11, <2>2, <2>3, <2>4 DEF Shared, NoKeyUpdate, Share, Update
<1> QED BY <1>6, <1>7, <1>8, <1>10, <1>11

(* The only lock of a close and of a writer.                               *)
LEMMA OtherStages ==
  ASSUME TypeOK, Constants, NEW t \in Actors, Current(t), plan[t].kind \in {"close", "write", "bind"},
         NEW n \in Nat, Reached(t, n), At(t, "lock")
  PROVE  Starting(t)
<1>1. PICK j \in Job : j = plan[t] /\ j.kind \in {"close", "write", "bind"}
  BY DEF TypeOK, Constants
<1>2. PICK q : q = Program(j, doing[t])
  OBVIOUS
<1>3. q \in Seq(Statements(j.kind)) /\ (Len(q) = 1 \/ (Len(q) = 2 /\ q[2] = Check("closed")))
  <2>1. CASE j.kind = "close"
    <3>1. doing[t] \in DOMAIN matches
      BY <1>1, <2>1 DEF Current, Subjects, Commands, Reviewing
    <3>2. PICK i \in DOMAIN matches : i = doing[t]
      BY <3>1
    <3> QED BY <1>2, <2>1, <3>2, CloseText
  <2>2. CASE j.kind \in {"write", "bind"}
    <3>1. PICK s \in Statements(j.kind) : q = <<s>>
      BY <1>2, <2>2, WriterProgram
    <3> QED BY <3>1
  <2> QED BY <1>1, <2>1, <2>2
<1>4. Placed(t, n, q)
  <2>1. q = Program(plan[t], doing[t]) /\ q \in Seq(Statements(plan[t].kind))
    BY <1>1, <1>2, <1>3
  <2> QED BY <2>1, Position
<1>5. n = 0
  <2>1. n + 1 = 1 \/ (n + 1 = 2 /\ q[2] = Check("closed"))
    BY <1>3, <1>4 DEF Placed
  <2>2. n + 1 # 2 \/ q[2][1] = "lock"
    BY <1>4 DEF Placed
  <2> QED BY <2>1, <2>2 DEF Check
<1>6. 1..0 = {}
  OBVIOUS
<1> QED BY <1>4, <1>5, <1>6 DEF Starting, Placed

(* Whoever waits for a lock and is no run and no consolidation is at one of*)
(* the stages.                                                             *)
LEMMA Stages ==
  ASSUME TypeOK, Constants, Underway, NEW t \in Actors, LockOrder(t), At(t, "lock"),
         plan[t].kind \notin {"run", "consolidate"}
  PROVE  Stage(t)
<1>1. Current(t) /\ answer[t] = "open" /\ plan[t] \in Job
  BY DEF At, Underway, TypeOK, Constants
<1>2. PICK n \in 0..Len(Program(plan[t], doing[t])) : Reached(t, n)
  BY <1>1 DEF LockOrder
<1>3. n \in Nat
  OBVIOUS
<1>4. plan[t].kind \in {"APPROVED", "REJECTED", "NEED_MORE_INFORMATION", "revalidate", "share",
                        "close", "write", "bind"}
  BY <1>1, JobTypes DEF Reviewing, Commands
<1> QED BY <1>1, <1>2, <1>3, <1>4, ApprovalStages, ReviewStages, RevalidationStages, ShareStages,
           OtherStages DEF Stage

(* A transaction waits for another one at a lock.                          *)
BlockedBy(t, u) ==
  /\ t # u /\ Row(t) \in Lockable /\ Mode(t) \in 1..4
  /\ held[t][Row(t)] \in 0..4 /\ held[u][Row(t)] \in 0..4
  /\ held[u][Row(t)] + Mode(t) > 4
  /\ \A r \in Lockable : /\ held[t][r] \in 0..4 /\ held[u][r] \in 0..4
                         /\ held[t][r] + held[u][r] <= 4

(* What a run holds.                                                       *)
LEMMA RunHolds ==
  ASSUME NEW u \in Actors, KeysOnly(u)
  PROVE  /\ \A r \in Lockable : held[u][r] <= 1
         /\ \A p \in Properties : held[u][<<"offer", p>>] # 0 => held[u][<<"property", p>>] # 0
BY DEF KeysOnly, KeyShare

(* The rows have kinds.                                                    *)
LEMMA Kinds ==
  /\ Request \in Lockable /\ Request[1] = "request" /\ ~Belongs(Request)
  /\ \A r : r[1] \in {"property", "offer"} => Belongs(r)
  /\ \A r : Belongs(r) => r[1] \notin {"match", "opportunity", "request"}
  /\ \A p \in Properties : /\ <<"property", p>> \in Lockable /\ <<"offer", p>> \in Lockable
                           /\ <<"binding", p>> \in Lockable
                           /\ Belongs(<<"offer", p>>) /\ Belongs(<<"binding", p>>)
                           /\ <<"offer", p>>[1] = "offer" /\ <<"binding", p>>[1] = "binding"
                           /\ <<"property", p>>[1] = "property"
BY Locked DEF Request, Belongs

(* What each stage holds of the request.                                   *)
LEMMA RequestHolds ==
  ASSUME NEW u \in Actors
  PROVE  /\ Starting(u) \/ AtRequest(u) => held[u][Request] = 0
         /\ Sharing(u) \/ Revalidating(u) \/ Shared(u) => held[u][Request] = 3
         /\ Approving(u) => held[u][Request] = 4
         /\ Informing(u) => held[u][Request] \in {0, 1}
BY Kinds DEF Starting, AtRequest, Sharing, Revalidating, Informing, Approving, Shared, NoKeyUpdate,
             KeyShare, Update

(* What each stage holds of a property's facts.                            *)
LEMMA FactHolds ==
  ASSUME NEW u \in Actors, NEW r \in Lockable, Belongs(r), held[u][r] \in 0..4
  PROVE  /\ Starting(u) \/ AtRequest(u) \/ Sharing(u) => held[u][r] = 0
         /\ Revalidating(u) \/ Approving(u) => held[u][r] <= 2
         /\ Informing(u) => held[u][r] = 0 \/ (held[u][r] = 1 /\ r[1] = "property")
         /\ Shared(u) => held[u][r] = 0 \/ r[1] # "binding"
<1>1. r # Request /\ r[1] \notin {"match", "opportunity"}
  BY Kinds
<1>2. Starting(u) \/ AtRequest(u) \/ Sharing(u) => held[u][r] = 0
  BY <1>1 DEF Starting, AtRequest, Sharing
<1>3. Revalidating(u) \/ Approving(u) => held[u][r] <= 2
  <2>1. CASE held[u][r] = 0
    BY <2>1
  <2>2. CASE held[u][r] # 0
    BY <1>1, <2>2 DEF Revalidating, Approving, Share
  <2> QED BY <2>1, <2>2
<1>4. Informing(u) => held[u][r] = 0 \/ (held[u][r] = 1 /\ r[1] = "property")
  BY <1>1 DEF Informing, KeyShare
<1>5. Shared(u) => held[u][r] = 0 \/ r[1] # "binding"
  BY <1>1 DEF Shared
<1> QED BY <1>2, <1>3, <1>4, <1>5

(* Those who read or write a property's facts under the request's lock wait*)
(* for no one that waits.                                                  *)
LEMMA NoneBefore ==
  ASSUME NEW t \in Actors, NEW u \in Actors, BlockedBy(t, u), Approving(t) \/ Shared(t),
         Stage(u) \/ KeysOnly(u)
  PROVE  FALSE
<1>1. PICK r \in Lockable : r = Row(t)
  BY DEF BlockedBy
<1>2. PICK mode \in 1..4 : mode = Mode(t)
  BY DEF BlockedBy
<1>3. /\ \A s \in Lockable : /\ held[t][s] \in 0..4 /\ held[u][s] \in 0..4
                             /\ held[t][s] + held[u][s] <= 4
      /\ held[u][r] + mode > 4
  BY <1>1, <1>2 DEF BlockedBy
<1>4. Request \in Lockable
  BY Kinds
<1>5. CASE Approving(t)
  <2>1. held[u][Request] = 0
    BY <1>3, <1>4, <1>5, RequestHolds
  <2>2. Belongs(r) /\ mode = 2 /\ held[u][r] >= 3
    <3>1. r = Request \/ (Belongs(r) /\ mode = 2)
      BY <1>1, <1>2, <1>5 DEF Approving, Share
    <3> QED BY <1>3, <2>1, <3>1
  <2>3. ~KeysOnly(u)
    BY <1>3, <2>2, RunHolds
  <2>4. ~(Sharing(u) \/ Revalidating(u) \/ Shared(u) \/ Approving(u))
    BY <2>1, RequestHolds
  <2>5. ~(Starting(u) \/ AtRequest(u) \/ Informing(u))
    BY <1>3, <2>2, FactHolds
  <2> QED BY <2>3, <2>4, <2>5 DEF Stage
<1>6. CASE Shared(t)
  <2>1. PICK p \in Properties :
          held[t][<<"property", p>>] = 4 /\ (r = <<"offer", p>> \/ (r = <<"binding", p>> /\ mode = 2))
    BY <1>1, <1>2, <1>6 DEF Shared, Share, Update
  <2>2. held[u][Request] <= 1 /\ held[u][<<"property", p>>] = 0
    <3>1. held[t][Request] = 3 /\ <<"property", p>> \in Lockable
      BY <1>6, RequestHolds, Kinds
    <3> QED BY <1>3, <1>4, <2>1, <3>1
  <2>3. Belongs(r) /\ r[1] # "property" /\ held[u][r] \in 1..4
    <3>1. Belongs(r) /\ r[1] # "property"
      BY <2>1, Kinds
    <3> QED BY <1>3, <3>1
  <2>4. ~(Sharing(u) \/ Revalidating(u) \/ Shared(u) \/ Approving(u))
    BY <2>2, RequestHolds
  <2>5. ~(Starting(u) \/ AtRequest(u) \/ Informing(u))
    BY <1>3, <2>3, FactHolds
  <2>6. ~KeysOnly(u)
    <3>1. CASE r = <<"offer", p>>
      BY <2>2, <2>3, <3>1, RunHolds
    <3>2. CASE r = <<"binding", p>> /\ mode = 2
      <4>1. held[u][r] >= 3
        BY <1>3, <3>2
      <4> QED BY <1>3, <4>1, RunHolds
    <3> QED BY <2>1, <3>1, <3>2
  <2> QED BY <2>4, <2>5, <2>6 DEF Stage
<1> QED BY <1>5, <1>6

(* Who asks for a task's keys waits for them only.                         *)
LEMMA BeforeInforming ==
  ASSUME NEW t \in Actors, NEW u \in Actors, BlockedBy(t, u), Informing(t), Stage(u) \/ KeysOnly(u)
  PROVE  ~KeysOnly(u) /\ (Approving(u) \/ Shared(u))
<1>1. PICK r \in Lockable : r = Row(t)
  BY DEF BlockedBy
<1>2. /\ held[t][r] + held[u][r] <= 4 /\ held[t][r] \in 0..4 /\ held[u][r] = 4
      /\ \A s \in Lockable : held[u][s] \in 0..4
  BY <1>1 DEF BlockedBy, Informing, KeyShare
<1>3. r = Request \/ r[1] = "property"
  BY <1>1, <1>2 DEF Informing, Update
<1>4. ~KeysOnly(u)
  BY <1>2, RunHolds
<1>5. CASE r = Request
  BY <1>2, <1>4, <1>5, RequestHolds DEF Stage
<1>6. CASE r[1] = "property"
  <2>1. Belongs(r)
    BY <1>6, Kinds
  <2> QED BY <1>2, <1>4, <2>1, FactHolds DEF Stage
<1> QED BY <1>3, <1>4, <1>5, <1>6

(* A run waits at a lock for them and for who asks for a task's keys: it   *)
(* names no match that an approval may hold.                               *)
LEMMA BeforeRun ==
  ASSUME TypeOK, NEW t \in Actors, NEW u \in Actors, BlockedBy(t, u), KeysOnly(t), At(t, "lock"),
         Stage(u) \/ KeysOnly(u)
  PROVE  ~KeysOnly(u) /\ (Approving(u) \/ Shared(u) \/ Informing(u))
<1>1. PICK r \in Lockable : r = Row(t)
  BY DEF BlockedBy
<1>2. /\ Mode(t) = 1 /\ r[1] \in {"request", "property", "offer", "match"}
      /\ r[1] = "match" => matches[r[2]].eligibility # "ELIGIBLE"
  <2>1. 1 \in DOMAIN todo[t] /\ Head(todo[t]) = todo[t][1] /\ todo[t][1][1] = "lock"
    BY DEF TypeOK, At
  <2>2. KeyStatement(t, 1)
    BY <2>1 DEF KeysOnly
  <2> QED BY <1>1, <2>1, <2>2 DEF KeyStatement, Row, Mode, KeyShare
<1>3. held[u][r] = 4 /\ \A s \in Lockable : held[u][s] \in 0..4
  BY <1>1, <1>2 DEF BlockedBy
<1>4. ~KeysOnly(u)
  BY <1>3, RunHolds
<1>5. CASE r[1] \in {"property", "offer"}
  <2>1. Belongs(r)
    BY <1>5, Kinds
  <2> QED BY <1>3, <1>4, <2>1, FactHolds DEF Stage
<1>6. CASE r[1] = "request"
  <2>1. r = Request
    BY <1>6 DEF Lockable, Facts, Request
  <2> QED BY <1>3, <1>4, <2>1, RequestHolds DEF Stage
<1>7. CASE r[1] = "match"
  <2>1. r # Request
    BY <1>7, Kinds
  <2>2. ~Starting(u)
    BY <1>3 DEF Starting
  <2>3. ~AtRequest(u)
    BY <1>2, <1>3, <1>7 DEF AtRequest
  <2>4. ~Sharing(u)
    BY <1>3, <1>7, <2>1 DEF Sharing
  <2>5. ~Revalidating(u)
    BY <1>3, <1>7, <2>1, Kinds DEF Revalidating
  <2> QED BY <1>4, <2>2, <2>3, <2>4, <2>5 DEF Stage
<1> QED BY <1>2, <1>4, <1>5, <1>6, <1>7

(* A revalidation that has the request waits for them and for runs; so does*)
(* a share.                                                                *)
LEMMA BeforeFacts ==
  ASSUME NEW t \in Actors, NEW u \in Actors, BlockedBy(t, u), Revalidating(t) \/ Sharing(t), Stage(u)
  PROVE  Approving(u) \/ Shared(u) \/ Informing(u)
<1>1. PICK r \in Lockable : r = Row(t)
  BY DEF BlockedBy
<1>2. Belongs(r)
  <2>1. CASE Revalidating(t)
    BY <1>1, <2>1 DEF Revalidating
  <2>2. CASE Sharing(t)
    BY <1>1, <2>2, Kinds DEF Sharing
  <2> QED BY <2>1, <2>2
<1>3. held[u][r] \in 1..4 /\ held[u][Request] <= 1
  <2>1. held[t][Request] = 3 /\ Request \in Lockable
    BY RequestHolds, Kinds
  <2> QED BY <1>1, <2>1 DEF BlockedBy
<1>4. ~(Sharing(u) \/ Revalidating(u))
  BY <1>3, RequestHolds
<1>5. ~(Starting(u) \/ AtRequest(u))
  BY <1>2, <1>3, FactHolds
<1> QED BY <1>4, <1>5 DEF Stage

(* Whoever waits for the request waits for none of those who do, and no one*)
(* waits for a transaction that has no lock.                               *)
LEMMA BeforeOthers ==
  ASSUME NEW t \in Actors, NEW u \in Actors, BlockedBy(t, u)
  PROVE  ~Starting(u) /\ (AtRequest(t) => ~AtRequest(u))
<1>1. /\ Row(t) \in Lockable /\ held[u][Row(t)] # 0
  BY DEF BlockedBy
<1>2. ~Starting(u)
  BY <1>1 DEF Starting
<1>3. AtRequest(t) => ~AtRequest(u)
  BY <1>1, RequestHolds DEF AtRequest
<1> QED BY <1>2, <1>3

(* A set of numbers has a least one.                                       *)
LEMMA Least ==
  ASSUME NEW T \in SUBSET Nat, T # {}
  PROVE  \E x \in T : \A y \in T : x <= y
<1>1. PICK x \in T : \A y \in T : <<y, x>> \notin OpToRel(<, Nat)
  BY NatLessThanWellFounded, WFMin
<1>2. \A y \in T : ~ (y < x)
  BY <1>1 DEF OpToRel
<1> QED BY <1>2

(* Numbers out of a finite set have a greatest one.                        *)
LEMMA Greatest ==
  ASSUME NEW P \in SUBSET Nat, IsFiniteSet(P), NEW T \in SUBSET P, T # {}
  PROVE  \E x \in T : \A y \in T : y <= x
<1> DEFINE above(x) == {q \in P : q > x}
           sizes == {Cardinality(above(x)) : x \in T}
<1>1. \A x \in T : /\ above(x) \subseteq P /\ IsFiniteSet(above(x)) /\ Cardinality(above(x)) \in Nat
  BY FS_Subset, FS_CardinalityType
<1>2. PICK n \in sizes : \A m \in sizes : n <= m
  <2>1. sizes \in SUBSET Nat /\ sizes # {}
    BY <1>1
  <2> HIDE DEF sizes
  <2> QED BY <2>1, Least
<1>3. PICK x \in T : n = Cardinality(above(x))
  BY <1>2
<1>4. \A y \in T : ~ (x < y)
  <2> SUFFICES ASSUME NEW y \in T, x < y PROVE FALSE
    OBVIOUS
  <2>0. P \subseteq Nat /\ x \in Nat /\ y \in Nat /\ y \in P
    OBVIOUS
  <2>1. above(y) \subseteq above(x) /\ y \in above(x) /\ y \notin above(y)
    <3>1. \A q \in P : q > y => q > x
      <4> HIDE DEF sizes, above
      <4> QED BY <2>0
    <3>2. y > x /\ ~ (y > y)
      <4> HIDE DEF sizes, above
      <4> QED BY <2>0
    <3> HIDE DEF sizes
    <3> QED BY <2>0, <3>1, <3>2, Zenon
  <2>2. Cardinality(above(y)) <= Cardinality(above(x)) /\ Cardinality(above(y)) # Cardinality(above(x))
    <3> HIDE DEF above
    <3> QED BY <1>1, <2>1, FS_Subset
  <2>3. Cardinality(above(y)) \in sizes
    OBVIOUS
  <2>4. Cardinality(above(x)) <= Cardinality(above(y))
    BY <1>2, <1>3, <2>3
  <2> HIDE DEF above, sizes
  <2> QED BY <1>1, <2>2, <2>4
<1> QED BY <1>4

(* A run that waits to insert waits for a run, and one that waits to insert*)
(* itself does it for a greater property.                                  *)
LEMMA BeforeInsert ==
  ASSUME TypeOK, Constants, NEW t \in Actors, At(t, "insert"), NEW u \in Actors, LockOrder(u),
         NEW m \in First(Head(todo[t])[2]), u \in Inserting(t, m)
  PROVE  /\ plan[u].kind = "run"
         /\ At(u, "insert") => \A n \in First(Head(todo[u])[2]) : m.property < n.property
<1>1. PICK k \in DOMAIN made[u] : SameInput(m, made[u][k])
  BY DEF Inserting
<1>2. plan[u].kind = "run"
  <2>1. made[u] # <<>>
    BY <1>1
  <2> QED BY <2>1 DEF LockOrder
<1>3. ASSUME At(u, "insert"), NEW n \in First(Head(todo[u])[2]) PROVE m.property < n.property
  <2>1. 1 \in DOMAIN todo[u] /\ Head(todo[u]) = todo[u][1] /\ todo[u][1][1] = "insert"
    BY <1>3 DEF TypeOK, At
  <2>2. KeyStatement(u, 1)
    BY <1>2, <1>3, <2>1 DEF LockOrder, KeysOnly, At
  <2>3. n \in todo[u][1][2]
    BY <1>3, <2>1 DEF First
  <2>4. made[u][k].property < n.property
    BY <1>1, <2>1, <2>2, <2>3 DEF KeyStatement
  <2> QED BY <1>1, <2>4 DEF SameInput
<1> QED BY <1>2, <1>3

(* What a run is about to insert is of a property.                         *)
LEMMA InsertedProperty ==
  ASSUME TypeOK, Constants, NEW t \in Actors, At(t, "insert"), NEW m \in First(Head(todo[t])[2])
  PROVE  m.property \in Properties
<1>1. Head(todo[t]) \in Statements(plan[t].kind) /\ Head(todo[t])[1] = "insert"
  BY DEF TypeOK, At
<1>2. Head(todo[t])[2] \in SUBSET Match
  BY <1>1, KindOf
<1>3. m \in Match
  BY <1>2 DEF First
<1> QED BY <1>3 DEF Match

(* And it inserts the matches of one property at a time.                   *)
LEMMA SameFirst ==
  ASSUME TypeOK, Constants, NEW t \in Actors, At(t, "insert"), NEW m \in First(Head(todo[t])[2]),
         NEW l \in First(Head(todo[t])[2])
  PROVE  l.property = m.property
<1>1. PICK a, b : a = l.property /\ b = m.property
  OBVIOUS
<1>2. a \in Properties /\ b \in Properties
  BY <1>1, InsertedProperty
<1>3. a \in Nat /\ b \in Nat
  BY <1>2 DEF Constants
<1>4. a <= b /\ b <= a
  BY <1>1 DEF First
<1>5. a = b
  BY <1>3, <1>4
<1> QED BY <1>1, <1>5

(* What a transaction is at is a statement of its kind.                    *)
LEMMA AtStatement ==
  ASSUME TypeOK, NEW t \in Actors, NEW what, At(t, what)
  PROVE  Head(todo[t]) \in Statements(plan[t].kind) /\ Head(todo[t])[1] = what
<1>1. todo[t] \in Seq(Statements(plan[t].kind)) /\ todo[t] # <<>> /\ Head(todo[t])[1] = what
  BY DEF TypeOK, At
<1> QED BY <1>1

(* No set of reviews, commands, runs and writers waits on itself: take away*)
(* the stages that wait for none of the others, one after the other.       *)
LEMMA NoneInCircle ==
  ASSUME Constants, IInv
  PROVE  CommandsNeverWaitInCircle
<1> SUFFICES ASSUME NEW S \in SUBSET Actors, S # {},
                    \A t \in S : (IF plan[t].kind = "consolidate" THEN {} ELSE Waits(t)) \intersect S # {}
             PROVE  FALSE
  BY DEF CommandsNeverWaitInCircle, Deadlocked
<1>1. TypeOK /\ Compatible /\ Underway /\ \A t \in Actors : LockOrder(t)
  BY DEF IInv
<1>2. \A t \in S : /\ t \in Actors /\ plan[t].kind # "consolidate"
                   /\ \E u \in S : u \in Waits(t)
                   /\ At(t, "lock") \/ At(t, "insert")
  BY DEF Waits
<1>3. \A t \in S : plan[t].kind # "run" => At(t, "lock") /\ Stage(t)
  <2> SUFFICES ASSUME NEW t \in S, plan[t].kind # "run" PROVE At(t, "lock") /\ Stage(t)
    OBVIOUS
  <2>1. ~At(t, "insert")
    BY <1>1, <1>2, AtStatement, KindOf
  <2> QED BY <1>1, <1>2, <2>1, Stages
<1>4. \A t \in S : plan[t].kind = "run" => KeysOnly(t)
  BY <1>1, <1>2 DEF LockOrder, At
<1>5. \A t \in S : At(t, "lock") => \E u \in S : BlockedBy(t, u)
  <2> SUFFICES ASSUME NEW t \in S, At(t, "lock") PROVE \E u \in S : BlockedBy(t, u)
    OBVIOUS
  <2>1. PICK u \in S : u \in Waits(t)
    BY <1>2
  <2>2. u \in Blockers(t, Row(t), Mode(t))
    BY <2>1 DEF Waits, Row, Mode
  <2>3. Row(t) \in Lockable /\ Mode(t) \in 1..4
    <3>1. Head(todo[t]) \in Statements(plan[t].kind) /\ Head(todo[t])[1] = "lock"
      BY <1>1, <1>2, AtStatement
    <3>2. Head(todo[t]) \in {"lock"} \X Lockable \X (1..4)
      BY <3>1 DEF Statements, Update
    <3> QED BY <3>2 DEF Row, Mode
  <2>4. t # u /\ held[u][Row(t)] + Mode(t) > 4
    BY <2>2 DEF Blockers, Update
  <2>5. \A r \in Lockable : /\ held[t][r] \in 0..4 /\ held[u][r] \in 0..4
                            /\ held[t][r] + held[u][r] <= 4
    <3>1. held[t] \in [Lockable -> 0..4] /\ held[u] \in [Lockable -> 0..4]
      BY <1>1, <1>2 DEF TypeOK, HeldType, Update
    <3>2. \A r \in Lockable : held[t][r] + held[u][r] <= 4
      BY <1>1, <1>2, <2>4 DEF Compatible, Update
    <3> QED BY <3>1, <3>2
  <2> QED BY <2>3, <2>4, <2>5 DEF BlockedBy
<1>6. \A t \in S : At(t, "lock") => ~Approving(t) /\ ~Shared(t)
  BY <1>2, <1>3, <1>4, <1>5, NoneBefore
<1>7. \A t \in S : At(t, "lock") => ~Informing(t)
  BY <1>2, <1>3, <1>4, <1>5, <1>6, BeforeInforming
<1>8. \A t \in S : plan[t].kind = "run" => At(t, "insert")
  BY <1>1, <1>2, <1>3, <1>4, <1>5, <1>6, <1>7, BeforeRun
<1>9. \A t \in S : plan[t].kind # "run"
  <2> SUFFICES ASSUME NEW s \in S, plan[s].kind = "run" PROVE FALSE
    OBVIOUS
  <2>1. ASSUME NEW t \in S, At(t, "insert")
        PROVE  \E u \in S : /\ At(u, "insert")
                            /\ \E m \in First(Head(todo[t])[2]) :
                                 \A n \in First(Head(todo[u])[2]) : m.property < n.property
    <3>1. PICK u \in S : u \in Waits(t)
      BY <1>2
    <3>2. ~At(t, "lock")
      BY <2>1 DEF At
    <3>3. PICK m \in First(Head(todo[t])[2]) : u \in Inserting(t, m)
      BY <2>1, <3>1, <3>2 DEF Waits
    <3>4. plan[u].kind = "run" /\ (At(u, "insert") =>
            \A n \in First(Head(todo[u])[2]) : m.property < n.property)
      BY <1>1, <1>2, <2>1, <3>3, BeforeInsert
    <3> QED BY <1>8, <3>4
  <2> DEFINE heads(t) == {m.property : m \in First(Head(todo[t])[2])}
             T == UNION {heads(t) : t \in {u \in S : At(u, "insert")}}
  <2>2. T \in SUBSET Properties
    BY <1>1, <1>2, InsertedProperty
  <2>3. \A t \in S : At(t, "insert") => First(Head(todo[t])[2]) # {}
    BY <2>1
  <2>4. T # {}
    <3>1. First(Head(todo[s])[2]) # {} /\ At(s, "insert")
      BY <1>8, <2>3
    <3>2. PICK m \in First(Head(todo[s])[2]) : TRUE
      BY <3>1
    <3>3. m.property \in heads(s)
      OBVIOUS
    <3> HIDE DEF heads
    <3> QED BY <3>1, <3>3
  <2>5. Properties \in SUBSET Nat /\ IsFiniteSet(Properties)
    BY DEF Constants
  <2>6. PICK x \in T : \A y \in T : y <= x
    <3> HIDE DEF T
    <3> QED BY <2>2, <2>4, <2>5, Greatest
  <2>7. PICK t \in S : At(t, "insert") /\ x \in heads(t)
    BY <2>6
  <2>8. PICK u \in S, m \in First(Head(todo[t])[2]) :
          At(u, "insert") /\ \A n \in First(Head(todo[u])[2]) : m.property < n.property
    BY <2>1, <2>7
  <2>9. PICK n \in First(Head(todo[u])[2]) : m.property < n.property
    BY <2>3, <2>8
  <2>10. n.property \in T /\ n.property \in Nat /\ x \in Nat
    <3>1. n.property \in heads(u)
      OBVIOUS
    <3> HIDE DEF heads
    <3>2. n.property \in T
      BY <2>8, <3>1
    <3> HIDE DEF T
    <3> QED BY <2>2, <2>5, <2>6, <3>2
  <2>11. x = m.property
    <3>1. PICK l \in First(Head(todo[t])[2]) : x = l.property
      BY <2>7
    <3> QED BY <1>1, <1>2, <2>7, <3>1, SameFirst
  <2> HIDE DEF heads, T
  <2> QED BY <2>6, <2>9, <2>10, <2>11
<1>10. \A t \in S : ~Revalidating(t) /\ ~Sharing(t)
  BY <1>2, <1>3, <1>5, <1>6, <1>7, <1>9, BeforeFacts
<1>11. \A t \in S : Starting(t) \/ AtRequest(t)
  BY <1>3, <1>6, <1>7, <1>9, <1>10 DEF Stage
<1>12. \A t \in S : ~AtRequest(t)
  BY <1>2, <1>3, <1>5, <1>9, <1>11, BeforeOthers
<1>13. \A t \in S : FALSE
  BY <1>2, <1>3, <1>5, <1>9, <1>11, <1>12, BeforeOthers
<1> QED BY <1>13

(* Reviews, opportunity commands, runs and writers of facts never wait on  *)
(* each other in a circle (SLICE_5_STEP6_DELIVERY.md, 3.3): PostgreSQL ends*)
(* none of them for a deadlock among them.                                 *)
THEOREM NoCircle == Spec => []CommandsNeverWaitInCircle
<1>1. Inv => CommandsNeverWaitInCircle
  BY Constants, NoneInCircle DEF Inv
<1> QED BY <1>1, Inductive, PTL
=============================================================================
