----------------------------- MODULE Relations ------------------------------
(***************************************************************************)
(* The relations of parties to properties: each in force from one instant  *)
(* to another, created, ended, listed.  A relation gives no authority; it  *)
(* decides which property a party's consent may be bound to.               *)
(*                                                                         *)
(* now() is the instant at which a transaction began, whatever it waits    *)
(* for afterwards.                                                         *)
(***************************************************************************)
EXTENDS Accounts

CONSTANTS
  Ties,
  TieOf  \* its party, its property and its code; None where nothing has that id

RelationCodes == {"OWNER_DECLARED", "BROKER", "AGENCY", "DEVELOPER", "OCCUPANT",
                  "CONTACT_PERSON", "OTHER"}

(* valid_from may be omitted, and valid_to too; an end's reason is none or *)
(* an active code, or it is unknown.                                       *)
RelateJob == [kind : {"relate"}, account : Accts, tie : Ties, from : Nat \union {None}]
PartJob   == [kind : {"part"}, account : Accts, tie : Ties, under : Properties,
              to : Nat \union {None}, reasonKnown : BOOLEAN]
RelationJobs == RelateJob \union PartJob

(* An imported relation may have no recorded start.                        *)
Period == [from : Nat \union {None}, to : Nat \union {None}]

ASSUME RelationsAssumption ==
  /\ TieOf \in [Ties -> (Parties \union {None}) \X (Properties \union {None}) \X RelationCodes]
  /\ Ties \subseteq Rows
  /\ None \notin Properties \union Nat \union Period

VARIABLES
  period,  \* of each relation: from and to, or None where there is none
  began,   \* the now() of each actor's transaction, once it is read
  clock    \* the last instant that was read; each reading is later

relations == <<period, began>>

RelationsTypeOK ==
  /\ period \in [Ties -> Period \union {None}]
  /\ began \in [Actors -> Nat]
  /\ clock \in Nat

Declined(t) == End(t, "refused") /\ UNCHANGED <<relations, clock>>

(* The transaction's first statement.                                      *)
BeginAt(t) ==
  /\ at[t] = "now"
  /\ clock' = clock + 1
  /\ began' = [began EXCEPT ![t] = clock + 1]
  /\ Continue(t, [relate |-> "property", part |-> "tie", bind |-> "binding"][plan[t].kind])
  /\ UNCHANGED period

(* In force at that instant: a start that was recorded, and no end yet.    *)
InForce(x, now) ==
  /\ period[x] # None
  /\ period[x].from # None /\ period[x].from <= now
  /\ period[x].to = None \/ now < period[x].to

Related(p, q, now) == \E x \in Ties : TieOf[x][1] = p /\ TieOf[x][2] = q /\ InForce(x, now)

(* The half-open ranges of the exclusion constraint; no recorded start is  *)
(* before every instant.                                                   *)
Since(d)       == IF d.from = None THEN 0 ELSE d.from
Overlap(d, e)  == /\ d.to = None \/ Since(e) < d.to
                  /\ e.to = None \/ Since(d) < e.to

Colliding(x, d) ==
  {y \in Ties \ {x} : TieOf[y] = TieOf[x] /\ period[y] # None /\ Overlap(period[y], d)}

-----------------------------------------------------------------------------
(* create_relation.  The property and its alias are looked up unlocked.    *)
CheckTie(t) ==
  LET q == TieOf[plan[t].tie][2]
  IN /\ at[t] = "property"
     /\ IF q # None /\ canonical[q] = q
          THEN Continue(t, "relate") /\ UNCHANGED <<relations, clock>>
          ELSE Declined(t)

(* The INSERT in its savepoint: the foreign keys, the exclusion constraint.*)
Relate(t) ==
  LET x == plan[t].tie
      d == [from |-> IF plan[t].from = None THEN began[t] ELSE plan[t].from, to |-> None]
  IN /\ at[t] = "relate"
     /\ period[x] = None
     /\ Blockers(t, TieOf[x][2], KeyShare) = {}
     /\ IF TieOf[x][1] = None \/ Colliding(x, d) # {}
          THEN Declined(t)
          ELSE /\ period' = [period EXCEPT ![x] = d]
               /\ End(t, "written")
               /\ UNCHANGED <<began, clock>>

(* end_relation.  The relation's row is locked, then looked at: it must be *)
(* this property's, have no end yet, and not end before it started.        *)
Ending(t) == IF plan[t].to = None THEN began[t] ELSE plan[t].to

LockTie(t) ==
  LET x == plan[t].tie
      d == period[x]
  IN /\ at[t] = "tie"
     /\ Blockers(t, x, Update) = {}
     /\ IF /\ d # None /\ TieOf[x][2] = plan[t].under
           /\ d.to = None /\ plan[t].reasonKnown
           /\ d.from = None \/ d.from < Ending(t)
          THEN LockAnd(t, x, Update, "part") /\ UNCHANGED <<relations, clock>>
          ELSE Declined(t)

Part(t) ==
  /\ at[t] = "part"
  /\ period' = [period EXCEPT ![plan[t].tie].to = Ending(t)]
  /\ End(t, "written")
  /\ UNCHANGED <<began, clock>>

RelationsStart == [relate |-> "now", part |-> "now", bind |-> "now"]
RelationsOpen  == {"relate", "part"}

RelationStep(t) == BeginAt(t) \/ CheckTie(t) \/ Relate(t) \/ LockTie(t) \/ Part(t)
=============================================================================
