------------------------------ MODULE Contract ------------------------------
(***************************************************************************)
(* The contract the service starts from: a frozen package, the addenda to  *)
(* it, and the overlay of corrections, body narrowings and added error     *)
(* responses.  From them the policy table is derived, or nothing starts.   *)
(*                                                                         *)
(* A document is [frozen, addenda, components, corrections, narrowings,    *)
(* additions, adopted]: sets of operations, addenda and entries, the       *)
(* schemas of request bodies, and the ids that the overlay's workflow      *)
(* adoptions have taken.  A decision, a delta's digest and a description   *)
(* are as they are checked: right or not.                                  *)
(***************************************************************************)
EXTENDS FiniteSets

CONSTANTS
  None,
  Documents  \* what a release may come with, each by its name

Roles == {"ADMIN", "OPERATOR", "REVIEWER", "CUSTOMER"}
Staff == Roles \ {"CUSTOMER"}

PublicOperations == {"code", "otp", "public"}
RoleExceptions   == [reasons |-> Staff]

(* The package names each of its operations by an id of its own.           *)
ASSUME DocumentsAssumption ==
  \A name \in DOMAIN Documents : \A o, p \in Documents[name].frozen : o.id = p.id => o = p

IdsOf(operations) == {o.id : o \in operations}
Added(doc)        == UNION {a.operations : a \in doc.addenda}
Declared(doc)     == doc.frozen \union Added(doc)
Named(doc, id)    == CHOOSE o \in doc.frozen : o.id = id

(* No two of a set of entries agree on what key tells of them.             *)
Distinct(entries, key(_)) == \A e, f \in entries : key(e) = key(f) => e = f
IdOf(e) == e.id
OfOf(e) == e.of

(* An addendum only adds: operations the package has neither by id nor by  *)
(* route, each of them authenticated.                                      *)
AddendaStand(doc) ==
  /\ \A a \in doc.addenda : a.kind = "ADDITION" /\ a.decided /\ a.bound
  /\ \A o \in Added(doc) :
       /\ o.id \notin IdsOf(doc.frozen) /\ o.route \notin {p.route : p \in doc.frozen}
       /\ ~o.open /\ o.roles # {}
  /\ Distinct(Added(doc), IdOf)
  /\ \A a, b \in doc.addenda : a # b => a.operations \intersect b.operations = {}

Fault_Nonempty(c) == c.corrected # {}
(* A correction removes roles, and leaves some.                            *)
Narrows(c) == c.corrected # {} /\ c.corrected \subseteq c.frozen

CorrectionsLoad(doc) ==
  /\ Distinct(doc.corrections, IdOf) /\ Distinct(doc.corrections, OfOf)
  /\ \A c \in doc.corrections : c.id # None /\ c.decided /\ Narrows(c)

Fault_Trusts(doc, c) == c.of \in IdsOf(doc.frozen)
(* It still describes the package, and corrects no addendum's operation.   *)
StillDescribes(doc, c) ==
  /\ c.of \notin IdsOf(Added(doc)) /\ c.of \in IdsOf(doc.frozen)
  /\ ~Named(doc, c.of).open
  /\ Named(doc, c.of).roles # {} /\ Named(doc, c.of).roles = c.frozen

CorrectedRoles(doc, o) ==
  IF \E c \in doc.corrections : c.of = o.id
    THEN (CHOOSE c \in doc.corrections : c.of = o.id).corrected ELSE o.roles

-----------------------------------------------------------------------------
(* A body's schema: the fields it requires, and of each field the values it*)
(* takes, its default, and how it admits null, if it does.                 *)
BodyOf(doc, o) == doc.components[o.body]
Uses(doc, c)   == Cardinality({o \in doc.frozen : o.body = c})

Fault_AnyNull(field) == field.null # "no" /\ field.values # {}
(* Only a null of the type list, or the one null branch of an anyOf, is    *)
(* removed with certainty.                                                 *)
NonNullAllowed(field) == field.null \in {"type", "branch"} /\ field.values # {}

(* Values of the field's declared type: a field that is an anyOf has none. *)
EnumAllowed(field, takes) ==
  takes # {} /\ takes \subseteq field.values /\ field.null \in {"no", "type"}

(* An added branch is an if and a then: [field, value, needs].  It uses no *)
(* keyword that the judge of bodies does not read.                         *)
AllOfAllowed(branches) == \A b \in branches : b.read

(* The body the narrowing is of: this operation's alone.  A component that *)
(* is referred to may be used by others; a body that is written out in its *)
(* operation is here a component that no other one names.                  *)
HasOwnBody(doc, n) ==
  /\ n.of \in IdsOf(doc.frozen) /\ Named(doc, n.of).body # None
  /\ Uses(doc, Named(doc, n.of).body) = 1

NarrowingsLoad(doc) ==
  /\ Distinct(doc.narrowings, IdOf) /\ Distinct(doc.narrowings, OfOf)
  /\ \A n \in doc.narrowings :
       /\ n.id # None /\ n.id \notin IdsOf(doc.corrections) \union doc.adopted
       /\ n.decided /\ n.of \notin {c.of : c \in doc.corrections}
       /\ HasOwnBody(doc, n)
       /\ LET schema == BodyOf(doc, Named(doc, n.of))
              fields == DOMAIN schema.fields
          IN /\ n.require # {} /\ n.require \subseteq fields \ schema.required
             /\ \A f \in n.require : n.defaults[f] = schema.fields[f].default
             /\ n.nonNull \subseteq fields
             /\ \A f \in n.nonNull : NonNullAllowed(schema.fields[f])
             /\ DOMAIN n.enum \subseteq fields
             /\ \A f \in DOMAIN n.enum : EnumAllowed(schema.fields[f], n.enum[f])
             /\ AllOfAllowed(n.allOf)

(* The effective body.  An enum lists no null.                             *)
Narrowed(n, schema) ==
  [required |-> schema.required \union n.require,
   allOf    |-> schema.allOf \union n.allOf,
   fields   |-> [f \in DOMAIN schema.fields |->
     [values  |-> IF f \in DOMAIN n.enum THEN n.enum[f] ELSE schema.fields[f].values,
      default |-> IF f \in n.require THEN None ELSE schema.fields[f].default,
      null    |-> IF f \in DOMAIN n.enum \/ (f \in n.nonNull /\ schema.fields[f].null # "elsewhere")
                  THEN "no" ELSE schema.fields[f].null]]]

EffectiveBody(doc, o) ==
  IF \E n \in doc.narrowings : n.of = o.id
    THEN Narrowed(CHOOSE n \in doc.narrowings : n.of = o.id, BodyOf(doc, o)) ELSE BodyOf(doc, o)

(* A request's fields, absent and null among their values, and the judge.  *)
Submissions(schema) ==
  [DOMAIN schema.fields -> UNION {schema.fields[f].values : f \in DOMAIN schema.fields}
                           \union {"absent", "null"}]
Admits(schema, request) ==
  /\ \A f \in DOMAIN schema.fields :
       CASE request[f] = "absent" -> f \notin schema.required
         [] request[f] = "null"   -> schema.fields[f].null # "no"
         [] OTHER                 -> request[f] \in schema.fields[f].values
  /\ \A b \in schema.allOf : request[b.field] = b.value => request[b.needs] # "absent"

(* What a request says, its defaults filled in.                            *)
Meaning(schema, request) ==
  [f \in DOMAIN request |-> IF request[f] = "absent" THEN schema.fields[f].default ELSE request[f]]

-----------------------------------------------------------------------------
ServerErrors == {"500", "503"}

(* An addition is one error response that the operation does not declare.  *)
AdditionsLoad(doc) ==
  /\ Distinct(doc.additions, IdOf)
  /\ Distinct(doc.additions, LAMBDA e : <<e.of, e.status>>)
  /\ \A e \in doc.additions :
       /\ e.id # None
       /\ e.id \notin IdsOf(doc.corrections) \union IdsOf(doc.narrowings) \union doc.adopted
       /\ e.decided /\ e.described /\ e.of \in IdsOf(doc.frozen)
       /\ e.status \in ServerErrors
       /\ e.status \notin Named(doc, e.of).statuses /\ e.frozen = Named(doc, e.of).statuses

-----------------------------------------------------------------------------
(* An operation is public and in the closed list of those, or has roles, or*)
(* is excepted by name.                                                    *)
Ruled(o) == IF o.open THEN o.id \in PublicOperations
            ELSE o.roles # {} \/ o.id \in DOMAIN RoleExceptions

RolesOf(doc, o) ==
  CASE o.open -> {}
    [] ~o.open /\ o.roles # {} -> CorrectedRoles(doc, o)
    [] OTHER -> RoleExceptions[o.id]

(* What the application starts with, if it starts.                         *)
PolicyTable(doc) ==
  [id \in IdsOf(Declared(doc)) |->
     LET o == CHOOSE o \in Declared(doc) : o.id = id IN [roles |-> RolesOf(doc, o), open |-> o.open]]

Founded(doc) ==
  /\ AddendaStand(doc) /\ CorrectionsLoad(doc) /\ NarrowingsLoad(doc) /\ AdditionsLoad(doc)
  /\ \A o \in Declared(doc) : Ruled(o)
  /\ \A c \in doc.corrections : StillDescribes(doc, c)
  /\ {o.id : o \in {o \in Declared(doc) : o.open}} = PublicOperations
  /\ \A id \in DOMAIN RoleExceptions : \E o \in Declared(doc) : o.id = id /\ ~o.open

(* The second look, table against documents, role for role.                *)
Matches(doc, table) ==
  /\ DOMAIN table = IdsOf(Declared(doc))
  /\ \A o \in Declared(doc) :
       IF o.open THEN table[o.id].open ELSE table[o.id].roles = RolesOf(doc, o)

(* The operations whose whole point is the maker-checker split.            *)
SeparationSensitive == {"observe", "assert"}

(* The application starts: it has a rule for every operation, also for     *)
(* every one that the split is about.                                      *)
Deployable(doc) ==
  /\ Founded(doc) /\ Matches(doc, PolicyTable(doc))
  /\ SeparationSensitive \subseteq DOMAIN PolicyTable(doc)

(* Each document that the application starts with, and the table it makes. *)
Policies ==
  LET documents == Documents
  IN {[of |-> name, table |-> PolicyTable(documents[name])] :
        name \in {name \in DOMAIN documents : Deployable(documents[name])}}

PolicyOf(name) == (CHOOSE p \in Policies : p.of = name).table

-----------------------------------------------------------------------------
(* What the documents beside the package may do to it: no operation is open*)
(* to a role that its declaration does not name, or to nobody; an addendum *)
(* is as it was approved; a body that is accepted would have been before,  *)
(* and says what it said before; and where a null is removed, none is left.*)
Keeps(doc) ==
  /\ \A o \in Declared(doc) :
       LET given == PolicyTable(doc)[o.id].roles
       IN \/ o.open /\ given = {}
          \/ o.roles = {} /\ given = RoleExceptions[o.id]
          \/ ~o.open /\ given # {} /\ given \subseteq o.roles /\ (o \in Added(doc) => given = o.roles)
  /\ \A o \in doc.frozen : o.body # None =>
       \A request \in Submissions(BodyOf(doc, o)) :
         Admits(EffectiveBody(doc, o), request) =>
           /\ Admits(BodyOf(doc, o), request)
           /\ Meaning(EffectiveBody(doc, o), request) = Meaning(BodyOf(doc, o), request)
           /\ \A n \in doc.narrowings : n.of = o.id => \A f \in n.nonNull : request[f] # "null"

Kept ==
  LET documents == Documents
  IN {p.of : p \in {p \in Policies : Keeps(documents[p.of])}}
=============================================================================
