--------------------------- MODULE AtomicCommands ---------------------------
(***************************************************************************)
(* What the command boundary promises its callers: every call is answered  *)
(* as if it ran alone and at once.  A key is applied once and then         *)
(* replayed until its record expires; a key reused with another body is a  *)
(* conflict; a refusal is never caused by an earlier call with the same    *)
(* live key; a stale version applies nothing.                              *)
(* CommandBoundary, the transaction-level specification, implements this.  *)
(***************************************************************************)
EXTENDS Naturals

CONSTANTS Calls,      \* attempts, each one HTTP call
          Keys,       \* (actor, route_key, Idempotency-Key) triples
          Bodies,     \* canonical request bodies
          None

VARIABLES call,       \* what each call asks; never changes
          record,     \* per key: the call whose result is stored, or None
          expired,    \* the calls whose records have outlived expires_at
          decided,    \* the call that decided the decide-once resource, or None
          version,    \* the resource's optimistic-lock version
          answer      \* what each call was answered

avars == <<call, record, expired, decided, version, answer>>

Deciding == {"decide", "transition"}
Keyed    == {"create", "run"} \union Deciding
Kinds    == Keyed \union {"patch"}

Call == [kind : Kinds, key : Keys, body : Bodies, expects : Nat]

Unanswered == [is |-> "none", by |-> None]
Answer == [is : {"none", "applied", "replayed", "conflict", "refused", "error"},
           by : Calls \union {None}]

Key(c)  == call[c].key
Live(k) == record[k] # None /\ record[k] \notin expired

AInit ==
  /\ record  = [k \in Keys |-> None]
  /\ expired = {}
  /\ decided = None
  /\ version = 1
  /\ answer  = [c \in Calls |-> Unanswered]

Reply(c, what, by) ==
  /\ answer[c] = Unanswered
  /\ answer' = [answer EXCEPT ![c] = [is |-> what, by |-> by]]

AApply(c) ==
  /\ Reply(c, "applied", c)
  /\ IF call[c].kind \in Keyed
     THEN ~Live(Key(c)) /\ record' = [record EXCEPT ![Key(c)] = c]
     ELSE version = call[c].expects /\ UNCHANGED record
  /\ IF call[c].kind \in Deciding
     THEN decided = None /\ decided' = c
     ELSE UNCHANGED decided
  /\ version' = IF call[c].kind \in {"transition", "patch"} THEN version + 1 ELSE version
  /\ UNCHANGED <<call, expired>>

AReplay(c) ==
  /\ call[c].kind \in Keyed /\ Live(Key(c))
  /\ call[record[Key(c)]].body = call[c].body
  /\ Reply(c, "replayed", record[Key(c)])
  /\ UNCHANGED <<call, record, expired, decided, version>>

(* Another body holds the key, or the record this call met has expired.    *)
AConflict(c) ==
  /\ call[c].kind \in Keyed /\ record[Key(c)] # None
  /\ \/ call[record[Key(c)]].body # call[c].body
     \/ record[Key(c)] \in expired
  /\ Reply(c, "conflict", None)
  /\ UNCHANGED <<call, record, expired, decided, version>>

ARefuse(c) ==
  /\ \/ call[c].kind \in Deciding /\ decided # None /\ ~Live(Key(c))
     \/ call[c].kind = "patch" /\ version # call[c].expects
  /\ Reply(c, "refused", None)
  /\ UNCHANGED <<call, record, expired, decided, version>>

AFail(c) ==
  /\ Reply(c, "error", None)
  /\ UNCHANGED <<call, record, expired, decided, version>>

AExpire(k) ==
  /\ Live(k)
  /\ expired' = expired \union {record[k]}
  /\ UNCHANGED <<call, record, decided, version, answer>>

ANext ==
  \/ \E c \in Calls : AApply(c) \/ AReplay(c) \/ AConflict(c) \/ ARefuse(c) \/ AFail(c)
  \/ \E k \in Keys : AExpire(k)

ASpec == AInit /\ [][ANext]_avars
=============================================================================
