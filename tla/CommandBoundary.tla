--------------------------- MODULE CommandBoundary --------------------------
(***************************************************************************)
(* CommandService.run with its idempotency records and its version check,  *)
(* one step per database statement that can wait, be overtaken or fail.    *)
(* Each call is one transaction: what it writes is seen by others only at  *)
(* Commit, and a failure anywhere loses all of it.                         *)
(*                                                                         *)
(* The kinds of calls are the ways the services use `run`:                 *)
(*   create      key; the handler inserts                                  *)
(*   run         key; REPEATABLE READ, so `lookup` reads a snapshot        *)
(*   decide      key; `prepare` locks the row and refuses if it is decided *)
(*   transition  key; the handler locks the row and refuses if decided     *)
(*   patch       If-Match-Version instead of a key                         *)
(* They all meet on one resource row.  A record is named by the call that  *)
(* wrote it, so `record[k] = c` stands for c's row in idempotency_records. *)
(***************************************************************************)
EXTENDS AtomicCommands, FiniteSets

CONSTANTS Plans,      \* the workloads to explore: what each call asks
          MaxExpired  \* bound on how many records may reach expires_at

(* Calls that share a key share its route, so their kind and resource too: *)
(* route_key holds the operation and the resource path.                    *)
ASSUME PlansAssumption ==
  /\ None \notin Calls
  /\ \A p \in Plans :
       /\ p \in [Calls -> Call]
       /\ \A c, d \in Calls :
            p[c].key = p[d].key /\ p[c].kind # "patch" => p[c].kind = p[d].kind
ASSUME MaxExpiredAssumption == MaxExpired \in Nat

VARIABLES pc,         \* where each call's transaction stands
          snapshot,   \* the records a REPEATABLE READ transaction sees
          saw,        \* the expired record `lookup` told `claim` to replace
          stored,     \* calls whose result `complete` has written
          claimant,   \* per key: the transaction with an uncommitted claim
          lock        \* the transaction holding the row FOR UPDATE

vars == <<call, record, expired, decided, version, answer,
          pc, snapshot, saw, stored, claimant, lock>>
resource == <<decided, version>>
tables   == <<record, expired, stored, resource>>

Steps == {"idle", "lookup", "prepare", "recheck", "claim", "taken", "guard",
          "handle", "commit", "done"}
Open  == Steps \ {"idle", "done"}

TypeOK ==
  /\ call \in Plans
  /\ record \in [Keys -> Calls \union {None}]
  /\ expired \in SUBSET Calls
  /\ decided \in Calls \union {None}
  /\ version \in Nat
  /\ answer \in [Calls -> Answer]
  /\ pc \in [Calls -> Steps]
  /\ snapshot \in [Calls -> [Keys -> Calls \union {None}]]
  /\ saw \in [Calls -> Calls \union {None}]
  /\ stored \in SUBSET Calls
  /\ claimant \in [Keys -> Calls \union {None}]
  /\ lock \in Calls \union {None}

Init ==
  /\ call \in Plans
  /\ AInit
  /\ pc = [c \in Calls |-> "idle"]
  /\ snapshot = [c \in Calls |-> [k \in Keys |-> None]]
  /\ saw = [c \in Calls |-> None]
  /\ stored = {}
  /\ claimant = [k \in Keys |-> None]
  /\ lock = None

-----------------------------------------------------------------------------
Goto(c, step) == pc' = [pc EXCEPT ![c] = step]

Fault_HolderKept(holder, c) == holder
Freed(holder, c) == IF holder = c THEN None ELSE holder

(* COMMIT and ROLLBACK both end the transaction and free its locks.        *)
End(c, what, by) ==
  /\ Goto(c, "done")
  /\ Reply(c, what, by)
  /\ lock' = Freed(lock, c)
  /\ claimant' = [k \in Keys |-> Freed(claimant[k], c)]

(* Definitions named Fault_* are seeded errors: the one after each is the   *)
(* code's, and a property must fail when the fault stands in for it.       *)

(* What `lookup` makes of the row r it read, in the order it tests.        *)
Lookup(c, r) ==
  CASE r = None -> "absent"
    [] r # None /\ r \in expired -> "expired"
    [] r # None /\ r \notin expired ->
         IF call[r].body = call[c].body /\ r \in stored THEN "replay" ELSE "conflict"

View(c) == IF call[c].kind = "run" THEN snapshot[c] ELSE record

(* audited_transaction: the first statement fixes an RR snapshot.          *)
Begin(c) ==
  /\ pc[c] = "idle"
  /\ Goto(c, IF call[c].kind = "patch" THEN "guard" ELSE "lookup")
  /\ snapshot' = [snapshot EXCEPT ![c] = record]
  /\ UNCHANGED <<call, tables, answer, saw, claimant, lock>>

ReadKey(c) ==
  /\ pc[c] = "lookup"
  /\ LET r == View(c)[Key(c)]
         found == Lookup(c, r)
     IN \/ /\ found = "replay"
           /\ End(c, "replayed", r)
           /\ UNCHANGED saw
        \/ /\ found = "conflict"
           /\ End(c, "conflict", None)
           /\ UNCHANGED saw
        \/ /\ found \in {"absent", "expired"}
           /\ saw' = [saw EXCEPT ![c] = r]
           /\ Goto(c, IF call[c].kind = "decide" THEN "prepare" ELSE "claim")
           /\ UNCHANGED <<answer, claimant, lock>>
  /\ UNCHANGED <<call, tables, snapshot>>

(* `prepare` waits for the row lock, then decides on what it reads.        *)
Prepare(c) ==
  /\ pc[c] = "prepare"
  /\ lock = None
  /\ lock' = c
  /\ Goto(c, IF decided = None THEN "claim" ELSE "recheck")
  /\ UNCHANGED <<call, tables, answer, snapshot, saw, claimant>>

Fault_RefusalStands(c) == "absent"
(* committed_if_any: a refusal is checked against the key once more, on a  *)
(* new connection.                                                         *)
CommittedIfAny(c) == Lookup(c, record[Key(c)])

Recheck(c) ==
  /\ pc[c] = "recheck"
  /\ LET found == CommittedIfAny(c)
     IN \/ found = "replay" /\ End(c, "replayed", record[Key(c)])
        \/ found = "conflict" /\ End(c, "conflict", None)
        \/ found \in {"absent", "expired"} /\ End(c, "refused", None)
  /\ UNCHANGED <<call, tables, snapshot, saw>>

Fault_KeyNotUnique(c) == TRUE
(* The unique index lets the INSERT through: no row, or only the expired   *)
(* one this call has just deleted.                                         *)
KeyFree(c) == record[Key(c)] \in {None, saw[c]}

(* Under RR, deleting a row that another transaction has replaced since    *)
(* the snapshot is a serialization failure, not an IntegrityError.         *)
SerializationFailure(c) ==
  call[c].kind = "run" /\ saw[c] # None /\ record[Key(c)] # saw[c]

(* DELETE and INSERT wait for whoever has an uncommitted claim on the key. *)
Claim(c) ==
  /\ pc[c] = "claim"
  /\ claimant[Key(c)] = None
  /\ \/ /\ SerializationFailure(c)
        /\ End(c, "error", None)
     \/ /\ ~SerializationFailure(c) /\ KeyFree(c)
        /\ claimant' = [claimant EXCEPT ![Key(c)] = c]
        /\ Goto(c, "handle")
        /\ UNCHANGED <<answer, lock>>
     \/ /\ ~SerializationFailure(c) /\ ~KeyFree(c)
        /\ Goto(c, "taken")
        /\ UNCHANGED <<answer, claimant, lock>>
  /\ UNCHANGED <<call, tables, snapshot, saw>>

(* 23505 on the key: `committed` reads it on a new connection.             *)
Taken(c) ==
  /\ pc[c] = "taken"
  /\ IF Lookup(c, record[Key(c)]) = "replay"
     THEN End(c, "replayed", record[Key(c)])
     ELSE End(c, "conflict", None)
  /\ UNCHANGED <<call, tables, snapshot, saw>>

Fault_PlainSelect(c) == UNCHANGED lock
(* SELECT version ... FOR UPDATE: wait for the row, and keep it.           *)
LockRow(c) == lock = None /\ lock' = c

Guard(c) ==
  /\ pc[c] = "guard"
  /\ \/ /\ version = call[c].expects
        /\ LockRow(c)
        /\ Goto(c, "handle")
        /\ UNCHANGED <<answer, claimant>>
     \/ /\ version # call[c].expects
        /\ lock = None
        /\ End(c, "refused", None)
  /\ UNCHANGED <<call, tables, snapshot, saw>>

Fault_NoResult(c) == UNCHANGED stored
(* `complete` writes the result into the claimed row.                      *)
Complete(c) ==
  stored' = IF call[c].kind \in Keyed THEN stored \union {c} ELSE stored

Handle(c) ==
  /\ pc[c] = "handle"
  /\ \/ /\ call[c].kind = "transition" /\ lock = None /\ decided # None
        /\ End(c, "refused", None)
        /\ UNCHANGED stored
     \/ /\ IF call[c].kind = "transition"
           THEN decided = None /\ LockRow(c)
           ELSE UNCHANGED lock
        /\ Complete(c)
        /\ Goto(c, "commit")
        /\ UNCHANGED <<answer, claimant>>
  /\ UNCHANGED <<call, record, expired, resource, snapshot, saw>>

Commit(c) ==
  /\ pc[c] = "commit"
  /\ record' = IF call[c].kind \in Keyed
               THEN [record EXCEPT ![Key(c)] = c] ELSE record
  /\ decided' = IF call[c].kind \in Deciding THEN c ELSE decided
  /\ version' = IF call[c].kind \in {"transition", "patch"} THEN version + 1 ELSE version
  /\ End(c, "applied", c)
  /\ UNCHANGED <<call, expired, stored, snapshot, saw>>

(* ROLLBACK: nothing of the transaction survives, the claim included.      *)
Undo(c) == stored' = stored \ {c} /\ UNCHANGED record

(* The handler raises, the connection drops or the process dies.           *)
Fail(c) ==
  /\ pc[c] \in Open
  /\ Undo(c)
  /\ End(c, "error", None)
  /\ UNCHANGED <<call, expired, resource, snapshot, saw>>

(* Time passes a record's expires_at.                                      *)
Expire(k) ==
  /\ Live(k)
  /\ Cardinality(expired) < MaxExpired
  /\ expired' = expired \union {record[k]}
  /\ UNCHANGED <<call, record, stored, resource, answer, pc, snapshot, saw, claimant, lock>>

Run(c) == \/ ReadKey(c) \/ Prepare(c) \/ Recheck(c) \/ Claim(c) \/ Taken(c)
          \/ Guard(c) \/ Handle(c) \/ Commit(c)

Finished ==
  /\ \A c \in Calls : pc[c] = "done"
  /\ UNCHANGED vars

Next ==
  \/ \E c \in Calls : Begin(c) \/ Run(c) \/ Fail(c)
  \/ \E k \in Keys : Expire(k)
  \/ Finished

(* A transaction that can go on does: PostgreSQL grants a free lock to a   *)
(* waiter, and run() has no step that waits on anything else.              *)
Fairness == \A c \in Calls : WF_vars(Run(c))

Spec == Init /\ [][Next]_vars /\ Fairness

-----------------------------------------------------------------------------
Applied == {c \in Calls : answer[c].is = "applied"}

(* A row lock or a claim belongs to an open transaction that is past the   *)
(* statement that takes it, and what was read under it still holds.        *)
LockHeld == lock # None => pc[lock] \in {"recheck", "claim", "taken", "handle", "commit"}

ClaimHeld(k) ==
  claimant[k] # None =>
    /\ pc[claimant[k]] \in {"handle", "commit"}
    /\ call[claimant[k]].kind \in Keyed /\ Key(claimant[k]) = k

StepOK(c) ==
  /\ pc[c] = "prepare" => call[c].kind = "decide"
  /\ pc[c] \in {"lookup", "claim", "taken"} => call[c].kind \in Keyed
  /\ pc[c] = "guard" => call[c].kind = "patch"
  /\ pc[c] = "recheck" => call[c].kind = "decide" /\ decided # None
  /\ pc[c] = "taken" => record[Key(c)] # None
  /\ pc[c] \in {"handle", "commit"} /\ call[c].kind \in Keyed =>
       claimant[Key(c)] = c /\ ~Live(Key(c))
  /\ pc[c] = "commit" /\ call[c].kind \in Keyed => c \in stored
  /\ pc[c] \in {"claim", "taken", "handle", "commit"} /\ call[c].kind = "decide" =>
       lock = c /\ decided = None
  /\ pc[c] = "commit" /\ call[c].kind = "transition" => lock = c /\ decided = None
  /\ pc[c] \in {"handle", "commit"} /\ call[c].kind = "patch" =>
       lock = c /\ version = call[c].expects

LocksOK ==
  /\ LockHeld
  /\ \A k \in Keys : ClaimHeld(k)
  /\ \A c \in Calls : StepOK(c)

(* A record seen anywhere, in a snapshot too, is an applied call's with    *)
(* its result; it is replaced only once it has expired.                    *)
Stored(r, k) == r \in Applied /\ r \in stored /\ call[r].kind \in Keyed /\ Key(r) = k

RecordsOK ==
  /\ \A k \in Keys : record[k] # None => Stored(record[k], k)
  /\ \A c \in Calls : \A k \in Keys : snapshot[c][k] # None => Stored(snapshot[c][k], k)
  /\ \A c \in Calls : saw[c] = None \/ saw[c] \in expired
  /\ \A c \in Applied : call[c].kind \in Keyed => record[Key(c)] = c \/ c \in expired
  /\ \A c \in Applied : call[c].kind = "patch" => call[c].expects < version
  /\ \A c \in Calls : pc[c] = "done" \/ answer[c] = Unanswered

(* Of two calls applied under one key, at least one belongs to a record    *)
(* past its expires_at: no crash, wait or isolation level lets the same    *)
(* key take effect twice within its TTL (idempotency.claim, run).          *)
AtMostOncePerKey ==
  \A c, d \in Applied :
    c # d /\ call[c].kind \in Keyed /\ call[d].kind \in Keyed /\ Key(c) = Key(d)
      => c \in expired \/ d \in expired

(* Two PATCH calls that read the same version are never both applied, so   *)
(* neither overwrites a change it has not seen (concurrency.check).        *)
NoLostUpdate ==
  \A c, d \in Applied :
    c # d /\ call[c].kind = "patch" /\ call[d].kind = "patch"
      => call[c].expects # call[d].expects

(* The inductive invariant: what ties locks, claims, snapshots and answers *)
(* to the committed records at every step of run().                        *)
IInv == TypeOK /\ LocksOK /\ RecordsOK /\ NoLostUpdate

(* run() keeps the promise of AtomicCommands: every answer is the one an   *)
(* atomic execution would have given at that instant.  In particular a     *)
(* refusal decided behind an equal call's lock becomes that call's replay, *)
(* and an equal body is a conflict only when the record has expired.       *)
Atomic == ASpec

(* Every transaction that begins ends: no two calls wait on each other's   *)
(* key and row for ever.                                                   *)
Answered == \A c \in Calls : pc[c] \in Open ~> pc[c] = "done"
=============================================================================
