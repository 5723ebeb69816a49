------------------------------ MODULE RowLocks ------------------------------
(***************************************************************************)
(* PostgreSQL's row locks, as the services use them: each transaction holds*)
(* at most one mode on a row, until it ends.  The modes are ranked so that *)
(* two of them conflict exactly when their ranks add up to more than four, *)
(* which is the documentation's table of conflicting row-level locks.      *)
(***************************************************************************)
EXTENDS Naturals

CONSTANTS Txns, Rows

VARIABLE held  \* held[t][r]: the rank of the mode t holds on r, or 0

KeyShare    == 1  \* a foreign key's check of the row it names
Share       == 2  \* FOR SHARE
NoKeyUpdate == 3  \* UPDATE, and FOR NO KEY UPDATE
Update      == 4  \* FOR UPDATE

HeldType == held \in [Txns -> [Rows -> 0..Update]]

Unlocked == held = [t \in Txns |-> [r \in Rows |-> 0]]

Blockers(t, r, mode) == {u \in Txns \ {t} : held[u][r] + mode > Update}

(* Wait until no one holds a conflicting mode, and hold this one.          *)
Lock(t, r, mode) ==
  /\ Blockers(t, r, mode) = {}
  /\ held' = [held EXCEPT ![t][r] = IF mode > @ THEN mode ELSE @]

Release(t) == held' = [held EXCEPT ![t] = [r \in Rows |-> 0]]

(* What the locks are for: conflicting modes are never held together.      *)
Compatible ==
  \A t, u \in Txns : \A r \in Rows : t # u => held[t][r] + held[u][r] <= Update

(* A set of transactions each of which waits for another one of the set;   *)
(* waits[t] holds the transactions t waits for.                            *)
Deadlocked(waits) ==
  \E S \in (SUBSET Txns) \ {{}} : \A t \in S : waits[t] \intersect S # {}
=============================================================================
