----------------------------- MODULE CommandTxn -----------------------------
(***************************************************************************)
(* One command per actor, as the routes run it: the role gate and the      *)
(* object check on a session that only reads, and then one transaction of  *)
(* its own.  The two see the database at different moments.                *)
(*                                                                         *)
(* A step is one statement that waits, or reads what is decided on; the    *)
(* last one writes and commits, as nobody sees the rows between the two.   *)
(***************************************************************************)
EXTENDS Naturals, Contract

CONSTANTS Actors, Rows

VARIABLES
  contract,  \* the name of the one it comes with; never changes
  plan,    \* what each actor does; never changes
  at,      \* where it stands: the name of the statement that is next
  held,    \* the row locks
  answer

INSTANCE RowLocks WITH Txns <- Actors

txn == <<contract, plan, at, held, answer>>

Answers == {"none", "written", "shown", "replayed", "unauthenticated", "denied", "concealed",
            "contested", "unknown", "refused", "index", "error"}

-----------------------------------------------------------------------------
(* Holding both sides of the split; ADMIN does not rescue it.              *)
InvalidCombination(roles) == {"OPERATOR", "REVIEWER"} \subseteq roles

Anomalous(operation, given) == InvalidCombination(given) /\ operation \in SeparationSensitive

(* check_role, for an account with those roles.                            *)
CheckRole(operation, given) ==
  /\ ~Anomalous(operation, given)
  /\ operation \in DOMAIN PolicyOf(contract)
  /\ given \intersect PolicyOf(contract)[operation].roles # {}

IsStaff(roles) == roles \intersect Staff # {}

-----------------------------------------------------------------------------
Goto(t, step) == at' = [at EXCEPT ![t] = step]

Continue(t, step) == Goto(t, step) /\ UNCHANGED <<contract, plan, held, answer>>

(* COMMIT and ROLLBACK both end the transaction and free its locks.        *)
End(t, what) ==
  /\ Goto(t, "done")
  /\ answer' = [answer EXCEPT ![t] = what]
  /\ Release(t)
  /\ UNCHANGED <<contract, plan>>

(* SELECT ... FOR UPDATE or FOR SHARE, and the step that follows it.       *)
LockAnd(t, row, mode, step) ==
  /\ Lock(t, row, mode)
  /\ Goto(t, step)
  /\ UNCHANGED <<contract, plan, answer>>

Applied(t)  == answer[t] = "none" /\ answer'[t] = "written"
AllDone     == \A t \in Actors : at[t] = "done"
=============================================================================
