----------------------------- MODULE RunBudget -----------------------------
(***************************************************************************)
(* What the daily run budget promises, without the database or the         *)
(* handlers: a run is admitted when its subject has used less than Budget, *)
(* is charged when its reply has been stored, and may be abandoned at any  *)
(* time without a charge.  Charges leave the rolling window one by one.    *)
(* Admission does not reserve anything, so the budget is a cap on what an  *)
(* admission sees, not on what is running.                                 *)
(***************************************************************************)
EXTENDS Integers, FiniteSets

CONSTANTS
  Subjects,   \* the keys runs are charged to
  Runs,       \* the runs that can be in flight at the same time
  Budget      \* RUNS_BUDGET_DAILY

\* What the bound below takes for granted.
BudgetAssumption ==
  /\ Budget \in Nat
  /\ Runs # {}
  /\ IsFiniteSet(Runs)

VARIABLES
  used,       \* used[s]: charges of s inside the window
  running     \* running[s]: the admitted runs of s not yet charged

vars == <<used, running>>

TypeOK ==
  /\ used \in [Subjects -> Nat]
  /\ running \in [Subjects -> SUBSET Runs]

Init ==
  /\ used = [s \in Subjects |-> 0]
  /\ running = [s \in Subjects |-> {}]

Admit(s, r) ==
  /\ used[s] < Budget
  /\ r \notin running[s]
  /\ running' = [running EXCEPT ![s] = @ \cup {r}]
  /\ UNCHANGED used

Charge(s, r) ==
  /\ r \in running[s]
  /\ used' = [used EXCEPT ![s] = @ + 1]
  /\ running' = [running EXCEPT ![s] = @ \ {r}]

Abandon(s, r) ==
  /\ r \in running[s]
  /\ running' = [running EXCEPT ![s] = @ \ {r}]
  /\ UNCHANGED used

Expire(s) ==
  /\ used[s] > 0
  /\ used' = [used EXCEPT ![s] = @ - 1]
  /\ UNCHANGED running

Next ==
  \E s \in Subjects :
    \/ Expire(s)
    \/ \E r \in Runs : Admit(s, r) \/ Charge(s, r) \/ Abandon(s, r)

Spec == Init /\ [][Next]_vars

(***************************************************************************)
(* The charges of a subject never pass the budget by more than the number  *)
(* of runs that can be in flight beside the last one admitted.             *)
(***************************************************************************)
OvershootBounded ==
  \A s \in Subjects :
    used[s] + Cardinality(running[s]) <= Budget - 1 + Cardinality(Runs)

=============================================================================
