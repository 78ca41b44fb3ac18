------------------------------ MODULE PlanRun ------------------------------
(***************************************************************************)
(* What the engine promises about the plan of a job, without browsers,     *)
(* approvals, events or a database: the steps are performed in their       *)
(* order, one is performed again only if a recovery paid for it, nothing   *)
(* is performed once the job is over, and only a job that performed every  *)
(* step exactly once is recorded as a success.  WorkerJobs is shown to     *)
(* implement it.                                                           *)
(***************************************************************************)
EXTENDS Naturals

CONSTANTS
  Sessions,  \* the sessions, one job each
  Steps,     \* number of steps of the plan
  Budget     \* recoveries a job may spend

VARIABLES
  phase,      \* whether each job is waiting, open or closed
  performed,  \* how often each step of it was performed
  total,      \* how often any step of it was performed
  spent,      \* the recoveries it has used up
  succeeded   \* the jobs recorded as a success

planVars == <<phase, performed, total, spent, succeeded>>

PlanInit ==
  /\ phase = [s \in Sessions |-> "waiting"]
  /\ performed = [s \in Sessions |-> [k \in 1..Steps |-> 0]]
  /\ total = [s \in Sessions |-> 0]
  /\ spent = [s \in Sessions |-> 0]
  /\ succeeded = {}

Begin(s) ==
  /\ phase[s] = "waiting"
  /\ phase' = [phase EXCEPT ![s] = "open"]
  /\ UNCHANGED <<performed, total, spent, succeeded>>

\* A job is over; those that an engine was working on end together with it.
Close(jobs) ==
  /\ \A s \in jobs : phase[s] # "closed"
  /\ phase' = [s \in Sessions |-> IF s \in jobs THEN "closed" ELSE phase[s]]
  /\ UNCHANGED <<performed, total, spent, succeeded>>

Recover(s) ==
  /\ phase[s] = "open"
  /\ spent[s] < Budget
  /\ spent' = [spent EXCEPT ![s] = @ + 1]
  /\ UNCHANGED <<phase, performed, total, succeeded>>

\* The first step that was not performed yet, or the last one that was.  All
\* repeats together need as many recoveries.
Perform(s, k) ==
  /\ phase[s] = "open"
  /\ \A j \in 1..Steps :
       /\ j < k => performed[s][j] > 0
       /\ j > k => performed[s][j] = 0
  /\ total[s] < k + spent[s]
  /\ performed' = [performed EXCEPT ![s][k] = @ + 1]
  /\ total' = [total EXCEPT ![s] = @ + 1]
  /\ UNCHANGED <<phase, spent, succeeded>>

Succeed(s) ==
  /\ phase[s] = "closed"
  /\ \A k \in 1..Steps : performed[s][k] = 1
  /\ succeeded' = succeeded \cup {s}
  /\ UNCHANGED <<phase, performed, total, spent>>

\* The record is overwritten, by a cancellation or a status that comes late.
Overwrite(s) ==
  /\ succeeded' = succeeded \ {s}
  /\ UNCHANGED <<phase, performed, total, spent>>

PlanNext ==
  \/ \E s \in Sessions :
       \/ Begin(s) \/ Recover(s) \/ Succeed(s) \/ Overwrite(s)
       \/ \E k \in 1..Steps : Perform(s, k)
  \/ \E jobs \in SUBSET Sessions : Close(jobs)

PlanSpec == PlanInit /\ [][PlanNext]_planVars

=============================================================================
