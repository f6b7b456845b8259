-------------------------- MODULE SchedulerClaims --------------------------
(***************************************************************************)
(* The Scheduler implements ScheduleClaims.                                *)
(***************************************************************************)
EXTENDS Scheduler

\* The phase of a job, from the status its projection gives it.
PhaseOf(j) ==
    IF j \notin Scheduled THEN "unqueued"
    ELSE IF Reconciled(j) \in Terminal           THEN "done"
    ELSE IF Reconciled(j) = "recovery_required"   THEN "suspect"
    ELSE IF Reconciled(j) = "running"             THEN "held"
    ELSE IF Reconciled(j) = "verifying"           THEN "settled"
    ELSE IF Reconciled(j) = "paused"              THEN "paused"
    ELSE "free"

Claims == INSTANCE ScheduleClaims WITH
              Jobs  <- Runs,
              phase <- [j \in Runs |-> PhaseOf(j)],
              token <- [j \in Runs |-> Len(dispatches[j])]

\* Whoever races, the scheduler hands out a job the way the abstract claims do:
\* one worker at a time, never while a claim is suspect or the job is paused,
\* never again once it is settled or done.
ImplementsClaims == Claims!Spec
=============================================================================
