---------------------------- MODULE MCScheduler ----------------------------
(* Instances of Scheduler and of its refinement for TLC.                   *)
EXTENDS SchedulerClaims, TLC

CONSTANTS r1, r2, r3, c1, c2

\* A job with every optional field absent.
Plain == [priority |-> 2, notBefore |-> None, deadline |-> None,
          timeout |-> 3, lease |-> 2, maxDispatches |-> 2, maxFailures |-> 2,
          budget |-> None, prefer |-> <<>>]

Rank == [r \in Runs |-> IF r = r1 THEN 1 ELSE IF r = r2 THEN 2 ELSE 3]

NoRunBudget == [r \in Runs |-> None]

\* c1 and c2 are on two Homes and share a model.
TwoHomes == [c \in Candidates |-> IF c = c1 THEN "home1" ELSE "home2"]
OneModel == [c \in Candidates |-> "model"]
OnePerHome  == "home1" :> 1 @@ "home2" :> 1
TwoPerModel == "model" :> 2
\* Limits of which each binds where the others do not: c1 by its model, c2 by its
\* Home, and both in all.
TwoModels == [c \in Candidates |-> IF c = c1 THEN "small" ELSE "large"]
MixedHomeLimit  == "home1" :> 2 @@ "home2" :> 1
MixedModelLimit == "small" :> 1 @@ "large" :> 2
ThreePerHome  == "home1" :> 3 @@ "home2" :> 3
ThreePerModel == "model" :> 3

\* Short leases, so that a renewed and a second lease expire within few ticks.
LeaseSpecs ==
    LET short == [Plain EXCEPT !.lease = 1]
    IN  {[short EXCEPT !.budget = 3, !.maxFailures = 3],
         [short EXCEPT !.notBefore = 1, !.deadline = 2, !.timeout = 2,
                       !.maxFailures = 1, !.prefer = <<c2, c1>>]}

\* One dispatch per job.
OneShot == {[Plain EXCEPT !.maxDispatches = 1]}

\* Two dispatches, one Attempt failure tolerated per streak.
RetrySpecs == {[Plain EXCEPT !.lease = 1, !.timeout = 2]}

\* Of two priorities, dispatched once, with a lease that cannot be renewed.
QueueSpecs ==
    LET short == [Plain EXCEPT !.lease = 1, !.timeout = 1, !.maxDispatches = 1]
    IN  {short, [short EXCEPT !.priority = 4]}

LeaseRunBudget == [r \in Runs |-> 4]

=============================================================================
