---------------------------- MODULE MCAgentRuns ----------------------------
\* Instances of AgentRuns for TLC.
EXTENDS AgentRuns

Worker   == [home |-> "h1", model |-> "m1", role |-> None]
Reviewer == [home |-> "h2", model |-> "m1", role |-> "main_reviewer"]
People   == {Worker, Reviewer}

Use(in, out, duration)   == [input |-> in, output |-> out, duration |-> duration]
Limits(tokens, attempts) == [tokens |-> tokens, duration |-> None, attempts |-> attempts]
Free    == {Use(0, 0, 0)}
Little  == Use(0, 1, 0)
Much    == Use(2, 2, 1)     \* twice is more than the counters hold

Scope(commands, outside, budgets, usages, times, runs, attempts, events) ==
    [commands |-> commands \cup {"task", "run"}, outside |-> outside, budgets |-> budgets,
     usages |-> usages, times |-> times, runs |-> runs, attempts |-> attempts, events |-> events]

SomeScopes ==
    {\* Attempts beside each other, budgets and counters
     Scope({"attempt", "end"}, {}, {Limits(2, None), Limits(None, 2)}, {Little, Much},
           {1}, 1, 3, 8),
     Scope({"attempt"}, {}, {None}, {Little, Much}, {1}, 2, 3, 7),
     \* the same from outside, and a clock that is set back
     Scope({"attempt"}, {"attempt_started", "attempt_failed", "attempt_completed", "run_failed",
                         "run_completed"}, {None}, {Little}, {1, 2}, 2, 2, 6),
     \* what an Attempt makes
     Scope({"attempt", "thread", "tool", "artifact", "verification", "end"},
           {"artifact_created"}, {None}, {Little}, {1}, 2, 1, 7),
     \* decisions, and Attempts that name them
     Scope({"attempt", "route"}, {}, {None}, Free, {1}, 2, 1, 6),
     \* the worktree of a Run up to its end, and its records from outside
     Scope({"attempt", "worktree", "end"}, {}, {None}, Free, {1}, 1, 1, 10),
     Scope({"attempt", "worktree"},
           {"worktree_evidence_recorded", "worktree_review_recorded",
            "worktree_conflict_checked", "quota_snapshot"}, {None}, Free, {1}, 1, 1, 7),
     \* jobs, dispatches and leases from outside
     Scope({}, {"scheduler_job_queued", "scheduler_dispatch_decided",
                "scheduler_dispatch_deferred", "scheduler_lease_renewed"} \cup StateChanges,
           {None}, Free, {1}, 2, 2, 10)}
=============================================================================
