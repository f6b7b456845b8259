----------------------------- MODULE Scheduler -----------------------------
(***************************************************************************)
(* The durable Scheduler of codexhome-core (scheduler.rs), over the part   *)
(* of the Agent Run store it drives (agent_runs.rs) and the verification   *)
(* every append passes (observability.rs, verify_links).                   *)
(*                                                                         *)
(* The program keeps one append-only event log; the state below is the     *)
(* fold of that log which project_agent_runs and project_scheduler compute *)
(* before every decision.  An append runs under the exclusive file lock of *)
(* the store and commits all its events or none, so one action is one      *)
(* append.  Any number of processes may be calling.  What a process reads  *)
(* before it has the lock, and uses after, is the timestamp of dispatch,   *)
(* renew and tick: those actions take any `ts' the clock has shown so far. *)
(*                                                                         *)
(* A scheduler job binds exactly one Run, so a job is named by its Run.    *)
(***************************************************************************)
EXTENDS Integers, Sequences, FiniteSets

CONSTANTS
    Runs,         \* Runs that exist and are active when the model starts
    IdRank,       \* [Runs -> Nat], the order of the job ids
    RunBudget,    \* [Runs -> duration limit of the Run's own budget, or None]
    Candidates,   \* candidates of the route policy
    HomeOf,       \* [Candidates -> Home], with the Home's account
    ModelOf,      \* [Candidates -> model]
    MaxActive,    \* scheduler policy: maxActiveJobs
    HomeLimit,    \* scheduler policy: active Attempts per Home
    ModelLimit,   \* scheduler policy: active Attempts per model
    MaxLease,     \* scheduler policy: maxLeaseMs
    Specs,        \* job specifications a client may submit
    Usages,       \* durations a worker may report for an Attempt
    Extensions,   \* lease extensions a worker may ask for
    None,         \* an absent optional field
    WorktreeRuns, \* Runs whose work is done in a worktree
    FailStatuses, \* the failure statuses callers report for a Run or job
    MaxTime,      \* bound of the model: last value of the clock
    MaxAttempts,  \* bound of the model: Attempts of an unscheduled Run
    MaxDeps       \* bound of the model: dependencies of one job

VARIABLES
    clock,        \* the system clock
    lastTs,       \* [Runs -> timestamp of the newest event of the Run]
    run,          \* [Runs -> lifecycle status of the Run]
    attempts,     \* [Runs -> sequence of Attempts, oldest first]
    worktree,     \* [Runs -> has a worktree been prepared for the Run?]
    used,         \* [Runs -> duration consumed by closed Attempts]
    job,          \* the jobs queued so far: a function from a subset of Runs
    mark,         \* [Runs -> status left by the newest scheduler event]
    dispatches    \* [Runs -> sequence of dispatches, each with its lease]

runVars == <<run, attempts, worktree, used>>
jobVars == <<job, mark, dispatches>>
vars    == <<clock, lastTs, run, attempts, worktree, used, job, mark, dispatches>>

Scheduled == DOMAIN job

----------------------------------------------------------------------------
\* Types.

Priorities    == 0..4
RunFailures   == {"failed", "cancelled", "timed_out"}
RunStatus     == {"running", "succeeded"} \cup RunFailures
\* "failed" stands for the three failure statuses of an Attempt, which no
\* decision of the scheduler tells apart.
AttemptStatus == {"running", "succeeded", "failed"}
\* "blocked": not retryable, or a code that requires another identity.
Failures      == {"none", "retryable", "blocked"}
JobMarks      == {"queued", "running", "paused", "recovery_required",
                  "cancelled", "timed_out"}

JobSpec == [priority      : Priorities,
            notBefore     : Nat \cup {None},
            deadline      : Nat \cup {None},
            timeout       : Nat \ {0},
            lease         : Nat \ {0},
            maxDispatches : Nat \ {0},
            maxFailures   : Nat \ {0},
            budget        : Nat \cup {None},
            prefer        : Seq(Candidates)]

Attempt  == [candidate : Candidates, status : AttemptStatus, failure : Failures]
Job      == [spec : Specs, deps : Seq(Runs), queuedAt : Nat]
Dispatch == [attempt : Nat, at : Nat, expires : Nat]

\* validate_scheduler_job: what a specification accepted by enqueue satisfies.
ValidSpec(s) ==
    /\ s \in JobSpec
    /\ s.lease <= s.timeout
    /\ s.notBefore # None /\ s.deadline # None => s.notBefore < s.deadline
    /\ s.budget # 0
    /\ \A m, n \in DOMAIN s.prefer : s.prefer[m] = s.prefer[n] => m = n

ASSUME SpecsAssumption == \A s \in Specs : ValidSpec(s)

ASSUME ConstantsAssumption ==
    /\ None \notin Nat
    /\ IdRank \in [Runs -> Nat]
    /\ RunBudget \in [Runs -> Nat \cup {None}]
    /\ DOMAIN HomeOf = Candidates /\ DOMAIN ModelOf = Candidates
    /\ MaxActive \in Nat \ {0}
    /\ \A c \in Candidates : /\ HomeLimit[HomeOf[c]] \in Nat \ {0}
                             /\ ModelLimit[ModelOf[c]] \in Nat \ {0}
    /\ MaxLease \in Nat \ {0}
    /\ Usages \subseteq Nat /\ 0 \in Usages
    /\ Extensions \subseteq Nat \ {0}
    /\ WorktreeRuns \subseteq Runs
    /\ FailStatuses \subseteq RunFailures
    /\ MaxTime \in Nat /\ MaxAttempts \in Nat /\ MaxDeps \in Nat

----------------------------------------------------------------------------
\* What the projections read off the log.  A definition named X_Mutation is X
\* with a fault a change of the code could bring; no specification uses it.

ActiveAttempts(r) == {i \in DOMAIN attempts[r] : attempts[r][i].status = "running"}

\* active_counts: every active Attempt counts, scheduled or not.
ActivePairs == UNION {{<<r, i>> : i \in ActiveAttempts(r)} : r \in Runs}
ActiveOnHome(h)  == {p \in ActivePairs : HomeOf[attempts[p[1]][p[2]].candidate] = h}
ActiveOnModel(m) == {p \in ActivePairs : ModelOf[attempts[p[1]][p[2]].candidate] = m}

\* The failures since the last success.
FailureStreak(r) ==
    Cardinality({i \in DOMAIN attempts[r] :
                    /\ attempts[r][i].status = "failed"
                    /\ \A k \in i..Len(attempts[r]) : attempts[r][k].status # "succeeded"})

Spent(limit, amount) == limit # None /\ amount >= limit

BudgetExhausted(j) == Spent(RunBudget[j], used[j]) \/ Spent(job[j].spec.budget, used[j])

Latest(j)        == dispatches[j][Len(dispatches[j])]
LatestAttempt(j) == attempts[j][Latest(j).attempt]

Terminal == {"succeeded", "failed", "cancelled", "timed_out"}

\* reconcile_job: the Run overrides the scheduler's own mark, except that a
\* terminal mark stays and "paused" and "recovery_required" are sticky.
Reconciled(j) ==
    IF mark[j] \in Terminal THEN mark[j]
    ELSE IF run[j] # "running" THEN run[j]
    ELSE IF mark[j] \in {"paused", "recovery_required"} THEN mark[j]
    ELSE IF dispatches[j] = <<>> THEN "queued"
    ELSE CASE LatestAttempt(j).status = "running"   -> "running"
           [] LatestAttempt(j).status = "succeeded" -> "verifying"
           [] LatestAttempt(j).status = "failed"    -> "retry_ready"

FirstUnmet_IgnoresFailed(j) ==
    LET unmet == {k \in DOMAIN job[j].deps : Reconciled(job[j].deps[k]) \notin Terminal}
    IN  IF unmet = {} THEN 0 ELSE CHOOSE k \in unmet : \A m \in unmet : k <= m

\* The first dependency, in the order the job lists them, that has not
\* succeeded; 0 when all have.
FirstUnmet(j) ==
    LET unmet == {k \in DOMAIN job[j].deps : Reconciled(job[j].deps[k]) # "succeeded"}
    IN  IF unmet = {} THEN 0 ELSE CHOOSE k \in unmet : \A m \in unmet : k <= m

\* The gates of evaluate_job that compare.
TooEarly(j, ts) == job[j].spec.notBefore # None /\ ts < job[j].spec.notBefore
TooLate_OffByOne(j, ts) == job[j].spec.deadline # None /\ ts > job[j].spec.deadline
TooLate(j, ts) == job[j].spec.deadline # None /\ ts >= job[j].spec.deadline
DispatchLimit(j) == Len(dispatches[j]) >= job[j].spec.maxDispatches
FailureThreshold(j) == FailureStreak(j) >= job[j].spec.maxFailures

\* evaluate_job: the status and the reason code the projection shows at time
\* ts; the first gate that blocks decides.  A job is eligible when none does.
View(j, ts) ==
    LET was   == Reconciled(j)
        unmet == FirstUnmet(j)
        Is(status, code) == [status |-> status, code |-> code]
    IN  IF was \in Terminal              THEN Is(was, "run_not_ready")
        ELSE IF was = "paused"            THEN Is(was, "failure_threshold")
        ELSE IF was = "recovery_required" THEN Is(was, "recovery_required")
        ELSE IF was = "running"           THEN Is(was, "active_attempt")
        ELSE IF was = "verifying"         THEN Is(was, "run_not_ready")
        ELSE IF TooEarly(j, ts)           THEN Is("waiting", "not_before")
        ELSE IF TooLate(j, ts)            THEN Is("needs_attention", "deadline_expired")
        ELSE IF unmet # 0
             THEN IF Reconciled(job[j].deps[unmet]) \in Terminal
                  THEN Is("needs_attention", "dependency_failed")
                  ELSE Is("waiting", "dependency_pending")
        ELSE IF ActiveAttempts(j) # {}    THEN Is("running", "active_attempt")
        ELSE IF worktree[j] /\ attempts[j] # <<>>
             THEN Is("needs_attention", "run_not_ready")
        ELSE IF BudgetExhausted(j)        THEN Is("needs_attention", "budget_exhausted")
        ELSE IF DispatchLimit(j)          THEN Is("needs_attention", "dispatch_limit")
        ELSE IF FailureThreshold(j)       THEN Is("needs_attention", "failure_threshold")
        ELSE Is(IF dispatches[j] = <<>> THEN "ready" ELSE "retry_ready", "eligible")

Eligible(j, ts) == View(j, ts).code = "eligible"

\* The order of project_scheduler: priority, then age, then job id.
Precedes(a, b) ==
    \/ job[a].spec.priority > job[b].spec.priority
    \/ /\ job[a].spec.priority = job[b].spec.priority
       /\ \/ job[a].queuedAt < job[b].queuedAt
          \/ job[a].queuedAt = job[b].queuedAt /\ IdRank[a] < IdRank[b]

\* select_job without a requested job: the first eligible job, or else the
\* first that is not terminal.
IsSelected(j, ts) ==
    LET eligible == {k \in Scheduled : Eligible(k, ts)}
        live     == {k \in Scheduled : View(k, ts).status \notin Terminal}
        pool     == IF eligible # {} THEN eligible ELSE live
    IN  j \in pool /\ \A k \in pool \ {j} : Precedes(j, k)

----------------------------------------------------------------------------
\* One checked append.

AppendEvents_AnyTime(R, ts) ==
    /\ \A r \in R : run[r] = "running"
    /\ lastTs' = [r \in Runs |-> IF r \in R THEN ts ELSE lastTs[r]]
    /\ UNCHANGED clock

\* Events stamped ts are appended to the Runs of R: verify_events refuses a
\* timestamp older than the Run's newest event, and verify_links refuses any
\* event once the Run is terminal.
AppendEvents(R, ts) ==
    /\ \A r \in R : run[r] = "running" /\ ts >= lastTs[r]
    /\ lastTs' = [r \in Runs |-> IF r \in R THEN ts ELSE lastTs[r]]
    /\ UNCHANGED clock

Closed_RawStatus(r, i, status, failure) ==
    [attempts EXCEPT ![r] =
        [attempts[r] EXCEPT ![i] = [candidate |-> attempts[r][i].candidate,
                                    status    |-> IF status = "failed" THEN "timed_out"
                                                  ELSE status,
                                    failure   |-> failure]]]

\* The Attempts with attempt i of Run r closed.
Closed(r, i, status, failure) ==
    [attempts EXCEPT ![r] =
        [attempts[r] EXCEPT ![i] = [candidate |-> attempts[r][i].candidate,
                                    status    |-> status,
                                    failure   |-> failure]]]

Started(r, c) ==
    [attempts EXCEPT ![r] =
        Append(attempts[r], [candidate |-> c, status |-> "running", failure |-> "none"])]

----------------------------------------------------------------------------
\* Queueing, pausing and resuming.

Enqueue_AttemptsAllowed(r, spec, deps) ==
    /\ r \notin Scheduled
    /\ AppendEvents({r}, clock)
    /\ job' = [k \in Scheduled \cup {r} |->
                 IF k = r THEN [spec |-> spec, deps |-> deps, queuedAt |-> clock]
                 ELSE job[k]]
    /\ UNCHANGED <<runVars, mark, dispatches>>

\* SchedulerStore::enqueue.  The dependencies are jobs that exist already.
Enqueue(r, spec, deps) ==
    /\ r \notin Scheduled
    /\ attempts[r] = <<>>
    /\ AppendEvents({r}, clock)
    /\ job' = [k \in Scheduled \cup {r} |->
                 IF k = r THEN [spec |-> spec, deps |-> deps, queuedAt |-> clock]
                 ELSE job[k]]
    /\ UNCHANGED <<runVars, mark, dispatches>>

\* Sequences without repetition of at most MaxDeps jobs.
DepLists ==
    {d \in UNION {[1..n -> Scheduled] : n \in 0..MaxDeps} :
        \A m, n \in DOMAIN d : d[m] = d[n] => m = n}

Pause_Running(j) ==
    /\ View(j, clock).status \in {"queued", "waiting", "ready", "retry_ready",
                                  "needs_attention", "running"}
    /\ AppendEvents({j}, clock)
    /\ mark' = [mark EXCEPT ![j] = "paused"]
    /\ UNCHANGED <<runVars, job, dispatches>>

\* SchedulerStore::state_change, to pause and to resume.
Pause(j) ==
    /\ View(j, clock).status \in {"queued", "waiting", "ready", "retry_ready",
                                  "needs_attention"}
    /\ AppendEvents({j}, clock)
    /\ mark' = [mark EXCEPT ![j] = "paused"]
    /\ UNCHANGED <<runVars, job, dispatches>>

Resume_Recovering(j) ==
    /\ Reconciled(j) \in {"paused", "recovery_required"}
    /\ AppendEvents({j}, clock)
    /\ mark' = [mark EXCEPT ![j] = "queued"]
    /\ UNCHANGED <<runVars, job, dispatches>>

Resume(j) ==
    /\ Reconciled(j) = "paused"
    /\ AppendEvents({j}, clock)
    /\ mark' = [mark EXCEPT ![j] = "queued"]
    /\ UNCHANGED <<runVars, job, dispatches>>

----------------------------------------------------------------------------
\* Dispatch.

SameIdentity(c, d) == HomeOf[c] = HomeOf[d] /\ ModelOf[c] = ModelOf[d]

RetryAllowed_FlagUnread(j, c) ==
    attempts[j] # <<>> => attempts[j][Len(attempts[j])].status = "failed"

\* The identity of the last Attempt may be tried again only after a retryable
\* failure that does not ask for another identity.
RetryAllowed(j, c) ==
    LET last == attempts[j][Len(attempts[j])]
    IN  attempts[j] # <<>> /\ SameIdentity(last.candidate, c)
            => last.failure = "retryable"

\* projected_budget_rejection, duration: what is left covers the first lease.
FitsBudget(j) ==
    \A limit \in {RunBudget[j], job[j].spec.budget} \ {None} :
        used[j] + job[j].spec.lease <= limit

\* The gates of choose_scheduler_candidate; `routable' are the candidates the
\* route engine finds eligible.
Acceptable(j, routable) ==
    {c \in routable :
        /\ RetryAllowed(j, c)
        /\ FitsBudget(j)
        /\ Cardinality(ActiveOnHome(HomeOf[c])) < HomeLimit[HomeOf[c]]
        /\ Cardinality(ActiveOnModel(ModelOf[c])) < ModelLimit[ModelOf[c]]}

\* The candidates that can be the first acceptable one: any, when the order is
\* the router's score, and the first listed when the job states a preference.
Choices(j, routable) ==
    LET prefer == job[j].spec.prefer
        ok     == Acceptable(j, routable)
    IN  IF prefer = <<>> THEN ok
        ELSE {c \in ok : \E k \in DOMAIN prefer :
                 prefer[k] = c /\ \A m \in 1..(k - 1) : prefer[m] \notin ok}

HasCapacity_OffByOne == Cardinality(ActivePairs) <= MaxActive
HasCapacity == Cardinality(ActivePairs) < MaxActive

\* A successful dispatch: route decision, Attempt start, and the dispatch with
\* its lease, in one append.
Claim(j, c, ts) ==
    /\ ~worktree[j]
    /\ AppendEvents({j}, ts)
    /\ attempts' = Started(j, c)
    /\ dispatches' = [dispatches EXCEPT ![j] =
                         Append(@, [attempt |-> Len(attempts[j]) + 1,
                                    at      |-> ts,
                                    expires |-> ts + job[j].spec.lease])]
    /\ mark' = [mark EXCEPT ![j] = "running"]
    /\ UNCHANGED <<run, worktree, used, job>>

\* A dispatch that is deferred leaves a record of the reason and no claim.
Defer(j, ts) == AppendEvents({j}, ts) /\ UNCHANGED <<runVars, jobVars>>

\* SchedulerStore::dispatch_at, once the job is known.  The route engine is asked
\* only for an eligible job within the limit of active Attempts.
DispatchJob(j, ts) ==
    /\ job[j].spec.lease <= MaxLease
    /\ IF Eligible(j, ts) /\ HasCapacity
       THEN \E routable \in SUBSET Candidates :
               IF Choices(j, routable) # {}
               THEN \E c \in Choices(j, routable) : Claim(j, c, ts)
               ELSE Defer(j, ts)
       ELSE Defer(j, ts)

\* SchedulerStore::dispatch without and with a job id.
DispatchNext(ts) == \E j \in Scheduled : IsSelected(j, ts) /\ DispatchJob(j, ts)

DispatchNamed(ts) == \E j \in Scheduled : DispatchJob(j, ts)

----------------------------------------------------------------------------
\* Leases and recovery.

\* duration_budget_deadline, where a limit is set.
BudgetDeadlines(j) ==
    {Latest(j).at + (IF limit > used[j] THEN limit - used[j] ELSE 0) :
        limit \in {RunBudget[j], job[j].spec.budget} \ {None}}

RenewableTo_NoPolicyCap(j, ts, expires) ==
    /\ expires <= Latest(j).at + job[j].spec.timeout
    /\ \A deadline \in BudgetDeadlines(j) : expires <= deadline

\* The caps on the new expiry of a lease.
RenewableTo(j, ts, expires) ==
    /\ expires <= ts + MaxLease
    /\ expires <= Latest(j).at + job[j].spec.timeout
    /\ \A deadline \in BudgetDeadlines(j) : expires <= deadline

\* A renewal must come from the worker of the newest dispatch, before expiry.
MayRenew(j, d, ts) ==
    /\ View(j, ts).status = "running"
    /\ d = Len(dispatches[j])
    /\ ts < Latest(j).expires

\* SchedulerStore::renew_lease_at, by the worker that holds dispatch d.
RenewLease(j, d, ts, extension) ==
    LET expires == dispatches[j][d].expires + extension
    IN  /\ MayRenew(j, d, ts)
        /\ extension <= MaxLease
        /\ RenewableTo(j, ts, expires)
        /\ AppendEvents({j}, ts)
        /\ dispatches' = [dispatches EXCEPT ![j] =
                             [dispatches[j] EXCEPT ![d] =
                                 [attempt |-> dispatches[j][d].attempt,
                                  at      |-> dispatches[j][d].at,
                                  expires |-> expires]]]
        /\ UNCHANGED <<runVars, job, mark>>

ExpiredJobs_OffByOne(ts) ==
    {j \in Scheduled : View(j, ts).status = "running" /\ Latest(j).expires < ts}

\* The jobs a tick at ts turns to recovery, and those it pauses.
ExpiredJobs(ts) ==
    {j \in Scheduled : View(j, ts).status = "running" /\ Latest(j).expires <= ts}

AttentionJobs(ts) ==
    {j \in Scheduled :
        /\ View(j, ts).status = "needs_attention"
        /\ View(j, ts).code \in {"failure_threshold", "budget_exhausted",
                "dispatch_limit", "dependency_failed", "deadline_expired"}}

\* SchedulerStore::tick_at: one append for all jobs, none when nothing changed.
Tick(ts) ==
    /\ ExpiredJobs(ts) \cup AttentionJobs(ts) # {}
    /\ AppendEvents(ExpiredJobs(ts) \cup AttentionJobs(ts), ts)
    /\ mark' = [j \in Runs |-> IF j \in ExpiredJobs(ts) THEN "recovery_required"
                               ELSE IF j \in AttentionJobs(ts) THEN "paused"
                               ELSE mark[j]]
    /\ UNCHANGED <<runVars, job, dispatches>>

FirstActive(r) == CHOOSE i \in ActiveAttempts(r) : \A k \in ActiveAttempts(r) : i <= k

\* SchedulerStore::resolve_recovery_for_retry.
ResolveRecovery(j, usage) ==
    /\ Reconciled(j) = "recovery_required"
    /\ ~worktree[j]
    /\ ActiveAttempts(j) # {}
    /\ AppendEvents({j}, clock)
    /\ attempts' = Closed(j, FirstActive(j), "failed", "retryable")
    /\ used' = [used EXCEPT ![j] = @ + usage]
    /\ mark' = [mark EXCEPT ![j] = "queued"]
    /\ UNCHANGED <<run, worktree, job, dispatches>>

Terminalize_AttemptLeft(j, status, usage) ==
    /\ Reconciled(j) \notin Terminal
    /\ AppendEvents({j}, clock)
    /\ used' = [used EXCEPT ![j] = @ + usage]
    /\ mark' = [mark EXCEPT ![j] = status]
    /\ run'  = [run EXCEPT ![j] = status]
    /\ UNCHANGED <<attempts, worktree, job, dispatches>>

\* SchedulerStore::cancel and ::timeout: close the active Attempt, if any, then
\* the job, then the Run, which may have no other active Attempt.
Terminalize(j, status, usage) ==
    /\ Reconciled(j) \notin Terminal
    /\ \/ /\ ActiveAttempts(j) = {}
          /\ usage = 0
          /\ attempts' = attempts
       \/ /\ ActiveAttempts(j) # {}
          /\ ActiveAttempts(j) = {FirstActive(j)}
          /\ attempts' = Closed(j, FirstActive(j), "failed", "blocked")
    /\ AppendEvents({j}, clock)
    /\ used' = [used EXCEPT ![j] = @ + usage]
    /\ mark' = [mark EXCEPT ![j] = status]
    /\ run'  = [run EXCEPT ![j] = status]
    /\ UNCHANGED <<worktree, job, dispatches>>

----------------------------------------------------------------------------
\* The Agent Run operations that race with the scheduler.

StartAttempt_Undispatched(r, c) ==
    /\ ~worktree[r]
    /\ ~Spent(RunBudget[r], used[r])
    /\ Len(attempts[r]) < MaxAttempts
    /\ AppendEvents({r}, clock)
    /\ attempts' = Started(r, c)
    /\ UNCHANGED <<run, worktree, used, jobVars>>

\* StartAttempt outside the scheduler.  Other Attempts of the Run may be
\* active.  For a scheduled Run verify_events refuses it: the Attempt would
\* have no dispatch.
StartAttempt(r, c) ==
    /\ r \notin Scheduled
    /\ ~worktree[r]
    /\ ~Spent(RunBudget[r], used[r])
    /\ Len(attempts[r]) < MaxAttempts
    /\ AppendEvents({r}, clock)
    /\ attempts' = Started(r, c)
    /\ UNCHANGED <<run, worktree, used, jobVars>>

PrepareWorktree(r) ==
    /\ ActiveAttempts(r) # {}
    /\ ~worktree[r]
    /\ AppendEvents({r}, clock)
    /\ worktree' = [worktree EXCEPT ![r] = TRUE]
    /\ UNCHANGED <<run, attempts, used, jobVars>>

\* CompleteAttempt and FailAttempt, reported by the worker.
CloseAttempt(r, i, status, failure, usage) ==
    /\ i \in ActiveAttempts(r)
    /\ AppendEvents({r}, clock)
    /\ attempts' = Closed(r, i, status, failure)
    /\ used' = [used EXCEPT ![r] = @ + usage]
    /\ UNCHANGED <<run, worktree, jobVars>>

CompleteAttempt(r, i, usage) == CloseAttempt(r, i, "succeeded", "none", usage)

FailAttempt(r, i, failure, usage) == CloseAttempt(r, i, "failed", failure, usage)

\* CompleteRun; for a worktree Run the completion gate, which module
\* WorktreeGate models, may refuse: here it may pass or not.
CompleteRun(r) ==
    /\ ActiveAttempts(r) = {}
    /\ \E i \in DOMAIN attempts[r] : attempts[r][i].status = "succeeded"
    /\ AppendEvents({r}, clock)
    /\ run' = [run EXCEPT ![r] = "succeeded"]
    /\ UNCHANGED <<attempts, worktree, used, jobVars>>

FailRun(r, status) ==
    /\ ActiveAttempts(r) = {}
    /\ AppendEvents({r}, clock)
    /\ run' = [run EXCEPT ![r] = status]
    /\ UNCHANGED <<attempts, worktree, used, jobVars>>

AdvanceClock ==
    /\ clock < MaxTime
    /\ clock' = clock + 1
    /\ UNCHANGED <<lastTs, runVars, jobVars>>

----------------------------------------------------------------------------
\* The specifications.

Init ==
    /\ clock = 0
    /\ lastTs     = [r \in Runs |-> 0]
    /\ run        = [r \in Runs |-> "running"]
    /\ attempts   = [r \in Runs |-> <<>>]
    /\ worktree   = [r \in Runs |-> FALSE]
    /\ used       = [r \in Runs |-> 0]
    /\ job        = [r \in {} |-> None]
    /\ mark       = [r \in Runs |-> "queued"]
    /\ dispatches = [r \in Runs |-> <<>>]

RunStep(r) ==
    \/ \E c \in Candidates : StartAttempt(r, c)
    \/ r \in WorktreeRuns /\ PrepareWorktree(r)
    \/ \E i \in DOMAIN attempts[r], usage \in Usages :
          \/ CompleteAttempt(r, i, usage)
          \/ \E failure \in {"retryable", "blocked"} : FailAttempt(r, i, failure, usage)
    \/ CompleteRun(r)
    \/ \E status \in FailStatuses : FailRun(r, status)

JobStep(j) ==
    \/ Pause(j)
    \/ Resume(j)
    \/ \E d \in DOMAIN dispatches[j], ts \in 0..clock, extension \in Extensions :
          RenewLease(j, d, ts, extension)
    \/ \E usage \in Usages :
          \/ ResolveRecovery(j, usage)
          \/ \E status \in FailStatuses \ {"failed"} : Terminalize(j, status, usage)

Operate ==
    \/ AdvanceClock
    \/ \E r \in Runs : RunStep(r)
    \/ \E r \in Runs, spec \in Specs, deps \in DepLists : Enqueue(r, spec, deps)
    \/ \E j \in Scheduled : JobStep(j)
    \/ \E ts \in 0..clock : Tick(ts)

Next ==
    \/ Operate
    \/ \E ts \in 0..clock : DispatchNamed(ts) \/ DispatchNext(ts)

Spec == Init /\ [][Next]_vars

\* A supervisor that keeps calling `schedule tick' with a fresh timestamp.
TickNow  == Tick(clock)
FairSpec == Spec /\ WF_vars(TickNow)

----------------------------------------------------------------------------
\* State invariants.

\* Every variable holds a value of its type.
TypeOK ==
    /\ clock      \in Nat
    /\ lastTs     \in [Runs -> Nat]
    /\ run        \in [Runs -> RunStatus]
    /\ attempts   \in [Runs -> Seq(Attempt)]
    /\ worktree   \in [Runs -> BOOLEAN]
    /\ used       \in [Runs -> Nat]
    /\ Scheduled \subseteq Runs /\ job \in [Scheduled -> Job]
    /\ mark       \in [Runs -> JobMarks]
    /\ dispatches \in [Runs -> Seq(Dispatch)]

\* The k-th Attempt of a scheduled Run is the one its k-th dispatch started.
AttemptsAreDispatched ==
    \A j \in Scheduled :
        /\ Len(attempts[j]) = Len(dispatches[j])
        /\ \A k \in DOMAIN dispatches[j] : dispatches[j][k].attempt = k

\* Two workers never hold the same job: whatever dispatchers, ticks, late
\* workers and operators race, only the Attempt of the newest dispatch of a
\* scheduled Run can be active.
SingleClaim ==
    \A j \in Scheduled : \A i \in ActiveAttempts(j) :
        dispatches[j] # <<>> /\ i = Latest(j).attempt

\* A worker is only ever active while its job says so: paused, queued and
\* terminal jobs have no active Attempt.
ActiveOnlyUnderLease ==
    \A j \in Scheduled :
        ActiveAttempts(j) # {} => Reconciled(j) \in {"running", "recovery_required"}

\* Cancelling or timing out a job ends the job and its Run together, and a
\* Run that has ended, however it ended, leaves no Attempt active.
TerminalTogether ==
    /\ \A r \in Runs : run[r] # "running" => ActiveAttempts(r) = {}
    /\ \A j \in Scheduled : mark[j] \in Terminal => run[j] = mark[j]

\* A job is started only once all its dependencies succeeded, and they stay so.
StartedAfterDependencies ==
    \A j \in Scheduled : dispatches[j] # <<>> =>
        \A k \in DOMAIN job[j].deps : run[job[j].deps[k]] = "succeeded"

\* The dependencies form a DAG: every set of jobs has one that waits for none
\* of the others.
DependenciesAcyclic ==
    \A S \in (SUBSET Scheduled) \ {{}} :
        \E j \in S : \A k \in DOMAIN job[j].deps : job[j].deps[k] \notin S

\* A job waits for its dependencies, and no enqueue makes jobs wait for each other.
DependenciesKept == StartedAfterDependencies /\ DependenciesAcyclic

\* Renewals included, a lease ends after it began, within the Attempt timeout
\* and, while the Attempt is active, within what is left of every duration
\* budget of the job.
LeaseWithinCaps ==
    \A j \in Scheduled :
        /\ \A k \in DOMAIN dispatches[j] :
              /\ dispatches[j][k].at < dispatches[j][k].expires
              /\ dispatches[j][k].expires <= dispatches[j][k].at + job[j].spec.timeout
        /\ ActiveAttempts(j) # {} =>
              \A deadline \in BudgetDeadlines(j) : Latest(j).expires <= deadline

\* The stored dispatches of a job all began inside its time window.
DispatchedInWindow ==
    \A j \in Scheduled : \A k \in DOMAIN dispatches[j] :
        /\ job[j].spec.notBefore # None => dispatches[j][k].at >= job[j].spec.notBefore
        /\ job[j].spec.deadline # None  => dispatches[j][k].at < job[j].spec.deadline

\* The dispatch ceiling and the ceiling of consecutive failures hold for the
\* whole life of a job, across pauses, resumes and recoveries.
RetryCeilings ==
    \A j \in Scheduled :
        /\ Len(dispatches[j]) <= job[j].spec.maxDispatches
        /\ FailureStreak(j) <= job[j].spec.maxFailures

\* What a job states and the policy allows holds for all its dispatches and leases
\* at once, whichever of renewal, expiry, recovery and retry came between.
JobLimitsKept == LeaseWithinCaps /\ DispatchedInWindow /\ RetryCeilings

\* Retries form a lineage: an Attempt follows only a failed one, and with the
\* same identity only when that failure is retryable.
RetryLineage ==
    \A j \in Scheduled : \A k \in 1..(Len(attempts[j]) - 1) :
        /\ attempts[j][k].status = "failed"
        /\ SameIdentity(attempts[j][k].candidate, attempts[j][k + 1].candidate)
              => attempts[j][k].failure = "retryable"

\* The history of a job goes forward although dispatchers, workers and ticks bring
\* timestamps they read before they had the lock: no lease begins before the job was
\* queued or before an earlier lease, and one that was taken from its worker is over
\* by the log's own time, so that what follows, the lease of a retry included, is
\* stamped after its end.
JobTimeGoesForward ==
    \A j \in Scheduled :
        /\ \A k \in DOMAIN dispatches[j] :
              /\ job[j].queuedAt <= dispatches[j][k].at
              /\ \A m \in 1..k : dispatches[j][m].at <= dispatches[j][k].at
              /\ dispatches[j][k].at <= lastTs[j]
        /\ mark[j] = "recovery_required" => Latest(j).expires <= lastTs[j]

----------------------------------------------------------------------------
\* Action properties.

Dispatched(j) == Len(dispatches'[j]) > Len(dispatches[j])

\* A dispatch never takes the active Attempts, those started outside the
\* scheduler included, over a limit of the policy: in all, on the Home it
\* chose, and on the model.
WithinLimits(c) ==
    /\ Cardinality(ActivePairs) <= MaxActive
    /\ Cardinality(ActiveOnHome(HomeOf[c])) <= HomeLimit[HomeOf[c]]
    /\ Cardinality(ActiveOnModel(ModelOf[c])) <= ModelLimit[ModelOf[c]]

ConcurrencyRespected ==
    [][\A j \in Scheduled, c \in Candidates :
          Dispatched(j) /\ attempts'[j][Len(attempts'[j])].candidate = c
              => WithinLimits(c)']_vars

\* Between a recovery mark and its resolution nothing is dispatched and no
\* lease is renewed; the mark is lifted only together with the closing of the
\* Attempt that had lost its lease, or by ending the job.
RecoveryBarrier(j) ==
    mark[j] = "recovery_required" =>
        /\ dispatches'[j] = dispatches[j]
        /\ \/ mark'[j] = "recovery_required"
           \/ mark'[j] \in Terminal
           \/ /\ mark'[j] = "queued"
              /\ ActiveAttempts(j) # {} /\ ActiveAttempts(j)' = {}

\* However stale the timestamp of a tick, it takes a lease from its worker only
\* after the lease has expired.
NoEarlyRecovery(j) ==
    mark'[j] = "recovery_required" /\ mark[j] # "recovery_required" =>
        Latest(j).expires <= clock

\* A renewal counts from its own timestamp: it never promises a lease past
\* maxLeaseMs from then, and never shortens one.
RenewalBounded(j) ==
    \A k \in DOMAIN dispatches[j] :
        dispatches'[j][k] # dispatches[j][k] =>
            /\ k = Len(dispatches[j])
            /\ dispatches'[j][k].expires > dispatches[j][k].expires
            /\ dispatches'[j][k].expires <= lastTs'[j] + MaxLease

\* A lease goes from one worker to the next only through its expiry, its recovery
\* and a new dispatch, whatever stale timestamps the calls bring.
LeaseDiscipline ==
    [][\A j \in Scheduled : RecoveryBarrier(j) /\ NoEarlyRecovery(j) /\ RenewalBounded(j)]_vars

----------------------------------------------------------------------------
\* What the documentation says and the code does not keep.

\* docs/scheduler.md: once the worker is reconciled, recover-retry closes the
\* expired Attempt of a job without a worktree, and the job can go on.  When
\* the worker reported its failure late there is nothing left to close.
RecoverRetryApplies ==
    \A j \in Scheduled :
        /\ Reconciled(j) = "recovery_required"
        /\ ~worktree[j]
        /\ \A i \in DOMAIN attempts[j] : attempts[j][i].status # "succeeded"
        => ActiveAttempts(j) # {}

----------------------------------------------------------------------------
\* Liveness.

LeaseOverdue(j) ==
    /\ j \in Scheduled
    /\ Reconciled(j) = "running"
    /\ Latest(j).expires <= clock

\* Under a supervisor that keeps ticking, no expired lease goes unnoticed: the
\* job leaves "running", or its worker still manages to renew.
ExpiredLeaseNoticed ==
    \A j \in Runs : LeaseOverdue(j) ~> ~LeaseOverdue(j)

=============================================================================
