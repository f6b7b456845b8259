------------------------------- MODULE Trace -------------------------------
(***************************************************************************)
(* The verification every append of the event log passes and every         *)
(* verified load repeats (observability.rs: ObservabilityEvent::validate,  *)
(* verify_events, verify_links).  The verifier walks the log once and      *)
(* keeps indexes of what it has seen; an event is accepted when its own    *)
(* fields are valid (ValidEvent) and its links agree with the indexes      *)
(* (Links), and then enters them (Indexed).  These are operators: the      *)
(* modules that write to a log keep the indexes as their state.            *)
(*                                                                         *)
(* An event id is the place of the event in the log, so ids are fresh, and *)
(* parentEventId, which no decision reads, is left out.  An owner is a     *)
(* Run, since a Run belongs to one task.  Labels, texts and paths, and the *)
(* checks of their wording, are left out, as is the content of a route     *)
(* decision but for what it selected.                                      *)
(***************************************************************************)
EXTENDS Integers, Sequences, SequencesExt, FiniteSets

CONSTANT None         \* an absent optional field

Failures    == {"failed", "cancelled", "timed_out"}
HealthTypes == {"quota_snapshot", "rate_limited", "auth_invalid", "home_health"}

\* EventDetails: the details an event of a type may carry; those an event of
\* the type must carry.
DetailsAllowed ==
    [task_created                |-> {"task"},
     run_started                 |-> {"budget"},
     route_decided               |-> {"routing"},
     attempt_started             |-> {"transition", "routeDecision"},
     worktree_prepared           |-> {"worktree"},
     worktree_evidence_recorded  |-> {"evidence"},
     worktree_review_recorded    |-> {"review"},
     worktree_conflict_checked   |-> {"conflict"},
     scheduler_job_queued        |-> {"job"},
     scheduler_dispatch_decided  |-> {"dispatch"},
     scheduler_dispatch_deferred |-> {"deferred"},
     scheduler_job_paused        |-> {"change"},
     scheduler_job_resumed       |-> {"change"},
     scheduler_job_cancelled     |-> {"change"},
     scheduler_job_timed_out     |-> {"change"},
     scheduler_recovery_required |-> {"change"},
     scheduler_recovery_resolved |-> {"change"},
     scheduler_lease_renewed     |-> {"lease"},
     artifact_created            |-> {"artifact"},
     verification_completed      |-> {"verification", "target"},
     run_completed               |-> {"final"},
     run_failed                  |-> {},
     thread_linked               |-> {},
     tool_call_completed         |-> {},
     attempt_completed           |-> {},
     attempt_failed              |-> {},
     quota_snapshot              |-> {},
     rate_limited                |-> {},
     auth_invalid                |-> {},
     home_health                 |-> {}]

EventTypes      == DOMAIN DetailsAllowed
StateChanges    == {type \in EventTypes : DetailsAllowed[type] = {"change"}}
DetailsRequired ==
    [type \in EventTypes |->
        DetailsAllowed[type] \cap {"routing", "worktree", "evidence", "review", "conflict",
                                   "job", "dispatch", "deferred", "change", "lease"}]

\* ObservabilityEvent, with the fields no type requires left empty.  `subject'
\* is what the type is about: a tool, a kind of artifact or of verification, or
\* a health snapshot.
Event(type, status, task, run, attempt, ts) ==
    [id |-> None, type |-> type, status |-> status, task |-> task, run |-> run, attempt |-> attempt,
     ts |-> ts, thread |-> None, parentThread |-> None, identity |-> None,
     subject |-> None, usage |-> None, failure |-> None,
     details |-> <<>>]

Has(e, detail) == detail \in DOMAIN e.details

\* An artifact or a verification without an id of its own has that of its event.
Artifact(e)     == IF Has(e, "artifact") THEN e.details.artifact ELSE e.id
Verification(e) == IF Has(e, "verification") THEN e.details.verification ELSE e.id

----------------------------------------------------------------------------
\* validate: what an event must be on its own.

ValidBudget(b) == /\ \E limit \in DOMAIN b : b[limit] # None
                  /\ \A limit \in DOMAIN b : b[limit] # 0

ValidEvidence(d) == d.commits > 0 /\ d.base # d.head /\ d.tested = (d.exit = 0)

ValidConflict(d) == IF d.free THEN d.disposition = "none"
                              ELSE d.disposition \in {"human_required", "replan_requested"}

\* validate_scheduler_job: no dependency on itself, and none twice.
ValidJob(e, d) == d.run = e.run /\ d.id \notin ToSet(d.deps) /\ IsInjective(d.deps)

ValidDispatch(e, d) == d.ordinal > 0 /\ d.expires > d.leased /\ d.attempt = e.attempt

\* A decision that succeeded names what it selected; one that failed must not.
ValidRouting(e, d) ==
    /\ e.status \in {"succeeded", "failed"}
    /\ e.status = "succeeded" <=> d.candidate # None
    /\ e.status = "succeeded" => e.identity # None

ValidDetails(e) ==
    /\ DOMAIN e.details \subseteq DetailsAllowed[e.type]
    /\ Has(e, "budget")   => ValidBudget(e.details.budget)
    /\ Has(e, "routing")  => ValidRouting(e, e.details.routing)
    /\ Has(e, "worktree") => e.details.worktree.base = e.details.worktree.head
    /\ Has(e, "evidence") => ValidEvidence(e.details.evidence)
    /\ Has(e, "conflict") => ValidConflict(e.details.conflict)
    /\ Has(e, "job")      => ValidJob(e, e.details.job)
    /\ Has(e, "dispatch") => ValidDispatch(e, e.details.dispatch)
    /\ Has(e, "lease")    => e.details.lease.expires > e.details.lease.previous
    /\ Has(e, "final")    => IsInjective(e.details.final)

RequiresIdentity == {"attempt_started", "worktree_prepared", "worktree_evidence_recorded",
                     "worktree_review_recorded", "worktree_conflict_checked",
                     "scheduler_dispatch_decided", "scheduler_lease_renewed",
                     "scheduler_recovery_required", "scheduler_recovery_resolved",
                     "attempt_completed", "attempt_failed", "tool_call_completed",
                     "artifact_created", "verification_completed"} \cup HealthTypes
RequiresSubject  == {"tool_call_completed", "artifact_created", "verification_completed"}
                    \cup HealthTypes
RequiresFailure(e) == \/ e.type \in {"attempt_failed", "run_failed", "rate_limited", "auth_invalid"}
                      \/ e.type = "route_decided" /\ e.status = "failed"

StatusFits_EndsFree(e) == e.type = "scheduler_job_queued" => e.status = "started"

\* The statuses a type admits; types that are not listed admit any.
StatusFits(e) ==
    CASE e.type = "scheduler_job_queued"                            -> e.status = "started"
      [] e.type = "scheduler_dispatch_decided"                      -> e.status = "succeeded"
      [] e.type \in {"scheduler_dispatch_deferred", "scheduler_job_paused",
                     "scheduler_recovery_required"}                 -> e.status = "degraded"
      [] e.type \in {"scheduler_job_resumed", "scheduler_lease_renewed",
                     "scheduler_recovery_resolved"}                 -> e.status = "running"
      [] e.type = "scheduler_job_cancelled"                         -> e.status = "cancelled"
      [] e.type = "scheduler_job_timed_out"                         -> e.status = "timed_out"
      [] e.type \in {"attempt_completed", "run_completed"}          -> e.status = "succeeded"
      [] e.type \in {"attempt_failed", "run_failed"}                -> e.status \in Failures
      [] OTHER                                                      -> TRUE

\* validate_event_shape.
ValidShape(e) ==
    /\ e.type \in RequiresIdentity => e.identity # None
    /\ DetailsRequired[e.type] \subseteq DOMAIN e.details
    /\ e.type \in RequiresSubject => e.subject # None
    /\ StatusFits(e)
    /\ RequiresFailure(e) => e.failure # None
    /\ e.type = "task_created" => e.run = None /\ e.attempt = None /\ e.thread = None

ValidEvent(e) == ValidDetails(e) /\ ValidShape(e)

----------------------------------------------------------------------------
\* TraceIndexes.  A partial function is a function whose domain grows.

NoIndexes ==
    [events |-> 0, lastTs |-> <<>>,
     tasks |-> {}, runs |-> <<>>, terminalRuns |-> {},        \* runs: Run -> task
     attempts |-> <<>>, terminalAttempts |-> <<>>,            \* attempts: -> Run
     threads |-> <<>>, artifacts |-> <<>>, verifications |-> {},
     decisions |-> <<>>,
     worktrees |-> <<>>, evidence |-> <<>>, reviews |-> {}, checks |-> {},
     jobs |-> <<>>, dispatches |-> <<>>, leases |-> <<>>,     \* jobs: -> Run
     paused |-> {}, terminalJobs |-> {}, recovery |-> {}]

Put(f, key, value) == [k \in DOMAIN f \cup {key} |-> IF k = key THEN value ELSE f[k]]

RunLink(i, e)     == e.run \in DOMAIN i.runs /\ i.runs[e.run] = e.task
AttemptLink(i, e) == e.attempt \in DOMAIN i.attempts /\ i.attempts[e.attempt] = e.run
OwnThread(i, e, thread) == thread # None =>
    thread \in DOMAIN i.threads /\ i.threads[thread] = e.run
OwnArtifact(i, e, artifact) ==
    artifact \in DOMAIN i.artifacts /\ i.artifacts[artifact] = e.run
OwnJob(i, e, job) == job \in DOMAIN i.jobs /\ i.jobs[job] = e.run

TransitionLink_AnyEnd(i, e) ==
    Has(e, "transition") /\ e.details.transition.kind # "initial" =>
        LET from == e.details.transition.from
        IN  from \in DOMAIN i.attempts /\ i.attempts[from] = e.run

\* verify_attempt_transition: what continues must continue a failure of its Run.
TransitionLink(i, e) ==
    Has(e, "transition") =>
        LET kind == e.details.transition.kind
            from == e.details.transition.from
        IN  IF kind = "initial" THEN from = None
            ELSE /\ from \in DOMAIN i.terminalAttempts
                 /\ i.attempts[from] = e.run
                 /\ i.terminalAttempts[from].status # "succeeded"
                 /\ kind = "retry" => i.terminalAttempts[from].retryable

SameIdentity(a, b) == a # None /\ b # None /\ a.home = b.home /\ a.model = b.model

\* verify_route_decision_link: Home, account and model are the selected ones.
DecisionLink(i, e) ==
    Has(e, "routeDecision") =>
        LET id == e.details.routeDecision
        IN  /\ id \in DOMAIN i.decisions
            /\ i.decisions[id].run = e.run
            /\ SameIdentity(i.decisions[id].identity, e.identity)

----------------------------------------------------------------------------
\* verify_links: when the links of an event agree with what came before it.

TaskLinks(i, e)  == e.type = "task_created" /\ e.task \notin i.tasks

StartLinks(i, e) ==
    \/ /\ e.type = "run_started"
       /\ e.task \in i.tasks /\ e.run \notin DOMAIN i.runs
    \/ /\ e.type = "attempt_started"
       /\ RunLink(i, e) /\ e.attempt \notin DOMAIN i.attempts
       /\ TransitionLink(i, e) /\ DecisionLink(i, e)

ThreadLinks(i, e) ==
    /\ e.type = "thread_linked"
    /\ RunLink(i, e)
    /\ e.attempt # None => AttemptLink(i, e)
    /\ e.thread # None /\ e.thread \notin DOMAIN i.threads
    \* the thread is entered before its parent is looked up
    /\ e.parentThread # e.thread => OwnThread(i, e, e.parentThread)

\* A decision must have been evaluated on exactly the log it is appended to.
DecisionLinks(i, e) ==
    /\ e.type = "route_decided"
    /\ RunLink(i, e)
    /\ e.details.routing.observed = i.events

PreparedLinks(i, e) ==
    /\ e.type = "worktree_prepared"
    /\ RunLink(i, e) /\ AttemptLink(i, e)
    /\ e.run \notin DOMAIN i.worktrees

EvidenceLinks(i, e) ==
    /\ e.type = "worktree_evidence_recorded"
    /\ RunLink(i, e) /\ AttemptLink(i, e)
    /\ e.run \in DOMAIN i.worktrees
    /\ i.worktrees[e.run] = [attempt |-> e.attempt, identity |-> e.identity]
    /\ e.details.evidence.id \notin DOMAIN i.evidence

OwnEvidence(i, e, id) == id \in DOMAIN i.evidence /\ i.evidence[id].run = e.run

ReviewLinks(i, e) ==
    /\ e.type = "worktree_review_recorded"
    /\ RunLink(i, e) /\ AttemptLink(i, e)
    /\ OwnEvidence(i, e, e.details.review.evidence)
    /\ e.identity.home # i.worktrees[e.run].identity.home
    /\ e.identity.role = "main_reviewer"
    /\ e.details.review.id \notin i.reviews

ConflictLinks(i, e) ==
    /\ e.type = "worktree_conflict_checked"
    /\ RunLink(i, e) /\ AttemptLink(i, e)
    /\ OwnEvidence(i, e, e.details.conflict.evidence)
    /\ i.evidence[e.details.conflict.evidence].head = e.details.conflict.head
    /\ e.details.conflict.id \notin i.checks

QueuedLinks(i, e) ==
    /\ e.type = "scheduler_job_queued"
    /\ RunLink(i, e)
    /\ LET job == e.details.job.id
       IN  /\ job \notin DOMAIN i.jobs
           /\ \A other \in DOMAIN i.jobs : i.jobs[other] # e.run
           \* the job is entered before its dependencies are looked up
           /\ ToSet(e.details.job.deps) \subseteq DOMAIN i.jobs \cup {job}

DispatchesOf(i, job) == {d \in DOMAIN i.dispatches : i.dispatches[d].job = job}

DispatchLinks(i, e) ==
    /\ e.type = "scheduler_dispatch_decided"
    /\ RunLink(i, e) /\ AttemptLink(i, e)
    /\ LET d == e.details.dispatch
       IN  /\ OwnJob(i, e, d.job)
           /\ d.job \notin i.paused \cup i.terminalJobs
           /\ d.decision \in DOMAIN i.decisions
           /\ i.decisions[d.decision] =
                [run |-> e.run, identity |-> e.identity, candidate |-> d.candidate]
           /\ d.ordinal = Cardinality(DispatchesOf(i, d.job)) + 1
           /\ d.id \notin DOMAIN i.dispatches
           /\ d.lease \notin DOMAIN i.leases

DeferredLinks(i, e) ==
    /\ e.type = "scheduler_dispatch_deferred"
    /\ RunLink(i, e) /\ OwnJob(i, e, e.details.deferred.job)
    /\ LET decision == e.details.deferred.decision
       IN  decision # None => /\ decision \in DOMAIN i.decisions
                              /\ i.decisions[decision].run = e.run

ChangeLinks(i, e) ==
    /\ e.type \in StateChanges
    /\ RunLink(i, e)
    /\ LET job == e.details.change.job
       IN  /\ OwnJob(i, e, job)
           /\ job \notin i.terminalJobs
           /\ e.type = "scheduler_job_paused"        => job \notin i.paused
           /\ e.type = "scheduler_job_resumed"       => job \in i.paused
           /\ e.type = "scheduler_recovery_required" => job \notin i.recovery
           /\ e.type = "scheduler_recovery_resolved" => job \in i.recovery

RenewalLinks(i, e) ==
    /\ e.type = "scheduler_lease_renewed"
    /\ RunLink(i, e)
    /\ LET l == e.details.lease
       IN  /\ OwnJob(i, e, l.job)
           /\ l.id \in DOMAIN i.leases
           /\ i.leases[l.id] = [job |-> l.job, dispatch |-> l.dispatch, expires |-> l.previous]

\* What an active Attempt, or its end, appends.
AttemptLinks(i, e) ==
    /\ e.type \in {"attempt_completed", "attempt_failed", "tool_call_completed",
                   "artifact_created", "verification_completed"}
    /\ RunLink(i, e) /\ AttemptLink(i, e)
    /\ OwnThread(i, e, e.thread)
    /\ e.type \in {"attempt_completed", "attempt_failed"} =>
            e.attempt \notin DOMAIN i.terminalAttempts
    /\ e.type = "artifact_created" => Artifact(e) \notin DOMAIN i.artifacts
    /\ e.type = "verification_completed" =>
            /\ Verification(e) \notin i.verifications
            /\ Has(e, "target") => OwnArtifact(i, e, e.details.target)

OwnAttempts(i, run) == {a \in DOMAIN i.attempts : i.attempts[a] = run}

EndLinks(i, e) ==
    /\ e.type \in {"run_completed", "run_failed"}
    /\ RunLink(i, e)
    /\ OwnAttempts(i, e.run) \subseteq DOMAIN i.terminalAttempts
    /\ e.type = "run_completed" =>
            \E a \in OwnAttempts(i, e.run) : i.terminalAttempts[a].status = "succeeded"
    /\ Has(e, "final") => \A artifact \in ToSet(e.details.final) : OwnArtifact(i, e, artifact)

\* What may still be reported of a Run that has ended.
AfterTheEnd(i, e) == e.run \in i.terminalRuns => e.type \in HealthTypes

\* verify_events, for one event of the log.
Links(i, e) ==
    /\ e.run \in DOMAIN i.lastTs => e.ts >= i.lastTs[e.run]
    /\ AfterTheEnd(i, e)
    /\ \/ TaskLinks(i, e)     \/ StartLinks(i, e)    \/ ThreadLinks(i, e)
       \/ DecisionLinks(i, e) \/ PreparedLinks(i, e) \/ EvidenceLinks(i, e)
       \/ ReviewLinks(i, e)   \/ ConflictLinks(i, e) \/ QueuedLinks(i, e)
       \/ DispatchLinks(i, e) \/ DeferredLinks(i, e) \/ ChangeLinks(i, e)
       \/ RenewalLinks(i, e)  \/ AttemptLinks(i, e)  \/ EndLinks(i, e)
       \/ e.type \in HealthTypes

----------------------------------------------------------------------------
\* The indexes after an accepted event.

IndexedLife(i, e) ==
    CASE e.type = "task_created"    -> [i EXCEPT !.tasks = @ \cup {e.task}]
      [] e.type = "run_started"     -> [i EXCEPT !.runs = Put(@, e.run, e.task)]
      [] e.type = "attempt_started" -> [i EXCEPT !.attempts = Put(@, e.attempt, e.run)]
      [] e.type = "thread_linked"   -> [i EXCEPT !.threads = Put(@, e.thread, e.run)]
      [] e.type = "route_decided"   ->
            [i EXCEPT !.decisions = Put(@, i.events + 1,
                [run |-> e.run, identity |-> e.identity,
                 candidate |-> e.details.routing.candidate])]
      [] e.type \in {"attempt_completed", "attempt_failed"} ->
            [i EXCEPT !.terminalAttempts = Put(@, e.attempt,
                [status |-> e.status,
                 retryable |-> e.failure # None /\ e.failure.retryable])]
      [] e.type = "artifact_created" ->
            [i EXCEPT !.artifacts = Put(@, Artifact(e), e.run)]
      [] e.type = "verification_completed" ->
            [i EXCEPT !.verifications = @ \cup {Verification(e)}]
      [] e.type \in {"run_completed", "run_failed"} ->
            [i EXCEPT !.terminalRuns = @ \cup {e.run}]
      [] OTHER -> i

IndexedWorktree(i, e) ==
    CASE e.type = "worktree_prepared" ->
            [i EXCEPT !.worktrees =
                Put(@, e.run, [attempt |-> e.attempt, identity |-> e.identity])]
      [] e.type = "worktree_evidence_recorded" ->
            [i EXCEPT !.evidence = Put(@, e.details.evidence.id,
                [run |-> e.run, head |-> e.details.evidence.head])]
      [] e.type = "worktree_review_recorded"  ->
            [i EXCEPT !.reviews = @ \cup {e.details.review.id}]
      [] e.type = "worktree_conflict_checked" ->
            [i EXCEPT !.checks = @ \cup {e.details.conflict.id}]
      [] OTHER -> i

\* A dispatch takes its job out of recovery_required, whatever was resolved.
IndexedScheduler(i, e) ==
    CASE e.type = "scheduler_job_queued" ->
            [i EXCEPT !.jobs = Put(@, e.details.job.id, e.run)]
      [] e.type = "scheduler_dispatch_decided" ->
            LET d == e.details.dispatch
            IN  [i EXCEPT
                    !.dispatches = Put(@, d.id, [job |-> d.job, attempt |-> e.attempt]),
                    !.leases     = Put(@, d.lease, [job |-> d.job, dispatch |-> d.id,
                                                    expires |-> d.expires]),
                    !.recovery   = @ \ {d.job}]
      [] e.type = "scheduler_lease_renewed" ->
            [i EXCEPT !.leases[e.details.lease.id].expires = e.details.lease.expires]
      [] e.type \in StateChanges ->
            LET job == e.details.change.job
                on  == e.type \in {"scheduler_job_cancelled", "scheduler_job_timed_out"}
            IN  [i EXCEPT
                    !.paused       = IF e.type = "scheduler_job_paused" THEN @ \cup {job}
                                     ELSE IF on \/ e.type = "scheduler_job_resumed"
                                     THEN @ \ {job} ELSE @,
                    !.terminalJobs = IF on THEN @ \cup {job} ELSE @,
                    !.recovery     = CASE e.type = "scheduler_recovery_required" -> @ \cup {job}
                                       [] e.type = "scheduler_recovery_resolved" -> @ \ {job}
                                       [] OTHER -> @]
      [] OTHER -> i

Indexed(i, e) ==
    LET j == IndexedScheduler(IndexedWorktree(IndexedLife(i, e), e), e)
    IN  [j EXCEPT !.events = @ + 1,
                  !.lastTs = IF e.run = None THEN @ ELSE Put(@, e.run, e.ts)]

\* Checked once at the end of the log: an Attempt of a Run that has a job must
\* have come from a dispatch.
AllDispatched(i) ==
    \A a \in DOMAIN i.attempts :
        (\E job \in DOMAIN i.jobs : i.jobs[job] = i.attempts[a])
            => \E d \in DOMAIN i.dispatches : i.dispatches[d].attempt = a

\* The verifier goes on over one event, unless it has refused one.
Accepting(v, e) == IF v.ok /\ ValidEvent(e) /\ Links(v.indexes, e)
                   THEN [ok |-> TRUE, indexes |-> Indexed(v.indexes, e)]
                   ELSE [v EXCEPT !.ok = FALSE]

\* The verifier over a batch that is appended to an accepted log.
Verified(i, batch) ==
    LET end == FoldLeft(Accepting, [ok |-> TRUE, indexes |-> i], batch)
    IN  [end EXCEPT !.ok = @ /\ AllDispatched(end.indexes)]
=============================================================================
