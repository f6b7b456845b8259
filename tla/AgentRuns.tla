----------------------------- MODULE AgentRuns -----------------------------
(***************************************************************************)
(* Agent Runs outside the scheduler (agent_runs.rs) over the verified      *)
(* event log (observability.rs, module Trace).  The program keeps no state *)
(* but the log; three folds of it matter, and they are the variables here: *)
(*                                                                         *)
(*   trace    the indexes of the verifier, which decides what may be       *)
(*            appended,                                                    *)
(*   view     the projection (project_agent_runs), which the commands      *)
(*            decide on,                                                   *)
(*   totals   the summary (summarize), which accounts for the work.        *)
(*                                                                         *)
(* They are three separate pieces of code over one log.  An action is one  *)
(* append, under the lock of the store: a command that builds its event    *)
(* from the projection (build_action_event), or `observe record', which    *)
(* appends events from outside that only the verifier looks at.  A         *)
(* timestamp is any of a few: the clock of the system may be set back.     *)
(*                                                                         *)
(* Usage is tokens, in and out, and duration; cost and the cached tokens   *)
(* behave as the duration does.  An account belongs to its model.  Whether *)
(* the worktree still is what its evidence says (verify_current) is left   *)
(* open; module WorktreeGate looks at that.                                *)
(***************************************************************************)
EXTENDS Trace, TLC, Functions

CONSTANTS
    Tasks, Threads, Artifacts,    \* ids callers may use
    MaxRuns, MaxAttempts, MaxPieces,    \* how many of the ids that are numbers
    Commits,      \* commits the HEAD of a worktree may be at, from 1
    Identities,   \* records of a home, a model and a role
    MaxCount,     \* the largest number a counter of the program holds (u64)
    Times,        \* timestamps the system clock may show
    Scopes        \* bounds of the model, see BoundsAssumption

VARIABLES trace, view, totals,
          scope         \* the member of Scopes this behaviour is bound by

vars == <<trace, view, totals, scope>>

\* The events `observe record' brings.
OutsideTypes ==
    {"attempt_started", "attempt_completed", "attempt_failed", "run_completed", "run_failed",
     "artifact_created", "worktree_evidence_recorded", "worktree_review_recorded",
     "worktree_conflict_checked", "scheduler_job_queued", "scheduler_dispatch_decided",
     "scheduler_dispatch_deferred", "scheduler_lease_renewed"} \cup HealthTypes \cup StateChanges

\* A scope is the kinds of commands and of events from outside one behaviour
\* has, the budgets, the usage and the timestamps they name, and how many Runs,
\* Attempts and events there are at most.
Uses == [input : 0..MaxCount, output : 0..MaxCount, duration : 0..MaxCount]

ASSUME BoundsAssumption ==
    /\ MaxCount \in Nat /\ MaxRuns \in Nat /\ MaxAttempts \in Nat /\ MaxPieces \in Nat
    /\ \A s \in Scopes :
        /\ DOMAIN s = {"commands", "outside", "budgets", "usages", "times", "runs", "attempts",
                     "events"}
        /\ s.usages \subseteq Uses /\ s.outside \subseteq OutsideTypes /\ s.events \in Nat

Runs     == 1..MaxRuns
Attempts == 1..MaxAttempts
Pieces   == 1..MaxPieces    \* evidence, reviews, checks, verifications and jobs
Homes    == {i.home : i \in Identities}

\* What is recorded of a worktree, and so of what is None where there is none.
EvidenceRecord == [id : Pieces, base : {0}, head : Commits, commits : {1}, clean : BOOLEAN,
                   tested : BOOLEAN, exit : {0, 1}]
ReviewRecord   == [id : Pieces, evidence : Pieces, decision : {"approved", "rejected"}]
CheckRecord    == [id : Pieces, evidence : Pieces, head : Commits, free : BOOLEAN,
                   disposition : {"none", "human_required"}]
WorktreeRecord == [attempt : Attempts, identity : Identities, base : {0},
                   evidence : Seq(EvidenceRecord), reviews : Seq(ReviewRecord),
                   checks : Seq(CheckRecord)]

ASSUME NoneAssumption ==
    None \notin Identities \cup WorktreeRecord \cup EvidenceRecord \cup ReviewRecord \cup CheckRecord

----------------------------------------------------------------------------
\* The projection.

NoUse == [tokens |-> 0, duration |-> 0, failedTokens |-> 0, failedDuration |-> 0]

NewRun(task, budget) ==
    [task |-> task, status |-> "running", budget |-> budget, used |-> NoUse,
     decisions |-> {}, attempts |-> <<>>, threads |-> {}, tools |-> 0,
     artifacts |-> {}, verifications |-> {}, worktree |-> None, final |-> <<>>]

NewAttempt(e) ==
    [id |-> e.attempt, status |-> "running", identity |-> e.identity,
     transition |-> IF Has(e, "transition") THEN e.details.transition
                    ELSE [kind |-> "initial", from |-> None],
     decision |-> IF Has(e, "routeDecision") THEN e.details.routeDecision ELSE None,
     threads |-> {}, usage |-> None, failure |-> None]

\* add_consumption.
Consumed(used, usage, status) ==
    LET failed == status # "succeeded"
        tokens == usage.input + usage.output
    IN  [tokens         |-> used.tokens + tokens,
         duration       |-> used.duration + usage.duration,
         failedTokens   |-> used.failedTokens + IF failed THEN tokens ELSE 0,
         failedDuration |-> used.failedDuration + IF failed THEN usage.duration ELSE 0]

Place(run, attempt) == {n \in DOMAIN run.attempts : run.attempts[n].id = attempt}

\* What the projection does with one event of a known Run.
Projected(run, e) ==
    LET ended  == IF e.failure = None THEN None ELSE e.failure
        at     == CHOOSE n \in Place(run, e.attempt) : TRUE
    IN
    CASE e.type = "route_decided"   -> [run EXCEPT !.decisions = @ \cup {e.id}]
      [] e.type = "attempt_started" -> [run EXCEPT !.attempts = Append(@, NewAttempt(e))]
      [] e.type = "worktree_prepared" ->
            [run EXCEPT !.worktree = [attempt |-> e.attempt, identity |-> e.identity,
                                      base |-> e.details.worktree.base,
                                      evidence |-> <<>>, reviews |-> <<>>, checks |-> <<>>]]
      [] e.type = "worktree_evidence_recorded" ->
            [run EXCEPT !.worktree.evidence = Append(@, e.details.evidence)]
      [] e.type = "worktree_review_recorded" ->
            [run EXCEPT !.worktree.reviews = Append(@, e.details.review)]
      [] e.type = "worktree_conflict_checked" ->
            [run EXCEPT !.worktree.checks = Append(@, e.details.conflict)]
      [] e.type = "thread_linked" /\ e.attempt = None -> [run EXCEPT !.threads = @ \cup {e.thread}]
      [] e.type = "thread_linked" /\ e.attempt # None ->
            [run EXCEPT !.threads = @ \cup {e.thread},
                        !.attempts[at].threads = @ \cup {e.thread}]
      [] e.type = "tool_call_completed" -> [run EXCEPT !.tools = @ + 1]
      [] e.type = "artifact_created" ->
            [run EXCEPT !.artifacts = @ \cup {[id |-> Artifact(e), attempt |-> e.attempt]}]
      [] e.type = "verification_completed" ->
            [run EXCEPT !.verifications = @ \cup {Verification(e)}]
      [] e.type \in {"attempt_completed", "attempt_failed"} ->
            [run EXCEPT !.attempts[at] = [@ EXCEPT !.status  = e.status,
                                                   !.usage   = e.usage,
                                                   !.failure = ended],
                        !.used = Consumed(@, e.usage, e.status)]
      [] e.type \in {"run_completed", "run_failed"} ->
            [run EXCEPT !.status = e.status,
                        !.final  = IF Has(e, "final") THEN e.details.final ELSE <<>>]
      [] OTHER -> run

\* The types the projection reads the Run of, and those it reads the Attempt of.
Unprojected == HealthTypes \cup StateChanges \cup
    {"scheduler_job_queued", "scheduler_dispatch_decided", "scheduler_dispatch_deferred",
     "scheduler_lease_renewed"}

Projects_Unchecked(v, e) ==
    /\ e.type = "run_started" => e.task \in DOMAIN v.tasks
    /\ e.type \notin Unprojected \cup {"task_created", "run_started"} => e.run \in DOMAIN v.runs

\* When project_agent_runs does not fail on an event.
Projects(v, e) ==
    CASE e.type = "task_created"   -> TRUE
      [] e.type = "run_started"    -> e.task \in DOMAIN v.tasks
      [] e.type \in Unprojected    -> TRUE
      [] OTHER ->
            /\ e.run \in DOMAIN v.runs
            /\ \/ e.type \in {"attempt_completed", "attempt_failed"}
               \/ e.type = "thread_linked" /\ e.attempt # None
               => Place(v.runs[e.run], e.attempt) # {}
            /\ e.type \in {"worktree_evidence_recorded", "worktree_review_recorded",
                           "worktree_conflict_checked"}
               => v.runs[e.run].worktree # None
            /\ e.type \in {"attempt_completed", "attempt_failed", "run_completed", "run_failed"} =>
                    e.status \in {"succeeded"} \cup Failures
            /\ e.type \in {"attempt_completed", "attempt_failed"} =>
                    LET sum == Consumed(v.runs[e.run].used, e.usage, e.status)
                    IN  \A dimension \in DOMAIN sum : sum[dimension] <= MaxCount

\* project_agent_runs, one event on.  A failure fails every later report.
Folded(v, e) ==
    IF ~v.ok \/ ~Projects(v, e) THEN [v EXCEPT !.ok = FALSE]
    ELSE CASE e.type = "task_created" -> [v EXCEPT !.tasks = Put(@, e.task, {})]
           [] e.type = "run_started"  ->
                [v EXCEPT !.tasks[e.task] = @ \cup {e.run},
                          !.runs = Put(@, e.run,
                            NewRun(e.task, IF Has(e, "budget") THEN e.details.budget ELSE None))]
           [] e.type \in Unprojected  -> v
           [] OTHER -> [v EXCEPT !.runs[e.run] = Projected(@, e)]

Reached_Past(limit, amount) == limit # None /\ amount > limit

\* budget_state.
Reached(limit, amount) == limit # None /\ amount >= limit

Exhausted(run) ==
    /\ run.budget # None
    /\ \/ Reached(run.budget.tokens, run.used.tokens)
       \/ Reached(run.budget.duration, run.used.duration)
       \/ Reached(run.budget.attempts, Len(run.attempts))

ActiveAttempts(run) == {n \in DOMAIN run.attempts : run.attempts[n].status = "running"}

\* recovery: what the report of a Run says may be done next.
MayContinue(run) ==
    /\ run.status = "running" /\ ~Exhausted(run) /\ ActiveAttempts(run) = {}
    /\ run.attempts # <<>>
    /\ Last(run.attempts).status # "succeeded"

CanMigrate(run) == MayContinue(run)
CanRetry(run)   == MayContinue(run) /\ Last(run.attempts).failure # None
                                    /\ Last(run.attempts).failure.retryable

----------------------------------------------------------------------------
\* The summary.

NoTotals == [completed |-> 0, failed |-> 0, tools |-> 0, artifacts |-> 0,
             input |-> 0, output |-> 0, duration |-> 0]

Added_AnyUsage(t, e) ==
    LET used == [t EXCEPT !.input = @ + e.usage.input, !.output = @ + e.usage.output,
                          !.duration = @ + e.usage.duration]
    IN  CASE e.type = "attempt_completed"   -> [used EXCEPT !.completed = @ + 1]
          [] e.type = "attempt_failed"      -> [used EXCEPT !.failed = @ + 1]
          [] e.type = "tool_call_completed" -> [used EXCEPT !.tools = @ + 1]
          [] e.type = "artifact_created"    -> [t EXCEPT !.artifacts = @ + 1]
          [] OTHER -> t

\* Accumulator::add: usage counts at the end of an Attempt and nowhere else.
Added(t, e) ==
    CASE e.type \in {"attempt_completed", "attempt_failed"} ->
            [t EXCEPT !.completed = IF e.type = "attempt_completed" THEN @ + 1 ELSE @,
                      !.failed    = IF e.type = "attempt_failed" THEN @ + 1 ELSE @,
                      !.input     = @ + e.usage.input,
                      !.output    = @ + e.usage.output,
                      !.duration  = @ + e.usage.duration]
      [] e.type = "tool_call_completed" -> [t EXCEPT !.tools = @ + 1]
      [] e.type = "artifact_created"    -> [t EXCEPT !.artifacts = @ + 1]
      [] OTHER -> t

\* summarize: over all events, and over those of each Home.
Summed(s, e) ==
    LET all  == Added(s.all, e)
        home == IF e.identity = None THEN s.byHome
                ELSE [s.byHome EXCEPT ![e.identity.home] = Added(@, e)]
        ok   == s.ok /\ all.input <= MaxCount /\ all.output <= MaxCount
                     /\ all.duration <= MaxCount
    IN  IF ok THEN [ok |-> TRUE, all |-> all, byHome |-> home] ELSE [s EXCEPT !.ok = FALSE]

----------------------------------------------------------------------------
\* Appends.

\* Bounds of the model.  Ids are only compared, so new ones that are numbers are
\* taken in their order.
InOrder(ids) == ids = 1..Cardinality(ids)

Within(i) ==
    /\ Cardinality(DOMAIN i.runs) <= scope.runs
    /\ Cardinality(DOMAIN i.attempts) <= scope.attempts
    /\ \A ids \in {DOMAIN i.runs, DOMAIN i.attempts, DOMAIN i.jobs, DOMAIN i.evidence,
                   i.reviews, i.checks, i.verifications} : InOrder(ids)

\* append_checked: the batch is accepted whole by the verifier or refused.
Commit(batch) ==
    /\ trace.events + Len(batch) <= scope.events
    /\ batch[1].ts \in scope.times
    /\ LET numbered == [k \in DOMAIN batch |-> [batch[k] EXCEPT !.id = trace.events + k]]
           verified == Verified(trace, numbered)
       IN
        /\ verified.ok
        /\ Within(verified.indexes)
        /\ trace'  = verified.indexes
        /\ view'   = FoldLeft(Folded, view, numbered)
        /\ totals' = FoldLeft(Summed, totals, numbered)
        /\ UNCHANGED scope

\* apply: nothing can be decided on a log that cannot be projected.
Command(name) == name \in scope.commands /\ view.ok
Apply(e) == Commit(<<e>>)

AllAttempts == UNION {{view.runs[r].attempts[n].id : n \in DOMAIN view.runs[r].attempts} :
                        r \in DOMAIN view.runs}
AllThreads       == UNION {view.runs[r].threads : r \in DOMAIN view.runs}
AllArtifacts     == UNION {{x.id : x \in view.runs[r].artifacts} : r \in DOMAIN view.runs}
AllVerifications == UNION {view.runs[r].verifications : r \in DOMAIN view.runs}

\* require_active_run, require_attempt, require_active_attempt, require_thread.
ActiveRun(r)        == r \in DOMAIN view.runs /\ view.runs[r].status = "running"
OfRun(r, a)         == Place(view.runs[r], a) # {}
AttemptOf(r, a)     == view.runs[r].attempts[CHOOSE n \in Place(view.runs[r], a) : TRUE]
ActiveAttempt(r, a) == ActiveRun(r) /\ OfRun(r, a) /\ AttemptOf(r, a).status = "running"
LinkedThread(r, thread) == thread # None => thread \in view.runs[r].threads
Quiet(r)            == ActiveAttempts(view.runs[r]) = {}

\* base_event and attempt_event.
RunEvent(type, status, r, ts) == Event(type, status, view.runs[r].task, r, None, ts)
AttemptEvent(type, status, r, a, ts) ==
    [Event(type, status, view.runs[r].task, r, a, ts) EXCEPT
        !.identity = AttemptOf(r, a).identity]

\* build_action_event, one action per command.

CreateTask(t, ts) ==
    /\ Command("task")
    /\ t \notin DOMAIN view.tasks
    /\ Apply([Event("task_created", "started", t, None, None, ts) EXCEPT
                !.details = [task |-> t]])

StartRun(t, r, budget, ts) ==
    /\ Command("run")
    /\ t \in DOMAIN view.tasks /\ r \notin DOMAIN view.runs
    /\ Apply([Event("run_started", "started", t, r, None, ts) EXCEPT
                !.details = IF budget = None THEN <<>> ELSE [budget |-> budget]])

\* The worktree of a Run is for one Attempt.
TakesAttempts(r) == ActiveRun(r) /\ view.runs[r].worktree = None /\ ~Exhausted(view.runs[r])

StartAttempt(r, a, identity, transition, decision, ts) ==
    /\ Command("attempt")
    /\ TakesAttempts(r)
    /\ a \notin AllAttempts
    /\ transition.kind = "migration" =>
            /\ OfRun(r, transition.from)
            /\ ~SameIdentity(AttemptOf(r, transition.from).identity, identity)
    /\ Apply([RunEvent("attempt_started", "running", r, ts) EXCEPT
                !.attempt = a, !.identity = identity,
                !.details = IF decision = None THEN [transition |-> transition]
                            ELSE [transition |-> transition, routeDecision |-> decision]])

\* decide_route: the decision is evaluated on the log it is appended to.
DecideRoute(r, choice, ts) ==
    /\ Command("route")
    /\ ActiveRun(r)
    /\ Apply([RunEvent("route_decided", IF choice = None THEN "failed" ELSE "succeeded", r, ts)
                EXCEPT !.identity = choice,
                       !.failure  = IF choice = None THEN [retryable |-> TRUE] ELSE None,
                       !.details  = [routing |-> [observed  |-> trace.events,
                                                  candidate |-> choice]]])

\* CompleteAttempt and FailAttempt, through terminal_attempt_event.
EndAttempt(r, a, type, status, failure, usage, thread, ts) ==
    /\ Command("attempt")
    /\ ActiveAttempt(r, a)
    /\ LinkedThread(r, thread)
    /\ Apply([AttemptEvent(type, status, r, a, ts) EXCEPT
                !.thread = thread, !.usage = usage, !.failure = failure])

CompleteAttempt(r, a, usage, thread, ts) ==
    EndAttempt(r, a, "attempt_completed", "succeeded", None, usage, thread, ts)

FailAttempt(r, a, status, retryable, usage, thread, ts) ==
    /\ status \in Failures
    /\ EndAttempt(r, a, "attempt_failed", status, [retryable |-> retryable], usage, thread, ts)

LinkThread(r, a, thread, parent, ts) ==
    /\ Command("thread")
    /\ ActiveRun(r)
    /\ thread \notin AllThreads
    /\ a # None => OfRun(r, a)
    /\ Apply([RunEvent("thread_linked", "running", r, ts) EXCEPT
                !.attempt = a, !.thread = thread, !.parentThread = parent])

RecordTool(r, a, thread, ts) ==
    /\ Command("tool")
    /\ ActiveAttempt(r, a) /\ LinkedThread(r, thread)
    /\ \E usage \in scope.usages :
        Apply([AttemptEvent("tool_call_completed", "succeeded", r, a, ts) EXCEPT
                !.thread = thread, !.subject = "tool", !.usage = usage])

RecordArtifact(r, a, thread, artifact, ts) ==
    /\ Command("artifact")
    /\ ActiveAttempt(r, a) /\ LinkedThread(r, thread)
    /\ artifact \notin AllArtifacts
    /\ Apply([AttemptEvent("artifact_created", "succeeded", r, a, ts) EXCEPT
                !.thread = thread, !.subject = "patch", !.details = [artifact |-> artifact]])

RecordVerification(r, a, thread, id, target, succeeded, ts) ==
    /\ Command("verification")
    /\ ActiveAttempt(r, a) /\ LinkedThread(r, thread)
    /\ id \notin AllVerifications
    /\ target # None => \E x \in view.runs[r].artifacts : x.id = target
    /\ Apply([AttemptEvent("verification_completed",
                           IF succeeded THEN "succeeded" ELSE "failed", r, a, ts) EXCEPT
                !.thread = thread, !.subject = "tests",
                !.details = IF target = None THEN [verification |-> id]
                            ELSE [verification |-> id, target |-> target]])

PrepareWorktree(r, a, ts) ==
    /\ Command("worktree")
    /\ ActiveAttempt(r, a)
    /\ view.runs[r].worktree = None
    /\ Apply([AttemptEvent("worktree_prepared", "succeeded", r, a, ts) EXCEPT
                !.details = [worktree |-> [base |-> 0, head |-> 0]]])

RecordEvidence(r, a, id, head, clean, tested, ts) ==
    /\ Command("worktree")
    /\ ActiveAttempt(r, a)
    /\ view.runs[r].worktree # None
    /\ LET worktree == view.runs[r].worktree
       IN  /\ worktree.attempt = a
           /\ \A n \in DOMAIN worktree.evidence : worktree.evidence[n].id # id
           /\ Apply([AttemptEvent("worktree_evidence_recorded", "succeeded", r, a, ts) EXCEPT
                !.details = [evidence |-> [id |-> id, base |-> worktree.base, head |-> head,
                                           commits |-> 1, clean |-> clean, tested |-> tested,
                                           exit |-> IF tested THEN 0 ELSE 1]]])

\* What a review and a conflict check have in common, and the evidence they name.
ByReviewer(r, a, identity) ==
    /\ Command("worktree")
    /\ ActiveRun(r) /\ Quiet(r)
    /\ view.runs[r].worktree # None
    /\ view.runs[r].worktree.attempt = a
    /\ identity.role = "main_reviewer"
    /\ identity.home # view.runs[r].worktree.identity.home

Named(entries, id) == {n \in DOMAIN entries : entries[n].id = id}

RecordReview(r, a, identity, id, evidence, decision, ts) ==
    /\ ByReviewer(r, a, identity)
    /\ LET worktree == view.runs[r].worktree
           found    == Named(worktree.evidence, evidence)
       IN  /\ Named(worktree.reviews, id) = {} /\ found # {}
           /\ decision = "approved" =>
                \A n \in found : worktree.evidence[n].clean /\ worktree.evidence[n].tested
    /\ Apply([RunEvent("worktree_review_recorded", "succeeded", r, ts) EXCEPT
                !.attempt = a, !.identity = identity,
                !.details = [review |-> [id |-> id, evidence |-> evidence,
                                         decision |-> decision]]])

Approved(worktree, evidence) ==
    \E n \in DOMAIN worktree.reviews : /\ worktree.reviews[n].evidence = evidence
                                       /\ worktree.reviews[n].decision = "approved"

RecordConflict(r, a, identity, id, evidence, head, free, ts) ==
    /\ ByReviewer(r, a, identity)
    /\ LET worktree == view.runs[r].worktree
           found    == Named(worktree.evidence, evidence)
       IN  /\ Named(worktree.checks, id) = {} /\ found # {}
           /\ \A n \in found : worktree.evidence[n].head = head
           /\ Approved(worktree, evidence)
    /\ Apply([RunEvent("worktree_conflict_checked", IF free THEN "succeeded" ELSE "failed", r, ts)
                EXCEPT !.attempt = a, !.identity = identity,
                       !.details = [conflict |->
                            [id |-> id, evidence |-> evidence, head |-> head, free |-> free,
                             disposition |-> IF free THEN "none" ELSE "human_required"]]])

\* ensure_worktree_completion_gate, up to what git says of the worktree now.
GateOpen(run) ==
    run.worktree # None =>
        /\ run.worktree.evidence # <<>>
        /\ LET worktree == run.worktree
               evidence == Last(worktree.evidence)
               checks   == SelectSeq(worktree.checks, LAMBDA c : c.evidence = evidence.id)
           IN  /\ evidence.clean /\ evidence.tested
               /\ \A n \in Place(run, worktree.attempt) : run.attempts[n].status = "succeeded"
               /\ Approved(worktree, evidence.id)
               /\ checks # <<>>
               /\ Last(checks).free /\ Last(checks).head = evidence.head

CompleteRun(r, final, ts) ==
    /\ Command("end")
    /\ ActiveRun(r) /\ Quiet(r)
    /\ \E n \in DOMAIN view.runs[r].attempts : view.runs[r].attempts[n].status = "succeeded"
    /\ GateOpen(view.runs[r])
    /\ ToSet(final) \subseteq {x.id : x \in view.runs[r].artifacts}
    /\ Apply([RunEvent("run_completed", "succeeded", r, ts) EXCEPT
                !.details = IF final = <<>> THEN <<>> ELSE [final |-> final]])

FailRun(r, status, ts) ==
    /\ Command("end")
    /\ status \in Failures
    /\ ActiveRun(r) /\ Quiet(r)
    /\ Apply([RunEvent("run_failed", status, r, ts) EXCEPT
                !.failure = [retryable |-> FALSE]])

----------------------------------------------------------------------------
\* `observe record': events from outside, one or a batch.  They need not be what
\* a command would have written; the verifier is all that stands before the log.

Start(t, r, a, i, kind, from, ts) ==
    [Event("attempt_started", "running", t, r, a, ts) EXCEPT
        !.identity = i, !.details = [transition |-> [kind |-> kind, from |-> from]]]

Starts(ts) ==
    {Start(t, r, a, i, kind, from, ts) :
        t \in Tasks, r \in Runs, a \in Attempts, i \in Identities \cup {None},
        kind \in {"initial", "retry", "migration"}, from \in Attempts \cup {None}}

End(type, status, t, r, a, i, usage, failure, ts) ==
    [Event(type, status, t, r, a, ts) EXCEPT
        !.identity = i, !.usage = usage, !.failure = failure]

Ends(type, ts) ==
    {End(type, status, t, r, a, i, usage, failure, ts) :
        t \in Tasks, r \in Runs, a \in Attempts, i \in Identities, usage \in scope.usages,
        status \in {"running", "succeeded", "failed"},
        failure \in {None, [retryable |-> TRUE]}}

RunEnds(type, ts) ==
    {[Event(type, status, t, r, None, ts) EXCEPT !.failure = [retryable |-> FALSE]] :
        t \in Tasks, r \in Runs, status \in {"running", "succeeded", "failed"}}

\* The detail may be left out.
OneDetail(detail, v) == [name \in IF v = None THEN {} ELSE {detail} |-> v]

WithDetail(type, t, r, a, i, details, ts) ==
    [Event(type, "succeeded", t, r, a, ts) EXCEPT
        !.identity = i, !.subject = "subject", !.usage = [input |-> 0, output |-> 0, duration |-> 0],
        !.details = details]

Detailed(type, detail, values, ts) ==
    {WithDetail(type, t, r, a, i, OneDetail(detail, v), ts) :
        t \in Tasks, r \in Runs, a \in Attempts, i \in Identities, v \in values}

HealthEvent(type, i, ts) ==
    [Event(type, "degraded", None, None, None, ts) EXCEPT
        !.identity = i, !.subject = "health", !.failure = [retryable |-> TRUE]]

\* A dispatch as the scheduler writes it: a decision, a start and the dispatch.
Dispatch(t, r, a, i, job, n, ts) ==
    <<[Event("route_decided", "succeeded", t, r, None, ts) EXCEPT
            !.identity = i,
            !.details  = [routing |-> [observed |-> trace.events, candidate |-> i]]],
      [Event("attempt_started", "running", t, r, a, ts) EXCEPT
            !.identity = i,
            !.details  = [transition    |-> [kind |-> "initial", from |-> None],
                          routeDecision |-> trace.events + 1]],
      [Event("scheduler_dispatch_decided", "succeeded", t, r, a, ts) EXCEPT
            !.identity = i,
            !.details  = [dispatch |-> [id |-> n, job |-> job, attempt |-> a, lease |-> n,
                                        decision |-> trace.events + 1, candidate |-> i,
                                        ordinal |-> n, leased |-> 0, expires |-> 1]]]>>

Dispatches(ts) ==
    {Dispatch(t, r, a, i, job, n, ts) :
        t \in Tasks, r \in Runs, a \in Attempts, i \in Identities,
        job \in Pieces, n \in 1..2}

Queued(ts) ==
    {[Event("scheduler_job_queued", "started", t, r, None, ts) EXCEPT
        !.details = [job |-> [id |-> job, run |-> r, deps |-> deps]]] :
        t \in Tasks, r \in Runs, job \in Pieces, deps \in {<<>>} \cup {<<p>> : p \in Pieces}}

OfJob(type, status, t, r, details, ts) ==
    [Event(type, status, t, r, None, ts) EXCEPT
        !.identity = CHOOSE i \in Identities : TRUE, !.details = details]

Changes(type, status, ts) ==
    {OfJob(type, status, t, r, [change |-> [job |-> job]], ts) :
        t \in Tasks, r \in Runs, job \in Pieces}

Renewals(ts) ==
    {OfJob("scheduler_lease_renewed", "running", t, r,
           [lease |-> [id |-> n, job |-> job, dispatch |-> n, previous |-> p, expires |-> p + 1]],
           ts) :
        t \in Tasks, r \in Runs, job \in Pieces, n \in 1..2, p \in 1..2}

Deferrals(ts) ==
    {[Event("scheduler_dispatch_deferred", "degraded", t, r, None, ts) EXCEPT
        !.details = [deferred |-> [job |-> job, decision |-> d]]] :
        t \in Tasks, r \in Runs, job \in Pieces, d \in {None} \cup DOMAIN trace.decisions}

One(events) == {<<e>> : e \in events}

FromOutside(type, ts) ==
    CASE type = "attempt_started"                         -> One(Starts(ts))
      [] type \in {"attempt_completed", "attempt_failed"} -> One(Ends(type, ts))
      [] type \in {"run_completed", "run_failed"}         -> One(RunEnds(type, ts))
      [] type = "artifact_created" ->
            One(Detailed(type, "artifact", Artifacts \cup {None}, ts))
      [] type = "worktree_evidence_recorded" ->
            One(Detailed(type, "evidence",
                {[id |-> p, base |-> 0, head |-> c, commits |-> 1, clean |-> FALSE,
                  tested |-> FALSE, exit |-> 1] : p \in Pieces, c \in Commits}, ts))
      [] type = "worktree_review_recorded" ->
            One(Detailed(type, "review",
                {[id |-> p, evidence |-> q, decision |-> "approved"] :
                    p \in Pieces, q \in Pieces}, ts))
      [] type = "worktree_conflict_checked" ->
            One(Detailed(type, "conflict",
                {[id |-> p, evidence |-> q, head |-> c, free |-> TRUE, disposition |-> "none"] :
                    p \in Pieces, q \in Pieces, c \in Commits}, ts))
      [] type \in HealthTypes ->
            One({HealthEvent(type, i, ts) : i \in Identities})
      [] type = "scheduler_job_queued"        -> One(Queued(ts))
      [] type = "scheduler_dispatch_decided"  -> Dispatches(ts)
      [] type = "scheduler_dispatch_deferred" -> One(Deferrals(ts))
      [] type = "scheduler_lease_renewed"     -> One(Renewals(ts))
      [] type \in StateChanges ->
            One(UNION {Changes(type, status, ts) :
                        status \in {"degraded", "running", "cancelled", "timed_out"}})

Observe(ts) ==
    \E type \in scope.outside : \E batch \in FromOutside(type, ts) : Commit(batch)

----------------------------------------------------------------------------

Transitions == {[kind |-> "initial", from |-> None]}
               \cup [kind : {"retry", "migration"}, from : Attempts]
Decisions   == {None} \cup DOMAIN trace.decisions

Init ==
    /\ trace  = NoIndexes
    /\ view   = [ok |-> TRUE, tasks |-> <<>>, runs |-> <<>>]
    /\ totals = [ok |-> TRUE, all |-> NoTotals, byHome |-> [h \in Homes |-> NoTotals]]
    /\ scope \in Scopes

AttemptStep(r, ts) == \E a \in Attempts :
    \/ \E i \in Identities, transition \in Transitions, decision \in Decisions :
            StartAttempt(r, a, i, transition, decision, ts)
    \/ \E usage \in scope.usages, thread \in Threads \cup {None} :
            \/ CompleteAttempt(r, a, usage, thread, ts)
            \/ \E status \in {"failed"}, retryable \in BOOLEAN :
                    FailAttempt(r, a, status, retryable, usage, thread, ts)
    \/ \E thread \in Threads, parent \in Threads \cup {None} :
            \/ LinkThread(r, a, thread, parent, ts)
            \/ LinkThread(r, None, thread, parent, ts)
    \/ \E thread \in Threads \cup {None} :
            \/ RecordTool(r, a, thread, ts)
            \/ \E artifact \in Artifacts : RecordArtifact(r, a, thread, artifact, ts)
            \/ \E id \in Pieces, target \in Artifacts \cup {None}, ok \in BOOLEAN :
                    RecordVerification(r, a, thread, id, target, ok, ts)

WorktreeStep(r, ts) == \E a \in Attempts :
    \/ PrepareWorktree(r, a, ts)
    \/ \E id \in Pieces, c \in Commits :
            \/ \E clean \in BOOLEAN, tested \in BOOLEAN :
                    RecordEvidence(r, a, id, c, clean, tested, ts)
            \/ \E i \in Identities, evidence \in Pieces :
                    \/ \E decision \in {"approved", "rejected"} :
                            RecordReview(r, a, i, id, evidence, decision, ts)
                    \/ \E free \in BOOLEAN : RecordConflict(r, a, i, id, evidence, c, free, ts)

RunStep(r, ts) ==
    \/ \E choice \in Identities \cup {None} : DecideRoute(r, choice, ts)
    \/ \E final \in {<<>>} \cup {<<x>> : x \in Artifacts} : CompleteRun(r, final, ts)
    \/ FailRun(r, "failed", ts)

Next == \E ts \in Times :
    \/ \E t \in Tasks : CreateTask(t, ts)
    \/ \E t \in Tasks, r \in Runs, budget \in scope.budgets : StartRun(t, r, budget, ts)
    \/ \E r \in Runs : AttemptStep(r, ts) \/ WorktreeStep(r, ts) \/ RunStep(r, ts)
    \/ Observe(ts)

Spec == Init /\ [][Next]_vars

----------------------------------------------------------------------------
(* Properties.                                                             *)

FromCommandsOnly(type) == type \notin scope.outside

\* Also a dispatch from outside starts an Attempt.
StartedByCommands ==
    FromCommandsOnly("attempt_started") /\ FromCommandsOnly("scheduler_dispatch_decided")

\* An end from outside may name another Home than that of the Attempt it ends.
EndedByCommands == FromCommandsOnly("attempt_completed") /\ FromCommandsOnly("attempt_failed")

\* The three folds have their types, and the consumption of a Run fits the
\* 64-bit counters it is kept in.
TypeOK ==
    /\ scope \in Scopes /\ trace.events \in 0..scope.events
    /\ trace.tasks \subseteq Tasks /\ DOMAIN trace.runs \subseteq Runs
    /\ DOMAIN trace.attempts \subseteq Attempts /\ DOMAIN trace.threads \subseteq Threads
    /\ DOMAIN trace.jobs \subseteq Pieces /\ DOMAIN view.runs \subseteq Runs
    /\ \A r \in DOMAIN view.runs :
        LET run == view.runs[r]
        IN  /\ run.status \in {"running", "succeeded"} \cup Failures
            /\ \A dimension \in DOMAIN run.used : run.used[dimension] \in 0..MaxCount
            /\ \A n \in DOMAIN run.attempts :
                    run.attempts[n].status \in {"running", "succeeded"} \cup Failures
    /\ DOMAIN totals.byHome = Homes

\* What the verifier has seen and what the reports show of the same log is the
\* same: the Attempts of a Run, which of them have ended and how,
AttemptsAgree(i, r, run) ==
    /\ Len(run.attempts) = Cardinality(OwnAttempts(i, r))
    /\ {run.attempts[n].id : n \in DOMAIN run.attempts} = OwnAttempts(i, r)
    /\ \A n \in DOMAIN run.attempts :
        LET a == run.attempts[n]
        IN  /\ a.status = "running" <=> a.id \notin DOMAIN i.terminalAttempts
            /\ a.status # "running" =>
                i.terminalAttempts[a.id] =
                    [status    |-> a.status,
                     retryable |-> a.failure # None /\ a.failure.retryable]

\* what the Run and its Attempts made,
RecordsAgree(i, r, run) ==
    /\ run.threads = {x \in DOMAIN i.threads : i.threads[x] = r}
    /\ {x.id : x \in run.artifacts} = {x \in DOMAIN i.artifacts : i.artifacts[x] = r}
    /\ run.decisions = {d \in DOMAIN i.decisions : i.decisions[d].run = r}

\* the worktree with its evidence,
WorktreesAgree(i, r, run) ==
    /\ run.worktree # None <=> r \in DOMAIN i.worktrees
    /\ run.worktree # None =>
            /\ i.worktrees[r] = [attempt  |-> run.worktree.attempt,
                                 identity |-> run.worktree.identity]
            /\ Len(run.worktree.evidence) =
                    Cardinality({x \in DOMAIN i.evidence : i.evidence[x].run = r})

\* and the Runs of a task, whether they have ended and what was verified of them.
Agree(i, v) ==
    /\ DOMAIN v.tasks = i.tasks
    /\ DOMAIN v.runs = DOMAIN i.runs
    /\ \A r \in DOMAIN v.runs :
        LET run == v.runs[r]
        IN  /\ i.runs[r] = run.task /\ r \in v.tasks[run.task]
            /\ run.status = "running" <=> r \notin i.terminalRuns
            /\ AttemptsAgree(i, r, run) /\ RecordsAgree(i, r, run) /\ WorktreesAgree(i, r, run)
    /\ i.verifications = UNION {v.runs[r].verifications : r \in DOMAIN v.runs}

FoldsAgree == view.ok => Agree(trace, view)

\* An append is verified but not projected, so an accepted log that cannot be
\* projected would fail every command and every report from then on.  Only the
\* sums of the usage can do that: an accepted log is readable unless they are
\* larger than the counters.
ReadableUnlessOverflow ==
    ~view.ok => \/ ~totals.ok
                \/ totals.all.input + totals.all.output > MaxCount

\* An Attempt that a report says may follow, as a retry or as a migration of the last
\* one, is one the verifier accepts, unless the clock shows a time before the newest of the Run.
Continuing(r, a, kind, identity, ts) ==
    [RunEvent("attempt_started", "running", r, ts) EXCEPT
        !.attempt = a, !.identity = identity,
        !.details = [transition |-> [kind |-> kind, from |-> Last(view.runs[r].attempts).id]]]

AdviceIsAccepted ==
    view.ok =>
        \A r \in DOMAIN view.runs, a \in Attempts \ DOMAIN trace.attempts,
           identity \in Identities, ts \in Times :
            LET taken(kind) == LET e == Continuing(r, a, kind, identity, ts)
                               IN  ValidEvent(e) /\ Links(trace, e)
            IN  (r \in DOMAIN trace.lastTs => ts >= trace.lastTs[r]) =>
                    /\ CanRetry(view.runs[r]) => taken("retry")
                    /\ CanMigrate(view.runs[r]) => taken("migration")

\* What the verifier accepts can be read, and reads as what was accepted; and what a
\* report advises is accepted.
AcceptedIsReported == FoldsAgree /\ ReadableUnlessOverflow /\ AdviceIsAccepted

\* The summary, which adds up the events, and the reports, which add up the
\* Attempts of every Run, account for the same work; and the totals of the Homes
\* are those of the Attempts that ran under them.
SumOver(set, Value(_)) == FoldFunctionOnSet(+, 0, [x \in set |-> Value(x)], set)

SummaryMatchesRuns ==
    view.ok /\ totals.ok =>
        LET places(r)   == {<<r, n>> : n \in DOMAIN view.runs[r].attempts \ ActiveAttempts(view.runs[r])}
            ended       == UNION {places(r) : r \in DOMAIN view.runs}
            attempt(p)  == view.runs[p[1]].attempts[p[2]]
            of(h)       == {p \in ended : attempt(p).identity.home = h}
            used(r)     == view.runs[r].used.tokens
            duration(r) == view.runs[r].used.duration
            tools(r)    == view.runs[r].tools
            spent(p)    == attempt(p).usage.input + attempt(p).usage.output
        IN  /\ totals.all.completed + totals.all.failed = Cardinality(ended)
            /\ totals.all.input + totals.all.output = SumOver(DOMAIN view.runs, used)
            /\ totals.all.duration = SumOver(DOMAIN view.runs, duration)
            /\ totals.all.tools = SumOver(DOMAIN view.runs, tools)
            /\ totals.all.artifacts = Cardinality(AllArtifacts)
            /\ EndedByCommands =>
                    \A h \in Homes :
                        totals.byHome[h].input + totals.byHome[h].output = SumOver(of(h), spent)

\* An Attempt that continues another continues a failure of its own Run that came
\* before it, a retry only one that may be retried; and a migration, when it was
\* started by the command, changes the Home or the model.
Continued(run, n) ==
    LET transition == run.attempts[n].transition
    IN  transition.kind # "initial" =>
            \E m \in 1..(n - 1) :
                LET before == run.attempts[m]
                IN  /\ before.id = transition.from
                    /\ before.status \in Failures
                    /\ transition.kind = "retry" =>
                            before.failure # None /\ before.failure.retryable
                    /\ transition.kind = "migration" /\ FromCommandsOnly("attempt_started") =>
                            ~SameIdentity(before.identity, run.attempts[n].identity)

ContinuationsAreSound ==
    \A r \in DOMAIN view.runs : \A n \in DOMAIN view.runs[r].attempts :
        Continued(view.runs[r], n)

\* Attempts run beside each other, so what a Run uses may pass its budget; but
\* once the budget is used up and the Attempts that were running have ended, the
\* commands let the Run use nothing more and start no Attempt.
ExhaustedSpendsNoMore(r) ==
    LET run == view.runs[r]
    IN  /\ view.ok /\ view'.ok
        /\ run.budget # None
        /\ \/ run.budget.tokens # None /\ run.used.tokens >= run.budget.tokens
           \/ run.budget.duration # None /\ run.used.duration >= run.budget.duration
           \/ run.budget.attempts # None /\ Len(run.attempts) >= run.budget.attempts
        /\ \A n \in DOMAIN run.attempts : run.attempts[n].status # "running"
        /\ StartedByCommands
        => /\ Len(view'.runs[r].attempts) = Len(run.attempts)
           /\ view'.runs[r].used = run.used

\* A Run that has ended stays as it ended, whatever is reported late or from
\* outside: its Attempts, its consumption, its worktree and what it made.
EndedStays(r) == view.runs[r].status # "running" => view'.runs[r] = view.runs[r]

\* Neither a Run at its end nor one at the end of its budget goes on.
ClosedRunsStay == [][\A r \in DOMAIN view.runs : EndedStays(r) /\ ExhaustedSpendsNoMore(r)]_vars
=============================================================================
