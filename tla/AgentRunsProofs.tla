-------------------------- MODULE AgentRunsProofs --------------------------
EXTENDS AgentRuns, FiniteSetTheorems, TLAPS

----------------------------------------------------------------------------
\* Types.

Statuses == {"running", "succeeded"} \cup Failures

Budgets == {None} \cup UNION {s.budgets : s \in Scopes}

UseRecord == [tokens : Nat, duration : Nat, failedTokens : Nat, failedDuration : Nat]

TransitionRecord == [kind : {"initial", "retry", "migration"}, from : Attempts \cup {None}]

FailureRecord == [retryable : BOOLEAN]

AttemptRecord ==
    [id : Attempts, status : Statuses, identity : Identities, transition : TransitionRecord,
     decision : Nat \cup {None}, threads : SUBSET Threads, usage : Uses \cup {None},
     failure : FailureRecord \cup {None}]

ArtifactRecord == [id : Artifacts \cup Nat, attempt : Attempts]

RunRecord ==
    [task : Tasks, status : Statuses, budget : Budgets, used : UseRecord,
     decisions : SUBSET Nat, attempts : Seq(AttemptRecord), threads : SUBSET Threads,
     tools : Nat, artifacts : SUBSET ArtifactRecord, verifications : SUBSET Nat,
     worktree : WorktreeRecord \cup {None}, final : Seq(Artifacts)]

TotalRecord == [completed : Nat, failed : Nat, tools : Nat, artifacts : Nat,
                input : Nat, output : Nat, duration : Nat]

IsIndexes(i) ==
    i = [events |-> i.events, lastTs |-> i.lastTs,
         tasks |-> i.tasks, runs |-> i.runs, terminalRuns |-> i.terminalRuns,
         attempts |-> i.attempts, terminalAttempts |-> i.terminalAttempts,
         threads |-> i.threads, artifacts |-> i.artifacts, verifications |-> i.verifications,
         decisions |-> i.decisions,
         worktrees |-> i.worktrees, evidence |-> i.evidence, reviews |-> i.reviews,
         checks |-> i.checks,
         jobs |-> i.jobs, dispatches |-> i.dispatches, leases |-> i.leases,
         paused |-> i.paused, terminalJobs |-> i.terminalJobs, recovery |-> i.recovery]

IsView(v)   == v = [ok |-> v.ok, tasks |-> v.tasks, runs |-> v.runs]
IsTotals(s) == s = [ok |-> s.ok, all |-> s.all, byHome |-> s.byHome]

\* What every entry of the indexes refers to has been entered before.
TraceInv(i) ==
    /\ IsIndexes(i) /\ i.events \in Nat
    /\ i.tasks \subseteq Tasks
    /\ DOMAIN i.runs \subseteq Runs /\ \A r \in DOMAIN i.runs : i.runs[r] \in i.tasks
    /\ i.terminalRuns \subseteq DOMAIN i.runs
    /\ DOMAIN i.attempts \subseteq Attempts
    /\ \A a \in DOMAIN i.attempts : i.attempts[a] \in DOMAIN i.runs
    /\ DOMAIN i.terminalAttempts \subseteq DOMAIN i.attempts
    /\ DOMAIN i.threads \subseteq Threads
    /\ \A x \in DOMAIN i.threads : i.threads[x] \in DOMAIN i.runs
    /\ \A x \in DOMAIN i.artifacts : i.artifacts[x] \in DOMAIN i.runs
    /\ DOMAIN i.decisions \subseteq 1..i.events
    /\ \A d \in DOMAIN i.decisions : i.decisions[d].run \in DOMAIN i.runs
    /\ DOMAIN i.worktrees \subseteq DOMAIN i.runs
    /\ DOMAIN i.evidence \subseteq Pieces
    /\ \A x \in DOMAIN i.evidence : i.evidence[x].run \in DOMAIN i.worktrees
    /\ DOMAIN i.jobs \subseteq Pieces

\* An Attempt is in its Run once.
Distinct(run) ==
    \A n, m \in DOMAIN run.attempts : run.attempts[n].id = run.attempts[m].id => n = m

Fits(run) == \A dimension \in DOMAIN run.used : run.used[dimension] <= MaxCount

ViewInv(v) ==
    /\ IsView(v) /\ v.ok \in BOOLEAN
    /\ DOMAIN v.runs \subseteq Runs
    /\ \A r \in DOMAIN v.runs :
        /\ v.runs[r] \in RunRecord /\ Fits(v.runs[r]) /\ Distinct(v.runs[r])
        /\ \A n \in DOMAIN v.runs[r].attempts : Continued(v.runs[r], n)

TotalsInv(s) ==
    /\ IsTotals(s) /\ s.ok \in BOOLEAN
    /\ s.all \in TotalRecord
    /\ DOMAIN s.byHome = Homes

\* No Run used more than all of them together, and only what they used together can
\* have been more than a counter holds.
Accounted(v, s) ==
    /\ v.ok /\ s.ok => \A r \in DOMAIN v.runs :
        /\ v.runs[r].used.failedTokens <= v.runs[r].used.tokens
        /\ v.runs[r].used.failedDuration <= v.runs[r].used.duration
        /\ v.runs[r].used.tokens <= s.all.input + s.all.output
        /\ v.runs[r].used.duration <= s.all.duration
    /\ ~v.ok => ~s.ok \/ s.all.input + s.all.output > MaxCount

RunsInv(i, v, s) ==
    /\ TraceInv(i) /\ ViewInv(v) /\ TotalsInv(s)
    /\ v.ok => Agree(i, v)
    /\ Accounted(v, s)

AgentRunsInv ==
    /\ scope \in Scopes /\ trace.events <= scope.events
    /\ RunsInv(trace, view, totals)

----------------------------------------------------------------------------
\* The folds over a batch.

\* The greatest of at most three places.
LEMMA GreatestPlace ==
    ASSUME NEW x \in SUBSET {1, 2, 3}, x # {}
    PROVE  Max(x) = IF 3 \in x THEN 3 ELSE IF 2 \in x THEN 2 ELSE 1
<1> DEFINE top == IF 3 \in x THEN 3 ELSE IF 2 \in x THEN 2 ELSE 1
<1>1. top \in x /\ \A y \in x : top >= y
  <2>1. PICK y : y \in x
    OBVIOUS
  <2>2. \A z \in x : z = 1 \/ z = 2 \/ z = 3
    OBVIOUS
  <2> QED
    BY <2>1, <2>2
<1>2. \A z \in x : (\A y \in x : z >= y) => z = top
  OBVIOUS
<1> HIDE DEF top
<1>3. Max(x) = top
  BY <1>1, <1>2 DEF Max
<1> QED
  BY <1>3 DEF top

\* The projection of a batch of three events, or of one, goes from event to event.
LEMMA ProjectionOfThree ==
    ASSUME NEW v, NEW s, DOMAIN s = {1, 2, 3}
    PROVE  FoldLeft(Folded, v, s) = Folded(Folded(Folded(v, s[1]), s[2]), s[3])
<1> DEFINE F(iter)   == iter = [x \in SUBSET {1, 2, 3} |->
                            IF x = {} THEN v ELSE Folded(iter[x \ {Max(x)}], s[Max(x)])]
           first(x)  == IF 1 \in x THEN Folded(v, s[1]) ELSE v
           second(x) == IF 2 \in x THEN Folded(first(x), s[2]) ELSE first(x)
           third(x)  == IF 3 \in x THEN Folded(second(x), s[3]) ELSE second(x)
           f         == [x \in SUBSET {1, 2, 3} |-> third(x)]
<1>1. FoldLeft(Folded, v, s) = (CHOOSE iter : F(iter))[{1, 2, 3}]
  BY DEF FoldLeft, MapThenFoldSet
<1>2. ASSUME NEW x \in SUBSET {1, 2, 3}, x # {}
      PROVE  third(x) = Folded(third(x \ {Max(x)}), s[Max(x)])
  <2>1. CASE 3 \in x
    BY <1>2, <2>1, GreatestPlace
  <2>2. CASE 3 \notin x /\ 2 \in x
    BY <1>2, <2>2, GreatestPlace
  <2>3. CASE 3 \notin x /\ 2 \notin x
    BY <1>2, <2>3, GreatestPlace
  <2> QED
    BY <2>1, <2>2, <2>3
<1>3. F(f)
  <2>1. third({}) = v
    OBVIOUS
  <2>2. \A x \in SUBSET {1, 2, 3} : x # {} => x \ {Max(x)} \in SUBSET {1, 2, 3}
    OBVIOUS
  <2> HIDE DEF third
  <2> QED
    BY <1>2, <2>1, <2>2
<1>4. PICK iter : F(iter) /\ iter = CHOOSE g : F(g)
  BY <1>3
<1>5. /\ iter[{}] = v
      /\ \A x \in SUBSET {1, 2, 3} : x # {} => iter[x] = Folded(iter[x \ {Max(x)}], s[Max(x)])
  BY <1>4
<1>6. Max({1}) = 1 /\ Max({1, 2}) = 2 /\ Max({1, 2, 3}) = 3
  BY GreatestPlace
<1>7. {1} \ {1} = {} /\ {1, 2} \ {2} = {1} /\ {1, 2, 3} \ {3} = {1, 2}
  OBVIOUS
<1>8. iter[{1}] = Folded(v, s[1]) /\ iter[{1, 2}] = Folded(iter[{1}], s[2])
  BY <1>5, <1>6, <1>7
<1>9. iter[{1, 2, 3}] = Folded(iter[{1, 2}], s[3])
  BY <1>5, <1>6, <1>7
<1> QED
  BY <1>1, <1>4, <1>8, <1>9

LEMMA ProjectionOfOne ==
    ASSUME NEW v, NEW s, DOMAIN s = {1}
    PROVE  FoldLeft(Folded, v, s) = Folded(v, s[1])
<1> DEFINE F(iter) == iter = [x \in SUBSET {1} |->
                          IF x = {} THEN v ELSE Folded(iter[x \ {Max(x)}], s[Max(x)])]
           f       == [x \in SUBSET {1} |-> IF x = {} THEN v ELSE Folded(v, s[1])]
<1>1. FoldLeft(Folded, v, s) = (CHOOSE iter : F(iter))[{1}]
  BY DEF FoldLeft, MapThenFoldSet
<1>2. Max({1}) = 1
  BY GreatestPlace
<1>3. F(f)
  BY <1>2
<1>4. PICK iter : F(iter) /\ iter = CHOOSE g : F(g)
  BY <1>3
<1>5. iter[{}] = v /\ iter[{1}] = Folded(iter[{1} \ {1}], s[1])
  BY <1>2, <1>4
<1> QED
  BY <1>1, <1>4, <1>5

\* The summary of a batch of three events, or of one, goes from event to event.
LEMMA SummaryOfThree ==
    ASSUME NEW v, NEW s, DOMAIN s = {1, 2, 3}
    PROVE  FoldLeft(Summed, v, s) = Summed(Summed(Summed(v, s[1]), s[2]), s[3])
<1> DEFINE F(iter)   == iter = [x \in SUBSET {1, 2, 3} |->
                            IF x = {} THEN v ELSE Summed(iter[x \ {Max(x)}], s[Max(x)])]
           first(x)  == IF 1 \in x THEN Summed(v, s[1]) ELSE v
           second(x) == IF 2 \in x THEN Summed(first(x), s[2]) ELSE first(x)
           third(x)  == IF 3 \in x THEN Summed(second(x), s[3]) ELSE second(x)
           f         == [x \in SUBSET {1, 2, 3} |-> third(x)]
<1>1. FoldLeft(Summed, v, s) = (CHOOSE iter : F(iter))[{1, 2, 3}]
  BY DEF FoldLeft, MapThenFoldSet
<1>2. ASSUME NEW x \in SUBSET {1, 2, 3}, x # {}
      PROVE  third(x) = Summed(third(x \ {Max(x)}), s[Max(x)])
  <2>1. CASE 3 \in x
    BY <1>2, <2>1, GreatestPlace
  <2>2. CASE 3 \notin x /\ 2 \in x
    BY <1>2, <2>2, GreatestPlace
  <2>3. CASE 3 \notin x /\ 2 \notin x
    BY <1>2, <2>3, GreatestPlace
  <2> QED
    BY <2>1, <2>2, <2>3
<1>3. F(f)
  <2>1. third({}) = v
    OBVIOUS
  <2>2. \A x \in SUBSET {1, 2, 3} : x # {} => x \ {Max(x)} \in SUBSET {1, 2, 3}
    OBVIOUS
  <2> HIDE DEF third
  <2> QED
    BY <1>2, <2>1, <2>2
<1>4. PICK iter : F(iter) /\ iter = CHOOSE g : F(g)
  BY <1>3
<1>5. /\ iter[{}] = v
      /\ \A x \in SUBSET {1, 2, 3} : x # {} => iter[x] = Summed(iter[x \ {Max(x)}], s[Max(x)])
  BY <1>4
<1>6. Max({1}) = 1 /\ Max({1, 2}) = 2 /\ Max({1, 2, 3}) = 3
  BY GreatestPlace
<1>7. {1} \ {1} = {} /\ {1, 2} \ {2} = {1} /\ {1, 2, 3} \ {3} = {1, 2}
  OBVIOUS
<1>8. iter[{1}] = Summed(v, s[1]) /\ iter[{1, 2}] = Summed(iter[{1}], s[2])
  BY <1>5, <1>6, <1>7
<1>9. iter[{1, 2, 3}] = Summed(iter[{1, 2}], s[3])
  BY <1>5, <1>6, <1>7
<1> QED
  BY <1>1, <1>4, <1>8, <1>9

LEMMA SummaryOfOne ==
    ASSUME NEW v, NEW s, DOMAIN s = {1}
    PROVE  FoldLeft(Summed, v, s) = Summed(v, s[1])
<1> DEFINE F(iter) == iter = [x \in SUBSET {1} |->
                          IF x = {} THEN v ELSE Summed(iter[x \ {Max(x)}], s[Max(x)])]
           f       == [x \in SUBSET {1} |-> IF x = {} THEN v ELSE Summed(v, s[1])]
<1>1. FoldLeft(Summed, v, s) = (CHOOSE iter : F(iter))[{1}]
  BY DEF FoldLeft, MapThenFoldSet
<1>2. Max({1}) = 1
  BY GreatestPlace
<1>3. F(f)
  BY <1>2
<1>4. PICK iter : F(iter) /\ iter = CHOOSE g : F(g)
  BY <1>3
<1>5. iter[{}] = v /\ iter[{1}] = Summed(iter[{1} \ {1}], s[1])
  BY <1>2, <1>4
<1> QED
  BY <1>1, <1>4, <1>5

\* The verifier of a batch of three events, or of one, goes from event to event.
LEMMA VerifierOfThree ==
    ASSUME NEW v, NEW s, DOMAIN s = {1, 2, 3}
    PROVE  FoldLeft(Accepting, v, s) = Accepting(Accepting(Accepting(v, s[1]), s[2]), s[3])
<1> DEFINE F(iter)   == iter = [x \in SUBSET {1, 2, 3} |->
                            IF x = {} THEN v ELSE Accepting(iter[x \ {Max(x)}], s[Max(x)])]
           first(x)  == IF 1 \in x THEN Accepting(v, s[1]) ELSE v
           second(x) == IF 2 \in x THEN Accepting(first(x), s[2]) ELSE first(x)
           third(x)  == IF 3 \in x THEN Accepting(second(x), s[3]) ELSE second(x)
           f         == [x \in SUBSET {1, 2, 3} |-> third(x)]
<1>1. FoldLeft(Accepting, v, s) = (CHOOSE iter : F(iter))[{1, 2, 3}]
  BY DEF FoldLeft, MapThenFoldSet
<1>2. ASSUME NEW x \in SUBSET {1, 2, 3}, x # {}
      PROVE  third(x) = Accepting(third(x \ {Max(x)}), s[Max(x)])
  <2>1. CASE 3 \in x
    BY <1>2, <2>1, GreatestPlace
  <2>2. CASE 3 \notin x /\ 2 \in x
    BY <1>2, <2>2, GreatestPlace
  <2>3. CASE 3 \notin x /\ 2 \notin x
    BY <1>2, <2>3, GreatestPlace
  <2> QED
    BY <2>1, <2>2, <2>3
<1>3. F(f)
  <2>1. third({}) = v
    OBVIOUS
  <2>2. \A x \in SUBSET {1, 2, 3} : x # {} => x \ {Max(x)} \in SUBSET {1, 2, 3}
    OBVIOUS
  <2> HIDE DEF third
  <2> QED
    BY <1>2, <2>1, <2>2
<1>4. PICK iter : F(iter) /\ iter = CHOOSE g : F(g)
  BY <1>3
<1>5. /\ iter[{}] = v
      /\ \A x \in SUBSET {1, 2, 3} : x # {} => iter[x] = Accepting(iter[x \ {Max(x)}], s[Max(x)])
  BY <1>4
<1>6. Max({1}) = 1 /\ Max({1, 2}) = 2 /\ Max({1, 2, 3}) = 3
  BY GreatestPlace
<1>7. {1} \ {1} = {} /\ {1, 2} \ {2} = {1} /\ {1, 2, 3} \ {3} = {1, 2}
  OBVIOUS
<1>8. iter[{1}] = Accepting(v, s[1]) /\ iter[{1, 2}] = Accepting(iter[{1}], s[2])
  BY <1>5, <1>6, <1>7
<1>9. iter[{1, 2, 3}] = Accepting(iter[{1, 2}], s[3])
  BY <1>5, <1>6, <1>7
<1> QED
  BY <1>1, <1>4, <1>8, <1>9

LEMMA VerifierOfOne ==
    ASSUME NEW v, NEW s, DOMAIN s = {1}
    PROVE  FoldLeft(Accepting, v, s) = Accepting(v, s[1])
<1> DEFINE F(iter) == iter = [x \in SUBSET {1} |->
                          IF x = {} THEN v ELSE Accepting(iter[x \ {Max(x)}], s[Max(x)])]
           f       == [x \in SUBSET {1} |-> IF x = {} THEN v ELSE Accepting(v, s[1])]
<1>1. FoldLeft(Accepting, v, s) = (CHOOSE iter : F(iter))[{1}]
  BY DEF FoldLeft, MapThenFoldSet
<1>2. Max({1}) = 1
  BY GreatestPlace
<1>3. F(f)
  BY <1>2
<1>4. PICK iter : F(iter) /\ iter = CHOOSE g : F(g)
  BY <1>3
<1>5. iter[{}] = v /\ iter[{1}] = Accepting(iter[{1} \ {1}], s[1])
  BY <1>2, <1>4
<1> QED
  BY <1>1, <1>4, <1>5

----------------------------------------------------------------------------
\* What the operators of the verifier do, field by field.

LEMMA ChangeTypes ==
    StateChanges = {"scheduler_job_paused", "scheduler_job_resumed", "scheduler_job_cancelled",
                    "scheduler_job_timed_out", "scheduler_recovery_required",
                    "scheduler_recovery_resolved"}
BY DEF StateChanges, EventTypes, DetailsAllowed

\* What the life of Runs and Attempts enters.
Entered(i, e, j) ==
    /\ j.tasks = IF e.type = "task_created" THEN i.tasks \cup {e.task} ELSE i.tasks
    /\ j.runs = IF e.type = "run_started" THEN Put(i.runs, e.run, e.task) ELSE i.runs
    /\ j.attempts = IF e.type = "attempt_started" THEN Put(i.attempts, e.attempt, e.run)
                    ELSE i.attempts
    /\ j.threads = IF e.type = "thread_linked" THEN Put(i.threads, e.thread, e.run)
                   ELSE i.threads
    /\ j.decisions = IF e.type = "route_decided"
                     THEN Put(i.decisions, i.events + 1,
                              [run |-> e.run, identity |-> e.identity,
                               candidate |-> e.details.routing.candidate])
                     ELSE i.decisions
    /\ j.terminalAttempts = IF e.type \in {"attempt_completed", "attempt_failed"}
                            THEN Put(i.terminalAttempts, e.attempt,
                                     [status    |-> e.status,
                                      retryable |-> e.failure # None /\ e.failure.retryable])
                            ELSE i.terminalAttempts
    /\ j.artifacts = IF e.type = "artifact_created" THEN Put(i.artifacts, Artifact(e), e.run)
                     ELSE i.artifacts
    /\ j.verifications = IF e.type = "verification_completed"
                         THEN i.verifications \cup {Verification(e)} ELSE i.verifications
    /\ j.terminalRuns = IF e.type \in {"run_completed", "run_failed"}
                        THEN i.terminalRuns \cup {e.run} ELSE i.terminalRuns

LEMMA LifeFields ==
    ASSUME NEW i, IsIndexes(i), NEW e
    PROVE  LET j == IndexedLife(i, e)
           IN  /\ IsIndexes(j) /\ Entered(i, e, j)
               /\ j.events = i.events /\ j.worktrees = i.worktrees /\ j.evidence = i.evidence
               /\ j.jobs = i.jobs
BY DEF IndexedLife, IsIndexes, Entered

\* What the worktrees and the scheduler enter leaves the life of the Runs alone.
SameLife(i, j) ==
    /\ IsIndexes(j)
    /\ j.events = i.events /\ j.tasks = i.tasks /\ j.runs = i.runs
    /\ j.attempts = i.attempts /\ j.threads = i.threads /\ j.decisions = i.decisions
    /\ j.terminalAttempts = i.terminalAttempts /\ j.artifacts = i.artifacts
    /\ j.verifications = i.verifications /\ j.terminalRuns = i.terminalRuns

LEMMA WorktreeFields ==
    ASSUME NEW i, IsIndexes(i), NEW e
    PROVE  LET j == IndexedWorktree(i, e)
           IN  /\ SameLife(i, j) /\ j.jobs = i.jobs
               /\ j.worktrees = IF e.type = "worktree_prepared"
                                THEN Put(i.worktrees, e.run, [attempt |-> e.attempt,
                                                              identity |-> e.identity])
                                ELSE i.worktrees
               /\ j.evidence = IF e.type = "worktree_evidence_recorded"
                               THEN Put(i.evidence, e.details.evidence.id,
                                        [run |-> e.run, head |-> e.details.evidence.head])
                               ELSE i.evidence
BY DEF IndexedWorktree, IsIndexes, SameLife

LEMMA SchedulerFields ==
    ASSUME NEW i, IsIndexes(i), NEW e
    PROVE  LET j == IndexedScheduler(i, e)
           IN  /\ SameLife(i, j) /\ j.worktrees = i.worktrees /\ j.evidence = i.evidence
               /\ j.jobs = IF e.type = "scheduler_job_queued"
                           THEN Put(i.jobs, e.details.job.id, e.run) ELSE i.jobs
<1>1. e.type = "scheduler_job_queued" => e.type \notin StateChanges
  BY ChangeTypes
<1>2. e.type \in {"scheduler_dispatch_decided", "scheduler_lease_renewed"} =>
        e.type \notin StateChanges
  BY ChangeTypes
<1>3. CASE e.type = "scheduler_job_queued"
  BY <1>1, <1>3 DEF IndexedScheduler, IsIndexes, SameLife
<1>4. CASE e.type = "scheduler_dispatch_decided"
  BY <1>2, <1>4 DEF IndexedScheduler, IsIndexes, SameLife
<1>5. CASE e.type = "scheduler_lease_renewed"
  BY <1>2, <1>5 DEF IndexedScheduler, IsIndexes, SameLife
<1>6. CASE e.type \in StateChanges
  BY <1>1, <1>2, <1>6 DEF IndexedScheduler, IsIndexes, SameLife
<1>7. CASE e.type \notin StateChanges \cup {"scheduler_job_queued", "scheduler_lease_renewed",
                                            "scheduler_dispatch_decided"}
  BY <1>7 DEF IndexedScheduler, IsIndexes, SameLife
<1> QED
  BY <1>3, <1>4, <1>5, <1>6, <1>7

LEMMA IndexedFields ==
    ASSUME NEW i, IsIndexes(i), NEW e
    PROVE  LET j == Indexed(i, e)
           IN  /\ IsIndexes(j)
               /\ Entered(i, e, j) /\ j.events = i.events + 1
               /\ j.worktrees = IF e.type = "worktree_prepared"
                                THEN Put(i.worktrees, e.run, [attempt |-> e.attempt,
                                                              identity |-> e.identity])
                                ELSE i.worktrees
               /\ j.evidence = IF e.type = "worktree_evidence_recorded"
                               THEN Put(i.evidence, e.details.evidence.id,
                                        [run |-> e.run, head |-> e.details.evidence.head])
                               ELSE i.evidence
               /\ j.jobs = IF e.type = "scheduler_job_queued"
                           THEN Put(i.jobs, e.details.job.id, e.run) ELSE i.jobs
<1> DEFINE a == IndexedLife(i, e)
           b == IndexedWorktree(a, e)
           c == IndexedScheduler(b, e)
           j == [c EXCEPT !.events = @ + 1,
                          !.lastTs = IF e.run = None THEN @ ELSE Put(@, e.run, e.ts)]
<1> HIDE DEF a, b, c, j
<1>1. IsIndexes(a)
  BY LifeFields DEF a
<1>2. SameLife(a, b) /\ IsIndexes(b)
  <2>1. SameLife(a, b)
    BY <1>1, WorktreeFields DEF b
  <2> QED
    BY <2>1 DEF SameLife
<1>3. SameLife(b, c) /\ IsIndexes(c)
  <2>1. SameLife(b, c)
    BY <1>2, SchedulerFields DEF c
  <2> QED
    BY <2>1 DEF SameLife
<1>4. /\ j = Indexed(i, e) /\ IsIndexes(j) /\ j.events = c.events + 1
      /\ j.tasks = c.tasks /\ j.runs = c.runs
      /\ j.attempts = c.attempts /\ j.threads = c.threads /\ j.decisions = c.decisions
      /\ j.terminalAttempts = c.terminalAttempts /\ j.artifacts = c.artifacts
      /\ j.verifications = c.verifications /\ j.terminalRuns = c.terminalRuns
      /\ j.worktrees = c.worktrees /\ j.evidence = c.evidence /\ j.jobs = c.jobs
  <2>1. j = Indexed(i, e)
    BY DEF Indexed, a, b, c, j
  <2>2. PICK last : j = [[c EXCEPT !.events = c.events + 1] EXCEPT !.lastTs = last]
    <3>1. \E last : j = [c EXCEPT !.events = c.events + 1, !.lastTs = last]
      BY DEF j
    <3> QED
      BY <3>1
  <2> DEFINE d == [c EXCEPT !.events = c.events + 1]
             Kept(k) == /\ k.tasks = c.tasks /\ k.runs = c.runs
                        /\ k.attempts = c.attempts /\ k.threads = c.threads
                        /\ k.decisions = c.decisions
                        /\ k.terminalAttempts = c.terminalAttempts
                        /\ k.artifacts = c.artifacts /\ k.verifications = c.verifications
                        /\ k.terminalRuns = c.terminalRuns /\ k.worktrees = c.worktrees
                        /\ k.evidence = c.evidence /\ k.jobs = c.jobs
                        /\ k.events = c.events + 1
  <2>3. IsIndexes(d) /\ Kept(d)
    BY <1>3 DEF IsIndexes
  <2> HIDE DEF d
  <2>4. IsIndexes(j) /\ Kept(j)
    <3>1. j = [d EXCEPT !.lastTs = last]
      BY <2>2 DEF d
    <3> QED
      BY <2>3, <3>1 DEF IsIndexes
  <2> QED
    BY <2>1, <2>4
<1>5. /\ c.worktrees = b.worktrees /\ c.evidence = b.evidence
      /\ c.jobs = IF e.type = "scheduler_job_queued"
                  THEN Put(b.jobs, e.details.job.id, e.run) ELSE b.jobs
  BY <1>2, SchedulerFields DEF c
<1>6. /\ b.jobs = a.jobs
      /\ b.worktrees = IF e.type = "worktree_prepared"
                       THEN Put(a.worktrees, e.run, [attempt |-> e.attempt,
                                                     identity |-> e.identity])
                       ELSE a.worktrees
      /\ b.evidence = IF e.type = "worktree_evidence_recorded"
                      THEN Put(a.evidence, e.details.evidence.id,
                               [run |-> e.run, head |-> e.details.evidence.head])
                      ELSE a.evidence
  BY <1>1, WorktreeFields DEF b
<1>7. /\ c.events = a.events /\ c.tasks = a.tasks /\ c.runs = a.runs
      /\ c.attempts = a.attempts /\ c.threads = a.threads /\ c.decisions = a.decisions
      /\ c.terminalAttempts = a.terminalAttempts /\ c.artifacts = a.artifacts
      /\ c.verifications = a.verifications /\ c.terminalRuns = a.terminalRuns
  BY <1>2, <1>3 DEF SameLife
<1>8. Entered(i, e, a) /\ a.events = i.events /\ a.worktrees = i.worktrees
      /\ a.evidence = i.evidence /\ a.jobs = i.jobs
  BY LifeFields DEF a
<1>9. Entered(i, e, j)
  BY <1>4, <1>7, <1>8 DEF Entered
<1> QED
  BY <1>4, <1>5, <1>6, <1>7, <1>8, <1>9

\* What a type of event must agree with.
LinkFacts(i, e) ==
    /\ e.run \in i.terminalRuns => e.type \in HealthTypes
    /\ e.type \notin HealthTypes \cup {"task_created", "run_started"} => RunLink(i, e)
    /\ e.type = "task_created" => e.task \notin i.tasks
    /\ e.type = "run_started" => e.task \in i.tasks /\ e.run \notin DOMAIN i.runs
    /\ e.type = "attempt_started" => e.attempt \notin DOMAIN i.attempts /\ TransitionLink(i, e)
    /\ e.type \in {"worktree_prepared", "worktree_evidence_recorded", "worktree_review_recorded",
                   "worktree_conflict_checked", "attempt_completed", "attempt_failed",
                   "tool_call_completed", "artifact_created", "verification_completed"}
        => AttemptLink(i, e)
    /\ e.type = "thread_linked" => /\ e.thread \notin DOMAIN i.threads
                                   /\ e.attempt # None => AttemptLink(i, e)
    /\ e.type \in {"attempt_completed", "attempt_failed"} =>
            e.attempt \notin DOMAIN i.terminalAttempts
    /\ e.type = "artifact_created" => Artifact(e) \notin DOMAIN i.artifacts
    /\ e.type = "worktree_prepared" => e.run \notin DOMAIN i.worktrees
    /\ e.type = "worktree_evidence_recorded" =>
            /\ e.run \in DOMAIN i.worktrees
            /\ e.details.evidence.id \notin DOMAIN i.evidence
    /\ e.type = "worktree_review_recorded" => OwnEvidence(i, e, e.details.review.evidence)
    /\ e.type = "worktree_conflict_checked" => OwnEvidence(i, e, e.details.conflict.evidence)
    /\ e.type \in {"run_completed", "run_failed"} =>
            OwnAttempts(i, e.run) \subseteq DOMAIN i.terminalAttempts

LEMMA LinksFacts ==
    ASSUME NEW i, NEW e, Links(i, e)
    PROVE  LinkFacts(i, e)
<1>1. e.run \in i.terminalRuns => e.type \in HealthTypes
  BY DEF Links, AfterTheEnd
<1> USE DEF HealthTypes
<1>2. CASE TaskLinks(i, e) \/ StartLinks(i, e) \/ ThreadLinks(i, e)
  BY <1>1, <1>2 DEF TaskLinks, StartLinks, ThreadLinks, LinkFacts
<1>3. CASE DecisionLinks(i, e) \/ DeferredLinks(i, e) \/ QueuedLinks(i, e)
  BY <1>1, <1>3 DEF DecisionLinks, DeferredLinks, QueuedLinks, LinkFacts
<1>4. CASE PreparedLinks(i, e) \/ EvidenceLinks(i, e)
  BY <1>1, <1>4 DEF PreparedLinks, EvidenceLinks, LinkFacts
<1>5. CASE ReviewLinks(i, e) \/ ConflictLinks(i, e)
  BY <1>1, <1>5 DEF ReviewLinks, ConflictLinks, LinkFacts
<1>6. CASE DispatchLinks(i, e) \/ RenewalLinks(i, e)
  BY <1>1, <1>6 DEF DispatchLinks, RenewalLinks, LinkFacts
<1>7. CASE ChangeLinks(i, e)
  BY <1>1, <1>7, ChangeTypes DEF ChangeLinks, LinkFacts
<1>8. CASE AttemptLinks(i, e)
  BY <1>1, <1>8 DEF AttemptLinks, LinkFacts
<1>9. CASE EndLinks(i, e)
  BY <1>1, <1>9 DEF EndLinks, LinkFacts
<1>10. CASE e.type \in HealthTypes
  BY <1>1, <1>10 DEF LinkFacts
<1> QED
  BY <1>2, <1>3, <1>4, <1>5, <1>6, <1>7, <1>8, <1>9, <1>10 DEF Links

LEMMA ValidFacts ==
    ASSUME NEW e, ValidEvent(e)
    PROVE  /\ e.type \in {"attempt_completed", "run_completed"} => e.status = "succeeded"
           /\ e.type \in {"attempt_failed", "run_failed"} => e.status \in Failures
           /\ e.type = "attempt_started" => e.identity # None
<1>1. StatusFits(e)
  BY DEF ValidEvent, ValidShape
<1>2. e.type \in RequiresIdentity => e.identity # None
  BY DEF ValidEvent, ValidShape
<1>3. e.type = "attempt_started" => e.identity # None
  BY <1>2 DEF RequiresIdentity
<1>4. e.type \in {"attempt_completed", "run_completed"} => e.status = "succeeded"
  BY <1>1 DEF StatusFits
<1>5. e.type \in {"attempt_failed", "run_failed"} => e.status \in Failures
  BY <1>1 DEF StatusFits
<1> QED
  BY <1>3, <1>4, <1>5

\* What commands and observations bring, in the fields that are kept.
IsEvent(e) ==
    /\ e.type = "task_created" => e.task \in Tasks
    /\ e.type = "run_started" =>
            e.run \in Runs /\ (Has(e, "budget") => e.details.budget \in Budgets)
    /\ e.type = "attempt_started" =>
            /\ e.attempt \in Attempts /\ e.identity \in Identities \cup {None}
            /\ Has(e, "transition") /\ e.details.transition \in TransitionRecord
            /\ Has(e, "routeDecision") => e.details.routeDecision \in Nat
    /\ e.type \in {"attempt_completed", "attempt_failed"} =>
            e.usage \in Uses /\ e.failure \in FailureRecord \cup {None}
    /\ e.type = "thread_linked" => e.thread \in Threads
    /\ e.type = "artifact_created" => (Has(e, "artifact") => e.details.artifact \in Artifacts)
    /\ e.type = "verification_completed" =>
            (Has(e, "verification") => e.details.verification \in Pieces)
    /\ e.type = "worktree_prepared" =>
            e.identity \in Identities /\ e.details.worktree.base = 0
    /\ e.type = "worktree_evidence_recorded" => e.details.evidence \in EvidenceRecord
    /\ e.type = "worktree_review_recorded" => e.details.review \in ReviewRecord
    /\ e.type = "worktree_conflict_checked" => e.details.conflict \in CheckRecord
    /\ e.type = "scheduler_job_queued" => e.details.job.id \in Pieces
    /\ e.type \in {"run_completed", "run_failed"} =>
            (Has(e, "final") => e.details.final \in Seq(Artifacts))

\* The verifier keeps its indexes in order.
LEMMA TraceStep ==
    ASSUME NEW i, TraceInv(i), NEW e, IsEvent(e), LinkFacts(i, e)
    PROVE  TraceInv(Indexed(i, e))
<1> DEFINE j == Indexed(i, e)
<1>1. IsIndexes(i) /\ i.events \in Nat
  BY DEF TraceInv
<1>2. IsIndexes(j) /\ Entered(i, e, j) /\ j.events = i.events + 1
  BY <1>1, IndexedFields
<1>3. /\ j.worktrees = IF e.type = "worktree_prepared"
                       THEN Put(i.worktrees, e.run, [attempt |-> e.attempt,
                                                     identity |-> e.identity])
                       ELSE i.worktrees
      /\ j.evidence = IF e.type = "worktree_evidence_recorded"
                      THEN Put(i.evidence, e.details.evidence.id,
                               [run |-> e.run, head |-> e.details.evidence.head])
                      ELSE i.evidence
      /\ j.jobs = IF e.type = "scheduler_job_queued"
                  THEN Put(i.jobs, e.details.job.id, e.run) ELSE i.jobs
  BY <1>1, IndexedFields
<1> HIDE DEF j
<1>4. e.type \notin HealthTypes \cup {"task_created", "run_started"} => e.run \in DOMAIN i.runs
  BY DEF LinkFacts, RunLink
<1>5. j.tasks \subseteq Tasks /\ i.tasks \subseteq j.tasks
  BY <1>2 DEF Entered, TraceInv, IsEvent
<1>6. /\ DOMAIN j.runs \subseteq Runs /\ DOMAIN i.runs \subseteq DOMAIN j.runs
      /\ \A r \in DOMAIN j.runs : j.runs[r] \in j.tasks
  <2>1. CASE e.type = "run_started"
    BY <1>2, <1>5, <2>1 DEF Put, Entered, TraceInv, IsEvent, LinkFacts
  <2>2. CASE e.type # "run_started"
    BY <1>2, <1>5, <2>2 DEF Entered, TraceInv
  <2> QED
    BY <2>1, <2>2
<1>7. j.terminalRuns \subseteq DOMAIN j.runs
  BY <1>2, <1>4, <1>6 DEF Entered, TraceInv, HealthTypes
<1>8. /\ DOMAIN j.attempts \subseteq Attempts /\ DOMAIN i.attempts \subseteq DOMAIN j.attempts
      /\ \A a \in DOMAIN j.attempts : j.attempts[a] \in DOMAIN j.runs
  <2>1. CASE e.type = "attempt_started"
    BY <1>2, <1>4, <1>6, <2>1 DEF Put, Entered, TraceInv, IsEvent, HealthTypes
  <2>2. CASE e.type # "attempt_started"
    BY <1>2, <1>6, <2>2 DEF Entered, TraceInv
  <2> QED
    BY <2>1, <2>2
<1>9. DOMAIN j.terminalAttempts \subseteq DOMAIN j.attempts
  <2>1. CASE e.type \in {"attempt_completed", "attempt_failed"}
    <3>1. e.attempt \in DOMAIN i.attempts
      BY <2>1 DEF LinkFacts, AttemptLink
    <3>2. DOMAIN j.terminalAttempts = DOMAIN i.terminalAttempts \cup {e.attempt}
      BY <1>2, <2>1 DEF Put, Entered
    <3> QED
      BY <1>8, <3>1, <3>2 DEF TraceInv
  <2>2. CASE e.type \notin {"attempt_completed", "attempt_failed"}
    BY <1>2, <1>8, <2>2 DEF Entered, TraceInv
  <2> QED
    BY <2>1, <2>2
<1>10. /\ DOMAIN j.threads \subseteq Threads
       /\ \A x \in DOMAIN j.threads : j.threads[x] \in DOMAIN j.runs
  <2>1. CASE e.type = "thread_linked"
    BY <1>2, <1>4, <1>6, <2>1 DEF Put, Entered, TraceInv, IsEvent, HealthTypes
  <2>2. CASE e.type # "thread_linked"
    BY <1>2, <1>6, <2>2 DEF Entered, TraceInv
  <2> QED
    BY <2>1, <2>2
<1>11. \A x \in DOMAIN j.artifacts : j.artifacts[x] \in DOMAIN j.runs
  <2>1. CASE e.type = "artifact_created"
    BY <1>2, <1>4, <1>6, <2>1 DEF Put, Entered, TraceInv, HealthTypes
  <2>2. CASE e.type # "artifact_created"
    BY <1>2, <1>6, <2>2 DEF Entered, TraceInv
  <2> QED
    BY <2>1, <2>2
<1>12. /\ DOMAIN j.decisions \subseteq 1..j.events
       /\ \A d \in DOMAIN j.decisions : j.decisions[d].run \in DOMAIN j.runs
  <2>1. 1..i.events \subseteq 1..j.events /\ i.events + 1 \in 1..j.events
    BY <1>1, <1>2
  <2>2. CASE e.type = "route_decided"
    BY <1>2, <1>4, <1>6, <2>1, <2>2 DEF Put, Entered, TraceInv, HealthTypes
  <2>3. CASE e.type # "route_decided"
    BY <1>2, <1>6, <2>1, <2>3 DEF Entered, TraceInv
  <2> QED
    BY <2>2, <2>3
<1>13. DOMAIN j.worktrees \subseteq DOMAIN j.runs /\ DOMAIN i.worktrees \subseteq DOMAIN j.worktrees
  <2>1. CASE e.type = "worktree_prepared"
    BY <1>3, <1>4, <1>6, <2>1 DEF Put, TraceInv, HealthTypes
  <2>2. CASE e.type # "worktree_prepared"
    BY <1>3, <1>6, <2>2 DEF TraceInv
  <2> QED
    BY <2>1, <2>2
<1>14. /\ DOMAIN j.evidence \subseteq Pieces
       /\ \A x \in DOMAIN j.evidence : j.evidence[x].run \in DOMAIN j.worktrees
  <2>1. CASE e.type = "worktree_evidence_recorded"
    <3>1. e.details.evidence.id \in Pieces /\ e.run \in DOMAIN i.worktrees
      BY <2>1 DEF IsEvent, LinkFacts, EvidenceRecord
    <3> QED
      BY <1>3, <1>13, <2>1, <3>1 DEF Put, TraceInv
  <2>2. CASE e.type # "worktree_evidence_recorded"
    BY <1>3, <1>13, <2>2 DEF TraceInv
  <2> QED
    BY <2>1, <2>2
<1>15. DOMAIN j.jobs \subseteq Pieces
  BY <1>3 DEF Put, TraceInv, IsEvent
<1> QED
  BY <1>1, <1>2, <1>5, <1>6, <1>7, <1>8, <1>9, <1>10, <1>11, <1>12, <1>13, <1>14, <1>15
     DEF TraceInv, j

----------------------------------------------------------------------------
\* What the projection does, field by field.

AttemptEnds == {"attempt_completed", "attempt_failed"}
RunEnding   == {"run_completed", "run_failed"}
Recordings  == {"worktree_evidence_recorded", "worktree_review_recorded",
                "worktree_conflict_checked"}

\* An event that names an Attempt the projection looks for.
Seeks(e) == e.type \in AttemptEnds \/ (e.type = "thread_linked" /\ e.attempt # None)

Readable(run, e) ==
    /\ e.type \in AttemptEnds \cup Recordings \cup {"worktree_prepared", "artifact_created"}
        => e.attempt \in Attempts
    /\ Seeks(e) => Place(run, e.attempt) # {}
    /\ e.type \in Recordings => run.worktree # None
    /\ e.type \in AttemptEnds \cup RunEnding => e.status \in {"succeeded"} \cup Failures
    /\ e.type = "attempt_started" => e.identity # None
    /\ e.type \in AttemptEnds =>
        LET sum == Consumed(run.used, e.usage, e.status)
        IN  \A dimension \in DOMAIN sum : sum[dimension] <= MaxCount

Found(run, e) == CHOOSE n \in Place(run, e.attempt) : TRUE

\* The Attempts of a Run after an event.
NextAttempts(run, e) ==
    IF e.type = "attempt_started" THEN Append(run.attempts, NewAttempt(e))
    ELSE IF e.type = "thread_linked" /\ e.attempt # None
    THEN [run.attempts EXCEPT ![Found(run, e)].threads = @ \cup {e.thread}]
    ELSE IF e.type \in AttemptEnds
    THEN [run.attempts EXCEPT ![Found(run, e)] =
            [@ EXCEPT !.status = e.status, !.usage = e.usage, !.failure = e.failure]]
    ELSE run.attempts

NextWorktree(run, e) ==
    IF e.type = "worktree_prepared"
    THEN [attempt |-> e.attempt, identity |-> e.identity, base |-> e.details.worktree.base,
          evidence |-> <<>>, reviews |-> <<>>, checks |-> <<>>]
    ELSE IF e.type = "worktree_evidence_recorded"
    THEN [run.worktree EXCEPT !.evidence = Append(@, e.details.evidence)]
    ELSE IF e.type = "worktree_review_recorded"
    THEN [run.worktree EXCEPT !.reviews = Append(@, e.details.review)]
    ELSE IF e.type = "worktree_conflict_checked"
    THEN [run.worktree EXCEPT !.checks = Append(@, e.details.conflict)]
    ELSE run.worktree

NextRun(run, e) ==
    [task |-> run.task,
     status |-> IF e.type \in RunEnding THEN e.status ELSE run.status,
     budget |-> run.budget,
     used |-> IF e.type \in AttemptEnds THEN Consumed(run.used, e.usage, e.status) ELSE run.used,
     decisions |-> IF e.type = "route_decided" THEN run.decisions \cup {e.id} ELSE run.decisions,
     attempts |-> NextAttempts(run, e),
     threads |-> IF e.type = "thread_linked" THEN run.threads \cup {e.thread} ELSE run.threads,
     tools |-> IF e.type = "tool_call_completed" THEN run.tools + 1 ELSE run.tools,
     artifacts |-> IF e.type = "artifact_created"
                   THEN run.artifacts \cup {[id |-> Artifact(e), attempt |-> e.attempt]}
                   ELSE run.artifacts,
     verifications |-> IF e.type = "verification_completed"
                       THEN run.verifications \cup {Verification(e)} ELSE run.verifications,
     worktree |-> NextWorktree(run, e),
     final |-> IF e.type \in RunEnding THEN (IF Has(e, "final") THEN e.details.final ELSE <<>>)
               ELSE run.final]

Built(run, used, attempts, threads) ==
    [task |-> run.task, status |-> run.status, budget |-> run.budget, used |-> used,
     decisions |-> run.decisions, attempts |-> attempts, threads |-> threads,
     tools |-> run.tools, artifacts |-> run.artifacts, verifications |-> run.verifications,
     worktree |-> run.worktree, final |-> run.final]

LEMMA TwoFields ==
    ASSUME NEW run \in RunRecord, NEW a, NEW b
    PROVE  /\ [run EXCEPT !.threads = a, !.attempts = b] = Built(run, run.used, b, a)
           /\ [run EXCEPT !.attempts = a, !.used = b] = Built(run, b, a, run.threads)
<1>1. run = Built(run, run.used, run.attempts, run.threads)
  BY DEF RunRecord, Built
<1>2. ASSUME NEW r, NEW used, NEW attempts, NEW threads, r = Built(run, used, attempts, threads)
      PROVE  /\ [r EXCEPT !.attempts = a] = Built(run, used, a, threads)
             /\ [r EXCEPT !.threads = a] = Built(run, used, attempts, a)
             /\ [r EXCEPT !.used = b] = Built(run, b, attempts, threads)
             /\ [r EXCEPT !.attempts = b] = Built(run, used, b, threads)
  BY <1>2 DEF Built
<1>3. [run EXCEPT !.threads = a, !.attempts = b] = [[run EXCEPT !.threads = a] EXCEPT !.attempts = b]
  OBVIOUS
<1>4. [run EXCEPT !.attempts = a, !.used = b] = [[run EXCEPT !.attempts = a] EXCEPT !.used = b]
  OBVIOUS
<1>5. /\ [run EXCEPT !.threads = a] = Built(run, run.used, run.attempts, a)
      /\ [run EXCEPT !.attempts = a] = Built(run, run.used, a, run.threads)
  BY <1>1, <1>2
<1>6. [[run EXCEPT !.threads = a] EXCEPT !.attempts = b] = Built(run, run.used, b, a)
  <2>1. PICK r : r = [run EXCEPT !.threads = a]
    OBVIOUS
  <2>2. r = Built(run, run.used, run.attempts, a)
    BY <1>5, <2>1
  <2>3. [r EXCEPT !.attempts = b] = Built(run, run.used, b, a)
    BY <2>2 DEF Built
  <2> QED
    BY <2>1, <2>3
<1>7. [[run EXCEPT !.attempts = a] EXCEPT !.used = b] = Built(run, b, a, run.threads)
  <2>1. PICK r : r = [run EXCEPT !.attempts = a]
    OBVIOUS
  <2>2. r = Built(run, run.used, a, run.threads)
    BY <1>5, <2>1
  <2>3. [r EXCEPT !.used = b] = Built(run, b, a, run.threads)
    BY <2>2 DEF Built
  <2> QED
    BY <2>1, <2>3
<1> QED
  BY <1>3, <1>4, <1>6, <1>7

LEMMA ProjectedRun ==
    ASSUME NEW run \in RunRecord, NEW e
    PROVE  Projected(run, e) = NextRun(run, e)
<1> USE DEF RunRecord, NextRun, AttemptEnds, RunEnding
<1>1. CASE e.type \in {"route_decided", "attempt_started", "tool_call_completed",
                       "artifact_created", "verification_completed"}
  BY <1>1 DEF Projected, NextAttempts, NextWorktree
<1>2. CASE e.type \in RunEnding
  BY <1>2 DEF Projected, NextAttempts, NextWorktree
<1>3. CASE e.type = "thread_linked" /\ e.attempt = None
  BY <1>3 DEF Projected, NextAttempts, NextWorktree
<1>4. CASE e.type = "thread_linked" /\ e.attempt # None
  <2>1. PICK n : n = Found(run, e)
    OBVIOUS
  <2>2. Projected(run, e) = [run EXCEPT !.threads = @ \cup {e.thread},
                                        !.attempts[n].threads = @ \cup {e.thread}]
    BY <1>4, <2>1 DEF Projected, Found
  <2>3. NextAttempts(run, e) = [run.attempts EXCEPT ![n].threads = @ \cup {e.thread}]
    BY <1>4, <2>1 DEF NextAttempts
  <2>4. Projected(run, e) = [run EXCEPT !.threads = run.threads \cup {e.thread},
                                        !.attempts = NextAttempts(run, e)]
    BY <2>2, <2>3
  <2>5. NextWorktree(run, e) = run.worktree
    BY <1>4 DEF NextWorktree
  <2> QED
    BY <1>4, <2>4, <2>5, TwoFields DEF Built
<1>5. CASE e.type \in AttemptEnds
  <2>1. PICK n, ended : n = Found(run, e) /\ ended = e.failure
    OBVIOUS
  <2>2. ended = IF e.failure = None THEN None ELSE e.failure
    BY <2>1
  <2>3. Projected(run, e) =
            [run EXCEPT !.attempts[n] = [@ EXCEPT !.status  = e.status,
                                                  !.usage   = e.usage,
                                                  !.failure = ended],
                        !.used = Consumed(run.used, e.usage, e.status)]
    BY <1>5, <2>1, <2>2 DEF Projected, Found
  <2>4. NextAttempts(run, e) =
            [run.attempts EXCEPT ![n] = [@ EXCEPT !.status  = e.status,
                                                  !.usage   = e.usage,
                                                  !.failure = ended]]
    BY <1>5, <2>1 DEF NextAttempts
  <2>5. Projected(run, e) = [run EXCEPT !.attempts = NextAttempts(run, e),
                                        !.used = Consumed(run.used, e.usage, e.status)]
    BY <2>3, <2>4
  <2>6. NextWorktree(run, e) = run.worktree
    BY <1>5 DEF NextWorktree
  <2> QED
    BY <1>5, <2>5, <2>6, TwoFields DEF Built
<1>6. CASE e.type \in {"worktree_prepared", "worktree_evidence_recorded",
                       "worktree_review_recorded", "worktree_conflict_checked"}
  BY <1>6 DEF Projected, NextAttempts, NextWorktree
<1>7. CASE e.type \notin RunEnding \cup AttemptEnds \cup
                {"route_decided", "attempt_started", "tool_call_completed", "artifact_created",
                 "verification_completed", "thread_linked", "worktree_prepared",
                 "worktree_evidence_recorded", "worktree_review_recorded",
                 "worktree_conflict_checked"}
  BY <1>7 DEF Projected, NextAttempts, NextWorktree
<1> QED
  BY <1>1, <1>2, <1>3, <1>4, <1>5, <1>6, <1>7

\* The place of an Attempt that is there.
LEMMA FoundPlace ==
    ASSUME NEW run, NEW e, Place(run, e.attempt) # {}
    PROVE  /\ Found(run, e) \in DOMAIN run.attempts
           /\ run.attempts[Found(run, e)].id = e.attempt
BY DEF Found, Place

LEMMA AttemptTypes ==
    ASSUME NEW run \in RunRecord, NEW e, IsEvent(e), Readable(run, e)
    PROVE  /\ NextAttempts(run, e) \in Seq(AttemptRecord)
           /\ e.type = "attempt_started" =>
                /\ NewAttempt(e) \in AttemptRecord
                /\ NextAttempts(run, e) = Append(run.attempts, NewAttempt(e))
           /\ e.type # "attempt_started" =>
                DOMAIN NextAttempts(run, e) = DOMAIN run.attempts
           /\ \A n \in DOMAIN run.attempts :
                /\ NextAttempts(run, e)[n] \in AttemptRecord
                /\ NextAttempts(run, e)[n].id = run.attempts[n].id
                /\ NextAttempts(run, e)[n].identity = run.attempts[n].identity
                /\ NextAttempts(run, e)[n].transition = run.attempts[n].transition
                /\ IF e.type \in AttemptEnds /\ n = Found(run, e)
                   THEN /\ NextAttempts(run, e)[n].status = e.status
                        /\ NextAttempts(run, e)[n].failure = e.failure
                        /\ NextAttempts(run, e)[n].usage = e.usage
                   ELSE /\ NextAttempts(run, e)[n].status = run.attempts[n].status
                        /\ NextAttempts(run, e)[n].failure = run.attempts[n].failure
                        /\ NextAttempts(run, e)[n].usage = run.attempts[n].usage
<1>1. run.attempts \in Seq(AttemptRecord)
  BY DEF RunRecord
<1>2. CASE e.type = "attempt_started"
  <2>1. NewAttempt(e) \in AttemptRecord
    <3>1. /\ e.attempt \in Attempts /\ e.identity \in Identities
          /\ e.details.transition \in TransitionRecord /\ Has(e, "transition")
          /\ Has(e, "routeDecision") => e.details.routeDecision \in Nat
      BY <1>2 DEF IsEvent, Readable
    <3>2. "running" \in Statuses
      BY DEF Statuses
    <3> QED
      BY <3>1, <3>2 DEF NewAttempt, AttemptRecord
  <2>2. NextAttempts(run, e) = Append(run.attempts, NewAttempt(e))
    BY <1>2 DEF NextAttempts
  <2>3. e.type \notin AttemptEnds
    BY <1>2 DEF AttemptEnds
  <2> QED
    BY <1>1, <1>2, <2>1, <2>2, <2>3
<1>3. CASE e.type = "thread_linked" /\ e.attempt # None
  <2>1. PICK n : n = Found(run, e)
    OBVIOUS
  <2>2. n \in DOMAIN run.attempts
    BY <1>3, <2>1, FoundPlace DEF Readable, Seeks
  <2>3. NextAttempts(run, e) = [run.attempts EXCEPT ![n].threads = @ \cup {e.thread}]
    BY <1>3, <2>1 DEF NextAttempts
  <2>4. PICK x : x = [run.attempts[n] EXCEPT !.threads = @ \cup {e.thread}]
    OBVIOUS
  <2>5. /\ x \in AttemptRecord /\ x.id = run.attempts[n].id
        /\ x.identity = run.attempts[n].identity /\ x.transition = run.attempts[n].transition
        /\ x.status = run.attempts[n].status /\ x.failure = run.attempts[n].failure
        /\ x.usage = run.attempts[n].usage
    <3>1. run.attempts[n] \in AttemptRecord
      BY <1>1, <2>2
    <3>2. e.thread \in Threads
      BY <1>3 DEF IsEvent
    <3> QED
      BY <2>4, <3>1, <3>2 DEF AttemptRecord
  <2>6. NextAttempts(run, e) = [run.attempts EXCEPT ![n] = x]
    BY <2>3, <2>4
  <2>7. e.type \notin AttemptEnds
    BY <1>3 DEF AttemptEnds
  <2> QED
    BY <1>1, <1>3, <2>2, <2>5, <2>6, <2>7
<1>4. CASE e.type \in AttemptEnds
  <2>1. PICK n : n = Found(run, e)
    OBVIOUS
  <2>2. n \in DOMAIN run.attempts
    <3>1. Place(run, e.attempt) # {}
      <4>1. Seeks(e)
        BY <1>4 DEF Seeks
      <4> QED
        BY <4>1 DEF Readable
    <3> QED
      BY <2>1, <3>1, FoundPlace
  <2>3. NextAttempts(run, e) =
            [run.attempts EXCEPT ![n] =
                [@ EXCEPT !.status = e.status, !.usage = e.usage, !.failure = e.failure]]
    BY <1>4, <2>1 DEF NextAttempts, AttemptEnds
  <2>4. e.status \in Statuses /\ e.usage \in Uses /\ e.failure \in FailureRecord \cup {None}
    BY <1>4 DEF Readable, Statuses, IsEvent, AttemptEnds
  <2>5. PICK x : x = [run.attempts[n] EXCEPT !.status = e.status, !.usage = e.usage,
                                             !.failure = e.failure]
    OBVIOUS
  <2>6. /\ x \in AttemptRecord /\ x.id = run.attempts[n].id
        /\ x.identity = run.attempts[n].identity /\ x.transition = run.attempts[n].transition
        /\ x.status = e.status /\ x.failure = e.failure /\ x.usage = e.usage
    <3>1. run.attempts[n] \in AttemptRecord
      BY <1>1, <2>2
    <3> QED
      BY <2>4, <2>5, <3>1 DEF AttemptRecord
  <2>7. NextAttempts(run, e) = [run.attempts EXCEPT ![n] = x]
    BY <2>3, <2>5
  <2>8. e.type # "attempt_started"
    BY <1>4 DEF AttemptEnds
  <2> QED
    BY <1>1, <1>4, <2>1, <2>2, <2>6, <2>7, <2>8
<1>5. CASE e.type \notin AttemptEnds \cup {"attempt_started"} /\ ~Seeks(e)
  <2>1. NextAttempts(run, e) = run.attempts
    BY <1>5 DEF NextAttempts, Seeks
  <2> QED
    BY <1>1, <1>5, <2>1
<1> QED
  BY <1>2, <1>3, <1>4, <1>5 DEF Seeks

\* A Run stays a Run, as far as the counters hold what it used.
LEMMA RunTypes ==
    ASSUME NEW run \in RunRecord, NEW e, Fits(run), Distinct(run),
           IsEvent(e), Readable(run, e), e.id \in Nat,
           e.type = "attempt_started" =>
                \A n \in DOMAIN run.attempts : run.attempts[n].id # e.attempt
    PROVE  NextRun(run, e) \in RunRecord /\ Fits(NextRun(run, e)) /\ Distinct(NextRun(run, e))
<1> DEFINE next == NextRun(run, e)
<1>1. next.attempts = NextAttempts(run, e) /\ next.attempts \in Seq(AttemptRecord)
  BY AttemptTypes DEF NextRun
<1>2. next.used \in UseRecord /\ Fits(next)
  <2>1. CASE e.type \in AttemptEnds
    <3>1. next.used = Consumed(run.used, e.usage, e.status)
      BY <2>1 DEF NextRun
    <3>2. e.usage \in Uses /\ run.used \in UseRecord
      BY <2>1 DEF IsEvent, AttemptEnds, RunRecord
    <3>3. e.usage.input \in Nat /\ e.usage.output \in Nat /\ e.usage.duration \in Nat
      BY <3>2, BoundsAssumption DEF Uses
    <3>4. Consumed(run.used, e.usage, e.status) \in UseRecord
      BY <3>2, <3>3 DEF Consumed, UseRecord
    <3>5. Fits(next)
      BY <2>1, <3>1 DEF Fits, Readable
    <3> QED
      BY <3>1, <3>4, <3>5
  <2>2. CASE e.type \notin AttemptEnds
    <3>1. next.used = run.used
      BY <2>2 DEF NextRun
    <3>2. run.used \in UseRecord
      BY DEF RunRecord
    <3> QED
      BY <3>1, <3>2 DEF Fits
  <2> QED
    BY <2>1, <2>2
<1>3. Distinct(next)
  <2>1. \A n, m \in DOMAIN run.attempts : run.attempts[n].id = run.attempts[m].id => n = m
    BY DEF Distinct
  <2>2. CASE e.type # "attempt_started"
    BY <1>1, <2>1, <2>2, AttemptTypes DEF Distinct
  <2>3. CASE e.type = "attempt_started"
    <3>1. NextAttempts(run, e) = Append(run.attempts, NewAttempt(e)) /\ NewAttempt(e).id = e.attempt
      BY <2>3, AttemptTypes DEF NewAttempt
    <3>2. run.attempts \in Seq(AttemptRecord)
      BY DEF RunRecord
    <3> QED
      BY <1>1, <2>1, <2>3, <3>1, <3>2 DEF Distinct
  <2> QED
    BY <2>2, <2>3
<1>4. next.worktree \in WorktreeRecord \cup {None}
  <2>1. next.worktree = NextWorktree(run, e) /\ run.worktree \in WorktreeRecord \cup {None}
    BY DEF NextRun, RunRecord
  <2>2. CASE e.type = "worktree_prepared"
    <3>1. e.attempt \in Attempts /\ e.identity \in Identities /\ e.details.worktree.base = 0
      BY <2>2 DEF IsEvent, Readable
    <3>2. <<>> \in Seq(EvidenceRecord) /\ <<>> \in Seq(ReviewRecord) /\ <<>> \in Seq(CheckRecord)
      OBVIOUS
    <3> QED
      BY <2>1, <2>2, <3>1, <3>2 DEF NextWorktree, WorktreeRecord
  <2>3. ASSUME e.type \in Recordings
        PROVE  run.worktree \in WorktreeRecord
    BY <2>1, <2>3 DEF Readable
  <2>4. CASE e.type = "worktree_evidence_recorded"
    <3>1. e.details.evidence \in EvidenceRecord /\ run.worktree \in WorktreeRecord
      BY <2>3, <2>4 DEF IsEvent, Recordings
    <3>2. Append(run.worktree.evidence, e.details.evidence) \in Seq(EvidenceRecord)
      BY <3>1 DEF WorktreeRecord
    <3>3. next.worktree = [run.worktree EXCEPT !.evidence =
                                Append(run.worktree.evidence, e.details.evidence)]
      BY <2>1, <2>4 DEF NextWorktree
    <3> QED
      BY <3>1, <3>2, <3>3 DEF WorktreeRecord
  <2>5. CASE e.type = "worktree_review_recorded"
    <3>1. e.details.review \in ReviewRecord /\ run.worktree \in WorktreeRecord
      BY <2>3, <2>5 DEF IsEvent, Recordings
    <3>2. Append(run.worktree.reviews, e.details.review) \in Seq(ReviewRecord)
      BY <3>1 DEF WorktreeRecord
    <3>3. next.worktree = [run.worktree EXCEPT !.reviews =
                                Append(run.worktree.reviews, e.details.review)]
      BY <2>1, <2>5 DEF NextWorktree
    <3> QED
      BY <3>1, <3>2, <3>3 DEF WorktreeRecord
  <2>6. CASE e.type = "worktree_conflict_checked"
    <3>1. e.details.conflict \in CheckRecord /\ run.worktree \in WorktreeRecord
      BY <2>3, <2>6 DEF IsEvent, Recordings
    <3>2. Append(run.worktree.checks, e.details.conflict) \in Seq(CheckRecord)
      BY <3>1 DEF WorktreeRecord
    <3>3. next.worktree = [run.worktree EXCEPT !.checks =
                                Append(run.worktree.checks, e.details.conflict)]
      BY <2>1, <2>6 DEF NextWorktree
    <3> QED
      BY <3>1, <3>2, <3>3 DEF WorktreeRecord
  <2>7. CASE e.type \notin Recordings \cup {"worktree_prepared"}
    BY <2>1, <2>7 DEF NextWorktree, Recordings
  <2> QED
    BY <2>2, <2>4, <2>5, <2>6, <2>7 DEF Recordings
<1>5. next.artifacts \in SUBSET ArtifactRecord
  <2>1. run.artifacts \in SUBSET ArtifactRecord
    BY DEF RunRecord
  <2>2. CASE e.type = "artifact_created"
    <3>1. Artifact(e) \in Artifacts \cup Nat /\ e.attempt \in Attempts
      BY <2>2 DEF IsEvent, Readable, Artifact
    <3> QED
      BY <2>1, <2>2, <3>1 DEF NextRun, ArtifactRecord
  <2>3. CASE e.type # "artifact_created"
    BY <2>1, <2>3 DEF NextRun
  <2> QED
    BY <2>2, <2>3
<1>6. next.verifications \in SUBSET Nat
  <2>1. Pieces \subseteq Nat
    BY DEF Pieces
  <2>2. e.type = "verification_completed" => Verification(e) \in Nat
    BY <2>1 DEF IsEvent, Verification
  <2> QED
    BY <2>2 DEF NextRun, RunRecord
<1>7. next.final \in Seq(Artifacts)
  <2>1. run.final \in Seq(Artifacts) /\ <<>> \in Seq(Artifacts)
    BY DEF RunRecord
  <2> QED
    BY <2>1 DEF NextRun, IsEvent, RunEnding
<1>8. next.status \in Statuses
  BY DEF NextRun, RunRecord, Readable, Statuses
<1>9. next.threads \in SUBSET Threads
  BY DEF NextRun, RunRecord, IsEvent
<1>10. next.decisions \in SUBSET Nat /\ next.tools \in Nat
  BY DEF NextRun, RunRecord
<1>11. next.task \in Tasks /\ next.budget \in Budgets
  BY DEF NextRun, RunRecord
<1>12. next = [task |-> next.task, status |-> next.status, budget |-> next.budget,
               used |-> next.used, decisions |-> next.decisions, attempts |-> next.attempts,
               threads |-> next.threads, tools |-> next.tools, artifacts |-> next.artifacts,
               verifications |-> next.verifications, worktree |-> next.worktree,
               final |-> next.final]
  BY DEF NextRun
<1> HIDE DEF next
<1>13. next \in RunRecord
  BY <1>1, <1>2, <1>4, <1>5, <1>6, <1>7, <1>8, <1>9, <1>10, <1>11, <1>12 DEF RunRecord
<1> QED
  BY <1>2, <1>3, <1>13 DEF next

\* What continues an Attempt of the Run continues a failed one that came before.
ContinuesWell(run, e) ==
    LET transition == e.details.transition
    IN  transition.kind # "initial" =>
            \E m \in DOMAIN run.attempts :
                LET before == run.attempts[m]
                IN  /\ before.id = transition.from
                    /\ before.status \in Failures
                    /\ transition.kind = "retry" =>
                            before.failure # None /\ before.failure.retryable
                    /\ transition.kind = "migration" /\ FromCommandsOnly("attempt_started") =>
                            ~SameIdentity(before.identity, e.identity)

LEMMA ContinuedStep ==
    ASSUME NEW run \in RunRecord, NEW e, IsEvent(e), Readable(run, e),
           \A n \in DOMAIN run.attempts : Continued(run, n),
           e.type \in AttemptEnds => run.attempts[Found(run, e)].status = "running",
           e.type = "attempt_started" => ContinuesWell(run, e)
    PROVE  \A n \in DOMAIN NextRun(run, e).attempts : Continued(NextRun(run, e), n)
<1> DEFINE next == NextRun(run, e)
<1>1. next.attempts = NextAttempts(run, e)
  BY DEF NextRun
<1> HIDE DEF next
<1>2. run.attempts \in Seq(AttemptRecord) /\ "running" \notin Failures
  BY DEF RunRecord, Failures
<1>3. ASSUME NEW m \in DOMAIN run.attempts
      PROVE  /\ next.attempts[m].id = run.attempts[m].id
             /\ next.attempts[m].identity = run.attempts[m].identity
             /\ next.attempts[m].transition = run.attempts[m].transition
             /\ run.attempts[m].status \in Failures =>
                    /\ next.attempts[m].status = run.attempts[m].status
                    /\ next.attempts[m].failure = run.attempts[m].failure
  BY <1>1, <1>2, AttemptTypes
<1>4. ASSUME NEW n \in DOMAIN run.attempts
      PROVE  Continued(next, n)
  <2>1. CASE run.attempts[n].transition.kind = "initial"
    BY <1>3, <2>1 DEF Continued
  <2>2. CASE run.attempts[n].transition.kind # "initial"
    <3>1. PICK m \in 1..(n - 1) :
            LET before     == run.attempts[m]
                transition == run.attempts[n].transition
            IN  /\ before.id = transition.from
                /\ before.status \in Failures
                /\ transition.kind = "retry" => before.failure # None /\ before.failure.retryable
                /\ transition.kind = "migration" /\ FromCommandsOnly("attempt_started") =>
                        ~SameIdentity(before.identity, run.attempts[n].identity)
      BY <2>2 DEF Continued
    <3>2. m \in DOMAIN run.attempts
      BY <1>2, <3>1
    <3> QED
      BY <1>3, <3>1, <3>2 DEF Continued
  <2> QED
    BY <2>1, <2>2
<1>5. CASE e.type # "attempt_started"
  BY <1>1, <1>4, <1>5, AttemptTypes DEF next
<1>6. CASE e.type = "attempt_started"
  <2>1. /\ next.attempts = Append(run.attempts, NewAttempt(e))
        /\ NewAttempt(e).transition = e.details.transition /\ NewAttempt(e).identity = e.identity
    BY <1>1, <1>6, AttemptTypes DEF NewAttempt, IsEvent
  <2>2. DOMAIN next.attempts = DOMAIN run.attempts \cup {Len(run.attempts) + 1}
        /\ next.attempts[Len(run.attempts) + 1] = NewAttempt(e)
    BY <1>2, <2>1
  <2>3. Continued(next, Len(run.attempts) + 1)
    <3>1. CASE e.details.transition.kind = "initial"
      BY <2>1, <2>2, <3>1 DEF Continued
    <3>2. CASE e.details.transition.kind # "initial"
      <4>1. PICK m \in DOMAIN run.attempts :
              LET before     == run.attempts[m]
                  transition == e.details.transition
              IN  /\ before.id = transition.from
                  /\ before.status \in Failures
                  /\ transition.kind = "retry" => before.failure # None /\ before.failure.retryable
                  /\ transition.kind = "migration" /\ FromCommandsOnly("attempt_started") =>
                          ~SameIdentity(before.identity, e.identity)
        BY <1>6, <3>2 DEF ContinuesWell
      <4>2. m \in 1..(Len(run.attempts) + 1 - 1)
        BY <1>2
      <4> QED
        BY <1>3, <2>1, <2>2, <4>1, <4>2 DEF Continued
    <3> QED
      BY <3>1, <3>2
  <2> QED
    BY <1>4, <2>2, <2>3 DEF next
<1> QED
  BY <1>5, <1>6

----------------------------------------------------------------------------
\* The projection of one event.

Plain(e) == e.type \in Unprojected \cup {"task_created", "run_started"}

LEMMA FoldedFields ==
    ASSUME NEW v, IsView(v), v.ok, NEW e, Projects(v, e),
           ~Plain(e) => v.runs[e.run] \in RunRecord
    PROVE  LET w == Folded(v, e)
           IN  /\ IsView(w) /\ w.ok = v.ok
               /\ w.tasks = IF e.type = "task_created" THEN Put(v.tasks, e.task, {})
                            ELSE IF e.type = "run_started"
                            THEN [v.tasks EXCEPT ![e.task] = @ \cup {e.run}]
                            ELSE v.tasks
               /\ w.runs = IF e.type = "run_started"
                           THEN Put(v.runs, e.run,
                                    NewRun(e.task, IF Has(e, "budget") THEN e.details.budget
                                                   ELSE None))
                           ELSE IF Plain(e) THEN v.runs
                           ELSE [v.runs EXCEPT ![e.run] = NextRun(@, e)]
<1> USE DEF IsView
<1>1. /\ "task_created" \notin Unprojected /\ "run_started" \notin Unprojected
  BY ChangeTypes DEF Unprojected, HealthTypes
<1>2. CASE e.type = "task_created"
  BY <1>1, <1>2 DEF Folded, Plain
<1>3. CASE e.type = "run_started"
  BY <1>1, <1>3 DEF Folded, Plain
<1>4. CASE e.type \in Unprojected
  BY <1>1, <1>4 DEF Folded, Plain
<1>5. CASE ~Plain(e)
  <2>1. Folded(v, e) = [v EXCEPT !.runs[e.run] = Projected(@, e)]
    BY <1>1, <1>5 DEF Folded, Plain
  <2>2. Projected(v.runs[e.run], e) = NextRun(v.runs[e.run], e)
    BY <1>5, ProjectedRun
  <2>3. Folded(v, e) = [v EXCEPT !.runs = [v.runs EXCEPT ![e.run] = NextRun(v.runs[e.run], e)]]
    BY <2>1, <2>2
  <2> QED
    BY <1>5, <2>3 DEF Plain
<1> QED
  BY <1>2, <1>3, <1>4, <1>5 DEF Plain

LEMMA NotFolded ==
    ASSUME NEW v, IsView(v), NEW e, ~(v.ok /\ Projects(v, e))
    PROVE  LET w == Folded(v, e)
           IN  IsView(w) /\ w.ok = FALSE /\ w.tasks = v.tasks /\ w.runs = v.runs
<1>1. Folded(v, e) = [v EXCEPT !.ok = FALSE]
  BY DEF Folded
<1> QED
  BY <1>1 DEF IsView

----------------------------------------------------------------------------
\* What the verifier accepts can be projected.

LEMMA PlainTypes ==
    ASSUME NEW e,
           e.type \in AttemptEnds \cup RunEnding \cup Recordings \cup
                {"attempt_started", "thread_linked", "route_decided", "tool_call_completed",
                 "artifact_created", "verification_completed", "worktree_prepared"}
    PROVE  ~Plain(e)
BY ChangeTypes DEF Plain, Unprojected, HealthTypes, AttemptEnds, RunEnding, Recordings

\* The sums of what a Run used are in the counters.
Sums(v, e) ==
    e.type \in AttemptEnds =>
        LET sum == Consumed(v.runs[e.run].used, e.usage, e.status)
        IN  \A dimension \in DOMAIN sum : sum[dimension] <= MaxCount

LEMMA Accepted ==
    ASSUME NEW i, NEW v, NEW e, TraceInv(i), Agree(i, v), IsEvent(e), LinkFacts(i, e), ValidEvent(e)
    PROVE  /\ ~Plain(e) => /\ e.run \in DOMAIN v.runs
                           /\ Sums(v, e) => Readable(v.runs[e.run], e)
           /\ Projects(v, e) <=> Sums(v, e)
<1>1. ~Plain(e) => e.run \in DOMAIN v.runs
  BY DEF Plain, Unprojected, LinkFacts, RunLink, Agree
<1>2. ASSUME Seeks(e)
      PROVE  Place(v.runs[e.run], e.attempt) # {}
  <2>1. ~Plain(e) /\ AttemptLink(i, e)
    BY <1>2, PlainTypes DEF Seeks, AttemptEnds, LinkFacts
  <2>2. e.attempt \in OwnAttempts(i, e.run) /\ e.run \in DOMAIN v.runs
    BY <1>1, <2>1 DEF OwnAttempts, AttemptLink
  <2>3. e.attempt \in {v.runs[e.run].attempts[n].id : n \in DOMAIN v.runs[e.run].attempts}
    BY <2>2 DEF Agree, AttemptsAgree
  <2> QED
    BY <2>3 DEF Place
<1>3. ASSUME e.type \in Recordings
      PROVE  v.runs[e.run].worktree # None
  <2>1. ~Plain(e) /\ e.run \in DOMAIN i.worktrees
    BY <1>3, PlainTypes DEF Recordings, LinkFacts, OwnEvidence, TraceInv
  <2> QED
    BY <1>1, <2>1 DEF Agree, WorktreesAgree
<1>4. e.type \in AttemptEnds \cup RunEnding => e.status \in {"succeeded"} \cup Failures
  BY ValidFacts DEF AttemptEnds, RunEnding
<1>5. e.type \in AttemptEnds \cup Recordings \cup {"worktree_prepared", "artifact_created"}
        => e.attempt \in Attempts
  BY DEF AttemptEnds, Recordings, LinkFacts, AttemptLink, TraceInv
<1>6. e.type = "attempt_started" => e.identity # None
  BY ValidFacts
<1>7. Sums(v, e) => Readable(v.runs[e.run], e)
  BY <1>2, <1>3, <1>4, <1>5, <1>6 DEF Readable, Sums
<1>8. Projects(v, e) <=> Sums(v, e)
  <2>1. CASE e.type = "task_created" \/ e.type \in Unprojected
    BY <2>1, PlainTypes DEF Projects, Sums, Plain
  <2>2. CASE e.type = "run_started" /\ e.type \notin Unprojected
    BY <2>2 DEF Projects, Sums, AttemptEnds, LinkFacts, Agree
  <2>3. CASE ~Plain(e)
    <3>1. e.type \notin {"task_created", "run_started"} \cup Unprojected
      BY <2>3 DEF Plain
    <3> QED
      BY <1>1, <1>2, <1>3, <1>4, <2>3, <3>1
         DEF Projects, Sums, Seeks, AttemptEnds, RunEnding, Recordings
  <2> QED
    BY <2>1, <2>2, <2>3 DEF Plain
<1> QED
  BY <1>1, <1>7, <1>8

----------------------------------------------------------------------------
\* The verifier and the reports go on to agree, Run by Run.

After(run, r, e) == IF r = e.run /\ ~Plain(e) THEN NextRun(run, e) ELSE run

LEMMA AttemptsStep ==
    ASSUME NEW i, NEW e, NEW r \in DOMAIN i.runs, NEW run \in RunRecord,
           TraceInv(i), IsEvent(e), LinkFacts(i, e), Distinct(run),
           r = e.run /\ ~Plain(e) => Readable(run, e), AttemptsAgree(i, r, run)
    PROVE  AttemptsAgree(Indexed(i, e), r, After(run, r, e))
<1> DEFINE j    == Indexed(i, e)
           next == After(run, r, e)
<1>1. Entered(i, e, j)
  BY IndexedFields DEF TraceInv
<1> HIDE DEF j
<1>2. run.attempts \in Seq(AttemptRecord)
  BY DEF RunRecord
<1>3. /\ Len(run.attempts) = Cardinality(OwnAttempts(i, r))
      /\ {run.attempts[n].id : n \in DOMAIN run.attempts} = OwnAttempts(i, r)
      /\ \A n \in DOMAIN run.attempts :
            LET a == run.attempts[n]
            IN  /\ a.status = "running" <=> a.id \notin DOMAIN i.terminalAttempts
                /\ a.status # "running" =>
                    i.terminalAttempts[a.id] =
                        [status    |-> a.status,
                         retryable |-> a.failure # None /\ a.failure.retryable]
  BY DEF AttemptsAgree
<1>4. CASE e.type = "attempt_started"
  <2>1. /\ e.type \notin AttemptEnds /\ ~Plain(e)
        /\ j.terminalAttempts = i.terminalAttempts
        /\ DOMAIN j.attempts = DOMAIN i.attempts \cup {e.attempt}
        /\ j.attempts[e.attempt] = e.run
        /\ \A a \in DOMAIN i.attempts : a # e.attempt => j.attempts[a] = i.attempts[a]
    BY <1>1, <1>4, PlainTypes DEF Entered, Put, AttemptEnds
  <2>2. e.attempt \notin DOMAIN i.attempts /\ e.attempt \notin DOMAIN i.terminalAttempts
    BY <1>4 DEF LinkFacts, TraceInv
  <2>3. CASE r # e.run
    <3>1. OwnAttempts(j, r) = OwnAttempts(i, r)
      BY <2>1, <2>2, <2>3 DEF OwnAttempts
    <3> QED
      BY <1>3, <2>1, <2>3, <3>1 DEF AttemptsAgree, After, j
  <2>4. CASE r = e.run
    <3>1. OwnAttempts(j, r) = OwnAttempts(i, r) \cup {e.attempt}
      BY <2>1, <2>2, <2>4 DEF OwnAttempts
    <3>2. IsFiniteSet(OwnAttempts(i, r))
      <4>1. OwnAttempts(i, r) \subseteq 1..MaxAttempts
        BY DEF OwnAttempts, TraceInv, Attempts
      <4>2. IsFiniteSet(1..MaxAttempts)
        <5>1. 1 \in Int /\ MaxAttempts \in Int
          BY BoundsAssumption
        <5> QED
          BY <5>1, FS_Interval
      <4> QED
        BY <4>1, <4>2, FS_Subset
    <3>3. e.attempt \notin OwnAttempts(i, r)
      BY <2>2 DEF OwnAttempts
    <3>4. Cardinality(OwnAttempts(j, r)) = Cardinality(OwnAttempts(i, r)) + 1
      BY <3>1, <3>2, <3>3, FS_AddElement
    <3>5. /\ next.attempts = Append(run.attempts, NewAttempt(e))
          /\ NewAttempt(e).id = e.attempt /\ NewAttempt(e).status = "running"
      BY <1>4, <2>1, <2>4 DEF After, NextRun, NextAttempts, NewAttempt
    <3> HIDE DEF next
    <3>6. Len(next.attempts) = Cardinality(OwnAttempts(j, r))
      BY <1>2, <1>3, <3>4, <3>5
    <3>7. /\ DOMAIN next.attempts = DOMAIN run.attempts \cup {Len(run.attempts) + 1}
          /\ \A n \in DOMAIN run.attempts : next.attempts[n] = run.attempts[n]
          /\ next.attempts[Len(run.attempts) + 1] = NewAttempt(e)
      BY <1>2, <3>5
    <3>8. {next.attempts[n].id : n \in DOMAIN next.attempts} = OwnAttempts(j, r)
      BY <1>3, <3>1, <3>5, <3>7
    <3>9. ASSUME NEW n \in DOMAIN next.attempts
          PROVE  LET a == next.attempts[n]
                 IN  /\ a.status = "running" <=> a.id \notin DOMAIN j.terminalAttempts
                     /\ a.status # "running" =>
                         j.terminalAttempts[a.id] =
                             [status    |-> a.status,
                              retryable |-> a.failure # None /\ a.failure.retryable]
      <4>1. CASE n \in DOMAIN run.attempts
        <5>1. next.attempts[n] = run.attempts[n] /\ j.terminalAttempts = i.terminalAttempts
          BY <2>1, <3>7, <4>1
        <5> QED
          BY <1>3, <4>1, <5>1
      <4>2. CASE n = Len(run.attempts) + 1
        BY <2>1, <2>2, <3>5, <3>7, <4>2
      <4> QED
        BY <3>7, <4>1, <4>2
    <3> QED
      BY <3>6, <3>8, <3>9 DEF AttemptsAgree, next, j
  <2> QED
    BY <2>3, <2>4
<1>5. CASE e.type \in AttemptEnds
  <2>1. /\ e.type # "attempt_started" /\ ~Plain(e) /\ j.attempts = i.attempts
        /\ DOMAIN j.terminalAttempts = DOMAIN i.terminalAttempts \cup {e.attempt}
        /\ j.terminalAttempts[e.attempt] =
                [status |-> e.status, retryable |-> e.failure # None /\ e.failure.retryable]
        /\ \A a \in DOMAIN i.terminalAttempts :
                a # e.attempt => j.terminalAttempts[a] = i.terminalAttempts[a]
    BY <1>1, <1>5, PlainTypes DEF Entered, Put, AttemptEnds
  <2>2. i.attempts[e.attempt] = e.run
    BY <1>5 DEF LinkFacts, AttemptLink, AttemptEnds
  <2>3. OwnAttempts(j, r) = OwnAttempts(i, r)
    BY <2>1 DEF OwnAttempts
  <2>4. CASE r # e.run
    <3>1. \A n \in DOMAIN run.attempts : run.attempts[n].id # e.attempt
      BY <1>3, <2>2, <2>4 DEF OwnAttempts
    <3>2. next = run
      BY <2>4 DEF After
    <3> HIDE DEF next
    <3>3. ASSUME NEW n \in DOMAIN run.attempts
          PROVE  LET a == run.attempts[n]
                 IN  /\ a.status = "running" <=> a.id \notin DOMAIN j.terminalAttempts
                     /\ a.status # "running" =>
                         j.terminalAttempts[a.id] =
                             [status    |-> a.status,
                              retryable |-> a.failure # None /\ a.failure.retryable]
      <4>1. PICK a : a = run.attempts[n]
        OBVIOUS
      <4>2. /\ a.id # e.attempt
            /\ a.status = "running" <=> a.id \notin DOMAIN i.terminalAttempts
            /\ a.status # "running" =>
                i.terminalAttempts[a.id] =
                    [status    |-> a.status,
                     retryable |-> a.failure # None /\ a.failure.retryable]
        BY <1>3, <3>1, <4>1
      <4>3. a.id \in DOMAIN j.terminalAttempts <=> a.id \in DOMAIN i.terminalAttempts
        BY <2>1, <4>2
      <4>4. a.id \in DOMAIN i.terminalAttempts =>
                j.terminalAttempts[a.id] = i.terminalAttempts[a.id]
        BY <2>1, <4>2
      <4> QED
        BY <4>1, <4>2, <4>3, <4>4
    <3>4. /\ Len(run.attempts) = Cardinality(OwnAttempts(j, r))
          /\ {run.attempts[n].id : n \in DOMAIN run.attempts} = OwnAttempts(j, r)
      BY <1>3, <2>3
    <3> QED
      BY <3>2, <3>3, <3>4 DEF AttemptsAgree, next, j
  <2>5. CASE r = e.run
    <3>1. Readable(run, e) /\ Place(run, e.attempt) # {}
      BY <1>5, <2>1, <2>5 DEF Readable, Seeks
    <3>2. next.attempts = NextAttempts(run, e)
      BY <2>1, <2>5 DEF After, NextRun
    <3> HIDE DEF next
    <3>3. PICK k : k = Found(run, e)
      OBVIOUS
    <3>4. k \in DOMAIN run.attempts /\ run.attempts[k].id = e.attempt
      BY <3>1, <3>3, FoundPlace
    <3>5. /\ DOMAIN next.attempts = DOMAIN run.attempts
          /\ next.attempts \in Seq(AttemptRecord)
          /\ \A n \in DOMAIN run.attempts :
                /\ next.attempts[n].id = run.attempts[n].id
                /\ n # k => /\ next.attempts[n].status = run.attempts[n].status
                            /\ next.attempts[n].failure = run.attempts[n].failure
          /\ next.attempts[k].status = e.status /\ next.attempts[k].failure = e.failure
      BY <1>5, <2>1, <3>1, <3>2, <3>3, <3>4, AttemptTypes
    <3>6. Len(next.attempts) = Len(run.attempts)
      BY <1>2, <3>5
    <3>7. ASSUME NEW n \in DOMAIN next.attempts
          PROVE  LET a == next.attempts[n]
                 IN  /\ a.status = "running" <=> a.id \notin DOMAIN j.terminalAttempts
                     /\ a.status # "running" =>
                         j.terminalAttempts[a.id] =
                             [status    |-> a.status,
                              retryable |-> a.failure # None /\ a.failure.retryable]
      <4>1. CASE n = k
        <5>1. e.status # "running"
          BY <1>5, <3>1 DEF Readable, Failures
        <5> QED
          BY <2>1, <3>4, <3>5, <4>1, <5>1
      <4>2. CASE n # k
        <5>1. run.attempts[n].id # e.attempt /\ n \in DOMAIN run.attempts
          BY <3>4, <3>5, <4>2 DEF Distinct
        <5>2. /\ next.attempts[n].id = run.attempts[n].id
              /\ next.attempts[n].status = run.attempts[n].status
              /\ next.attempts[n].failure = run.attempts[n].failure
          BY <3>5, <4>2, <5>1
        <5>3. PICK a : a = run.attempts[n].id
          OBVIOUS
        <5>4. /\ a \in DOMAIN j.terminalAttempts <=> a \in DOMAIN i.terminalAttempts
              /\ a \in DOMAIN i.terminalAttempts =>
                    j.terminalAttempts[a] = i.terminalAttempts[a]
          BY <2>1, <5>1, <5>3
        <5>5. /\ run.attempts[n].status = "running" <=> a \notin DOMAIN i.terminalAttempts
              /\ run.attempts[n].status # "running" =>
                    i.terminalAttempts[a] =
                        [status    |-> run.attempts[n].status,
                         retryable |-> /\ run.attempts[n].failure # None
                                       /\ run.attempts[n].failure.retryable]
          BY <1>3, <5>1, <5>3
        <5> QED
          BY <5>2, <5>3, <5>4, <5>5
      <4> QED
        BY <4>1, <4>2
    <3>8. {next.attempts[n].id : n \in DOMAIN next.attempts} = OwnAttempts(j, r)
      BY <1>3, <2>3, <3>5
    <3> QED
      BY <1>3, <2>3, <3>6, <3>7, <3>8 DEF AttemptsAgree, next, j
  <2> QED
    BY <2>4, <2>5
<1>6. CASE e.type \notin AttemptEnds \cup {"attempt_started"}
  <2>1. j.attempts = i.attempts /\ j.terminalAttempts = i.terminalAttempts
    BY <1>1, <1>6 DEF Entered, AttemptEnds
  <2>2. OwnAttempts(j, r) = OwnAttempts(i, r)
    BY <2>1 DEF OwnAttempts
  <2>3. /\ Len(next.attempts) = Len(run.attempts) /\ DOMAIN next.attempts = DOMAIN run.attempts
        /\ \A n \in DOMAIN run.attempts :
            /\ next.attempts[n].id = run.attempts[n].id
            /\ next.attempts[n].status = run.attempts[n].status
            /\ next.attempts[n].failure = run.attempts[n].failure
    <3>1. CASE r = e.run /\ ~Plain(e)
      <4>1. next.attempts = NextAttempts(run, e) /\ Readable(run, e)
        BY <3>1 DEF After, NextRun
      <4> HIDE DEF next
      <4>2. /\ next.attempts \in Seq(AttemptRecord) /\ DOMAIN next.attempts = DOMAIN run.attempts
            /\ \A n \in DOMAIN run.attempts :
                /\ next.attempts[n].id = run.attempts[n].id
                /\ next.attempts[n].status = run.attempts[n].status
                /\ next.attempts[n].failure = run.attempts[n].failure
        BY <1>6, <4>1, AttemptTypes
      <4> QED
        BY <1>2, <4>2
    <3>2. CASE ~(r = e.run /\ ~Plain(e))
      BY <3>2 DEF After
    <3> QED
      BY <3>1, <3>2
  <2> HIDE DEF next
  <2>4. {next.attempts[n].id : n \in DOMAIN next.attempts} = OwnAttempts(j, r)
    BY <1>3, <2>2, <2>3
  <2> QED
    BY <1>3, <2>1, <2>2, <2>3, <2>4 DEF AttemptsAgree, next, j
<1> QED
  BY <1>4, <1>5, <1>6

LEMMA RecordsStep ==
    ASSUME NEW i, NEW e, NEW r \in DOMAIN i.runs, NEW run \in RunRecord,
           TraceInv(i), IsEvent(e), LinkFacts(i, e), e.id = i.events + 1,
           RecordsAgree(i, r, run)
    PROVE  RecordsAgree(Indexed(i, e), r, After(run, r, e))
<1> DEFINE j    == Indexed(i, e)
           next == After(run, r, e)
           Owned(f) == {x \in DOMAIN f : f[x] = r}
           Decided(f) == {d \in DOMAIN f : f[d].run = r}
<1>1. Entered(i, e, j)
  BY IndexedFields DEF TraceInv
<1> HIDE DEF j
<1>2. next.threads = IF e.type = "thread_linked" /\ r = e.run
                     THEN run.threads \cup {e.thread} ELSE run.threads
  BY PlainTypes DEF After, NextRun
<1>3. next.decisions = IF e.type = "route_decided" /\ r = e.run
                       THEN run.decisions \cup {e.id} ELSE run.decisions
  BY PlainTypes DEF After, NextRun
<1>4. next.artifacts = IF e.type = "artifact_created" /\ r = e.run
                       THEN run.artifacts \cup {[id |-> Artifact(e), attempt |-> e.attempt]}
                       ELSE run.artifacts
  BY PlainTypes DEF After, NextRun
<1> HIDE DEF next
<1>5. /\ run.threads = Owned(i.threads) /\ {x.id : x \in run.artifacts} = Owned(i.artifacts)
      /\ run.decisions = Decided(i.decisions)
  BY DEF RecordsAgree
<1>6. next.threads = Owned(j.threads)
  <2>1. CASE e.type = "thread_linked"
    <3>1. j.threads = Put(i.threads, e.thread, e.run) /\ e.thread \notin DOMAIN i.threads
      BY <1>1, <2>1 DEF Entered, LinkFacts
    <3>2. Owned(j.threads) = Owned(i.threads) \cup (IF e.run = r THEN {e.thread} ELSE {})
      BY <3>1 DEF Put
    <3> QED
      BY <1>2, <1>5, <2>1, <3>2
  <2>2. CASE e.type # "thread_linked"
    BY <1>1, <1>2, <1>5, <2>2 DEF Entered
  <2> QED
    BY <2>1, <2>2
<1>7. {x.id : x \in next.artifacts} = Owned(j.artifacts)
  <2>1. CASE e.type = "artifact_created"
    <3>1. j.artifacts = Put(i.artifacts, Artifact(e), e.run) /\ Artifact(e) \notin DOMAIN i.artifacts
      BY <1>1, <2>1 DEF Entered, LinkFacts
    <3>2. Owned(j.artifacts) = Owned(i.artifacts) \cup (IF e.run = r THEN {Artifact(e)} ELSE {})
      BY <3>1 DEF Put
    <3>3. PICK x : x = [id |-> Artifact(e), attempt |-> e.attempt]
      OBVIOUS
    <3>4. /\ x.id = Artifact(e)
          /\ next.artifacts = IF e.run = r THEN run.artifacts \cup {x} ELSE run.artifacts
      BY <1>4, <2>1, <3>3
    <3> QED
      BY <1>5, <3>2, <3>4
  <2>2. CASE e.type # "artifact_created"
    BY <1>1, <1>4, <1>5, <2>2 DEF Entered
  <2> QED
    BY <2>1, <2>2
<1>8. next.decisions = Decided(j.decisions)
  <2>1. CASE e.type = "route_decided"
    <3> DEFINE value == [run |-> e.run, identity |-> e.identity,
                         candidate |-> e.details.routing.candidate]
    <3>1. j.decisions = Put(i.decisions, i.events + 1, value)
      BY <1>1, <2>1 DEF Entered
    <3>2. i.events + 1 \notin DOMAIN i.decisions
      BY DEF TraceInv
    <3>3. value.run = e.run
      OBVIOUS
    <3> HIDE DEF value
    <3>4. Decided(j.decisions) =
            Decided(i.decisions) \cup (IF e.run = r THEN {i.events + 1} ELSE {})
      BY <3>1, <3>2, <3>3 DEF Put
    <3> QED
      BY <1>3, <1>5, <2>1, <3>4
  <2>2. CASE e.type # "route_decided"
    BY <1>1, <1>3, <1>5, <2>2 DEF Entered
  <2> QED
    BY <2>1, <2>2
<1> QED
  BY <1>6, <1>7, <1>8 DEF RecordsAgree, next, j

LEMMA WorktreesStep ==
    ASSUME NEW i, NEW e, NEW r \in DOMAIN i.runs, NEW run \in RunRecord,
           TraceInv(i), IsEvent(e), LinkFacts(i, e),
           r = e.run /\ ~Plain(e) => Readable(run, e), WorktreesAgree(i, r, run)
    PROVE  WorktreesAgree(Indexed(i, e), r, After(run, r, e))
<1> DEFINE j    == Indexed(i, e)
           next == After(run, r, e)
           Recorded(f) == {x \in DOMAIN f : f[x].run = r}
<1>1. /\ j.worktrees = IF e.type = "worktree_prepared"
                       THEN Put(i.worktrees, e.run, [attempt |-> e.attempt,
                                                     identity |-> e.identity])
                       ELSE i.worktrees
      /\ j.evidence = IF e.type = "worktree_evidence_recorded"
                      THEN Put(i.evidence, e.details.evidence.id,
                               [run |-> e.run, head |-> e.details.evidence.head])
                      ELSE i.evidence
  BY IndexedFields DEF TraceInv
<1> HIDE DEF j
<1>2. next.worktree = IF r = e.run /\ e.type \in Recordings \cup {"worktree_prepared"}
                      THEN NextWorktree(run, e) ELSE run.worktree
  BY PlainTypes DEF After, NextRun, NextWorktree, Recordings
<1> HIDE DEF next
<1>3. /\ run.worktree # None <=> r \in DOMAIN i.worktrees
      /\ run.worktree # None =>
            /\ i.worktrees[r] = [attempt  |-> run.worktree.attempt,
                                 identity |-> run.worktree.identity]
            /\ Len(run.worktree.evidence) = Cardinality(Recorded(i.evidence))
  BY DEF WorktreesAgree
<1>4. run.worktree # None => run.worktree \in WorktreeRecord
  BY DEF RunRecord
<1>5. CASE e.type = "worktree_prepared"
  <2>1. /\ DOMAIN j.worktrees = DOMAIN i.worktrees \cup {e.run}
        /\ j.worktrees[e.run] = [attempt |-> e.attempt, identity |-> e.identity]
        /\ \A x \in DOMAIN i.worktrees : x # e.run => j.worktrees[x] = i.worktrees[x]
        /\ j.evidence = i.evidence
    BY <1>1, <1>5 DEF Put
  <2>2. CASE r # e.run
    BY <1>2, <1>3, <2>1, <2>2 DEF WorktreesAgree, next, j
  <2>3. CASE r = e.run
    <3>1. r \notin DOMAIN i.worktrees /\ Recorded(i.evidence) = {}
      BY <1>5, <2>3 DEF LinkFacts, TraceInv
    <3>2. next.worktree = [attempt |-> e.attempt, identity |-> e.identity,
                           base |-> e.details.worktree.base,
                           evidence |-> <<>>, reviews |-> <<>>, checks |-> <<>>]
      BY <1>2, <1>5, <2>3 DEF NextWorktree
    <3>3. next.worktree # None
      <4>1. e.attempt \in Attempts /\ e.identity \in Identities /\ e.details.worktree.base = 0
        BY <1>5, <2>3, PlainTypes DEF IsEvent, Readable
      <4>2. /\ <<>> \in Seq(EvidenceRecord) /\ <<>> \in Seq(ReviewRecord)
            /\ <<>> \in Seq(CheckRecord)
        OBVIOUS
      <4>3. next.worktree \in WorktreeRecord
        BY <3>2, <4>1, <4>2 DEF WorktreeRecord
      <4> QED
        BY <4>3, NoneAssumption
    <3>4. Len(next.worktree.evidence) = 0
      BY <3>2
    <3>5. Cardinality(Recorded(j.evidence)) = 0
      BY <2>1, <3>1, FS_EmptySet
    <3>6. next.worktree.attempt = e.attempt /\ next.worktree.identity = e.identity
      BY <3>2
    <3> QED
      BY <2>1, <2>3, <3>3, <3>4, <3>5, <3>6 DEF WorktreesAgree, next, j
  <2> QED
    BY <2>2, <2>3
<1>6. CASE e.type = "worktree_evidence_recorded"
  <2> DEFINE key   == e.details.evidence.id
             value == [run |-> e.run, head |-> e.details.evidence.head]
  <2>1. j.worktrees = i.worktrees /\ j.evidence = Put(i.evidence, key, value)
    BY <1>1, <1>6
  <2>2. key \notin DOMAIN i.evidence /\ value.run = e.run
    BY <1>6 DEF LinkFacts
  <2> HIDE DEF key, value
  <2>3. Recorded(j.evidence) = Recorded(i.evidence) \cup (IF e.run = r THEN {key} ELSE {})
    BY <2>1, <2>2 DEF Put
  <2>4. CASE r # e.run
    BY <1>2, <1>3, <2>1, <2>3, <2>4 DEF WorktreesAgree, next, j
  <2>5. CASE r = e.run
    <3>1. run.worktree # None /\ run.worktree \in WorktreeRecord
      BY <1>4, <1>6, <2>5, PlainTypes DEF Readable, Recordings
    <3>2. next.worktree = [run.worktree EXCEPT !.evidence = Append(@, e.details.evidence)]
      BY <1>2, <1>6, <2>5 DEF NextWorktree, Recordings
    <3>3. e.details.evidence \in EvidenceRecord
      BY <1>6 DEF IsEvent
    <3>4. run.worktree.evidence \in Seq(EvidenceRecord)
      BY <3>1 DEF WorktreeRecord
    <3>5. PICK entries : entries = Append(run.worktree.evidence, e.details.evidence)
      OBVIOUS
    <3>6. entries \in Seq(EvidenceRecord) /\ Len(entries) = Len(run.worktree.evidence) + 1
      BY <3>3, <3>4, <3>5
    <3>7. next.worktree = [run.worktree EXCEPT !.evidence = entries]
      BY <3>2, <3>5
    <3>8. /\ next.worktree \in WorktreeRecord /\ next.worktree.evidence = entries
          /\ next.worktree.attempt = run.worktree.attempt
          /\ next.worktree.identity = run.worktree.identity
      BY <3>1, <3>6, <3>7 DEF WorktreeRecord
    <3>9. Cardinality(Recorded(j.evidence)) = Cardinality(Recorded(i.evidence)) + 1
      <4>1. Recorded(i.evidence) \subseteq 1..MaxPieces
        BY DEF TraceInv, Pieces
      <4>2. IsFiniteSet(1..MaxPieces)
        <5>1. 1 \in Int /\ MaxPieces \in Int
          BY BoundsAssumption
        <5> QED
          BY <5>1, FS_Interval
      <4>3. IsFiniteSet(Recorded(i.evidence)) /\ key \notin Recorded(i.evidence)
        BY <2>2, <4>1, <4>2, FS_Subset
      <4> QED
        BY <2>3, <2>5, <4>3, FS_AddElement
    <3>10. next.worktree # None
      BY <3>8, NoneAssumption
    <3> QED
      BY <1>3, <2>1, <3>1, <3>6, <3>8, <3>9, <3>10 DEF WorktreesAgree, next, j
  <2> QED
    BY <2>4, <2>5
<1>7. CASE e.type \notin {"worktree_prepared", "worktree_evidence_recorded"}
  <2>1. j.worktrees = i.worktrees /\ j.evidence = i.evidence
    BY <1>1, <1>7
  <2>2. CASE r = e.run /\ e.type \in Recordings
    <3>1. run.worktree # None /\ run.worktree \in WorktreeRecord
      BY <1>4, <2>2, PlainTypes DEF Readable
    <3>2. PICK reviews, checks :
            /\ next.worktree = [run.worktree EXCEPT !.reviews = reviews, !.checks = checks]
            /\ reviews \in Seq(ReviewRecord) /\ checks \in Seq(CheckRecord)
      <4>1. /\ run.worktree.reviews \in Seq(ReviewRecord)
            /\ run.worktree.checks \in Seq(CheckRecord)
        BY <3>1 DEF WorktreeRecord
      <4>2. CASE e.type = "worktree_review_recorded"
        <5>1. e.details.review \in ReviewRecord
          BY <4>2 DEF IsEvent
        <5>2. Append(run.worktree.reviews, e.details.review) \in Seq(ReviewRecord)
          BY <4>1, <5>1
        <5>3. next.worktree = [run.worktree EXCEPT
                    !.reviews = Append(run.worktree.reviews, e.details.review),
                    !.checks  = run.worktree.checks]
          BY <1>2, <2>2, <3>1, <4>2 DEF NextWorktree, WorktreeRecord
        <5> QED
          BY <4>1, <5>2, <5>3
      <4>3. CASE e.type = "worktree_conflict_checked"
        <5>1. e.details.conflict \in CheckRecord
          BY <4>3 DEF IsEvent
        <5>2. Append(run.worktree.checks, e.details.conflict) \in Seq(CheckRecord)
          BY <4>1, <5>1
        <5>3. next.worktree = [run.worktree EXCEPT
                    !.reviews = run.worktree.reviews,
                    !.checks  = Append(run.worktree.checks, e.details.conflict)]
          BY <1>2, <2>2, <3>1, <4>3 DEF NextWorktree, WorktreeRecord
        <5> QED
          BY <4>1, <5>2, <5>3
      <4> QED
        BY <1>7, <2>2, <4>2, <4>3 DEF Recordings
    <3>3. /\ next.worktree \in WorktreeRecord
          /\ next.worktree.evidence = run.worktree.evidence
          /\ next.worktree.attempt = run.worktree.attempt
          /\ next.worktree.identity = run.worktree.identity
      BY <3>1, <3>2 DEF WorktreeRecord
    <3>4. next.worktree # None
      BY <3>3, NoneAssumption
    <3> QED
      BY <1>3, <2>1, <3>1, <3>3, <3>4 DEF WorktreesAgree, next, j
  <2>3. CASE ~(r = e.run /\ e.type \in Recordings)
    BY <1>2, <1>3, <1>7, <2>1, <2>3 DEF WorktreesAgree, next, j
  <2> QED
    BY <2>2, <2>3
<1> QED
  BY <1>5, <1>6, <1>7

Fresh(e) == NewRun(e.task, IF Has(e, "budget") THEN e.details.budget ELSE None)

LEMMA NewRunTypes ==
    ASSUME NEW e, IsEvent(e), e.type = "run_started", e.task \in Tasks
    PROVE  /\ Fresh(e) \in RunRecord /\ Fits(Fresh(e)) /\ Distinct(Fresh(e))
           /\ Fresh(e).attempts = <<>> /\ Fresh(e).status = "running" /\ Fresh(e).task = e.task
           /\ Fresh(e).used = NoUse
           /\ Fresh(e).threads = {} /\ Fresh(e).artifacts = {} /\ Fresh(e).decisions = {}
           /\ Fresh(e).verifications = {} /\ Fresh(e).worktree = None
<1> DEFINE budget == IF Has(e, "budget") THEN e.details.budget ELSE None
<1>1. budget \in Budgets
  BY DEF IsEvent, Budgets
<1> HIDE DEF budget
<1>2. NewRun(e.task, budget).used = NoUse /\ NoUse \in UseRecord
  BY DEF NewRun, NoUse, UseRecord
<1>3. \A dimension \in DOMAIN NoUse : NoUse[dimension] = 0
  BY DEF NoUse
<1>4. <<>> \in Seq(AttemptRecord) /\ <<>> \in Seq(Artifacts) /\ "running" \in Statuses
  BY DEF Statuses
<1>5. NewRun(e.task, budget) \in RunRecord
  BY <1>1, <1>2, <1>4 DEF NewRun, RunRecord
<1>6. Fits(NewRun(e.task, budget))
  BY <1>2, <1>3, BoundsAssumption DEF Fits
<1>7. NewRun(e.task, budget).attempts = <<>>
  BY DEF NewRun
<1>8. Distinct(NewRun(e.task, budget))
  BY <1>7 DEF Distinct
<1>9. LET run == NewRun(e.task, budget)
      IN  /\ run.status = "running" /\ run.task = e.task
          /\ run.threads = {} /\ run.artifacts = {} /\ run.decisions = {}
          /\ run.verifications = {} /\ run.worktree = None
  BY DEF NewRun
<1>10. Fresh(e) = NewRun(e.task, budget)
  BY DEF Fresh, budget
<1> QED
  BY <1>2, <1>5, <1>6, <1>7, <1>8, <1>9, <1>10

\* The tasks and the Runs after an event that can be projected.
NextView(v, e, w) ==
    /\ IsView(w) /\ w.ok = v.ok
    /\ w.tasks = IF e.type = "task_created" THEN Put(v.tasks, e.task, {})
                 ELSE IF e.type = "run_started"
                 THEN [v.tasks EXCEPT ![e.task] = @ \cup {e.run}]
                 ELSE v.tasks
    /\ DOMAIN w.runs = DOMAIN v.runs \cup (IF e.type = "run_started" THEN {e.run} ELSE {})
    /\ e.type = "run_started" => w.runs[e.run] = Fresh(e)
    /\ \A r \in DOMAIN v.runs :
        /\ w.runs[r] = After(v.runs[r], r, e)
        /\ r = e.run /\ ~Plain(e) => Readable(v.runs[r], e)

LEMMA FoldedRuns ==
    ASSUME NEW i, NEW v, NEW e, TraceInv(i), ViewInv(v), v.ok, Agree(i, v), IsEvent(e),
           LinkFacts(i, e), ValidEvent(e), Sums(v, e)
    PROVE  NextView(v, e, Folded(v, e))
<1> DEFINE w == Folded(v, e)
<1>1. Projects(v, e) /\ (~Plain(e) => e.run \in DOMAIN v.runs /\ Readable(v.runs[e.run], e))
  BY Accepted
<1>2. ~Plain(e) => v.runs[e.run] \in RunRecord
  BY <1>1 DEF ViewInv
<1>3. /\ IsView(w) /\ w.ok = v.ok
      /\ w.tasks = IF e.type = "task_created" THEN Put(v.tasks, e.task, {})
                   ELSE IF e.type = "run_started"
                   THEN [v.tasks EXCEPT ![e.task] = @ \cup {e.run}]
                   ELSE v.tasks
      /\ w.runs = IF e.type = "run_started" THEN Put(v.runs, e.run, Fresh(e))
                  ELSE IF Plain(e) THEN v.runs
                  ELSE [v.runs EXCEPT ![e.run] = NextRun(@, e)]
  BY <1>1, <1>2, FoldedFields DEF ViewInv, Fresh
<1> HIDE DEF w
<1>4. CASE e.type = "run_started"
  <2>1. Plain(e) /\ e.run \notin DOMAIN v.runs
    BY <1>4 DEF Plain, LinkFacts, Agree
  <2>2. /\ DOMAIN w.runs = DOMAIN v.runs \cup {e.run} /\ w.runs[e.run] = Fresh(e)
        /\ \A r \in DOMAIN v.runs : w.runs[r] = v.runs[r]
    BY <1>3, <1>4, <2>1 DEF Put
  <2> QED
    BY <1>3, <1>4, <2>1, <2>2 DEF NextView, After, w
<1>5. CASE e.type # "run_started" /\ Plain(e)
  BY <1>3, <1>5 DEF NextView, After, w
<1>6. CASE e.type # "run_started" /\ ~Plain(e)
  <2>1. /\ DOMAIN w.runs = DOMAIN v.runs
        /\ \A r \in DOMAIN v.runs :
            w.runs[r] = IF r = e.run THEN NextRun(v.runs[r], e) ELSE v.runs[r]
    BY <1>1, <1>3, <1>6
  <2> QED
    BY <1>1, <1>3, <1>6, <2>1 DEF NextView, After, w
<1> QED
  BY <1>4, <1>5, <1>6

LEMMA AgreeStep ==
    ASSUME NEW i, NEW v, NEW e, TraceInv(i), ViewInv(v), v.ok, Agree(i, v), IsEvent(e),
           e.id = i.events + 1, LinkFacts(i, e), ValidEvent(e), Sums(v, e)
    PROVE  Agree(Indexed(i, e), Folded(v, e))
<1> DEFINE j == Indexed(i, e)
           w == Folded(v, e)
<1>1. Entered(i, e, j) /\ j.worktrees = (IF e.type = "worktree_prepared"
                            THEN Put(i.worktrees, e.run, [attempt |-> e.attempt,
                                                          identity |-> e.identity])
                            ELSE i.worktrees)
      /\ j.evidence = (IF e.type = "worktree_evidence_recorded"
                       THEN Put(i.evidence, e.details.evidence.id,
                                [run |-> e.run, head |-> e.details.evidence.head])
                       ELSE i.evidence)
  BY IndexedFields DEF TraceInv
<1>2. /\ w.tasks = IF e.type = "task_created" THEN Put(v.tasks, e.task, {})
                   ELSE IF e.type = "run_started"
                   THEN [v.tasks EXCEPT ![e.task] = @ \cup {e.run}]
                   ELSE v.tasks
      /\ DOMAIN w.runs = DOMAIN v.runs \cup (IF e.type = "run_started" THEN {e.run} ELSE {})
      /\ e.type = "run_started" => w.runs[e.run] = Fresh(e)
      /\ \A r \in DOMAIN v.runs :
            /\ w.runs[r] = After(v.runs[r], r, e)
            /\ r = e.run /\ ~Plain(e) => Readable(v.runs[r], e)
  <2>1. NextView(v, e, w)
    BY FoldedRuns
  <2> QED
    BY <2>1 DEF NextView
<1>3. /\ DOMAIN v.tasks = i.tasks /\ DOMAIN v.runs = DOMAIN i.runs
      /\ \A r \in DOMAIN v.runs :
            /\ i.runs[r] = v.runs[r].task /\ r \in v.tasks[v.runs[r].task]
            /\ v.runs[r].status = "running" <=> r \notin i.terminalRuns
            /\ AttemptsAgree(i, r, v.runs[r]) /\ RecordsAgree(i, r, v.runs[r])
            /\ WorktreesAgree(i, r, v.runs[r])
      /\ i.verifications = UNION {v.runs[r].verifications : r \in DOMAIN v.runs}
  BY DEF Agree
<1>4. e.type = "run_started" => /\ e.run \notin DOMAIN v.runs /\ e.task \in i.tasks
                                /\ e.task \in Tasks
  BY <1>3 DEF LinkFacts, TraceInv
<1>5. \A r \in DOMAIN v.runs : v.runs[r] \in RunRecord /\ Distinct(v.runs[r])
  BY DEF ViewInv
<1>6. e.type = "task_created" => e.task \notin i.tasks
  BY DEF LinkFacts
<1> HIDE DEF j, w
<1>7. DOMAIN w.tasks = j.tasks
  BY <1>1, <1>2, <1>3 DEF Entered, Put
<1>8. DOMAIN w.runs = DOMAIN j.runs
  BY <1>1, <1>2, <1>3 DEF Entered, Put
<1>9. ASSUME NEW r \in DOMAIN v.runs
      PROVE  /\ j.runs[r] = w.runs[r].task /\ r \in w.tasks[w.runs[r].task]
             /\ w.runs[r].status = "running" <=> r \notin j.terminalRuns
             /\ AttemptsAgree(j, r, w.runs[r]) /\ RecordsAgree(j, r, w.runs[r])
             /\ WorktreesAgree(j, r, w.runs[r])
  <2>1. w.runs[r] = After(v.runs[r], r, e)
    BY <1>2
  <2>2. w.runs[r].task = v.runs[r].task
    BY <2>1 DEF After, NextRun
  <2>3. j.runs[r] = i.runs[r]
    BY <1>1, <1>3, <1>4 DEF Entered, Put
  <2>4. r \in w.tasks[v.runs[r].task]
    <3>1. v.runs[r].task \in DOMAIN v.tasks
      BY <1>3 DEF TraceInv
    <3> QED
      BY <1>2, <1>3, <1>6, <3>1 DEF Put
  <2>5. w.runs[r].status = "running" <=> r \notin j.terminalRuns
    <3>1. CASE e.type \in RunEnding /\ r = e.run
      <4>1. ~Plain(e) /\ Readable(v.runs[r], e)
        BY <1>2, <3>1, PlainTypes
      <4>2. w.runs[r].status = e.status /\ e.status # "running"
        BY <2>1, <3>1, <4>1 DEF After, NextRun, Readable, Failures
      <4> QED
        BY <1>1, <3>1, <4>2 DEF Entered, RunEnding
    <3>2. CASE ~(e.type \in RunEnding /\ r = e.run)
      <4>1. w.runs[r].status = v.runs[r].status
        BY <2>1, <3>2 DEF After, NextRun
      <4> QED
        BY <1>1, <1>3, <3>2, <4>1 DEF Entered, RunEnding
    <3> QED
      BY <3>1, <3>2
  <2>6. PICK run : run = v.runs[r]
    OBVIOUS
  <2>7. /\ r \in DOMAIN i.runs /\ run \in RunRecord /\ Distinct(run)
        /\ r = e.run /\ ~Plain(e) => Readable(run, e)
        /\ AttemptsAgree(i, r, run) /\ RecordsAgree(i, r, run) /\ WorktreesAgree(i, r, run)
        /\ w.runs[r] = After(run, r, e)
    BY <1>2, <1>3, <1>5, <2>6
  <2>8. AttemptsAgree(j, r, w.runs[r])
    BY <2>7, AttemptsStep DEF j
  <2>9. RecordsAgree(j, r, w.runs[r])
    BY <2>7, RecordsStep DEF j
  <2>10. WorktreesAgree(j, r, w.runs[r])
    BY <2>7, WorktreesStep DEF j
  <2> QED
    BY <1>3, <2>2, <2>3, <2>4, <2>5, <2>8, <2>9, <2>10
<1>10. ASSUME e.type = "run_started"
       PROVE  LET r == e.run
              IN  /\ j.runs[r] = w.runs[r].task /\ r \in w.tasks[w.runs[r].task]
                  /\ w.runs[r].status = "running" <=> r \notin j.terminalRuns
                  /\ AttemptsAgree(j, r, w.runs[r]) /\ RecordsAgree(j, r, w.runs[r])
                  /\ WorktreesAgree(j, r, w.runs[r]) /\ w.runs[r].verifications = {}
  <2> DEFINE r == e.run
  <2>1. r \notin DOMAIN i.runs
    BY <1>3, <1>4, <1>10
  <2>2. PICK run : run = w.runs[r]
    OBVIOUS
  <2>3. /\ run.attempts = <<>> /\ run.status = "running" /\ run.task = e.task
        /\ run.threads = {} /\ run.artifacts = {} /\ run.decisions = {}
        /\ run.verifications = {} /\ run.worktree = None
    BY <1>2, <1>4, <1>10, <2>2, NewRunTypes
  <2>4. /\ j.attempts = i.attempts /\ j.threads = i.threads /\ j.artifacts = i.artifacts
        /\ j.decisions = i.decisions /\ j.terminalRuns = i.terminalRuns
        /\ j.worktrees = i.worktrees /\ j.evidence = i.evidence
        /\ j.runs[r] = e.task
    BY <1>1, <1>10 DEF Entered, Put
  <2>5. r \in w.tasks[e.task]
    BY <1>2, <1>3, <1>4, <1>10
  <2>6. r \notin i.terminalRuns
    BY <2>1 DEF TraceInv
  <2>7. AttemptsAgree(j, r, run)
    <3>1. OwnAttempts(j, r) = {}
      BY <2>1, <2>4 DEF OwnAttempts, TraceInv
    <3>2. DOMAIN run.attempts = {} /\ Len(run.attempts) = 0
      BY <2>3
    <3>3. {run.attempts[n].id : n \in DOMAIN run.attempts} = {}
      BY <3>2
    <3> QED
      BY <3>1, <3>2, <3>3, FS_EmptySet DEF AttemptsAgree
  <2>8. RecordsAgree(j, r, run)
    BY <2>1, <2>3, <2>4 DEF RecordsAgree, TraceInv
  <2>9. WorktreesAgree(j, r, run)
    BY <2>1, <2>3, <2>4 DEF WorktreesAgree, TraceInv
  <2> QED
    BY <2>2, <2>3, <2>4, <2>5, <2>6, <2>7, <2>8, <2>9
<1>11. j.verifications = UNION {w.runs[r].verifications : r \in DOMAIN w.runs}
  <2>1. j.verifications = IF e.type = "verification_completed"
                          THEN i.verifications \cup {Verification(e)} ELSE i.verifications
    BY <1>1 DEF Entered
  <2>2. \A r \in DOMAIN v.runs :
            w.runs[r].verifications = IF e.type = "verification_completed" /\ r = e.run
                                      THEN v.runs[r].verifications \cup {Verification(e)}
                                      ELSE v.runs[r].verifications
    <3>1. e.type = "verification_completed" => ~Plain(e)
      BY PlainTypes
    <3>2. \A r \in DOMAIN v.runs : w.runs[r] = After(v.runs[r], r, e)
      BY <1>2
    <3>3. \A run : NextRun(run, e).verifications =
                        IF e.type = "verification_completed"
                        THEN run.verifications \cup {Verification(e)} ELSE run.verifications
      BY DEF NextRun
    <3>4. \A r \in DOMAIN v.runs : w.runs[r] = IF r = e.run /\ ~Plain(e)
                                              THEN NextRun(v.runs[r], e) ELSE v.runs[r]
      BY <3>2 DEF After
    <3> QED
      BY <3>1, <3>3, <3>4
  <2>3. CASE e.type = "run_started"
    <3>1. DOMAIN w.runs = DOMAIN v.runs \cup {e.run} /\ w.runs[e.run].verifications = {}
      BY <1>2, <1>10, <2>3
    <3>2. \A r \in DOMAIN v.runs : w.runs[r].verifications = v.runs[r].verifications
      BY <2>2, <2>3
    <3>3. j.verifications = i.verifications
      BY <2>1, <2>3
    <3> QED
      BY <1>3, <3>1, <3>2, <3>3
  <2>4. CASE e.type = "verification_completed"
    <3>1. e.run \in DOMAIN v.runs
      BY <1>3, <2>4 DEF LinkFacts, RunLink, HealthTypes
    <3>2. DOMAIN w.runs = DOMAIN v.runs
      BY <1>2, <2>4
    <3>3. j.verifications = i.verifications \cup {Verification(e)}
      BY <2>1, <2>4
    <3>4. \A r \in DOMAIN v.runs :
            w.runs[r].verifications = IF r = e.run
                                      THEN v.runs[r].verifications \cup {Verification(e)}
                                      ELSE v.runs[r].verifications
      BY <2>2, <2>4
    <3>5. ASSUME NEW x
          PROVE  x \in j.verifications <=> \E r \in DOMAIN w.runs : x \in w.runs[r].verifications
      <4>1. x \in i.verifications <=> \E r \in DOMAIN v.runs : x \in v.runs[r].verifications
        BY <1>3
      <4>2. x \in w.runs[e.run].verifications <=>
                x \in v.runs[e.run].verifications \/ x = Verification(e)
        BY <3>1, <3>4
      <4> QED
        BY <3>1, <3>2, <3>3, <3>4, <4>1, <4>2
    <3> QED
      BY <3>5
  <2>5. CASE e.type \notin {"run_started", "verification_completed"}
    <3>1. DOMAIN w.runs = DOMAIN v.runs
      BY <1>2, <2>5
    <3>2. \A r \in DOMAIN v.runs : w.runs[r].verifications = v.runs[r].verifications
      BY <2>2, <2>5
    <3>3. j.verifications = i.verifications
      BY <2>1, <2>5
    <3> QED
      BY <1>3, <3>1, <3>2, <3>3
  <2> QED
    BY <2>3, <2>4, <2>5
<1>12. \A r \in DOMAIN w.runs :
            /\ j.runs[r] = w.runs[r].task /\ r \in w.tasks[w.runs[r].task]
            /\ w.runs[r].status = "running" <=> r \notin j.terminalRuns
            /\ AttemptsAgree(j, r, w.runs[r]) /\ RecordsAgree(j, r, w.runs[r])
            /\ WorktreesAgree(j, r, w.runs[r])
  BY <1>2, <1>9, <1>10
<1> QED
  BY <1>7, <1>8, <1>11, <1>12 DEF Agree, j, w

----------------------------------------------------------------------------
\* The reports keep their types, and what is continued was a failure.

\* A migration that a command started changes the Home or the model.
Commanded(v, e) ==
    e.type = "attempt_started" /\ FromCommandsOnly("attempt_started")
        /\ e.details.transition.kind = "migration"
    => \A n \in DOMAIN v.runs[e.run].attempts :
            LET before == v.runs[e.run].attempts[n]
            IN  before.id = e.details.transition.from => ~SameIdentity(before.identity, e.identity)

LEMMA ViewStep ==
    ASSUME NEW i, NEW v, NEW e, TraceInv(i), ViewInv(v), v.ok, Agree(i, v), IsEvent(e),
           e.id = i.events + 1, LinkFacts(i, e), ValidEvent(e), Commanded(v, e), Sums(v, e)
    PROVE  ViewInv(Folded(v, e))
<1> DEFINE w == Folded(v, e)
<1>1. /\ IsView(w) /\ w.ok = v.ok
      /\ DOMAIN w.runs = DOMAIN v.runs \cup (IF e.type = "run_started" THEN {e.run} ELSE {})
      /\ e.type = "run_started" => w.runs[e.run] = Fresh(e)
      /\ \A r \in DOMAIN v.runs :
            /\ w.runs[r] = After(v.runs[r], r, e)
            /\ r = e.run /\ ~Plain(e) => Readable(v.runs[r], e)
  <2>1. NextView(v, e, w)
    BY FoldedRuns
  <2> QED
    BY <2>1 DEF NextView
<1> HIDE DEF w
<1>2. DOMAIN w.runs \subseteq Runs
  BY <1>1 DEF ViewInv, IsEvent
<1>3. ASSUME NEW r \in DOMAIN v.runs
      PROVE  /\ w.runs[r] \in RunRecord /\ Fits(w.runs[r]) /\ Distinct(w.runs[r])
             /\ \A n \in DOMAIN w.runs[r].attempts : Continued(w.runs[r], n)
  <2>1. PICK run : run = v.runs[r]
    OBVIOUS
  <2>2. /\ run \in RunRecord /\ Fits(run) /\ Distinct(run)
        /\ \A n \in DOMAIN run.attempts : Continued(run, n)
        /\ w.runs[r] = After(run, r, e)
        /\ AttemptsAgree(i, r, run)
    BY <1>1, <2>1 DEF ViewInv, Agree
  <2>3. CASE ~(r = e.run /\ ~Plain(e))
    BY <2>2, <2>3 DEF After
  <2>4. CASE r = e.run /\ ~Plain(e)
    <3>1. Readable(run, e) /\ w.runs[r] = NextRun(run, e) /\ e.id \in Nat
      BY <1>1, <2>1, <2>2, <2>4 DEF After, TraceInv
    <3>2. /\ {run.attempts[n].id : n \in DOMAIN run.attempts} = OwnAttempts(i, r)
          /\ \A n \in DOMAIN run.attempts :
                LET a == run.attempts[n]
                IN  /\ a.status = "running" <=> a.id \notin DOMAIN i.terminalAttempts
                    /\ a.status # "running" =>
                        i.terminalAttempts[a.id] =
                            [status    |-> a.status,
                             retryable |-> a.failure # None /\ a.failure.retryable]
      BY <2>2 DEF AttemptsAgree
    <3>3. ASSUME e.type = "attempt_started", NEW n \in DOMAIN run.attempts
          PROVE  run.attempts[n].id # e.attempt
      BY <3>2, <3>3 DEF LinkFacts, OwnAttempts
    <3>4. ASSUME e.type \in AttemptEnds
          PROVE  run.attempts[Found(run, e)].status = "running"
      <4>1. Place(run, e.attempt) # {}
        BY <3>1, <3>4 DEF Readable, Seeks
      <4>2. e.attempt \notin DOMAIN i.terminalAttempts
        BY <3>4 DEF LinkFacts, AttemptEnds
      <4>3. /\ Found(run, e) \in DOMAIN run.attempts
            /\ run.attempts[Found(run, e)].id = e.attempt
        BY <4>1, FoundPlace
      <4> QED
        BY <3>2, <4>2, <4>3
    <3>5. ASSUME e.type = "attempt_started"
          PROVE  ContinuesWell(run, e)
      <4> DEFINE kind == e.details.transition.kind
                 from == e.details.transition.from
      <4>1. SUFFICES ASSUME kind # "initial"
                     PROVE  \E m \in DOMAIN run.attempts :
                                LET before == run.attempts[m]
                                IN  /\ before.id = from
                                    /\ before.status \in Failures
                                    /\ kind = "retry" =>
                                            before.failure # None /\ before.failure.retryable
                                    /\ kind = "migration" /\ FromCommandsOnly("attempt_started") =>
                                            ~SameIdentity(before.identity, e.identity)
        BY DEF ContinuesWell
      <4>2. /\ from \in DOMAIN i.terminalAttempts /\ i.attempts[from] = e.run
            /\ i.terminalAttempts[from].status # "succeeded"
            /\ kind = "retry" => i.terminalAttempts[from].retryable
        <5>1. TransitionLink(i, e) /\ Has(e, "transition")
          BY <3>5 DEF LinkFacts, IsEvent
        <5> QED
          BY <4>1, <5>1 DEF TransitionLink
      <4>3. from \in OwnAttempts(i, r)
        BY <2>4, <4>2 DEF OwnAttempts, TraceInv
      <4>4. PICK m \in DOMAIN run.attempts : run.attempts[m].id = from
        BY <3>2, <4>3
      <4>5. /\ run.attempts[m].status # "running"
            /\ i.terminalAttempts[from] =
                [status    |-> run.attempts[m].status,
                 retryable |-> run.attempts[m].failure # None /\ run.attempts[m].failure.retryable]
        BY <3>2, <4>2, <4>4
      <4>6. run.attempts[m].status \in Failures
        <5>1. run.attempts[m].status \in Statuses
          <6>1. run.attempts \in Seq(AttemptRecord)
            BY <2>2 DEF RunRecord
          <6>2. run.attempts[m] \in AttemptRecord
            BY <6>1
          <6> QED
            BY <6>2 DEF AttemptRecord
        <5> QED
          BY <4>2, <4>5, <5>1 DEF Statuses
      <4>7. kind = "retry" => run.attempts[m].failure # None /\ run.attempts[m].failure.retryable
        <5>1. i.terminalAttempts[from].retryable =
                    (run.attempts[m].failure # None /\ run.attempts[m].failure.retryable)
          BY <4>5
        <5> QED
          BY <4>2, <5>1, Zenon
      <4>8. kind = "migration" /\ FromCommandsOnly("attempt_started") =>
                ~SameIdentity(run.attempts[m].identity, e.identity)
        BY <2>1, <2>4, <3>5, <4>4 DEF Commanded
      <4> QED
        BY <4>4, <4>6, <4>7, <4>8
    <3>6. /\ NextRun(run, e) \in RunRecord /\ Fits(NextRun(run, e))
          /\ Distinct(NextRun(run, e))
      BY <2>2, <3>1, <3>3, RunTypes
    <3>7. \A n \in DOMAIN NextRun(run, e).attempts : Continued(NextRun(run, e), n)
      BY <2>2, <3>1, <3>4, <3>5, ContinuedStep
    <3> QED
      BY <3>1, <3>6, <3>7
  <2> QED
    BY <2>3, <2>4
<1>4. ASSUME e.type = "run_started"
      PROVE  /\ w.runs[e.run] \in RunRecord /\ Fits(w.runs[e.run]) /\ Distinct(w.runs[e.run])
             /\ \A n \in DOMAIN w.runs[e.run].attempts : Continued(w.runs[e.run], n)
  <2>1. e.task \in Tasks
    BY <1>4 DEF LinkFacts, TraceInv
  <2>2. Fresh(e) \in RunRecord /\ Fits(Fresh(e)) /\ Distinct(Fresh(e)) /\ Fresh(e).attempts = <<>>
    BY <1>4, <2>1, NewRunTypes
  <2>3. w.runs[e.run] = Fresh(e)
    BY <1>1, <1>4
  <2>4. DOMAIN w.runs[e.run].attempts = {}
    BY <2>2, <2>3
  <2> QED
    BY <2>2, <2>3, <2>4
<1> QED
  BY <1>1, <1>2, <1>3, <1>4 DEF ViewInv, w

----------------------------------------------------------------------------
\* The summary, and what the Runs used.

LEMMA AddedFacts ==
    ASSUME NEW t \in TotalRecord, NEW e, IsEvent(e)
    PROVE  LET u == Added(t, e)
           IN  /\ u \in TotalRecord
               /\ e.type \in AttemptEnds =>
                    /\ u.input = t.input + e.usage.input /\ u.output = t.output + e.usage.output
                    /\ u.duration = t.duration + e.usage.duration
               /\ e.type \notin AttemptEnds =>
                    u.input = t.input /\ u.output = t.output /\ u.duration = t.duration
<1> DEFINE u == Added(t, e)
<1>1. CASE e.type \in AttemptEnds
  <2>1. e.usage.input \in Nat /\ e.usage.output \in Nat /\ e.usage.duration \in Nat
    BY <1>1, BoundsAssumption DEF IsEvent, AttemptEnds, Uses
  <2>2. u = [completed |-> IF e.type = "attempt_completed" THEN t.completed + 1 ELSE t.completed,
             failed    |-> IF e.type = "attempt_failed" THEN t.failed + 1 ELSE t.failed,
             tools     |-> t.tools,
             artifacts |-> t.artifacts,
             input     |-> t.input + e.usage.input,
             output    |-> t.output + e.usage.output,
             duration  |-> t.duration + e.usage.duration]
    BY <1>1 DEF Added, AttemptEnds, TotalRecord
  <2> HIDE DEF u
  <2>3. u \in TotalRecord
    BY <2>1, <2>2 DEF TotalRecord
  <2> QED
    BY <1>1, <2>2, <2>3 DEF u
<1>2. CASE e.type \notin AttemptEnds
  BY <1>2 DEF Added, AttemptEnds, TotalRecord
<1> QED
  BY <1>1, <1>2

\* The totals grow, by what the event brought, as long as the counters hold them.
LEMMA SummedFacts ==
    ASSUME NEW s, NEW e, TotalsInv(s), IsEvent(e)
    PROVE  LET t == Summed(s, e)
           IN  /\ TotalsInv(t)
               /\ t.ok <=> s.ok /\ LET all == Added(s.all, e)
                                   IN  /\ all.input <= MaxCount /\ all.output <= MaxCount
                                       /\ all.duration <= MaxCount
               /\ t.all = IF t.ok THEN Added(s.all, e) ELSE s.all
<1> DEFINE all  == Added(s.all, e)
           home == IF e.identity = None THEN s.byHome
                   ELSE [s.byHome EXCEPT ![e.identity.home] = Added(@, e)]
           ok   == s.ok /\ all.input <= MaxCount /\ all.output <= MaxCount
                        /\ all.duration <= MaxCount
           t    == Summed(s, e)
<1>1. all \in TotalRecord
  BY AddedFacts DEF TotalsInv
<1>2. DOMAIN home = Homes
  BY DEF TotalsInv
<1>3. t = IF ok THEN [ok |-> TRUE, all |-> all, byHome |-> home] ELSE [s EXCEPT !.ok = FALSE]
  BY DEF Summed
<1> HIDE DEF all, home
<1>4. CASE ok
  <2>1. t = [ok |-> TRUE, all |-> all, byHome |-> home]
    BY <1>3, <1>4
  <2> HIDE DEF t
  <2>2. TotalsInv(t) /\ t.ok /\ t.all = all
    BY <1>1, <1>2, <2>1 DEF TotalsInv, IsTotals
  <2> QED
    BY <1>4, <2>2 DEF t, all
<1>5. CASE ~ok
  <2>1. t = [s EXCEPT !.ok = FALSE]
    BY <1>3, <1>5
  <2> HIDE DEF t
  <2>2. TotalsInv(t) /\ ~t.ok /\ t.all = s.all
    BY <2>1 DEF TotalsInv, IsTotals
  <2> QED
    BY <1>5, <2>2 DEF t, all
<1> QED
  BY <1>4, <1>5

LEMMA AccountedStep ==
    ASSUME NEW i, NEW v, NEW s, NEW e, RunsInv(i, v, s), IsEvent(e), e.id = i.events + 1,
           LinkFacts(i, e), ValidEvent(e)
    PROVE  Accounted(Folded(v, e), Summed(s, e))
<1> DEFINE w == Folded(v, e)
           t == Summed(s, e)
<1>1. ViewInv(v) /\ TotalsInv(s) /\ TraceInv(i) /\ IsView(v) /\ s.all \in TotalRecord
  BY DEF RunsInv, ViewInv, TotalsInv
<1>2. PICK u : u = Added(s.all, e)
  OBVIOUS
<1>3. /\ u.input \in Nat /\ u.output \in Nat /\ u.duration \in Nat
      /\ e.type \in AttemptEnds =>
            /\ u.input = s.all.input + e.usage.input /\ u.output = s.all.output + e.usage.output
            /\ u.duration = s.all.duration + e.usage.duration
      /\ e.type \notin AttemptEnds =>
            u.input = s.all.input /\ u.output = s.all.output /\ u.duration = s.all.duration
  <2>1. u \in TotalRecord
    BY <1>1, <1>2, AddedFacts
  <2>2. u.input \in Nat /\ u.output \in Nat /\ u.duration \in Nat
    BY <2>1 DEF TotalRecord
  <2> QED
    BY <1>1, <1>2, <2>2, AddedFacts
<1>4. /\ TotalsInv(t)
      /\ t.ok <=> s.ok /\ u.input <= MaxCount /\ u.output <= MaxCount /\ u.duration <= MaxCount
      /\ t.all = IF t.ok THEN u ELSE s.all
  BY <1>1, <1>2, SummedFacts
<1>5. s.all.input \in Nat /\ s.all.output \in Nat /\ s.all.duration \in Nat
  BY <1>1 DEF TotalRecord
<1>6. e.type \in AttemptEnds =>
        /\ e.usage.input \in Nat /\ e.usage.output \in Nat /\ e.usage.duration \in Nat
  BY BoundsAssumption DEF IsEvent, AttemptEnds, Uses
<1>7. u.input >= s.all.input /\ u.output >= s.all.output /\ u.duration >= s.all.duration
  BY <1>3, <1>5, <1>6
<1> HIDE DEF w, t
<1>8. /\ v.ok /\ s.ok => \A r \in DOMAIN v.runs :
            /\ v.runs[r].used.failedTokens <= v.runs[r].used.tokens
            /\ v.runs[r].used.failedDuration <= v.runs[r].used.duration
            /\ v.runs[r].used.tokens <= s.all.input + s.all.output
            /\ v.runs[r].used.duration <= s.all.duration
      /\ ~v.ok => ~s.ok \/ s.all.input + s.all.output > MaxCount
  BY DEF RunsInv, Accounted
<1>9. MaxCount \in Nat
  BY BoundsAssumption
<1>10. CASE ~v.ok
  <2>1. w.ok = FALSE
    BY <1>1, <1>10, NotFolded DEF w
  <2>2. ~t.ok \/ t.all.input + t.all.output > MaxCount
    BY <1>3, <1>4, <1>5, <1>7, <1>8, <1>9, <1>10
  <2> QED
    BY <2>1, <2>2 DEF Accounted, w, t
<1>11. CASE v.ok /\ ~s.ok
  BY <1>4, <1>11 DEF Accounted, w, t
<1>12. CASE v.ok /\ s.ok
  <2>1. Agree(i, v)
    BY <1>12 DEF RunsInv
  <2>2. \A r \in DOMAIN v.runs : v.runs[r].used \in UseRecord
    BY <1>1 DEF ViewInv, RunRecord
  <2>3. ASSUME e.type \in AttemptEnds
        PROVE  /\ e.run \in DOMAIN v.runs
               /\ LET sum == Consumed(v.runs[e.run].used, e.usage, e.status)
                  IN  /\ sum.failedTokens <= sum.tokens /\ sum.failedDuration <= sum.duration
                      /\ sum.tokens <= u.input + u.output /\ sum.duration <= u.duration
                      /\ sum \in UseRecord
                      /\ DOMAIN sum = {"tokens", "duration", "failedTokens", "failedDuration"}
    <3>1. e.run \in DOMAIN v.runs
      BY <1>1, <2>1, <2>3, Accepted, PlainTypes
    <3>2. PICK used : used = v.runs[e.run].used
      OBVIOUS
    <3>3. /\ used \in UseRecord
          /\ used.failedTokens <= used.tokens /\ used.failedDuration <= used.duration
          /\ used.tokens <= s.all.input + s.all.output /\ used.duration <= s.all.duration
      BY <1>8, <1>12, <2>2, <3>1, <3>2
    <3>4. /\ used.tokens \in Nat /\ used.duration \in Nat
          /\ used.failedTokens \in Nat /\ used.failedDuration \in Nat
      BY <3>3 DEF UseRecord
    <3>5. PICK sum : sum = Consumed(used, e.usage, e.status)
      OBVIOUS
    <3>6. /\ sum.tokens = used.tokens + (e.usage.input + e.usage.output)
          /\ sum.duration = used.duration + e.usage.duration
          /\ sum.failedTokens = used.failedTokens + IF e.status # "succeeded"
                                THEN e.usage.input + e.usage.output ELSE 0
          /\ sum.failedDuration = used.failedDuration + IF e.status # "succeeded"
                                  THEN e.usage.duration ELSE 0
          /\ DOMAIN sum = {"tokens", "duration", "failedTokens", "failedDuration"}
          /\ sum = [tokens |-> sum.tokens, duration |-> sum.duration,
                    failedTokens |-> sum.failedTokens, failedDuration |-> sum.failedDuration]
      BY <3>5 DEF Consumed
    <3>7. /\ sum.tokens \in Nat /\ sum.duration \in Nat
          /\ sum.failedTokens \in Nat /\ sum.failedDuration \in Nat
      BY <1>6, <2>3, <3>4, <3>6
    <3>8. sum \in UseRecord
      BY <3>6, <3>7 DEF UseRecord
    <3>9. /\ sum.failedTokens <= sum.tokens /\ sum.failedDuration <= sum.duration
          /\ sum.tokens <= u.input + u.output /\ sum.duration <= u.duration
      BY <1>3, <1>5, <1>6, <2>3, <3>3, <3>4, <3>6
    <3> QED
      BY <3>1, <3>2, <3>5, <3>6, <3>8, <3>9
  <2>4. CASE ~Sums(v, e)
    <3>1. e.type \in AttemptEnds
      BY <2>4 DEF Sums
    <3>2. w.ok = FALSE
      <4>1. ~Projects(v, e)
        BY <1>1, <2>1, <2>4, Accepted
      <4> QED
        BY <1>1, <4>1, NotFolded DEF w
    <3>3. PICK sum : sum = Consumed(v.runs[e.run].used, e.usage, e.status)
      OBVIOUS
    <3>4. /\ sum.failedTokens <= sum.tokens /\ sum.failedDuration <= sum.duration
          /\ sum.tokens <= u.input + u.output /\ sum.duration <= u.duration
          /\ sum \in UseRecord
          /\ DOMAIN sum = {"tokens", "duration", "failedTokens", "failedDuration"}
      BY <2>3, <3>1, <3>3
    <3>5. \/ sum.tokens > MaxCount \/ sum.duration > MaxCount
      <4>1. ~ \A dimension \in DOMAIN sum : sum[dimension] <= MaxCount
        BY <2>4, <3>3 DEF Sums
      <4>2. /\ sum.tokens \in Nat /\ sum.duration \in Nat
            /\ sum.failedTokens \in Nat /\ sum.failedDuration \in Nat
        BY <3>4 DEF UseRecord
      <4>3. ~(sum.tokens <= MaxCount /\ sum.duration <= MaxCount
              /\ sum.failedTokens <= MaxCount /\ sum.failedDuration <= MaxCount)
        BY <3>4, <4>1
      <4> QED
        BY <1>9, <3>4, <4>2, <4>3
    <3>6. sum.tokens \in Nat /\ sum.duration \in Nat
      BY <3>4 DEF UseRecord
    <3>7. ~t.ok \/ t.all.input + t.all.output > MaxCount
      BY <1>3, <1>4, <1>9, <3>4, <3>5, <3>6
    <3> QED
      BY <3>2, <3>7 DEF Accounted, w, t
  <2>5. CASE Sums(v, e) /\ t.ok
    <3>1. /\ w.ok
          /\ DOMAIN w.runs = DOMAIN v.runs \cup (IF e.type = "run_started" THEN {e.run} ELSE {})
          /\ e.type = "run_started" => w.runs[e.run] = Fresh(e)
          /\ \A r \in DOMAIN v.runs : w.runs[r] = After(v.runs[r], r, e)
      <4>1. NextView(v, e, w)
        BY <1>1, <1>12, <2>1, <2>5, FoldedRuns DEF w
      <4> QED
        BY <1>12, <4>1 DEF NextView
    <3>2. t.all = u
      BY <1>4, <2>5
    <3>3. ASSUME NEW r \in DOMAIN v.runs
          PROVE  /\ w.runs[r].used.failedTokens <= w.runs[r].used.tokens
                 /\ w.runs[r].used.failedDuration <= w.runs[r].used.duration
                 /\ w.runs[r].used.tokens <= u.input + u.output
                 /\ w.runs[r].used.duration <= u.duration
      <4>0. w.runs[r].used = IF r = e.run /\ e.type \in AttemptEnds
                             THEN Consumed(v.runs[r].used, e.usage, e.status)
                             ELSE v.runs[r].used
        <5>1. \A run : NextRun(run, e).used = IF e.type \in AttemptEnds
                                              THEN Consumed(run.used, e.usage, e.status)
                                              ELSE run.used
          BY DEF NextRun
        <5>2. w.runs[r] = IF r = e.run /\ ~Plain(e) THEN NextRun(v.runs[r], e) ELSE v.runs[r]
          BY <3>1 DEF After
        <5>3. e.type \in AttemptEnds => ~Plain(e)
          BY PlainTypes
        <5> QED
          BY <5>1, <5>2, <5>3
      <4>1. CASE r = e.run /\ e.type \in AttemptEnds
        <5>1. w.runs[r].used = Consumed(v.runs[r].used, e.usage, e.status)
          BY <4>0, <4>1
        <5> QED
          BY <2>3, <4>1, <5>1
      <4>2. CASE ~(r = e.run /\ e.type \in AttemptEnds)
        <5>1. w.runs[r].used = v.runs[r].used
          BY <4>0, <4>2
        <5>2. PICK used : used = v.runs[r].used
          OBVIOUS
        <5>3. /\ used.tokens \in Nat /\ used.duration \in Nat
              /\ used.failedTokens <= used.tokens /\ used.failedDuration <= used.duration
              /\ used.tokens <= s.all.input + s.all.output /\ used.duration <= s.all.duration
          BY <1>8, <1>12, <2>2, <5>2 DEF UseRecord
        <5>4. used.tokens <= u.input + u.output /\ used.duration <= u.duration
          BY <1>3, <1>5, <1>7, <5>3
        <5> QED
          BY <5>1, <5>2, <5>3, <5>4
      <4> QED
        BY <4>1, <4>2
    <3>4. ASSUME e.type = "run_started"
          PROVE  /\ w.runs[e.run].used.failedTokens <= w.runs[e.run].used.tokens
                 /\ w.runs[e.run].used.failedDuration <= w.runs[e.run].used.duration
                 /\ w.runs[e.run].used.tokens <= u.input + u.output
                 /\ w.runs[e.run].used.duration <= u.duration
      <4>1. e.task \in Tasks
        BY <1>1, <3>4 DEF LinkFacts, TraceInv
      <4>2. w.runs[e.run].used = NoUse
        BY <3>1, <3>4, <4>1, NewRunTypes
      <4>3. /\ NoUse.tokens = 0 /\ NoUse.duration = 0
            /\ NoUse.failedTokens = 0 /\ NoUse.failedDuration = 0
        BY DEF NoUse
      <4> QED
        BY <1>3, <4>2, <4>3
    <3>5. \A r \in DOMAIN w.runs :
            /\ w.runs[r].used.failedTokens <= w.runs[r].used.tokens
            /\ w.runs[r].used.failedDuration <= w.runs[r].used.duration
            /\ w.runs[r].used.tokens <= t.all.input + t.all.output
            /\ w.runs[r].used.duration <= t.all.duration
      BY <3>1, <3>2, <3>3, <3>4
    <3> QED
      BY <3>1, <3>5 DEF Accounted, w, t
  <2>6. CASE ~t.ok
    BY <2>6 DEF Accounted, w, t
  <2> QED
    BY <2>4, <2>5, <2>6
<1> QED
  BY <1>10, <1>11, <1>12

\* One accepted event keeps the three folds in order.
LEMMA EventStep ==
    ASSUME NEW i, NEW v, NEW s, NEW e, RunsInv(i, v, s), IsEvent(e), e.id = i.events + 1,
           Links(i, e), ValidEvent(e), v.ok => Commanded(v, e)
    PROVE  RunsInv(Indexed(i, e), Folded(v, e), Summed(s, e))
<1>1. LinkFacts(i, e)
  BY LinksFacts
<1>2. TraceInv(i) /\ ViewInv(v) /\ TotalsInv(s) /\ IsView(v) /\ (v.ok => Agree(i, v))
  BY DEF RunsInv, ViewInv
<1>3. TraceInv(Indexed(i, e))
  BY <1>1, <1>2, TraceStep
<1>4. TotalsInv(Summed(s, e))
  BY <1>2, SummedFacts
<1>5. Accounted(Folded(v, e), Summed(s, e))
  BY <1>1, AccountedStep
<1>6. CASE v.ok /\ Sums(v, e)
  <2>1. ViewInv(Folded(v, e))
    BY <1>1, <1>2, <1>6, ViewStep
  <2>2. Agree(Indexed(i, e), Folded(v, e))
    BY <1>1, <1>2, <1>6, AgreeStep
  <2> QED
    BY <1>3, <1>4, <1>5, <2>1, <2>2 DEF RunsInv
<1>7. CASE ~(v.ok /\ Sums(v, e))
  <2>1. ~(v.ok /\ Projects(v, e))
    BY <1>1, <1>2, <1>7, Accepted
  <2>2. PICK w : w = Folded(v, e)
    OBVIOUS
  <2>3. IsView(w) /\ w.ok = FALSE /\ w.tasks = v.tasks /\ w.runs = v.runs
    BY <1>2, <2>1, <2>2, NotFolded
  <2>4. ViewInv(w)
    BY <1>2, <2>3 DEF ViewInv
  <2> QED
    BY <1>3, <1>4, <1>5, <2>2, <2>3, <2>4 DEF RunsInv
<1> QED
  BY <1>6, <1>7

----------------------------------------------------------------------------
\* Appends: one event, or the three of a dispatch.

LEMMA AcceptingFacts ==
    ASSUME NEW v, DOMAIN v = {"ok", "indexes"}, v.ok \in BOOLEAN, NEW e
    PROVE  LET w == Accepting(v, e)
           IN  /\ DOMAIN w = {"ok", "indexes"} /\ w.ok \in BOOLEAN
               /\ w.ok => /\ v.ok /\ ValidEvent(e) /\ Links(v.indexes, e)
                          /\ w.indexes = Indexed(v.indexes, e)
<1>1. CASE v.ok /\ ValidEvent(e) /\ Links(v.indexes, e)
  <2>1. Accepting(v, e) = [ok |-> TRUE, indexes |-> Indexed(v.indexes, e)]
    BY <1>1 DEF Accepting
  <2> QED
    BY <1>1, <2>1
<1>2. CASE ~(v.ok /\ ValidEvent(e) /\ Links(v.indexes, e))
  <2>1. Accepting(v, e) = [v EXCEPT !.ok = FALSE]
    BY <1>2 DEF Accepting
  <2> QED
    BY <2>1
<1> QED
  BY <1>1, <1>2

LEMMA VerifiedOne ==
    ASSUME NEW i, NEW s, DOMAIN s = {1}, Verified(i, s).ok
    PROVE  ValidEvent(s[1]) /\ Links(i, s[1]) /\ Verified(i, s).indexes = Indexed(i, s[1])
<1> DEFINE start == [ok |-> TRUE, indexes |-> i]
           end   == Accepting(start, s[1])
<1>1. Verified(i, s) = [end EXCEPT !.ok = @ /\ AllDispatched(end.indexes)]
  BY VerifierOfOne DEF Verified
<1>2. DOMAIN start = {"ok", "indexes"} /\ start.ok = TRUE /\ start.indexes = i
  OBVIOUS
<1> HIDE DEF start
<1>3. /\ DOMAIN end = {"ok", "indexes"}
      /\ end.ok => ValidEvent(s[1]) /\ Links(i, s[1]) /\ end.indexes = Indexed(i, s[1])
  BY <1>2, AcceptingFacts
<1> HIDE DEF end
<1>4. Verified(i, s).ok = (end.ok /\ AllDispatched(end.indexes))
  BY <1>1, <1>3
<1>5. Verified(i, s).indexes = end.indexes
  BY <1>1, <1>3
<1>6. end.ok
  BY <1>4, Zenon
<1> QED
  BY <1>3, <1>5, <1>6

LEMMA VerifiedThree ==
    ASSUME NEW i, NEW s, DOMAIN s = {1, 2, 3}, Verified(i, s).ok
    PROVE  LET j == Indexed(i, s[1])
               k == Indexed(j, s[2])
           IN  /\ ValidEvent(s[1]) /\ Links(i, s[1])
               /\ ValidEvent(s[2]) /\ Links(j, s[2])
               /\ ValidEvent(s[3]) /\ Links(k, s[3])
               /\ Verified(i, s).indexes = Indexed(k, s[3])
<1> DEFINE start  == [ok |-> TRUE, indexes |-> i]
           first  == Accepting(start, s[1])
           second == Accepting(first, s[2])
           end    == Accepting(second, s[3])
<1>1. Verified(i, s) = [end EXCEPT !.ok = @ /\ AllDispatched(end.indexes)]
  BY VerifierOfThree DEF Verified
<1>2. DOMAIN start = {"ok", "indexes"} /\ start.ok = TRUE /\ start.indexes = i
  OBVIOUS
<1> HIDE DEF start
<1>3. /\ DOMAIN first = {"ok", "indexes"} /\ first.ok \in BOOLEAN
      /\ first.ok => ValidEvent(s[1]) /\ Links(i, s[1]) /\ first.indexes = Indexed(i, s[1])
  BY <1>2, AcceptingFacts
<1> HIDE DEF first
<1>4. /\ DOMAIN second = {"ok", "indexes"} /\ second.ok \in BOOLEAN
      /\ second.ok => /\ first.ok /\ ValidEvent(s[2]) /\ Links(first.indexes, s[2])
                      /\ second.indexes = Indexed(first.indexes, s[2])
  BY <1>3, AcceptingFacts
<1> HIDE DEF second
<1>5. /\ DOMAIN end = {"ok", "indexes"}
      /\ end.ok => /\ second.ok /\ ValidEvent(s[3]) /\ Links(second.indexes, s[3])
                   /\ end.indexes = Indexed(second.indexes, s[3])
  BY <1>4, AcceptingFacts
<1> HIDE DEF end
<1>6. Verified(i, s).ok = (end.ok /\ AllDispatched(end.indexes))
  BY <1>1, <1>5
<1>7. Verified(i, s).indexes = end.indexes
  BY <1>1, <1>5
<1>8. end.ok
  BY <1>6, Zenon
<1> QED
  BY <1>3, <1>4, <1>5, <1>7, <1>8

EventFields == {"id", "type", "status", "task", "run", "attempt", "ts", "thread", "parentThread",
                "identity", "subject", "usage", "failure", "details"}

\* What a command checks before it starts an Attempt.
Affordable(e) ==
    e.type = "attempt_started" /\ FromCommandsOnly("attempt_started")
    => ~Exhausted(view.runs[e.run])

\* The Home of an Attempt is what a command says used what the Attempt used.
Billed(v, e) ==
    e.type \in AttemptEnds /\ FromCommandsOnly(e.type)
    => \A n \in DOMAIN v.runs[e.run].attempts :
            v.runs[e.run].attempts[n].id = e.attempt
            => e.identity = v.runs[e.run].attempts[n].identity

\* What a command or an observation may append.
Offered(e) ==
    /\ DOMAIN e = EventFields /\ IsEvent(e)
    /\ Commanded(view, e) /\ Affordable(e) /\ Billed(view, e)

\* The step that appended an event, and the one that appended a dispatch.
Appended(e) ==
    /\ IsEvent(e) /\ e.id = trace.events + 1 /\ ValidEvent(e) /\ Links(trace, e)
    /\ Commanded(view, e) /\ Affordable(e) /\ Billed(view, e)
    /\ trace.events + 1 <= scope.events /\ scope' = scope
    /\ trace' = Indexed(trace, e) /\ view' = Folded(view, e) /\ totals' = Summed(totals, e)

Initial(e) ==
    /\ e.type = "attempt_started" => e.details.transition.kind = "initial"
    /\ e.type \notin AttemptEnds

Dispatched(a, b, c) ==
    LET i == Indexed(trace, a)
        j == Indexed(i, b)
    IN  /\ IsEvent(a) /\ a.id = trace.events + 1 /\ ValidEvent(a) /\ Links(trace, a) /\ Initial(a)
        /\ IsEvent(b) /\ b.id = trace.events + 2 /\ ValidEvent(b) /\ Links(i, b) /\ Initial(b)
        /\ IsEvent(c) /\ c.id = trace.events + 3 /\ ValidEvent(c) /\ Links(j, c) /\ Initial(c)
        /\ trace.events + 3 <= scope.events /\ scope' = scope
        /\ trace' = Indexed(j, c)
        /\ view' = Folded(Folded(Folded(view, a), b), c)
        /\ totals' = Summed(Summed(Summed(totals, a), b), c)
        /\ ~StartedByCommands

LEMMA NumberedFields ==
    ASSUME NEW e, DOMAIN e = EventFields, NEW k
    PROVE  LET n == [e EXCEPT !.id = k]
           IN  /\ n.id = k /\ n.type = e.type /\ n.status = e.status /\ n.task = e.task
               /\ n.run = e.run /\ n.attempt = e.attempt /\ n.thread = e.thread
               /\ n.identity = e.identity /\ n.usage = e.usage /\ n.failure = e.failure
               /\ n.details = e.details
BY DEF EventFields

LEMMA NumberedEvent ==
    ASSUME NEW e, DOMAIN e = EventFields, IsEvent(e), NEW k
    PROVE  /\ IsEvent([e EXCEPT !.id = k])
           /\ Commanded(view, e) => Commanded(view, [e EXCEPT !.id = k])
           /\ Affordable(e) => Affordable([e EXCEPT !.id = k])
           /\ Billed(view, e) => Billed(view, [e EXCEPT !.id = k])
           /\ Initial(e) => Initial([e EXCEPT !.id = k])
<1>1. PICK n : n = [e EXCEPT !.id = k]
  OBVIOUS
<1>2. /\ n.type = e.type /\ n.status = e.status /\ n.task = e.task
      /\ n.run = e.run /\ n.attempt = e.attempt /\ n.thread = e.thread
      /\ n.identity = e.identity /\ n.usage = e.usage /\ n.failure = e.failure
      /\ n.details = e.details
  BY <1>1, NumberedFields
<1>3. IsEvent(n)
  BY <1>2 DEF IsEvent, Has
<1>4. Commanded(view, e) => Commanded(view, n)
  BY <1>2 DEF Commanded
<1>5. (Affordable(e) => Affordable(n)) /\ (Initial(e) => Initial(n))
  BY <1>2 DEF Affordable, Initial
<1>6. Billed(view, e) => Billed(view, n)
  BY <1>2 DEF Billed
<1> QED
  BY <1>1, <1>3, <1>4, <1>5, <1>6

LEMMA CommitOne ==
    ASSUME NEW e, Offered(e), Commit(<<e>>)
    PROVE  \E n : Appended(n)
<1> DEFINE batch    == <<e>>
           numbered == [k \in DOMAIN batch |-> [batch[k] EXCEPT !.id = trace.events + k]]
<1>1. PICK n : n = [e EXCEPT !.id = trace.events + 1]
  OBVIOUS
<1>2. /\ trace.events + Len(batch) <= scope.events /\ scope' = scope
      /\ Verified(trace, numbered).ok
      /\ trace' = Verified(trace, numbered).indexes
      /\ view' = FoldLeft(Folded, view, numbered)
      /\ totals' = FoldLeft(Summed, totals, numbered)
  BY DEF Commit
<1>3. DOMAIN numbered = {1} /\ numbered[1] = n /\ Len(batch) = 1
  BY <1>1
<1>4. trace.events + 1 <= scope.events
  BY <1>2, <1>3
<1> HIDE DEF numbered
<1>5. ValidEvent(n) /\ Links(trace, n) /\ trace' = Indexed(trace, n)
  BY <1>2, <1>3, VerifiedOne
<1>6. view' = Folded(view, n) /\ totals' = Summed(totals, n)
  BY <1>2, <1>3, ProjectionOfOne, SummaryOfOne
<1>7. /\ IsEvent(n) /\ Commanded(view, n) /\ Affordable(n) /\ Billed(view, n)
      /\ n.id = trace.events + 1
  BY <1>1, NumberedEvent, NumberedFields DEF Offered
<1>8. Appended(n)
  BY <1>2, <1>4, <1>5, <1>6, <1>7 DEF Appended
<1> QED
  BY <1>8

LEMMA CommitThree ==
    ASSUME NEW e, NEW f, NEW g,
           DOMAIN e = EventFields, DOMAIN f = EventFields, DOMAIN g = EventFields,
           IsEvent(e), IsEvent(f), IsEvent(g), Initial(e), Initial(f), Initial(g),
           ~StartedByCommands, Commit(<<e, f, g>>)
    PROVE  \E a, b, c : Dispatched(a, b, c)
<1> DEFINE batch    == <<e, f, g>>
           numbered == [k \in DOMAIN batch |-> [batch[k] EXCEPT !.id = trace.events + k]]
<1>1. PICK a : a = [e EXCEPT !.id = trace.events + 1]
  OBVIOUS
<1>2. PICK b : b = [f EXCEPT !.id = trace.events + 2]
  OBVIOUS
<1>3. PICK c : c = [g EXCEPT !.id = trace.events + 3]
  OBVIOUS
<1>4. /\ trace.events + Len(batch) <= scope.events /\ scope' = scope
      /\ Verified(trace, numbered).ok
      /\ trace' = Verified(trace, numbered).indexes
      /\ view' = FoldLeft(Folded, view, numbered)
      /\ totals' = FoldLeft(Summed, totals, numbered)
  BY DEF Commit
<1>5. /\ DOMAIN numbered = {1, 2, 3} /\ Len(batch) = 3
      /\ numbered[1] = a /\ numbered[2] = b /\ numbered[3] = c
  BY <1>1, <1>2, <1>3
<1>6. trace.events + 3 <= scope.events
  BY <1>4, <1>5
<1> HIDE DEF numbered
<1>7. LET i == Indexed(trace, a)
          j == Indexed(i, b)
      IN  /\ ValidEvent(a) /\ Links(trace, a) /\ ValidEvent(b) /\ Links(i, b)
          /\ ValidEvent(c) /\ Links(j, c) /\ trace' = Indexed(j, c)
  BY <1>4, <1>5, VerifiedThree
<1>8. view' = Folded(Folded(Folded(view, a), b), c)
  BY <1>4, <1>5, ProjectionOfThree
<1>9. totals' = Summed(Summed(Summed(totals, a), b), c)
  BY <1>4, <1>5, SummaryOfThree
<1>10. IsEvent(a) /\ Initial(a) /\ a.id = trace.events + 1
  BY <1>1, NumberedEvent, NumberedFields
<1>11. IsEvent(b) /\ Initial(b) /\ b.id = trace.events + 2
  BY <1>2, NumberedEvent, NumberedFields
<1>12. IsEvent(c) /\ Initial(c) /\ c.id = trace.events + 3
  BY <1>3, NumberedEvent, NumberedFields
<1>13. Dispatched(a, b, c)
  BY <1>4, <1>6, <1>7, <1>8, <1>9, <1>10, <1>11, <1>12 DEF Dispatched
<1> QED
  BY <1>13


----------------------------------------------------------------------------
\* The events of the commands.

LEMMA CommitPlain ==
    ASSUME NEW e, DOMAIN e = EventFields, IsEvent(e), e.type # "attempt_started",
           e.type \notin {"attempt_completed", "attempt_failed"}, Commit(<<e>>)
    PROVE  \E n : Appended(n)
<1>1. Offered(e)
  BY DEF Offered, Commanded, Affordable, Billed, AttemptEnds
<1> QED
  BY <1>1, CommitOne

LEMMA KnownRun ==
    ASSUME AgentRunsInv, NEW r \in DOMAIN view.runs
    PROVE  /\ view.runs[r] \in RunRecord /\ Distinct(view.runs[r])
           /\ view.runs[r].attempts \in Seq(AttemptRecord)
           /\ view.runs[r].worktree # None => view.runs[r].worktree \in WorktreeRecord
BY DEF AgentRunsInv, RunsInv, ViewInv, RunRecord

LEMMA KnownAttempt ==
    ASSUME AgentRunsInv, NEW r \in DOMAIN view.runs, NEW a, OfRun(r, a)
    PROVE  AttemptOf(r, a).identity \in Identities
<1>1. PICK n \in DOMAIN view.runs[r].attempts : AttemptOf(r, a) = view.runs[r].attempts[n]
  BY DEF OfRun, AttemptOf, Place
<1>2. view.runs[r].attempts[n] \in AttemptRecord
  BY <1>1, KnownRun
<1> QED
  BY <1>1, <1>2 DEF AttemptRecord

LEMMA KnownUse ==
    ASSUME AgentRunsInv, NEW usage \in scope.usages
    PROVE  usage \in Uses
BY BoundsAssumption DEF AgentRunsInv

LEMMA CreateTaskStep ==
    ASSUME NEW t \in Tasks, NEW ts, CreateTask(t, ts)
    PROVE  \E n : Appended(n)
<1>1. PICK e : /\ e = [Event("task_created", "started", t, None, None, ts) EXCEPT
                            !.details = [task |-> t]]
               /\ Commit(<<e>>)
  BY DEF CreateTask, Apply
<1>2. DOMAIN e = EventFields /\ e.type = "task_created" /\ e.task = t
  BY <1>1 DEF Event, EventFields
<1>3. IsEvent(e)
  BY <1>2 DEF IsEvent
<1> QED
  BY <1>1, <1>2, <1>3, CommitPlain

LEMMA StartRunStep ==
    ASSUME AgentRunsInv, NEW t \in Tasks, NEW r \in Runs, NEW budget \in scope.budgets, NEW ts,
           StartRun(t, r, budget, ts)
    PROVE  \E n : Appended(n)
<1>1. PICK e : /\ e = [Event("run_started", "started", t, r, None, ts) EXCEPT
                            !.details = IF budget = None THEN <<>> ELSE [budget |-> budget]]
               /\ Commit(<<e>>)
  BY DEF StartRun, Apply
<1>2. /\ DOMAIN e = EventFields /\ e.type = "run_started" /\ e.run = r
      /\ e.details = IF budget = None THEN <<>> ELSE [budget |-> budget]
  BY <1>1 DEF Event, EventFields
<1>3. budget \in Budgets
  BY DEF AgentRunsInv, Budgets
<1>4. Has(e, "budget") => e.details.budget \in Budgets
  <2>1. CASE budget = None
    BY <1>2, <2>1 DEF Has
  <2>2. CASE budget # None
    BY <1>2, <1>3, <2>2
  <2> QED
    BY <2>1, <2>2
<1>5. IsEvent(e)
  BY <1>2, <1>4 DEF IsEvent
<1> QED
  BY <1>1, <1>2, <1>5, CommitPlain

LEMMA StartAttemptStep ==
    ASSUME AgentRunsInv, NEW r \in Runs, NEW a \in Attempts, NEW identity \in Identities,
           NEW transition \in Transitions, NEW decision \in Decisions, NEW ts,
           StartAttempt(r, a, identity, transition, decision, ts)
    PROVE  \E n : Appended(n)
<1>1. PICK e : /\ e = [RunEvent("attempt_started", "running", r, ts) EXCEPT
                            !.attempt = a, !.identity = identity,
                            !.details = IF decision = None THEN [transition |-> transition]
                                        ELSE [transition |-> transition,
                                              routeDecision |-> decision]]
               /\ Commit(<<e>>)
  BY DEF StartAttempt, Apply
<1>2. /\ DOMAIN e = EventFields /\ e.type = "attempt_started" /\ e.run = r
      /\ e.attempt = a /\ e.identity = identity
      /\ e.details = IF decision = None THEN [transition |-> transition]
                     ELSE [transition |-> transition, routeDecision |-> decision]
  BY <1>1 DEF RunEvent, Event, EventFields
<1>3. /\ r \in DOMAIN view.runs /\ ~Exhausted(view.runs[r])
      /\ transition.kind = "migration" =>
            /\ OfRun(r, transition.from)
            /\ ~SameIdentity(AttemptOf(r, transition.from).identity, identity)
  BY DEF StartAttempt, TakesAttempts, ActiveRun
<1>4. /\ Has(e, "transition") /\ e.details.transition = transition
      /\ Has(e, "routeDecision") => decision # None /\ e.details.routeDecision = decision
  <2>1. CASE decision = None
    BY <1>2, <2>1 DEF Has
  <2>2. CASE decision # None
    BY <1>2, <2>2 DEF Has
  <2> QED
    BY <2>1, <2>2
<1>5. transition \in TransitionRecord
  BY DEF Transitions, TransitionRecord
<1>6. decision # None => decision \in Nat
  BY DEF Decisions, AgentRunsInv, RunsInv, TraceInv
<1>7. IsEvent(e)
  BY <1>2, <1>4, <1>5, <1>6 DEF IsEvent
<1>8. Commanded(view, e)
  <2>1. SUFFICES ASSUME transition.kind = "migration", NEW n \in DOMAIN view.runs[r].attempts,
                        view.runs[r].attempts[n].id = transition.from
                 PROVE  ~SameIdentity(view.runs[r].attempts[n].identity, identity)
    BY <1>2, <1>4 DEF Commanded
  <2>2. PICK m : m = CHOOSE k \in Place(view.runs[r], transition.from) : TRUE
    OBVIOUS
  <2>3. /\ m \in DOMAIN view.runs[r].attempts
        /\ view.runs[r].attempts[m].id = transition.from
        /\ AttemptOf(r, transition.from) = view.runs[r].attempts[m]
    BY <1>3, <2>1, <2>2 DEF OfRun, AttemptOf, Place
  <2>4. m = n
    BY <1>3, <2>1, <2>3, KnownRun DEF Distinct
  <2> QED
    BY <1>3, <2>1, <2>3, <2>4
<1>9. Affordable(e) /\ Billed(view, e)
  BY <1>2, <1>3 DEF Affordable, Billed, AttemptEnds
<1> QED
  BY <1>1, <1>2, <1>7, <1>8, <1>9, CommitOne DEF Offered

LEMMA DecideRouteStep ==
    ASSUME NEW r, NEW choice, NEW ts, DecideRoute(r, choice, ts)
    PROVE  \E n : Appended(n)
<1>1. PICK e : /\ e = [RunEvent("route_decided",
                                IF choice = None THEN "failed" ELSE "succeeded", r, ts) EXCEPT
                            !.identity = choice,
                            !.failure  = IF choice = None THEN [retryable |-> TRUE] ELSE None,
                            !.details  = [routing |-> [observed  |-> trace.events,
                                                       candidate |-> choice]]]
               /\ Commit(<<e>>)
  BY DEF DecideRoute, Apply
<1>2. DOMAIN e = EventFields /\ e.type = "route_decided"
  BY <1>1 DEF RunEvent, Event, EventFields
<1>3. IsEvent(e)
  BY <1>2 DEF IsEvent
<1> QED
  BY <1>1, <1>2, <1>3, CommitPlain

LEMMA EndAttemptStep ==
    ASSUME AgentRunsInv, NEW r, NEW a, NEW type \in AttemptEnds, NEW status,
           NEW failure \in FailureRecord \cup {None}, NEW usage \in scope.usages, NEW thread, NEW ts,
           EndAttempt(r, a, type, status, failure, usage, thread, ts)
    PROVE  \E n : Appended(n)
<1>1. PICK e : /\ e = [AttemptEvent(type, status, r, a, ts) EXCEPT
                            !.thread = thread, !.usage = usage, !.failure = failure]
               /\ Commit(<<e>>)
  BY DEF EndAttempt, Apply
<1>2. /\ DOMAIN e = EventFields /\ e.type = type /\ e.usage = usage /\ e.failure = failure
      /\ e.run = r /\ e.attempt = a /\ e.identity = AttemptOf(r, a).identity
  BY <1>1 DEF AttemptEvent, Event, EventFields
<1>3. usage \in Uses
  BY KnownUse
<1>4. IsEvent(e)
  BY <1>2, <1>3 DEF IsEvent, AttemptEnds
<1>5. Billed(view, e)
  <2>1. r \in DOMAIN view.runs /\ OfRun(r, a)
    BY DEF EndAttempt, ActiveAttempt, ActiveRun
  <2>2. PICK m : m = CHOOSE k \in Place(view.runs[r], a) : TRUE
    OBVIOUS
  <2>3. /\ m \in DOMAIN view.runs[r].attempts /\ view.runs[r].attempts[m].id = a
        /\ e.identity = view.runs[r].attempts[m].identity
    BY <1>2, <2>1, <2>2 DEF OfRun, AttemptOf, Place
  <2>4. ASSUME NEW n \in DOMAIN view.runs[r].attempts, view.runs[r].attempts[n].id = a
        PROVE  n = m
    BY <2>1, <2>3, <2>4, KnownRun DEF Distinct
  <2> QED
    BY <1>2, <2>3, <2>4 DEF Billed
<1>6. Offered(e)
  BY <1>2, <1>4, <1>5 DEF Offered, Commanded, Affordable, AttemptEnds
<1> QED
  BY <1>1, <1>6, CommitOne

LEMMA LinkThreadStep ==
    ASSUME NEW r, NEW a, NEW thread \in Threads, NEW parent, NEW ts,
           LinkThread(r, a, thread, parent, ts)
    PROVE  \E n : Appended(n)
<1>1. PICK e : /\ e = [RunEvent("thread_linked", "running", r, ts) EXCEPT
                            !.attempt = a, !.thread = thread, !.parentThread = parent]
               /\ Commit(<<e>>)
  BY DEF LinkThread, Apply
<1>2. DOMAIN e = EventFields /\ e.type = "thread_linked" /\ e.thread = thread
  BY <1>1 DEF RunEvent, Event, EventFields
<1>3. IsEvent(e)
  BY <1>2 DEF IsEvent
<1> QED
  BY <1>1, <1>2, <1>3, CommitPlain

LEMMA RecordToolStep ==
    ASSUME NEW r, NEW a, NEW thread, NEW ts, RecordTool(r, a, thread, ts)
    PROVE  \E n : Appended(n)
<1>1. PICK usage, e :
        /\ e = [AttemptEvent("tool_call_completed", "succeeded", r, a, ts) EXCEPT
                    !.thread = thread, !.subject = "tool", !.usage = usage]
        /\ Commit(<<e>>)
  BY DEF RecordTool, Apply
<1>2. DOMAIN e = EventFields /\ e.type = "tool_call_completed"
  BY <1>1 DEF AttemptEvent, Event, EventFields
<1>3. IsEvent(e)
  BY <1>2 DEF IsEvent
<1> QED
  BY <1>1, <1>2, <1>3, CommitPlain

LEMMA RecordArtifactStep ==
    ASSUME NEW r, NEW a, NEW thread, NEW artifact \in Artifacts, NEW ts,
           RecordArtifact(r, a, thread, artifact, ts)
    PROVE  \E n : Appended(n)
<1>1. PICK e : /\ e = [AttemptEvent("artifact_created", "succeeded", r, a, ts) EXCEPT
                            !.thread = thread, !.subject = "patch",
                            !.details = [artifact |-> artifact]]
               /\ Commit(<<e>>)
  BY DEF RecordArtifact, Apply
<1>2. /\ DOMAIN e = EventFields /\ e.type = "artifact_created"
      /\ e.details = [artifact |-> artifact]
  BY <1>1 DEF AttemptEvent, Event, EventFields
<1>3. e.details.artifact = artifact
  BY <1>2
<1>4. IsEvent(e)
  BY <1>2, <1>3 DEF IsEvent
<1> QED
  BY <1>1, <1>2, <1>4, CommitPlain

LEMMA RecordVerificationStep ==
    ASSUME NEW r, NEW a, NEW thread, NEW id \in Pieces, NEW target, NEW succeeded, NEW ts,
           RecordVerification(r, a, thread, id, target, succeeded, ts)
    PROVE  \E n : Appended(n)
<1>1. PICK e : /\ e = [AttemptEvent("verification_completed",
                                    IF succeeded THEN "succeeded" ELSE "failed", r, a, ts) EXCEPT
                            !.thread = thread, !.subject = "tests",
                            !.details = IF target = None THEN [verification |-> id]
                                        ELSE [verification |-> id, target |-> target]]
               /\ Commit(<<e>>)
  BY DEF RecordVerification, Apply
<1>2. /\ DOMAIN e = EventFields /\ e.type = "verification_completed"
      /\ e.details = IF target = None THEN [verification |-> id]
                     ELSE [verification |-> id, target |-> target]
  BY <1>1 DEF AttemptEvent, Event, EventFields
<1>3. e.details.verification = id
  BY <1>2
<1>4. IsEvent(e)
  BY <1>2, <1>3 DEF IsEvent
<1> QED
  BY <1>1, <1>2, <1>4, CommitPlain

LEMMA PrepareWorktreeStep ==
    ASSUME AgentRunsInv, NEW r, NEW a, NEW ts, PrepareWorktree(r, a, ts)
    PROVE  \E n : Appended(n)
<1>1. PICK e : /\ e = [AttemptEvent("worktree_prepared", "succeeded", r, a, ts) EXCEPT
                            !.details = [worktree |-> [base |-> 0, head |-> 0]]]
               /\ Commit(<<e>>)
  BY DEF PrepareWorktree, Apply
<1>2. /\ DOMAIN e = EventFields /\ e.type = "worktree_prepared"
      /\ e.identity = AttemptOf(r, a).identity /\ e.details.worktree.base = 0
  BY <1>1 DEF AttemptEvent, Event, EventFields
<1>3. AttemptOf(r, a).identity \in Identities
  BY KnownAttempt DEF PrepareWorktree, ActiveAttempt, ActiveRun
<1>4. IsEvent(e)
  BY <1>2, <1>3 DEF IsEvent
<1> QED
  BY <1>1, <1>2, <1>4, CommitPlain

LEMMA RecordEvidenceStep ==
    ASSUME AgentRunsInv, NEW r, NEW a, NEW id \in Pieces, NEW head \in Commits,
           NEW clean \in BOOLEAN, NEW tested \in BOOLEAN, NEW ts,
           RecordEvidence(r, a, id, head, clean, tested, ts)
    PROVE  \E n : Appended(n)
<1>1. PICK evidence, e :
        /\ evidence = [id |-> id, base |-> view.runs[r].worktree.base, head |-> head,
                       commits |-> 1, clean |-> clean, tested |-> tested,
                       exit |-> IF tested THEN 0 ELSE 1]
        /\ e = [AttemptEvent("worktree_evidence_recorded", "succeeded", r, a, ts) EXCEPT
                    !.details = [evidence |-> evidence]]
        /\ Commit(<<e>>)
  BY DEF RecordEvidence, Apply
<1>2. /\ DOMAIN e = EventFields /\ e.type = "worktree_evidence_recorded"
      /\ e.details.evidence = evidence
  BY <1>1 DEF AttemptEvent, Event, EventFields
<1>3. view.runs[r].worktree.base = 0
  <2>1. r \in DOMAIN view.runs /\ view.runs[r].worktree # None
    BY DEF RecordEvidence, ActiveAttempt, ActiveRun
  <2>2. view.runs[r].worktree \in WorktreeRecord
    BY <2>1, KnownRun
  <2> QED
    BY <2>2 DEF WorktreeRecord
<1>4. evidence \in EvidenceRecord
  BY <1>1, <1>3 DEF EvidenceRecord
<1>5. IsEvent(e)
  BY <1>2, <1>4 DEF IsEvent
<1> QED
  BY <1>1, <1>2, <1>5, CommitPlain

LEMMA RecordReviewStep ==
    ASSUME NEW r, NEW a, NEW identity, NEW id \in Pieces, NEW evidence \in Pieces,
           NEW decision \in {"approved", "rejected"}, NEW ts,
           RecordReview(r, a, identity, id, evidence, decision, ts)
    PROVE  \E n : Appended(n)
<1>1. PICK review, e :
        /\ review = [id |-> id, evidence |-> evidence, decision |-> decision]
        /\ e = [RunEvent("worktree_review_recorded", "succeeded", r, ts) EXCEPT
                    !.attempt = a, !.identity = identity, !.details = [review |-> review]]
        /\ Commit(<<e>>)
  BY DEF RecordReview, Apply
<1>2. /\ DOMAIN e = EventFields /\ e.type = "worktree_review_recorded"
      /\ e.details.review = review
  BY <1>1 DEF RunEvent, Event, EventFields
<1>3. review \in ReviewRecord
  BY <1>1 DEF ReviewRecord
<1>4. IsEvent(e)
  BY <1>2, <1>3 DEF IsEvent
<1> QED
  BY <1>1, <1>2, <1>4, CommitPlain

LEMMA RecordConflictStep ==
    ASSUME NEW r, NEW a, NEW identity, NEW id \in Pieces, NEW evidence \in Pieces,
           NEW head \in Commits, NEW free \in BOOLEAN, NEW ts,
           RecordConflict(r, a, identity, id, evidence, head, free, ts)
    PROVE  \E n : Appended(n)
<1>1. PICK conflict, e :
        /\ conflict = [id |-> id, evidence |-> evidence, head |-> head, free |-> free,
                       disposition |-> IF free THEN "none" ELSE "human_required"]
        /\ e = [RunEvent("worktree_conflict_checked",
                         IF free THEN "succeeded" ELSE "failed", r, ts) EXCEPT
                    !.attempt = a, !.identity = identity, !.details = [conflict |-> conflict]]
        /\ Commit(<<e>>)
  BY DEF RecordConflict, Apply
<1>2. /\ DOMAIN e = EventFields /\ e.type = "worktree_conflict_checked"
      /\ e.details.conflict = conflict
  BY <1>1 DEF RunEvent, Event, EventFields
<1>3. conflict \in CheckRecord
  BY <1>1 DEF CheckRecord
<1>4. IsEvent(e)
  BY <1>2, <1>3 DEF IsEvent
<1> QED
  BY <1>1, <1>2, <1>4, CommitPlain

LEMMA CompleteRunStep ==
    ASSUME NEW r, NEW final \in {<<>>} \cup {<<x>> : x \in Artifacts}, NEW ts,
           CompleteRun(r, final, ts)
    PROVE  \E n : Appended(n)
<1>1. PICK e : /\ e = [RunEvent("run_completed", "succeeded", r, ts) EXCEPT
                            !.details = IF final = <<>> THEN <<>> ELSE [final |-> final]]
               /\ Commit(<<e>>)
  BY DEF CompleteRun, Apply
<1>2. /\ DOMAIN e = EventFields /\ e.type = "run_completed"
      /\ e.details = IF final = <<>> THEN <<>> ELSE [final |-> final]
  BY <1>1 DEF RunEvent, Event, EventFields
<1>3. final \in Seq(Artifacts)
  <2>1. CASE final = <<>>
    BY <2>1
  <2>2. ASSUME NEW x \in Artifacts, final = <<x>>
        PROVE  final \in Seq(Artifacts)
    BY <2>2
  <2> QED
    BY <2>1, <2>2
<1>4. Has(e, "final") => e.details.final \in Seq(Artifacts)
  <2>1. CASE final = <<>>
    BY <1>2, <2>1 DEF Has
  <2>2. CASE final # <<>>
    BY <1>2, <1>3, <2>2
  <2> QED
    BY <2>1, <2>2
<1>5. IsEvent(e)
  BY <1>2, <1>4 DEF IsEvent
<1> QED
  BY <1>1, <1>2, <1>5, CommitPlain

LEMMA FailRunStep ==
    ASSUME NEW r, NEW status, NEW ts, FailRun(r, status, ts)
    PROVE  \E n : Appended(n)
<1>1. PICK e : /\ e = [RunEvent("run_failed", status, r, ts) EXCEPT
                            !.failure = [retryable |-> FALSE]]
               /\ Commit(<<e>>)
  BY DEF FailRun, Apply
<1>2. DOMAIN e = EventFields /\ e.type = "run_failed" /\ e.details = <<>>
  BY <1>1 DEF RunEvent, Event, EventFields
<1>3. ~Has(e, "final")
  BY <1>2 DEF Has
<1>4. IsEvent(e)
  BY <1>2, <1>3 DEF IsEvent
<1> QED
  BY <1>1, <1>2, <1>4, CommitPlain

----------------------------------------------------------------------------
\* The events from outside.

LEMMA CommitSeen ==
    ASSUME NEW e, DOMAIN e = EventFields, IsEvent(e), e.type \in scope.outside, Commit(<<e>>)
    PROVE  \E n : Appended(n)
<1>1. Offered(e)
  BY DEF Offered, Commanded, Affordable, Billed, FromCommandsOnly
<1> QED
  BY <1>1, CommitOne

LEMMA SeenStart ==
    ASSUME NEW ts, NEW e \in Starts(ts)
    PROVE  DOMAIN e = EventFields /\ IsEvent(e) /\ e.type = "attempt_started"
<1>1. PICK t \in Tasks, r \in Runs, a \in Attempts, i \in Identities \cup {None},
           kind \in {"initial", "retry", "migration"}, from \in Attempts \cup {None} :
        e = Start(t, r, a, i, kind, from, ts)
  BY DEF Starts
<1>2. /\ DOMAIN e = EventFields /\ e.type = "attempt_started" /\ e.attempt = a /\ e.identity = i
      /\ e.details = [transition |-> [kind |-> kind, from |-> from]]
  BY <1>1 DEF Start, Event, EventFields
<1>3. /\ Has(e, "transition") /\ ~Has(e, "routeDecision")
      /\ e.details.transition = [kind |-> kind, from |-> from]
  BY <1>2 DEF Has
<1>4. e.details.transition \in TransitionRecord
  BY <1>3 DEF TransitionRecord
<1>5. IsEvent(e)
  BY <1>2, <1>3, <1>4 DEF IsEvent
<1> QED
  BY <1>2, <1>5

LEMMA SeenEnd ==
    ASSUME AgentRunsInv, NEW type \in AttemptEnds, NEW ts, NEW e \in Ends(type, ts)
    PROVE  DOMAIN e = EventFields /\ IsEvent(e) /\ e.type = type
<1>1. PICK t \in Tasks, r \in Runs, a \in Attempts, i \in Identities, usage \in scope.usages,
           status \in {"running", "succeeded", "failed"},
           failure \in {None, [retryable |-> TRUE]} :
        e = End(type, status, t, r, a, i, usage, failure, ts)
  BY DEF Ends
<1>2. DOMAIN e = EventFields /\ e.type = type /\ e.usage = usage /\ e.failure = failure
  BY <1>1 DEF End, Event, EventFields
<1>3. usage \in Uses /\ failure \in FailureRecord \cup {None}
  <2>1. [retryable |-> TRUE] \in FailureRecord
    BY DEF FailureRecord
  <2> QED
    BY <2>1, KnownUse
<1>4. IsEvent(e)
  BY <1>2, <1>3 DEF IsEvent, AttemptEnds
<1> QED
  BY <1>2, <1>4

LEMMA SeenRunEnd ==
    ASSUME NEW type \in RunEnding, NEW ts, NEW e \in RunEnds(type, ts)
    PROVE  DOMAIN e = EventFields /\ IsEvent(e) /\ e.type = type
<1>1. PICK t \in Tasks, r \in Runs, status \in {"running", "succeeded", "failed"} :
        e = [Event(type, status, t, r, None, ts) EXCEPT !.failure = [retryable |-> FALSE]]
  BY DEF RunEnds
<1>2. DOMAIN e = EventFields /\ e.type = type /\ e.details = <<>>
  BY <1>1 DEF Event, EventFields
<1>3. ~Has(e, "final")
  BY <1>2 DEF Has
<1>4. IsEvent(e)
  BY <1>2, <1>3 DEF IsEvent, RunEnding
<1> QED
  BY <1>2, <1>4

LEMMA SeenDetail ==
    ASSUME NEW type, NEW detail, NEW values, NEW ts, NEW e \in Detailed(type, detail, values, ts)
    PROVE  /\ DOMAIN e = EventFields /\ e.type = type
           /\ \E v \in values : e.details = OneDetail(detail, v)
<1>1. PICK t \in Tasks, r \in Runs, a \in Attempts, i \in Identities, v \in values :
        e = WithDetail(type, t, r, a, i, OneDetail(detail, v), ts)
  BY DEF Detailed
<1>2. DOMAIN e = EventFields /\ e.type = type /\ e.details = OneDetail(detail, v)
  BY <1>1 DEF WithDetail, Event, EventFields
<1> QED
  BY <1>2

LEMMA SeenArtifact ==
    ASSUME NEW ts, NEW e \in Detailed("artifact_created", "artifact", Artifacts \cup {None}, ts)
    PROVE  DOMAIN e = EventFields /\ IsEvent(e) /\ e.type = "artifact_created"
<1>1. /\ DOMAIN e = EventFields /\ e.type = "artifact_created"
      /\ \E v \in Artifacts \cup {None} : e.details = OneDetail("artifact", v)
  BY SeenDetail
<1>2. PICK v \in Artifacts \cup {None} : e.details = OneDetail("artifact", v)
  BY <1>1
<1>3. Has(e, "artifact") => e.details.artifact \in Artifacts
  <2>1. CASE v = None
    BY <1>2, <2>1 DEF Has, OneDetail
  <2>2. CASE v # None
    BY <1>2, <2>2 DEF OneDetail
  <2> QED
    BY <2>1, <2>2
<1>4. IsEvent(e)
  BY <1>1, <1>3 DEF IsEvent
<1> QED
  BY <1>1, <1>4

LEMMA SeenEvidence ==
    ASSUME NEW ts, NEW values \in SUBSET EvidenceRecord,
           NEW e \in Detailed("worktree_evidence_recorded", "evidence", values, ts)
    PROVE  DOMAIN e = EventFields /\ IsEvent(e) /\ e.type = "worktree_evidence_recorded"
<1>1. /\ DOMAIN e = EventFields /\ e.type = "worktree_evidence_recorded"
      /\ \E v \in values : e.details = OneDetail("evidence", v)
  BY SeenDetail
<1>2. PICK v \in values : e.details = OneDetail("evidence", v)
  BY <1>1
<1>3. v # None /\ v \in EvidenceRecord
  BY NoneAssumption
<1>4. e.details.evidence \in EvidenceRecord
  BY <1>2, <1>3 DEF OneDetail
<1>5. IsEvent(e)
  BY <1>1, <1>4 DEF IsEvent
<1> QED
  BY <1>1, <1>5

LEMMA SeenReview ==
    ASSUME NEW ts, NEW values \in SUBSET ReviewRecord,
           NEW e \in Detailed("worktree_review_recorded", "review", values, ts)
    PROVE  DOMAIN e = EventFields /\ IsEvent(e) /\ e.type = "worktree_review_recorded"
<1>1. /\ DOMAIN e = EventFields /\ e.type = "worktree_review_recorded"
      /\ \E v \in values : e.details = OneDetail("review", v)
  BY SeenDetail
<1>2. PICK v \in values : e.details = OneDetail("review", v)
  BY <1>1
<1>3. v # None /\ v \in ReviewRecord
  BY NoneAssumption
<1>4. e.details.review \in ReviewRecord
  BY <1>2, <1>3 DEF OneDetail
<1>5. IsEvent(e)
  BY <1>1, <1>4 DEF IsEvent
<1> QED
  BY <1>1, <1>5

LEMMA SeenConflict ==
    ASSUME NEW ts, NEW values \in SUBSET CheckRecord,
           NEW e \in Detailed("worktree_conflict_checked", "conflict", values, ts)
    PROVE  DOMAIN e = EventFields /\ IsEvent(e) /\ e.type = "worktree_conflict_checked"
<1>1. /\ DOMAIN e = EventFields /\ e.type = "worktree_conflict_checked"
      /\ \E v \in values : e.details = OneDetail("conflict", v)
  BY SeenDetail
<1>2. PICK v \in values : e.details = OneDetail("conflict", v)
  BY <1>1
<1>3. v # None /\ v \in CheckRecord
  BY NoneAssumption
<1>4. e.details.conflict \in CheckRecord
  BY <1>2, <1>3 DEF OneDetail
<1>5. IsEvent(e)
  BY <1>1, <1>4 DEF IsEvent
<1> QED
  BY <1>1, <1>5

LEMMA SeenHealth ==
    ASSUME NEW type \in HealthTypes, NEW i, NEW ts, NEW e, e = HealthEvent(type, i, ts)
    PROVE  DOMAIN e = EventFields /\ IsEvent(e) /\ e.type = type
<1>1. DOMAIN e = EventFields /\ e.type = type
  BY DEF HealthEvent, Event, EventFields
<1>2. IsEvent(e)
  BY <1>1 DEF IsEvent, HealthTypes
<1> QED
  BY <1>1, <1>2

LEMMA SeenQueued ==
    ASSUME NEW ts, NEW e \in Queued(ts)
    PROVE  DOMAIN e = EventFields /\ IsEvent(e) /\ e.type = "scheduler_job_queued"
<1>1. PICK t \in Tasks, r \in Runs, job \in Pieces, deps \in {<<>>} \cup {<<p>> : p \in Pieces} :
        e = [Event("scheduler_job_queued", "started", t, r, None, ts) EXCEPT
                !.details = [job |-> [id |-> job, run |-> r, deps |-> deps]]]
  BY DEF Queued
<1>2. /\ DOMAIN e = EventFields /\ e.type = "scheduler_job_queued" /\ e.details.job.id = job
  BY <1>1 DEF Event, EventFields
<1>3. IsEvent(e)
  BY <1>2 DEF IsEvent
<1> QED
  BY <1>2, <1>3

LEMMA SeenDeferral ==
    ASSUME NEW ts, NEW e \in Deferrals(ts)
    PROVE  DOMAIN e = EventFields /\ IsEvent(e) /\ e.type = "scheduler_dispatch_deferred"
<1>1. PICK t \in Tasks, r \in Runs, job \in Pieces, d \in {None} \cup DOMAIN trace.decisions :
        e = [Event("scheduler_dispatch_deferred", "degraded", t, r, None, ts) EXCEPT
                !.details = [deferred |-> [job |-> job, decision |-> d]]]
  BY DEF Deferrals
<1>2. DOMAIN e = EventFields /\ e.type = "scheduler_dispatch_deferred"
  BY <1>1 DEF Event, EventFields
<1>3. IsEvent(e)
  BY <1>2 DEF IsEvent
<1> QED
  BY <1>2, <1>3

LEMMA SeenRenewal ==
    ASSUME NEW ts, NEW e \in Renewals(ts)
    PROVE  DOMAIN e = EventFields /\ IsEvent(e) /\ e.type = "scheduler_lease_renewed"
<1>1. PICK t \in Tasks, r \in Runs, job \in Pieces, n \in 1..2, p \in 1..2 :
        e = OfJob("scheduler_lease_renewed", "running", t, r,
                  [lease |-> [id |-> n, job |-> job, dispatch |-> n, previous |-> p,
                              expires |-> p + 1]], ts)
  BY DEF Renewals
<1>2. DOMAIN e = EventFields /\ e.type = "scheduler_lease_renewed"
  BY <1>1 DEF OfJob, Event, EventFields
<1>3. IsEvent(e)
  BY <1>2 DEF IsEvent
<1> QED
  BY <1>2, <1>3

LEMMA SeenChange ==
    ASSUME NEW type \in StateChanges, NEW status, NEW ts, NEW e \in Changes(type, status, ts)
    PROVE  DOMAIN e = EventFields /\ IsEvent(e) /\ e.type = type
<1>1. PICK t \in Tasks, r \in Runs, job \in Pieces :
        e = OfJob(type, status, t, r, [change |-> [job |-> job]], ts)
  BY DEF Changes
<1>2. DOMAIN e = EventFields /\ e.type = type
  BY <1>1 DEF OfJob, Event, EventFields
<1>3. IsEvent(e)
  BY <1>2, ChangeTypes DEF IsEvent
<1> QED
  BY <1>2, <1>3

LEMMA SeenDispatch ==
    ASSUME AgentRunsInv, "scheduler_dispatch_decided" \in scope.outside, NEW ts,
           NEW batch \in Dispatches(ts), Commit(batch)
    PROVE  \E a, b, c : Dispatched(a, b, c)
<1>1. PICK t \in Tasks, r \in Runs, a \in Attempts, i \in Identities, job \in Pieces, n \in 1..2 :
        batch = Dispatch(t, r, a, i, job, n, ts)
  BY DEF Dispatches
<1>2. PICK e, f, g :
        /\ e = [Event("route_decided", "succeeded", t, r, None, ts) EXCEPT
                    !.identity = i,
                    !.details  = [routing |-> [observed |-> trace.events, candidate |-> i]]]
        /\ f = [Event("attempt_started", "running", t, r, a, ts) EXCEPT
                    !.identity = i,
                    !.details  = [transition    |-> [kind |-> "initial", from |-> None],
                                  routeDecision |-> trace.events + 1]]
        /\ g = [Event("scheduler_dispatch_decided", "succeeded", t, r, a, ts) EXCEPT
                    !.identity = i,
                    !.details  = [dispatch |-> [id |-> n, job |-> job, attempt |-> a, lease |-> n,
                                                decision |-> trace.events + 1, candidate |-> i,
                                                ordinal |-> n, leased |-> 0, expires |-> 1]]]
        /\ batch = <<e, f, g>>
  BY <1>1 DEF Dispatch
<1>3. DOMAIN e = EventFields /\ e.type = "route_decided"
  BY <1>2 DEF Event, EventFields
<1>4. /\ DOMAIN f = EventFields /\ f.type = "attempt_started" /\ f.attempt = a /\ f.identity = i
      /\ f.details = [transition    |-> [kind |-> "initial", from |-> None],
                      routeDecision |-> trace.events + 1]
  BY <1>2 DEF Event, EventFields
<1>5. DOMAIN g = EventFields /\ g.type = "scheduler_dispatch_decided"
  BY <1>2 DEF Event, EventFields
<1>6. /\ Has(f, "transition") /\ f.details.transition = [kind |-> "initial", from |-> None]
      /\ f.details.routeDecision = trace.events + 1 /\ trace.events + 1 \in Nat
  <2>1. trace.events \in Nat
    BY DEF AgentRunsInv, RunsInv, TraceInv
  <2> QED
    BY <1>4, <2>1 DEF Has
<1>7. f.details.transition \in TransitionRecord /\ f.details.transition.kind = "initial"
  BY <1>6 DEF TransitionRecord
<1>8. IsEvent(e) /\ Initial(e)
  BY <1>3 DEF IsEvent, Initial, AttemptEnds
<1>9. IsEvent(f) /\ Initial(f)
  BY <1>4, <1>6, <1>7 DEF IsEvent, Initial, AttemptEnds
<1>10. IsEvent(g) /\ Initial(g)
  BY <1>5 DEF IsEvent, Initial, AttemptEnds
<1>11. ~StartedByCommands
  BY DEF StartedByCommands, FromCommandsOnly
<1> QED
  BY <1>2, <1>3, <1>4, <1>5, <1>8, <1>9, <1>10, <1>11, CommitThree

LEMMA ObserveStep ==
    ASSUME AgentRunsInv, NEW ts, Observe(ts)
    PROVE  (\E n : Appended(n)) \/ (\E a, b, c : Dispatched(a, b, c))
<1>1. PICK type, batch : /\ type \in scope.outside /\ batch \in FromOutside(type, ts)
                         /\ Commit(batch)
  BY DEF Observe
<1>2. type \in OutsideTypes
  BY <1>1, BoundsAssumption DEF AgentRunsInv
<1> USE DEF HealthTypes
<1>3. CASE type = "attempt_started"
  <2>1. FromOutside(type, ts) = One(Starts(ts))
    BY <1>3, ChangeTypes DEF FromOutside
  <2>2. PICK e \in Starts(ts) : batch = <<e>>
    BY <1>1, <2>1 DEF One
  <2> QED
    BY <1>1, <1>3, <2>2, SeenStart, CommitSeen
<1>4. CASE type \in AttemptEnds
  <2>1. FromOutside(type, ts) = One(Ends(type, ts))
    <3>1. CASE type = "attempt_completed"
      BY <3>1, ChangeTypes DEF FromOutside
    <3>2. CASE type = "attempt_failed"
      BY <3>2, ChangeTypes DEF FromOutside
    <3> QED
      BY <1>4, <3>1, <3>2 DEF AttemptEnds
  <2>2. PICK e \in Ends(type, ts) : batch = <<e>>
    BY <1>1, <2>1 DEF One
  <2> QED
    BY <1>1, <1>4, <2>2, SeenEnd, CommitSeen
<1>5. CASE type \in RunEnding
  <2>1. FromOutside(type, ts) = One(RunEnds(type, ts))
    <3>1. CASE type = "run_completed"
      BY <3>1, ChangeTypes DEF FromOutside
    <3>2. CASE type = "run_failed"
      BY <3>2, ChangeTypes DEF FromOutside
    <3> QED
      BY <1>5, <3>1, <3>2 DEF RunEnding
  <2>2. PICK e \in RunEnds(type, ts) : batch = <<e>>
    BY <1>1, <2>1 DEF One
  <2> QED
    BY <1>1, <1>5, <2>2, SeenRunEnd, CommitSeen
<1>6. CASE type = "artifact_created"
  <2>1. FromOutside(type, ts) = One(Detailed("artifact_created", "artifact",
                                             Artifacts \cup {None}, ts))
    BY <1>6, ChangeTypes DEF FromOutside
  <2>2. PICK e \in Detailed("artifact_created", "artifact",
                            Artifacts \cup {None}, ts) : batch = <<e>>
    BY <1>1, <2>1 DEF One
  <2> QED
    BY <1>1, <1>6, <2>2, SeenArtifact, CommitSeen
<1>7. CASE type = "worktree_evidence_recorded"
  <2> DEFINE values == {[id |-> p, base |-> 0, head |-> c, commits |-> 1, clean |-> FALSE,
                         tested |-> FALSE, exit |-> 1] : p \in Pieces, c \in Commits}
  <2>1. FromOutside(type, ts) =
            One(Detailed("worktree_evidence_recorded", "evidence", values, ts))
    BY <1>7, ChangeTypes DEF FromOutside
  <2>2. values \in SUBSET EvidenceRecord
    <3>1. ASSUME NEW p \in Pieces, NEW c \in Commits
          PROVE  [id |-> p, base |-> 0, head |-> c, commits |-> 1, clean |-> FALSE,
                  tested |-> FALSE, exit |-> 1] \in EvidenceRecord
      BY DEF EvidenceRecord
    <3> QED
      BY <3>1
  <2> HIDE DEF values
  <2>3. PICK e \in Detailed("worktree_evidence_recorded", "evidence", values, ts) :
            batch = <<e>>
    BY <1>1, <2>1 DEF One
  <2> QED
    BY <1>1, <1>7, <2>2, <2>3, SeenEvidence, CommitSeen
<1>8. CASE type = "worktree_review_recorded"
  <2>1. PICK values : /\ values = {[id |-> p, evidence |-> q, decision |-> "approved"] :
                                    p \in Pieces, q \in Pieces}
                      /\ FromOutside(type, ts) =
                            One(Detailed("worktree_review_recorded", "review",
                                         values, ts))
    BY <1>8, ChangeTypes DEF FromOutside
  <2>2. values \in SUBSET ReviewRecord
    BY <2>1 DEF ReviewRecord
  <2>3. PICK e \in Detailed("worktree_review_recorded", "review", values, ts) :
            batch = <<e>>
    BY <1>1, <2>1 DEF One
  <2> QED
    BY <1>1, <1>8, <2>2, <2>3, SeenReview, CommitSeen
<1>9. CASE type = "worktree_conflict_checked"
  <2> DEFINE values == {[id |-> p, evidence |-> q, head |-> c, free |-> TRUE,
                         disposition |-> "none"] : p \in Pieces, q \in Pieces, c \in Commits}
  <2>1. FromOutside(type, ts) =
            One(Detailed("worktree_conflict_checked", "conflict", values, ts))
    BY <1>9, ChangeTypes DEF FromOutside
  <2>2. values \in SUBSET CheckRecord
    <3>1. ASSUME NEW p \in Pieces, NEW q \in Pieces, NEW c \in Commits
          PROVE  [id |-> p, evidence |-> q, head |-> c, free |-> TRUE,
                  disposition |-> "none"] \in CheckRecord
      BY DEF CheckRecord
    <3> QED
      BY <3>1
  <2> HIDE DEF values
  <2>3. PICK e \in Detailed("worktree_conflict_checked", "conflict", values, ts) :
            batch = <<e>>
    BY <1>1, <2>1 DEF One
  <2> QED
    BY <1>1, <1>9, <2>2, <2>3, SeenConflict, CommitSeen
<1>10. CASE type \in HealthTypes
  <2>1. FromOutside(type, ts) =
            One({HealthEvent(type, i, ts) : i \in Identities})
    BY <1>10, ChangeTypes DEF FromOutside
  <2>2. PICK e, i : e = HealthEvent(type, i, ts) /\ batch = <<e>>
    BY <1>1, <2>1 DEF One
  <2>3. DOMAIN e = EventFields /\ IsEvent(e) /\ e.type = type
    BY <1>10, <2>2, SeenHealth
  <2> QED
    BY <1>1, <2>2, <2>3, CommitSeen
<1>11. CASE type = "scheduler_job_queued"
  <2>1. FromOutside(type, ts) = One(Queued(ts))
    BY <1>11, ChangeTypes DEF FromOutside
  <2>2. PICK e \in Queued(ts) : batch = <<e>>
    BY <1>1, <2>1 DEF One
  <2> QED
    BY <1>1, <1>11, <2>2, SeenQueued, CommitSeen
<1>12. CASE type = "scheduler_dispatch_decided"
  <2>1. FromOutside(type, ts) = Dispatches(ts)
    BY <1>12, ChangeTypes DEF FromOutside
  <2> QED
    BY <1>1, <1>12, <2>1, SeenDispatch
<1>13. CASE type = "scheduler_dispatch_deferred"
  <2>1. FromOutside(type, ts) = One(Deferrals(ts))
    BY <1>13, ChangeTypes DEF FromOutside
  <2>2. PICK e \in Deferrals(ts) : batch = <<e>>
    BY <1>1, <2>1 DEF One
  <2> QED
    BY <1>1, <1>13, <2>2, SeenDeferral, CommitSeen
<1>14. CASE type = "scheduler_lease_renewed"
  <2>1. FromOutside(type, ts) = One(Renewals(ts))
    BY <1>14, ChangeTypes DEF FromOutside
  <2>2. PICK e \in Renewals(ts) : batch = <<e>>
    BY <1>1, <2>1 DEF One
  <2> QED
    BY <1>1, <1>14, <2>2, SeenRenewal, CommitSeen
<1>15. CASE type \in StateChanges
  <2>1. FromOutside(type, ts) =
            One(UNION {Changes(type, status, ts) :
                        status \in {"degraded", "running", "cancelled", "timed_out"}})
    BY <1>15, ChangeTypes DEF FromOutside
  <2>2. PICK status, e : e \in Changes(type, status, ts) /\ batch = <<e>>
    BY <1>1, <2>1 DEF One
  <2>3. DOMAIN e = EventFields /\ IsEvent(e) /\ e.type = type
    BY <1>15, <2>2, SeenChange
  <2> QED
    BY <1>1, <2>2, <2>3, CommitSeen
<1> QED
  BY <1>2, <1>3, <1>4, <1>5, <1>6, <1>7, <1>8, <1>9, <1>10, <1>11, <1>12, <1>13, <1>14, <1>15
     DEF OutsideTypes, AttemptEnds, RunEnding
----------------------------------------------------------------------------
\* Every step appends an event or a dispatch.

LEMMA AttemptStepAppends ==
    ASSUME AgentRunsInv, NEW r \in Runs, NEW ts, AttemptStep(r, ts)
    PROVE  \E n : Appended(n)
<1>1. PICK a \in Attempts :
        \/ \E i \in Identities, transition \in Transitions, decision \in Decisions :
                StartAttempt(r, a, i, transition, decision, ts)
        \/ \E usage \in scope.usages, thread \in Threads \cup {None} :
                \/ CompleteAttempt(r, a, usage, thread, ts)
                \/ \E status \in {"failed"}, retryable \in BOOLEAN :
                        FailAttempt(r, a, status, retryable, usage, thread, ts)
        \/ \E thread \in Threads, parent \in Threads \cup {None} :
                \/ LinkThread(r, a, thread, parent, ts)
                \/ LinkThread(r, None, thread, parent, ts)
        \/ \E thread \in Threads \cup {None} :
                \/ RecordTool(r, a, thread, ts)
                \/ \E artifact \in Artifacts : RecordArtifact(r, a, thread, artifact, ts)
                \/ \E id \in Pieces, target \in Artifacts \cup {None}, ok \in BOOLEAN :
                        RecordVerification(r, a, thread, id, target, ok, ts)
  BY DEF AttemptStep
<1>2. CASE \E i \in Identities, transition \in Transitions, decision \in Decisions :
                StartAttempt(r, a, i, transition, decision, ts)
  BY <1>2, StartAttemptStep
<1>3. ASSUME NEW usage \in scope.usages, NEW thread, CompleteAttempt(r, a, usage, thread, ts)
      PROVE  \E n : Appended(n)
  <2>1. EndAttempt(r, a, "attempt_completed", "succeeded", None, usage, thread, ts)
    BY <1>3 DEF CompleteAttempt
  <2>2. "attempt_completed" \in AttemptEnds
    BY DEF AttemptEnds
  <2> QED
    BY <2>1, <2>2, EndAttemptStep
<1>4. ASSUME NEW usage \in scope.usages, NEW thread, NEW status, NEW retryable \in BOOLEAN,
             FailAttempt(r, a, status, retryable, usage, thread, ts)
      PROVE  \E n : Appended(n)
  <2>1. PICK failure \in FailureRecord :
            EndAttempt(r, a, "attempt_failed", status, failure, usage, thread, ts)
    BY <1>4 DEF FailAttempt, FailureRecord
  <2>2. "attempt_failed" \in AttemptEnds
    BY DEF AttemptEnds
  <2> QED
    BY <2>1, <2>2, EndAttemptStep
<1>5. CASE \E thread \in Threads, parent \in Threads \cup {None} :
                \/ LinkThread(r, a, thread, parent, ts)
                \/ LinkThread(r, None, thread, parent, ts)
  BY <1>5, LinkThreadStep
<1>6. ASSUME NEW thread,
             \/ RecordTool(r, a, thread, ts)
             \/ \E artifact \in Artifacts : RecordArtifact(r, a, thread, artifact, ts)
             \/ \E id \in Pieces, target \in Artifacts \cup {None}, ok \in BOOLEAN :
                    RecordVerification(r, a, thread, id, target, ok, ts)
      PROVE  \E n : Appended(n)
  BY <1>6, RecordToolStep, RecordArtifactStep, RecordVerificationStep
<1> QED
  BY <1>1, <1>2, <1>3, <1>4, <1>5, <1>6

LEMMA WorktreeStepAppends ==
    ASSUME AgentRunsInv, NEW r \in Runs, NEW ts, WorktreeStep(r, ts)
    PROVE  \E n : Appended(n)
<1>1. PICK a \in Attempts :
        \/ PrepareWorktree(r, a, ts)
        \/ \E id \in Pieces, c \in Commits :
                \/ \E clean \in BOOLEAN, tested \in BOOLEAN :
                        RecordEvidence(r, a, id, c, clean, tested, ts)
                \/ \E i \in Identities, evidence \in Pieces :
                        \/ \E decision \in {"approved", "rejected"} :
                                RecordReview(r, a, i, id, evidence, decision, ts)
                        \/ \E free \in BOOLEAN : RecordConflict(r, a, i, id, evidence, c, free, ts)
  BY DEF WorktreeStep
<1> QED
  BY <1>1, PrepareWorktreeStep, RecordEvidenceStep, RecordReviewStep, RecordConflictStep

LEMMA RunStepAppends ==
    ASSUME AgentRunsInv, NEW r \in Runs, NEW ts, RunStep(r, ts)
    PROVE  \E n : Appended(n)
<1>1. \/ \E choice \in Identities \cup {None} : DecideRoute(r, choice, ts)
      \/ \E final \in {<<>>} \cup {<<x>> : x \in Artifacts} : CompleteRun(r, final, ts)
      \/ FailRun(r, "failed", ts)
  BY DEF RunStep
<1> QED
  BY <1>1, DecideRouteStep, CompleteRunStep, FailRunStep

LEMMA NextStep ==
    ASSUME AgentRunsInv, Next
    PROVE  (\E n : Appended(n)) \/ (\E a, b, c : Dispatched(a, b, c))
<1>1. PICK ts \in Times :
        \/ \E t \in Tasks : CreateTask(t, ts)
        \/ \E t \in Tasks, r \in Runs, budget \in scope.budgets : StartRun(t, r, budget, ts)
        \/ \E r \in Runs : AttemptStep(r, ts) \/ WorktreeStep(r, ts) \/ RunStep(r, ts)
        \/ Observe(ts)
  BY DEF Next
<1>2. CASE Observe(ts)
  BY <1>2, ObserveStep
<1>3. CASE ~Observe(ts)
  BY <1>1, <1>3, CreateTaskStep, StartRunStep, AttemptStepAppends, WorktreeStepAppends,
     RunStepAppends
<1> QED
  BY <1>2, <1>3

----------------------------------------------------------------------------
\* The invariant.

LEMMA InitInv == Init => AgentRunsInv
<1> SUFFICES ASSUME Init PROVE AgentRunsInv
  OBVIOUS
<1>1. /\ trace = NoIndexes /\ view = [ok |-> TRUE, tasks |-> <<>>, runs |-> <<>>]
      /\ totals = [ok |-> TRUE, all |-> NoTotals, byHome |-> [h \in Homes |-> NoTotals]]
      /\ scope \in Scopes
  BY DEF Init
<1>2. scope.events \in Nat
  BY <1>1, BoundsAssumption
<1>3. TraceInv(trace)
  BY <1>1 DEF TraceInv, IsIndexes, NoIndexes
<1>4. ViewInv(view)
  BY <1>1 DEF ViewInv, IsView
<1>5. TotalsInv(totals)
  <2>1. NoTotals \in TotalRecord
    BY DEF NoTotals, TotalRecord
  <2> QED
    BY <1>1, <2>1 DEF TotalsInv, IsTotals
<1>6. Agree(trace, view)
  BY <1>1 DEF Agree, NoIndexes
<1>7. Accounted(view, totals)
  BY <1>1 DEF Accounted
<1>8. trace.events <= scope.events
  BY <1>1, <1>2 DEF NoIndexes
<1> QED
  BY <1>1, <1>3, <1>4, <1>5, <1>6, <1>7, <1>8 DEF AgentRunsInv, RunsInv

LEMMA InitialCommanded ==
    ASSUME NEW v, NEW e, Initial(e)
    PROVE  Commanded(v, e)
BY DEF Initial, Commanded

LEMMA Numbered ==
    ASSUME NEW i, NEW e, TraceInv(i)
    PROVE  Indexed(i, e).events = i.events + 1 /\ i.events \in Nat
BY IndexedFields DEF TraceInv

LEMMA SameScope ==
    ASSUME NEW i, NEW v, NEW s, RunsInv(i, v, s),
           scope' = scope, trace' = i, view' = v, totals' = s
    PROVE  RunsInv(trace, view, totals)'
<1>1. ViewInv(view)'
  <2>1. ViewInv(v)
    BY DEF RunsInv
  <2>2. IsView(view)' /\ (view.ok \in BOOLEAN)' /\ (DOMAIN view.runs \subseteq Runs)'
    BY <2>1 DEF ViewInv
  <2>3. ASSUME NEW r \in DOMAIN v.runs
        PROVE  /\ v.runs[r] \in RunRecord /\ Fits(v.runs[r]) /\ Distinct(v.runs[r])
               /\ \A n \in DOMAIN v.runs[r].attempts : Continued(v.runs[r], n)
    BY <2>1 DEF ViewInv
  <2>4. ASSUME NEW run, NEW n, Continued(run, n)
        PROVE  Continued(run, n)'
    BY <2>4 DEF Continued, FromCommandsOnly
  <2> QED
    BY <2>2, <2>3, <2>4 DEF ViewInv
<1>2. TraceInv(trace)' /\ TotalsInv(totals)' /\ (view.ok => Agree(trace, view))'
      /\ Accounted(view, totals)'
  BY DEF RunsInv
<1> QED
  BY <1>1, <1>2 DEF RunsInv

LEMMA AppendedInv ==
    ASSUME AgentRunsInv, NEW e, Appended(e)
    PROVE  AgentRunsInv'
<1>1. RunsInv(trace, view, totals) /\ TraceInv(trace)
  BY DEF AgentRunsInv, RunsInv
<1>2. RunsInv(Indexed(trace, e), Folded(view, e), Summed(totals, e))
  BY <1>1, EventStep DEF Appended
<1>3. Indexed(trace, e).events = trace.events + 1
  BY <1>1, Numbered
<1>4. /\ trace' = Indexed(trace, e) /\ view' = Folded(view, e) /\ totals' = Summed(totals, e)
      /\ scope' = scope /\ trace.events + 1 <= scope.events
  BY DEF Appended
<1>5. RunsInv(trace, view, totals)'
  BY <1>2, <1>4, SameScope
<1> QED
  BY <1>3, <1>4, <1>5 DEF AgentRunsInv

\* The three events of a dispatch, one after the other.
LEMMA DispatchedSteps ==
    ASSUME AgentRunsInv, NEW a, NEW b, NEW c, Dispatched(a, b, c)
    PROVE  \E i, v, s, j, w, t :
            /\ i = Indexed(trace, a) /\ v = Folded(view, a) /\ s = Summed(totals, a)
            /\ j = Indexed(i, b) /\ w = Folded(v, b) /\ t = Summed(s, b)
            /\ RunsInv(i, v, s) /\ RunsInv(j, w, t)
            /\ RunsInv(Indexed(j, c), Folded(w, c), Summed(t, c))
            /\ Indexed(j, c).events = trace.events + 3
            /\ IsEvent(a) /\ Links(trace, a) /\ ValidEvent(a)
            /\ IsEvent(b) /\ Links(i, b) /\ ValidEvent(b)
            /\ IsEvent(c) /\ Links(j, c) /\ ValidEvent(c)
            /\ trace' = Indexed(j, c) /\ view' = Folded(w, c) /\ totals' = Summed(t, c)
<1>1. RunsInv(trace, view, totals) /\ trace.events \in Nat /\ scope \in Scopes
  BY DEF AgentRunsInv, RunsInv, TraceInv
<1>2. PICK i, v, s : i = Indexed(trace, a) /\ v = Folded(view, a) /\ s = Summed(totals, a)
  OBVIOUS
<1>3. PICK j, w, t : j = Indexed(i, b) /\ w = Folded(v, b) /\ t = Summed(s, b)
  OBVIOUS
<1>4. RunsInv(i, v, s) /\ i.events = trace.events + 1
  <2>1. Commanded(view, a) /\ IsEvent(a) /\ a.id = trace.events + 1 /\ Links(trace, a)
        /\ ValidEvent(a)
    BY InitialCommanded DEF Dispatched
  <2>2. RunsInv(Indexed(trace, a), Folded(view, a), Summed(totals, a))
    BY <1>1, <2>1, EventStep
  <2> QED
    BY <1>1, <1>2, <2>2, Numbered DEF RunsInv
<1>5. RunsInv(j, w, t) /\ j.events = trace.events + 2
  <2>1. Commanded(v, b) /\ IsEvent(b) /\ b.id = i.events + 1 /\ Links(i, b) /\ ValidEvent(b)
    BY <1>1, <1>2, <1>4, InitialCommanded DEF Dispatched
  <2>2. RunsInv(Indexed(i, b), Folded(v, b), Summed(s, b))
    BY <1>4, <2>1, EventStep
  <2> QED
    BY <1>1, <1>3, <1>4, <2>2, Numbered DEF RunsInv
<1>6. RunsInv(Indexed(j, c), Folded(w, c), Summed(t, c)) /\ Indexed(j, c).events = trace.events + 3
  <2>1. Commanded(w, c) /\ IsEvent(c) /\ c.id = j.events + 1 /\ Links(j, c) /\ ValidEvent(c)
    BY <1>1, <1>2, <1>3, <1>5, InitialCommanded DEF Dispatched
  <2>2. RunsInv(Indexed(j, c), Folded(w, c), Summed(t, c))
    BY <1>5, <2>1, EventStep
  <2> QED
    BY <1>1, <1>5, <2>2, Numbered DEF RunsInv
<1>7. trace' = Indexed(j, c) /\ view' = Folded(w, c) /\ totals' = Summed(t, c)
  BY <1>2, <1>3 DEF Dispatched
<1>8. /\ IsEvent(a) /\ Links(trace, a) /\ ValidEvent(a)
      /\ IsEvent(b) /\ Links(i, b) /\ ValidEvent(b)
      /\ IsEvent(c) /\ Links(j, c) /\ ValidEvent(c)
  BY <1>2, <1>3 DEF Dispatched
<1> QED
  BY <1>2, <1>3, <1>4, <1>5, <1>6, <1>7, <1>8

LEMMA DispatchedInv ==
    ASSUME AgentRunsInv, NEW a, NEW b, NEW c, Dispatched(a, b, c)
    PROVE  AgentRunsInv'
<1>1. PICK i, v, s : /\ RunsInv(i, v, s) /\ trace' = i /\ view' = v /\ totals' = s
                     /\ i.events = trace.events + 3
  BY DispatchedSteps
<1>2. scope' = scope /\ trace.events + 3 <= scope.events /\ scope \in Scopes
  BY DEF AgentRunsInv, Dispatched
<1>3. RunsInv(trace, view, totals)'
  BY <1>1, <1>2, SameScope
<1> QED
  BY <1>1, <1>2, <1>3 DEF AgentRunsInv

LEMMA StutterInv ==
    ASSUME AgentRunsInv, UNCHANGED vars
    PROVE  AgentRunsInv'
<1>1. RunsInv(trace, view, totals)'
  BY SameScope DEF AgentRunsInv, vars
<1> QED
  BY <1>1 DEF AgentRunsInv, vars

\* The verifier, the reports and the summary of a log agree after every append, as the
\* invariant says.
THEOREM RunsInvariant == Spec => []AgentRunsInv
<1>1. AgentRunsInv /\ [Next]_vars => AgentRunsInv'
  BY NextStep, AppendedInv, DispatchedInv, StutterInv
<1> QED
  BY InitInv, <1>1, PTL DEF Spec
----------------------------------------------------------------------------
\* What the invariant says of the program.

\* The three folds of the log keep their types, and the consumption of a Run never
\* passes the counters it is kept in.
THEOREM RunsTypeCorrect == Spec => []TypeOK
<1>1. AgentRunsInv => TypeOK
  <2> SUFFICES ASSUME AgentRunsInv PROVE TypeOK
    OBVIOUS
  <2>1. TraceInv(trace) /\ ViewInv(view) /\ TotalsInv(totals) /\ scope \in Scopes
    BY DEF AgentRunsInv, RunsInv
  <2>2. trace.events \in 0..scope.events
    <3>1. scope.events \in Nat /\ trace.events \in Nat /\ trace.events <= scope.events
      BY BoundsAssumption DEF AgentRunsInv, RunsInv, TraceInv
    <3> QED
      BY <3>1
  <2>3. /\ trace.tasks \subseteq Tasks /\ DOMAIN trace.runs \subseteq Runs
        /\ DOMAIN trace.attempts \subseteq Attempts /\ DOMAIN trace.threads \subseteq Threads
        /\ DOMAIN trace.jobs \subseteq Pieces /\ DOMAIN view.runs \subseteq Runs
        /\ DOMAIN totals.byHome = Homes
    BY <2>1 DEF TraceInv, ViewInv, TotalsInv
  <2>4. ASSUME NEW r \in DOMAIN view.runs
        PROVE  /\ view.runs[r].status \in Statuses
               /\ \A dimension \in DOMAIN view.runs[r].used :
                    view.runs[r].used[dimension] \in 0..MaxCount
               /\ \A n \in DOMAIN view.runs[r].attempts : view.runs[r].attempts[n].status \in Statuses
    <3>1. PICK run : run = view.runs[r]
      OBVIOUS
    <3>2. run \in RunRecord /\ Fits(run)
      BY <2>1, <3>1 DEF ViewInv
    <3>3. run.status \in Statuses /\ run.used \in UseRecord /\ run.attempts \in Seq(AttemptRecord)
      BY <3>2 DEF RunRecord
    <3>4. ASSUME NEW dimension \in DOMAIN run.used
          PROVE  run.used[dimension] \in 0..MaxCount
      <4>1. run.used[dimension] \in Nat
        BY <3>3 DEF UseRecord
      <4>2. run.used[dimension] <= MaxCount
        BY <3>2 DEF Fits
      <4> QED
        BY <4>1, <4>2, BoundsAssumption
    <3>5. ASSUME NEW n \in DOMAIN run.attempts
          PROVE  run.attempts[n].status \in Statuses
      <4>1. run.attempts[n] \in AttemptRecord
        BY <3>3
      <4> QED
        BY <4>1 DEF AttemptRecord
    <3> QED
      BY <3>1, <3>3, <3>4, <3>5
  <2> QED
    BY <2>1, <2>2, <2>3, <2>4 DEF TypeOK, Statuses
<1> QED
  BY <1>1, RunsInvariant, PTL

\* What an Attempt continues is a failure of its own Run that came before it, which
\* may be retried when it is a retry, and is under another Home or model when it is a
\* migration that the command started: whatever order the events came in.
THEOREM ContinuationsAreSoundHolds == Spec => []ContinuationsAreSound
<1>1. AgentRunsInv => ContinuationsAreSound
  BY DEF AgentRunsInv, RunsInv, ViewInv, ContinuationsAreSound
<1> QED
  BY <1>1, RunsInvariant, PTL

\* An event that continues the last Attempt of a Run, as its report advises, is valid.
LEMMA ContinuingEvent ==
    ASSUME NEW r, NEW a, NEW kind, NEW identity \in Identities, NEW ts
    PROVE  LET e == Continuing(r, a, kind, identity, ts)
           IN  /\ ValidEvent(e)
               /\ e.type = "attempt_started" /\ e.task = view.runs[r].task /\ e.run = r
               /\ e.attempt = a /\ e.ts = ts
               /\ Has(e, "transition") /\ ~Has(e, "routeDecision")
               /\ e.details.transition = [kind |-> kind, from |-> Last(view.runs[r].attempts).id]
<1>1. PICK e : e = Continuing(r, a, kind, identity, ts)
  OBVIOUS
<1>2. /\ e.type = "attempt_started" /\ e.task = view.runs[r].task /\ e.run = r /\ e.attempt = a
      /\ e.ts = ts /\ e.identity = identity /\ e.status = "running"
      /\ e.details = [transition |-> [kind |-> kind, from |-> Last(view.runs[r].attempts).id]]
  BY <1>1 DEF Continuing, RunEvent, Event
<1>3. /\ DOMAIN e.details = {"transition"}
      /\ e.details.transition = [kind |-> kind, from |-> Last(view.runs[r].attempts).id]
  BY <1>2
<1>4. e.identity # None
  BY <1>2, NoneAssumption
<1>5. DetailsAllowed["attempt_started"] = {"transition", "routeDecision"}
      /\ DetailsRequired["attempt_started"] = {}
  BY DEF DetailsAllowed, DetailsRequired, EventTypes
<1>6. ValidDetails(e)
  BY <1>2, <1>3, <1>5 DEF ValidDetails, Has
<1>7. StatusFits(e) /\ ~RequiresFailure(e) /\ e.type \notin RequiresSubject
  BY <1>2 DEF StatusFits, RequiresFailure, RequiresSubject, HealthTypes
<1>8. ValidShape(e)
  BY <1>2, <1>4, <1>5, <1>7 DEF ValidShape
<1> QED
  BY <1>1, <1>2, <1>3, <1>6, <1>8 DEF ValidEvent, Has

LEMMA ContinuingAccepted ==
    ASSUME AgentRunsInv, view.ok, NEW r \in DOMAIN view.runs,
           NEW a \in Attempts \ DOMAIN trace.attempts, NEW kind \in {"retry", "migration"},
           NEW identity \in Identities, NEW ts,
           r \in DOMAIN trace.lastTs => ts >= trace.lastTs[r],
           CanMigrate(view.runs[r]), kind = "retry" => CanRetry(view.runs[r])
    PROVE  ValidEvent(Continuing(r, a, kind, identity, ts))
           /\ Links(trace, Continuing(r, a, kind, identity, ts))
<1>1. PICK e : e = Continuing(r, a, kind, identity, ts)
  OBVIOUS
<1>2. PICK run : run = view.runs[r]
  OBVIOUS
<1>3. /\ ValidEvent(e) /\ e.type = "attempt_started" /\ e.task = run.task /\ e.run = r
      /\ e.attempt = a /\ e.ts = ts /\ Has(e, "transition") /\ ~Has(e, "routeDecision")
      /\ e.details.transition = [kind |-> kind, from |-> Last(run.attempts).id]
  BY <1>1, <1>2, ContinuingEvent
<1>4. /\ r \in DOMAIN trace.runs /\ trace.runs[r] = run.task
      /\ (run.status = "running" <=> r \notin trace.terminalRuns)
      /\ AttemptsAgree(trace, r, run)
  BY <1>2 DEF AgentRunsInv, RunsInv, Agree
<1>5. /\ run.status = "running" /\ ActiveAttempts(run) = {} /\ run.attempts # <<>>
      /\ Last(run.attempts).status # "succeeded"
      /\ kind = "retry" => Last(run.attempts).failure # None
                           /\ Last(run.attempts).failure.retryable
  BY <1>2 DEF CanMigrate, CanRetry, MayContinue
<1>6. PICK n \in DOMAIN run.attempts : run.attempts[n] = Last(run.attempts)
  <2>1. run.attempts \in Seq(AttemptRecord)
    BY <1>2, KnownRun
  <2>2. Len(run.attempts) \in DOMAIN run.attempts
    BY <1>5, <2>1
  <2> QED
    BY <2>2 DEF Last
<1>7. PICK x : x = run.attempts[n]
  OBVIOUS
<1>8. x.status # "running"
  BY <1>5, <1>6, <1>7 DEF ActiveAttempts
<1>9. /\ x.id \in OwnAttempts(trace, r) /\ x.id \in DOMAIN trace.terminalAttempts
      /\ trace.terminalAttempts[x.id] =
            [status |-> x.status, retryable |-> x.failure # None /\ x.failure.retryable]
  BY <1>4, <1>6, <1>7, <1>8 DEF AttemptsAgree
<1>10. TransitionLink(trace, e)
  <2>1. e.details.transition.kind = kind /\ e.details.transition.from = x.id /\ kind # "initial"
    BY <1>3, <1>6, <1>7
  <2>2. trace.attempts[x.id] = r
    BY <1>9 DEF OwnAttempts
  <2>3. trace.terminalAttempts[x.id].status # "succeeded"
    BY <1>5, <1>6, <1>7, <1>9
  <2>4. kind = "retry" => trace.terminalAttempts[x.id].retryable
    <3>1. kind = "retry" => x.failure # None /\ x.failure.retryable
      BY <1>5, <1>6, <1>7
    <3>2. trace.terminalAttempts[x.id].retryable = (x.failure # None /\ x.failure.retryable)
      BY <1>9
    <3> QED
      BY <3>1, <3>2
  <2> QED
    BY <1>3, <1>9, <2>1, <2>2, <2>3, <2>4 DEF TransitionLink
<1>11. StartLinks(trace, e)
  BY <1>3, <1>4, <1>10 DEF StartLinks, RunLink, DecisionLink
<1>12. Links(trace, e)
  BY <1>3, <1>4, <1>5, <1>11 DEF Links, AfterTheEnd
<1> QED
  BY <1>1, <1>3, <1>12

\* What the verifier accepted can be read, but for sums larger than the counters, and
\* reads as what was accepted; and a retry or a migration a report advises is accepted.
THEOREM AcceptedIsReportedHolds == Spec => []AcceptedIsReported
<1>1. AgentRunsInv => AcceptedIsReported
  <2> SUFFICES ASSUME AgentRunsInv PROVE AcceptedIsReported
    OBVIOUS
  <2>1. FoldsAgree
    BY DEF AgentRunsInv, RunsInv, FoldsAgree
  <2>2. ReadableUnlessOverflow
    BY DEF AgentRunsInv, RunsInv, Accounted, ReadableUnlessOverflow
  <2>3. AdviceIsAccepted
    <3>1. \A run : CanRetry(run) => CanMigrate(run)
      BY DEF CanRetry, CanMigrate
    <3> QED
      BY <3>1, ContinuingAccepted DEF AdviceIsAccepted
  <2> QED
    BY <2>1, <2>2, <2>3 DEF AcceptedIsReported
<1> QED
  BY <1>1, RunsInvariant, PTL
\* What one event leaves of the Runs: the reports fail and show what they showed, or go on.
LEMMA RunsStep ==
    ASSUME NEW i, NEW v, NEW s, NEW e, RunsInv(i, v, s), IsEvent(e), Links(i, e), ValidEvent(e)
    PROVE  LET w == Folded(v, e)
           IN  \/ ~w.ok /\ w.runs = v.runs
               \/ v.ok /\ Agree(i, v) /\ LinkFacts(i, e) /\ NextView(v, e, w)
<1>1. TraceInv(i) /\ ViewInv(v) /\ IsView(v) /\ v.ok \in BOOLEAN /\ LinkFacts(i, e)
  BY LinksFacts DEF RunsInv, ViewInv
<1>2. CASE ~v.ok
  BY <1>1, <1>2, NotFolded
<1>3. CASE v.ok /\ ~Sums(v, e)
  <2>1. Agree(i, v)
    BY <1>3 DEF RunsInv
  <2>2. ~Projects(v, e)
    BY <1>1, <1>3, <2>1, Accepted
  <2> QED
    BY <1>1, <2>2, NotFolded
<1>4. CASE v.ok /\ Sums(v, e)
  <2>1. Agree(i, v)
    BY <1>4 DEF RunsInv
  <2>2. NextView(v, e, Folded(v, e))
    BY <1>1, <1>4, <2>1, FoldedRuns
  <2> QED
    BY <1>1, <1>4, <2>1, <2>2
<1> QED
  BY <1>2, <1>3, <1>4

\* A Run that has ended stays over one event.
LEMMA EndedStep ==
    ASSUME NEW i, NEW v, NEW s, NEW e, RunsInv(i, v, s), IsEvent(e), Links(i, e), ValidEvent(e),
           NEW r \in DOMAIN v.runs
    PROVE  LET w == Folded(v, e)
           IN  /\ r \in DOMAIN w.runs
               /\ v.runs[r].status # "running" => w.runs[r] = v.runs[r]
<1>1. PICK w : w = Folded(v, e)
  OBVIOUS
<1>2. CASE w.runs = v.runs
  BY <1>1, <1>2
<1>3. CASE Agree(i, v) /\ LinkFacts(i, e) /\ NextView(v, e, w)
  <2>1. r \in DOMAIN w.runs /\ w.runs[r] = After(v.runs[r], r, e)
    BY <1>3 DEF NextView
  <2>2. ASSUME v.runs[r].status # "running", r = e.run
        PROVE  Plain(e)
    <3>1. e.run \in i.terminalRuns
      BY <1>3, <2>2 DEF Agree
    <3> QED
      BY <1>3, <3>1 DEF LinkFacts, Plain, Unprojected
  <2> QED
    BY <1>1, <2>1, <2>2 DEF After
<1> QED
  BY <1>1, <1>2, <1>3, RunsStep

\* A Run that used up its budget and has no running Attempt uses nothing more over
\* one event of a command, and starts no Attempt.
LEMMA ExhaustedStep ==
    ASSUME AgentRunsInv, NEW e, Appended(e), NEW r \in DOMAIN view.runs, StartedByCommands,
           view'.ok, Exhausted(view.runs[r]), ActiveAttempts(view.runs[r]) = {}
    PROVE  /\ Len(view'.runs[r].attempts) = Len(view.runs[r].attempts)
           /\ view'.runs[r].used = view.runs[r].used
<1>1. PICK w, run : w = Folded(view, e) /\ run = view.runs[r]
  OBVIOUS
<1>2. view' = w /\ IsEvent(e) /\ Links(trace, e) /\ ValidEvent(e) /\ Affordable(e)
  BY <1>1 DEF Appended
<1>3. Agree(trace, view) /\ LinkFacts(trace, e) /\ NextView(view, e, w)
  BY <1>1, <1>2, RunsStep DEF AgentRunsInv
<1>4. /\ w.runs[r] = After(run, r, e)
      /\ r = e.run /\ ~Plain(e) => Readable(run, e)
  BY <1>1, <1>3 DEF NextView
<1>5. CASE r # e.run \/ Plain(e)
  BY <1>1, <1>2, <1>4, <1>5 DEF After
<1>6. CASE r = e.run /\ ~Plain(e)
  <2>1. w.runs[r] = NextRun(run, e)
    BY <1>4, <1>6 DEF After
  <2>2. e.type # "attempt_started"
    BY <1>1, <1>2, <1>6 DEF Affordable, StartedByCommands
  <2>3. e.type \notin AttemptEnds
    <3> SUFFICES ASSUME e.type \in AttemptEnds PROVE FALSE
      OBVIOUS
    <3>1. PICK n \in DOMAIN run.attempts : run.attempts[n].id = e.attempt
      BY <1>4, <1>6 DEF Readable, Seeks, Place
    <3>2. e.attempt \notin DOMAIN trace.terminalAttempts
      BY <1>3 DEF LinkFacts, AttemptEnds
    <3>3. AttemptsAgree(trace, r, run)
      BY <1>1, <1>3 DEF Agree
    <3>4. run.attempts[n].status = "running"
      BY <3>1, <3>2, <3>3 DEF AttemptsAgree
    <3> QED
      BY <1>1, <3>1, <3>4 DEF ActiveAttempts
  <2>4. /\ w.runs[r].attempts = NextAttempts(run, e)
        /\ w.runs[r].used = run.used
    BY <2>1, <2>3 DEF NextRun
  <2>5. run.attempts \in Seq(AttemptRecord)
    BY <1>1, KnownRun
  <2>6. Len(NextAttempts(run, e)) = Len(run.attempts)
    <3>1. PICK f : f = NextAttempts(run, e)
      OBVIOUS
    <3>2. run \in RunRecord
      BY <1>1, KnownRun
    <3>3. DOMAIN f = DOMAIN run.attempts /\ f \in Seq(AttemptRecord)
      BY <1>2, <1>4, <1>6, <2>2, <3>1, <3>2, AttemptTypes
    <3> QED
      BY <2>5, <3>1, <3>3
  <2> QED
    BY <1>1, <1>2, <2>4, <2>6
<1> QED
  BY <1>5, <1>6

LEMMA AppendedCloses ==
    ASSUME AgentRunsInv, NEW e, Appended(e), NEW r \in DOMAIN view.runs
    PROVE  EndedStays(r) /\ ExhaustedSpendsNoMore(r)
<1>1. view' = Folded(view, e) /\ IsEvent(e) /\ Links(trace, e) /\ ValidEvent(e)
  BY DEF Appended
<1>2. EndedStays(r)
  BY <1>1, EndedStep DEF AgentRunsInv, EndedStays
<1>3. ExhaustedSpendsNoMore(r)
  <2>1. PICK run : run = view.runs[r]
    OBVIOUS
  <2>2. ASSUME view'.ok, StartedByCommands, run.budget # None,
               \/ run.budget.tokens # None /\ run.used.tokens >= run.budget.tokens
               \/ run.budget.duration # None /\ run.used.duration >= run.budget.duration
               \/ run.budget.attempts # None /\ Len(run.attempts) >= run.budget.attempts,
               \A n \in DOMAIN run.attempts : run.attempts[n].status # "running"
        PROVE  /\ Len(view'.runs[r].attempts) = Len(run.attempts)
               /\ view'.runs[r].used = run.used
    <3>1. Exhausted(run)
      BY <2>2 DEF Exhausted, Reached
    <3>2. ActiveAttempts(run) = {}
      BY <2>2 DEF ActiveAttempts
    <3> QED
      BY <2>1, <2>2, <3>1, <3>2, ExhaustedStep
  <2> QED
    BY <2>1, <2>2 DEF ExhaustedSpendsNoMore
<1> QED
  BY <1>2, <1>3

LEMMA DispatchedCloses ==
    ASSUME AgentRunsInv, NEW a, NEW b, NEW c, Dispatched(a, b, c), NEW r \in DOMAIN view.runs
    PROVE  EndedStays(r) /\ ExhaustedSpendsNoMore(r)
<1>1. PICK i, v, s, j, w, t :
        /\ v = Folded(view, a) /\ w = Folded(v, b) /\ view' = Folded(w, c)
        /\ RunsInv(i, v, s) /\ RunsInv(j, w, t)
        /\ IsEvent(a) /\ Links(trace, a) /\ ValidEvent(a)
        /\ IsEvent(b) /\ Links(i, b) /\ ValidEvent(b)
        /\ IsEvent(c) /\ Links(j, c) /\ ValidEvent(c)
  BY DispatchedSteps
<1>2. /\ r \in DOMAIN v.runs
      /\ view.runs[r].status # "running" => v.runs[r] = view.runs[r]
  BY <1>1, EndedStep DEF AgentRunsInv
<1>3. /\ r \in DOMAIN w.runs
      /\ v.runs[r].status # "running" => w.runs[r] = v.runs[r]
  BY <1>1, <1>2, EndedStep
<1>4. w.runs[r].status # "running" => view'.runs[r] = w.runs[r]
  BY <1>1, <1>3, EndedStep
<1>5. ~StartedByCommands
  BY DEF Dispatched
<1> QED
  BY <1>2, <1>3, <1>4, <1>5 DEF EndedStays, ExhaustedSpendsNoMore

\* A Run that has ended stays as it ended, whatever is appended after it; and one that used
\* up its budget and has no running Attempt uses nothing more and starts none.
THEOREM ClosedRunsStayHolds == Spec => ClosedRunsStay
<1>1. AgentRunsInv /\ [Next]_vars
      => [\A r \in DOMAIN view.runs : EndedStays(r) /\ ExhaustedSpendsNoMore(r)]_vars
  BY NextStep, AppendedCloses, DispatchedCloses
<1> QED
  BY <1>1, RunsInvariant, PTL DEF Spec, ClosedRunsStay

----------------------------------------------------------------------------
\* Sums over finite sets.

\* A non-empty set of subsets of a finite set has a smallest one.
LEMMA SmallestSubset ==
    ASSUME NEW S, IsFiniteSet(S), NEW T, T \subseteq SUBSET S, T # {}
    PROVE  \E s \in T : \A t \in T : t \subseteq s => t = s
<1>1. PICK R : R = StrictSubsetOrdering(S)
  OBVIOUS
<1>2. IsWellFoundedOn(R, SUBSET S)
  BY <1>1, FS_StrictSubsetOrderingWellFounded, FS_FiniteSubsetsOfFinite
<1>3. \A s, t \in SUBSET S : <<t, s>> \in R <=> t \subseteq s /\ t # s
  BY <1>1 DEF StrictSubsetOrdering
<1>4. PICK s \in T : \A t \in T : ~ (<<t, s>> \in R)
  BY <1>2, WFMin
<1>5. ASSUME NEW t \in T, t \subseteq s
      PROVE  t = s
  <2>1. s \in SUBSET S /\ t \in SUBSET S /\ <<t, s>> \notin R
    BY <1>4
  <2> QED
    BY <1>3, <1>5, <2>1
<1> QED
  BY <1>5

SumOn(f, S) == FoldFunctionOnSet(+, 0, f, S)

Chosen(s) == CHOOSE x \in s : TRUE

\* g gives the sum of f over every subset of S.
SumTable(g, f, S) ==
    g = [s \in SUBSET S |-> IF s = {} THEN 0 ELSE f[Chosen(s)] + g[s \ {Chosen(s)}]]

LEMMA SumOnIs ==
    ASSUME NEW f, NEW S
    PROVE  SumOn(f, S) = (CHOOSE g : SumTable(g, f, S))[S]
BY DEF SumOn, SumTable, Chosen, FoldFunctionOnSet, MapThenFoldSet

LEMMA SumTableStep ==
    ASSUME NEW f, NEW S, NEW g, SumTable(g, f, S), NEW s \in SUBSET S
    PROVE  /\ s = {} => g[s] = 0
           /\ s # {} => /\ Chosen(s) \in s /\ s \ {Chosen(s)} \in SUBSET S
                        /\ s \ {Chosen(s)} # s
                        /\ g[s] = f[Chosen(s)] + g[s \ {Chosen(s)}]
<1>1. g[s] = IF s = {} THEN 0 ELSE f[Chosen(s)] + g[s \ {Chosen(s)}]
  BY DEF SumTable
<1>2. s # {} => Chosen(s) \in s
  BY DEF Chosen
<1> QED
  BY <1>1, <1>2

\* The sum over a set does not depend on what it is a subset of.
LEMMA SumTablesAgree ==
    ASSUME NEW f, NEW S, NEW T, IsFiniteSet(S), NEW g, NEW h,
           SumTable(g, f, S), SumTable(h, f, T)
    PROVE  \A s \in SUBSET (S \cap T) : g[s] = h[s]
<1> DEFINE Bad == {s \in SUBSET (S \cap T) : g[s] # h[s]}
<1> SUFFICES ASSUME Bad # {} PROVE FALSE
  OBVIOUS
<1>1. PICK s \in Bad : \A t \in Bad : t \subseteq s => t = s
  <2>1. Bad \subseteq SUBSET S
    OBVIOUS
  <2> HIDE DEF Bad
  <2> QED
    BY <2>1, SmallestSubset
<1>2. s \in SUBSET S /\ s \in SUBSET T
  OBVIOUS
<1>3. s # {}
  BY <1>2, SumTableStep
<1>4. PICK r : r = s \ {Chosen(s)}
  OBVIOUS
<1>5. /\ r \subseteq s /\ r # s
      /\ g[s] = f[Chosen(s)] + g[r] /\ h[s] = f[Chosen(s)] + h[r]
  BY <1>2, <1>3, <1>4, SumTableStep
<1>6. g[r] = h[r]
  BY <1>1, <1>2, <1>5
<1> QED
  BY <1>5, <1>6

LEMMA SumTableExists ==
    ASSUME NEW f, NEW S, IsFiniteSet(S)
    PROVE  \E g : SumTable(g, f, S)
<1> DEFINE Bad == {s \in SUBSET S : ~ \E g : SumTable(g, f, s)}
<1> SUFFICES ASSUME Bad # {} PROVE FALSE
  OBVIOUS
<1>1. PICK s \in Bad : \A t \in Bad : t \subseteq s => t = s
  <2>1. Bad \subseteq SUBSET S
    OBVIOUS
  <2> HIDE DEF Bad
  <2> QED
    BY <2>1, SmallestSubset
<1>2. s \in SUBSET S /\ ~ \E g : SumTable(g, f, s)
  OBVIOUS
<1>3. \A t \in SUBSET s : t # s => \E g : SumTable(g, f, t)
  BY <1>1, <1>2
<1> HIDE DEF Bad
<1> DEFINE table(t) == CHOOSE g : SumTable(g, f, t)
           rest(t)  == t \ {Chosen(t)}
           h        == [t \in SUBSET s |-> IF t # s THEN table(t)[t]
                                           ELSE IF s = {} THEN 0
                                           ELSE f[Chosen(s)] + table(rest(s))[rest(s)]]
<1>4. ASSUME NEW t \in SUBSET s, t # s
      PROVE  SumTable(table(t), f, t) /\ IsFiniteSet(t)
  BY <1>2, <1>3, <1>4, FS_Subset
<1>5. ASSUME NEW t PROVE rest(t) \in SUBSET t /\ (t # {} => rest(t) # t)
  BY DEF Chosen
<1>6. /\ DOMAIN h = SUBSET s
      /\ \A t \in SUBSET s : t # s => h[t] = table(t)[t]
      /\ h[s] = IF s = {} THEN 0 ELSE f[Chosen(s)] + table(rest(s))[rest(s)]
      /\ h = [t \in SUBSET s |-> h[t]]
  OBVIOUS
<1> HIDE DEF table, h
<1>7. ASSUME NEW t \in SUBSET s
      PROVE  h[t] = IF t = {} THEN 0 ELSE f[Chosen(t)] + h[t \ {Chosen(t)}]
  <2>1. PICK r : r = rest(t)
    OBVIOUS
  <2>2. t # {} => r \in SUBSET t /\ r \in SUBSET s /\ r # s
    BY <1>5, <2>1
  <2>3. t # {} => h[r] = table(r)[r]
    BY <1>6, <2>2
  <2>4. CASE t = s
    BY <1>6, <2>1, <2>3, <2>4
  <2>5. CASE t # s
    <3>1. SumTable(table(t), f, t) /\ IsFiniteSet(t)
      BY <1>4, <2>5
    <3>2. h[t] = table(t)[t]
      BY <1>6, <2>5
    <3>3. table(t)[t] = IF t = {} THEN 0 ELSE f[Chosen(t)] + table(t)[r]
      BY <2>1, <3>1, SumTableStep
    <3>4. t # {} => table(t)[r] = table(r)[r]
      <4>1. t # {} => SumTable(table(r), f, r) /\ r \in SUBSET (t \cap r)
        BY <1>4, <2>2
      <4> QED
        BY <3>1, <4>1, SumTablesAgree
    <3> QED
      BY <2>1, <2>3, <3>2, <3>3, <3>4
  <2> QED
    BY <2>4, <2>5
<1>8. SumTable(h, f, s)
  BY <1>6, <1>7 DEF SumTable
<1> QED
  BY <1>2, <1>8

LEMMA SumOnStep ==
    ASSUME NEW f, NEW S, IsFiniteSet(S)
    PROVE  /\ S = {} => SumOn(f, S) = 0
           /\ S # {} => /\ Chosen(S) \in S
                        /\ SumOn(f, S) = f[Chosen(S)] + SumOn(f, S \ {Chosen(S)})
<1>1. PICK T : T = S \ {Chosen(S)}
  OBVIOUS
<1>2. IsFiniteSet(T)
  BY <1>1, FS_Subset
<1>3. PICK g : SumTable(g, f, S) /\ g = (CHOOSE x : SumTable(x, f, S))
  BY SumTableExists
<1>4. PICK h : SumTable(h, f, T) /\ h = (CHOOSE x : SumTable(x, f, T))
  BY <1>2, SumTableExists
<1>5. SumOn(f, S) = g[S] /\ SumOn(f, T) = h[T]
  BY <1>3, <1>4, SumOnIs
<1>6. g[T] = h[T]
  <2>1. T \in SUBSET (S \cap T)
    BY <1>1
  <2> QED
    BY <1>3, <1>4, <2>1, SumTablesAgree
<1>7. S \in SUBSET S
  OBVIOUS
<1> QED
  BY <1>1, <1>3, <1>5, <1>6, <1>7, SumTableStep

\* A sum of numbers is a number, and any summand may be taken out of it first.
LEMMA SumOnNat ==
    ASSUME NEW f, NEW S, IsFiniteSet(S), \A x \in S : f[x] \in Nat
    PROVE  SumOn(f, S) \in Nat
<1> DEFINE Bad == {s \in SUBSET S : SumOn(f, s) \notin Nat}
<1> SUFFICES ASSUME Bad # {} PROVE FALSE
  OBVIOUS
<1>1. PICK s \in Bad : \A t \in Bad : t \subseteq s => t = s
  <2>1. Bad \subseteq SUBSET S
    OBVIOUS
  <2> HIDE DEF Bad
  <2> QED
    BY <2>1, SmallestSubset
<1>2. s \in SUBSET S /\ IsFiniteSet(s) /\ SumOn(f, s) \notin Nat
  BY FS_Subset
<1>3. s # {}
  <2>1. s = {} => SumOn(f, s) = 0
    BY <1>2, SumOnStep
  <2> QED
    BY <1>2, <2>1
<1>4. PICK r : r = s \ {Chosen(s)}
  OBVIOUS
<1>5. Chosen(s) \in s /\ SumOn(f, s) = f[Chosen(s)] + SumOn(f, r)
  BY <1>2, <1>3, <1>4, SumOnStep
<1>6. SumOn(f, r) \in Nat
  <2>1. r \in SUBSET S /\ r \subseteq s /\ r # s
    BY <1>2, <1>4, <1>5
  <2> QED
    BY <1>1, <2>1
<1> QED
  BY <1>2, <1>5, <1>6

LEMMA SumOnWithout ==
    ASSUME NEW f, NEW S, IsFiniteSet(S), \A x \in S : f[x] \in Nat
    PROVE  \A x \in S : SumOn(f, S) = f[x] + SumOn(f, S \ {x})
<1> DEFINE Bad == {s \in SUBSET S : \E x \in s : SumOn(f, s) # f[x] + SumOn(f, s \ {x})}
<1> SUFFICES ASSUME Bad # {} PROVE FALSE
  OBVIOUS
<1>1. PICK s \in Bad : \A t \in Bad : t \subseteq s => t = s
  <2>1. Bad \subseteq SUBSET S
    OBVIOUS
  <2> HIDE DEF Bad
  <2> QED
    BY <2>1, SmallestSubset
<1>2. s \in SUBSET S /\ IsFiniteSet(s)
  BY FS_Subset
<1>3. PICK x \in s : SumOn(f, s) # f[x] + SumOn(f, s \ {x})
  OBVIOUS
<1>4. \A t \in SUBSET s : t # s => \A y \in t : SumOn(f, t) = f[y] + SumOn(f, t \ {y})
  BY <1>1, <1>2
<1> HIDE DEF Bad
<1>5. PICK c : c = Chosen(s)
  OBVIOUS
<1>6. c \in s /\ SumOn(f, s) = f[c] + SumOn(f, s \ {c})
  BY <1>2, <1>3, <1>5, SumOnStep
<1>7. c # x
  BY <1>3, <1>6
<1>8. PICK r : r = (s \ {c}) \ {x} /\ r = (s \ {x}) \ {c}
  OBVIOUS
<1>9. SumOn(f, s \ {c}) = f[x] + SumOn(f, r)
  BY <1>3, <1>4, <1>6, <1>7, <1>8
<1>10. SumOn(f, s \ {x}) = f[c] + SumOn(f, r)
  BY <1>3, <1>4, <1>6, <1>7, <1>8
<1>11. f[x] \in Nat /\ f[c] \in Nat /\ SumOn(f, r) \in Nat
  <2>1. x \in S /\ c \in S /\ r \subseteq S
    BY <1>2, <1>3, <1>6, <1>8
  <2>2. IsFiniteSet(r) /\ \A y \in r : f[y] \in Nat
    BY <2>1, FS_Subset
  <2> QED
    BY <2>1, <2>2, SumOnNat
<1> QED
  BY <1>3, <1>6, <1>9, <1>10, <1>11

\* Functions that agree on a set have one sum over it.
LEMMA SumOnSame ==
    ASSUME NEW f, NEW h, NEW S, IsFiniteSet(S), \A x \in S : f[x] = h[x]
    PROVE  SumOn(f, S) = SumOn(h, S)
<1> DEFINE Bad == {s \in SUBSET S : SumOn(f, s) # SumOn(h, s)}
<1> SUFFICES ASSUME Bad # {} PROVE FALSE
  OBVIOUS
<1>1. PICK s \in Bad : \A t \in Bad : t \subseteq s => t = s
  <2>1. Bad \subseteq SUBSET S
    OBVIOUS
  <2> HIDE DEF Bad
  <2> QED
    BY <2>1, SmallestSubset
<1>2. s \in SUBSET S /\ IsFiniteSet(s) /\ SumOn(f, s) # SumOn(h, s)
  BY FS_Subset
<1>3. s # {}
  <2>1. s = {} => SumOn(f, s) = 0
    BY <1>2, SumOnStep
  <2>2. s = {} => SumOn(h, s) = 0
    BY <1>2, SumOnStep
  <2> QED
    BY <1>2, <2>1, <2>2
<1>4. PICK c, r : c = Chosen(s) /\ r = s \ {c}
  OBVIOUS
<1>5. c \in s /\ SumOn(f, s) = f[c] + SumOn(f, r) /\ SumOn(h, s) = h[c] + SumOn(h, r)
  BY <1>2, <1>3, <1>4, SumOnStep
<1>6. SumOn(f, r) = SumOn(h, r) /\ f[c] = h[c]
  <2>1. r \in SUBSET S /\ r \subseteq s /\ r # s /\ c \in S
    BY <1>2, <1>4, <1>5
  <2> QED
    BY <1>1, <2>1
<1> QED
  BY <1>2, <1>5, <1>6

\* A sum after one summand changed, and after one was added.
LEMMA SumOnChanged ==
    ASSUME NEW f, NEW h, NEW S, IsFiniteSet(S), NEW x \in S,
           \A y \in S : f[y] \in Nat /\ h[y] \in Nat /\ (y # x => f[y] = h[y])
    PROVE  SumOn(h, S) + f[x] = SumOn(f, S) + h[x]
<1>1. PICK r : r = S \ {x}
  OBVIOUS
<1>2. IsFiniteSet(r) /\ \A y \in r : f[y] \in Nat /\ f[y] = h[y]
  BY <1>1, FS_Subset
<1>3. SumOn(f, S) = f[x] + SumOn(f, r) /\ SumOn(h, S) = h[x] + SumOn(h, r)
  BY <1>1, SumOnWithout
<1>4. SumOn(f, r) = SumOn(h, r) /\ SumOn(f, r) \in Nat
  BY <1>2, SumOnSame, SumOnNat
<1> QED
  BY <1>3, <1>4

LEMMA SumOnAdded ==
    ASSUME NEW f, NEW h, NEW S, IsFiniteSet(S), NEW x, x \notin S, h[x] \in Nat,
           \A y \in S : f[y] \in Nat /\ f[y] = h[y]
    PROVE  SumOn(h, S \cup {x}) = SumOn(f, S) + h[x]
<1>1. PICK T : T = S \cup {x}
  OBVIOUS
<1>2. IsFiniteSet(T) /\ x \in T /\ T \ {x} = S /\ \A y \in T : h[y] \in Nat
  BY <1>1, FS_AddElement
<1>3. SumOn(h, T) = h[x] + SumOn(h, S)
  BY <1>2, SumOnWithout
<1>4. SumOn(f, S) = SumOn(h, S) /\ SumOn(f, S) \in Nat
  BY SumOnSame, SumOnNat
<1> QED
  BY <1>1, <1>3, <1>4

----------------------------------------------------------------------------
\* The summary and the Runs account for the same work.

\* Where the Attempts are that have ended, and the names of what was made.
EndedOf(run)   == DOMAIN run.attempts \ ActiveAttempts(run)
EndedPlaces(v) == UNION {{<<r, n>> : n \in EndedOf(v.runs[r])} : r \in DOMAIN v.runs}
Made(v)        == UNION {{x.id : x \in v.runs[r].artifacts} : r \in DOMAIN v.runs}

AttemptAt(v, p) == v.runs[p[1]].attempts[p[2]]
Under(v, h)     == {p \in EndedPlaces(v) : AttemptAt(v, p).identity.home = h}

Tokens(v)    == [r \in DOMAIN v.runs |-> v.runs[r].used.tokens]
Durations(v) == [r \in DOMAIN v.runs |-> v.runs[r].used.duration]
Tools(v)     == [r \in DOMAIN v.runs |-> v.runs[r].tools]
Spent(v)     == [p \in EndedPlaces(v) |->
                    AttemptAt(v, p).usage.input + AttemptAt(v, p).usage.output]

Countable(v) ==
    /\ IsFiniteSet(DOMAIN v.runs) /\ IsFiniteSet(EndedPlaces(v)) /\ IsFiniteSet(Made(v))
    /\ \A p \in EndedPlaces(v) : AttemptAt(v, p).usage \in Uses

Matched(v, s) ==
    /\ s.all.completed + s.all.failed = Cardinality(EndedPlaces(v))
    /\ s.all.input + s.all.output = SumOn(Tokens(v), DOMAIN v.runs)
    /\ s.all.duration = SumOn(Durations(v), DOMAIN v.runs)
    /\ s.all.tools = SumOn(Tools(v), DOMAIN v.runs)
    /\ s.all.artifacts = Cardinality(Made(v))
    /\ EndedByCommands =>
        \A h \in Homes : s.byHome[h].input + s.byHome[h].output = SumOn(Spent(v), Under(v, h))

SummaryInv(v, s) ==
    /\ Countable(v)
    /\ \A h \in Homes : s.byHome[h] \in TotalRecord
    /\ v.ok /\ s.ok => Matched(v, s)

\* h is f, over S, but that x has d more; T is S with perhaps x, for which h is nothing.
MoreAt(f, h, S, x, d) ==
    /\ \A y \in S : f[y] \in Nat /\ h[y] = IF y = x THEN f[y] + d ELSE f[y]
    /\ x \notin S => d = 0

WithNothing(h, S, T, x) == T = S \/ (x \notin S /\ T = S \cup {x} /\ h[x] = 0)

LEMMA SumGrows ==
    ASSUME NEW f, NEW h, NEW S, IsFiniteSet(S), NEW T, NEW x, NEW d \in Nat,
           MoreAt(f, h, S, x, d), WithNothing(h, S, T, x)
    PROVE  SumOn(h, T) = SumOn(f, S) + d
<1>0. /\ \A y \in S : f[y] \in Nat /\ h[y] = IF y = x THEN f[y] + d ELSE f[y]
      /\ x \notin S => d = 0
      /\ T = S \/ (x \notin S /\ T = S \cup {x} /\ h[x] = 0)
  BY DEF MoreAt, WithNothing
<1>1. SumOn(f, S) \in Nat
  BY <1>0, SumOnNat
<1>2. CASE T = S /\ x \in S
  <2>1. \A y \in S : f[y] \in Nat /\ h[y] \in Nat /\ (y # x => f[y] = h[y])
    BY <1>0
  <2>2. SumOn(h, S) + f[x] = SumOn(f, S) + h[x]
    BY <1>2, <2>1, SumOnChanged
  <2>3. h[x] = f[x] + d /\ f[x] \in Nat
    BY <1>0, <1>2
  <2>4. SumOn(h, S) \in Nat
    BY <2>1, SumOnNat
  <2> QED
    BY <1>1, <1>2, <2>2, <2>3, <2>4
<1>3. CASE x \notin S
  <2>1. d = 0 /\ \A y \in S : f[y] \in Nat /\ f[y] = h[y]
    BY <1>0, <1>3
  <2>2. SumOn(h, S) = SumOn(f, S)
    BY <2>1, SumOnSame
  <2>3. T # S => SumOn(h, T) = SumOn(f, S) + h[x] /\ h[x] = 0
    BY <1>0, <1>3, <2>1, SumOnAdded
  <2> QED
    BY <1>1, <2>1, <2>2, <2>3
<1> QED
  BY <1>0, <1>2, <1>3

\* What an event adds to the totals.
TokensOf(e) == IF e.type \in AttemptEnds THEN e.usage.input + e.usage.output ELSE 0
TimeOf(e)   == IF e.type \in AttemptEnds THEN e.usage.duration ELSE 0
CallsOf(e)  == IF e.type = "tool_call_completed" THEN 1 ELSE 0
MadeBy(e)   == IF e.type = "artifact_created" THEN 1 ELSE 0
EndsOf(e)   == IF e.type \in AttemptEnds THEN 1 ELSE 0

LEMMA AddedAmounts ==
    ASSUME NEW t \in TotalRecord, NEW e, IsEvent(e)
    PROVE  LET u == Added(t, e)
           IN  /\ u \in TotalRecord
               /\ u.completed + u.failed = t.completed + t.failed + EndsOf(e)
               /\ u.input + u.output = t.input + t.output + TokensOf(e)
               /\ u.duration = t.duration + TimeOf(e)
               /\ u.tools = t.tools + CallsOf(e) /\ u.artifacts = t.artifacts + MadeBy(e)
<1>1. PICK u : u = Added(t, e)
  OBVIOUS
<1>2. /\ t.completed \in Nat /\ t.failed \in Nat /\ t.tools \in Nat /\ t.artifacts \in Nat
      /\ t.input \in Nat /\ t.output \in Nat /\ t.duration \in Nat
  BY DEF TotalRecord
<1>3. u \in TotalRecord
  BY <1>1, AddedFacts
<1>4. CASE e.type \in AttemptEnds
  <2>1. e.usage.input \in Nat /\ e.usage.output \in Nat /\ e.usage.duration \in Nat
    BY <1>4, BoundsAssumption DEF IsEvent, AttemptEnds, Uses
  <2>2. /\ u.completed = IF e.type = "attempt_completed" THEN t.completed + 1 ELSE t.completed
        /\ u.failed = IF e.type = "attempt_failed" THEN t.failed + 1 ELSE t.failed
        /\ u.tools = t.tools /\ u.artifacts = t.artifacts
        /\ u.input = t.input + e.usage.input /\ u.output = t.output + e.usage.output
        /\ u.duration = t.duration + e.usage.duration
    BY <1>1, <1>4 DEF Added, AttemptEnds, TotalRecord
  <2> QED
    BY <1>1, <1>2, <1>3, <1>4, <2>1, <2>2 DEF EndsOf, TokensOf, TimeOf, CallsOf, MadeBy, AttemptEnds
<1>5. CASE e.type \notin AttemptEnds
  <2>1. /\ u.completed = t.completed /\ u.failed = t.failed
        /\ u.tools = IF e.type = "tool_call_completed" THEN t.tools + 1 ELSE t.tools
        /\ u.artifacts = IF e.type = "artifact_created" THEN t.artifacts + 1 ELSE t.artifacts
        /\ u.input = t.input /\ u.output = t.output /\ u.duration = t.duration
    BY <1>1, <1>5 DEF Added, AttemptEnds, TotalRecord
  <2> QED
    BY <1>1, <1>2, <1>3, <1>5, <2>1 DEF EndsOf, TokensOf, TimeOf, CallsOf, MadeBy
<1> QED
  BY <1>4, <1>5

LEMMA SummedHomes ==
    ASSUME NEW s, NEW e, TotalsInv(s), NEW h \in Homes
    PROVE  LET t == Summed(s, e)
           IN  t.byHome[h] = IF t.ok /\ e.identity # None /\ e.identity.home = h
                             THEN Added(s.byHome[h], e) ELSE s.byHome[h]
<1> DEFINE all  == Added(s.all, e)
           home == IF e.identity = None THEN s.byHome
                   ELSE [s.byHome EXCEPT ![e.identity.home] = Added(@, e)]
           ok   == s.ok /\ all.input <= MaxCount /\ all.output <= MaxCount
                        /\ all.duration <= MaxCount
           t    == Summed(s, e)
<1>1. home[h] = IF e.identity # None /\ e.identity.home = h
                THEN Added(s.byHome[h], e) ELSE s.byHome[h]
  BY DEF TotalsInv
<1>2. t = IF ok THEN [ok |-> TRUE, all |-> all, byHome |-> home] ELSE [s EXCEPT !.ok = FALSE]
  BY DEF Summed
<1> HIDE DEF home, all
<1>3. CASE ok
  <2>1. t.ok /\ t.byHome = home
    BY <1>2, <1>3
  <2> QED
    BY <1>1, <2>1
<1>4. CASE ~ok
  <2>1. ~t.ok /\ t.byHome = s.byHome
    BY <1>2, <1>4 DEF TotalsInv, IsTotals
  <2> QED
    BY <2>1
<1> QED
  BY <1>3, <1>4

\* An event ends at most one Attempt, which was running, with what it used; what others
\* used and who ran them stays.
LEMMA EndedOfNext ==
    ASSUME NEW run \in RunRecord, NEW e, IsEvent(e), Readable(run, e),
           e.type \in AttemptEnds => run.attempts[Found(run, e)].status = "running"
    PROVE  LET next == NextRun(run, e)
           IN  /\ e.type \in AttemptEnds =>
                    /\ Found(run, e) \in DOMAIN run.attempts /\ Found(run, e) \notin EndedOf(run)
                    /\ run.attempts[Found(run, e)].id = e.attempt
                    /\ next.attempts[Found(run, e)].usage = e.usage
                    /\ EndedOf(next) = EndedOf(run) \cup {Found(run, e)}
               /\ e.type \notin AttemptEnds => EndedOf(next) = EndedOf(run)
               /\ \A n \in EndedOf(run) : next.attempts[n].usage = run.attempts[n].usage
               /\ \A n \in DOMAIN run.attempts :
                    next.attempts[n].identity = run.attempts[n].identity
<1>1. PICK next, f : next = NextRun(run, e) /\ f = Found(run, e)
  OBVIOUS
<1>2. next.attempts = NextAttempts(run, e)
  BY <1>1 DEF NextRun
<1>3. /\ run.attempts \in Seq(AttemptRecord)
      /\ e.type = "attempt_started" =>
            next.attempts = Append(run.attempts, NewAttempt(e))
      /\ e.type # "attempt_started" => DOMAIN next.attempts = DOMAIN run.attempts
      /\ \A n \in DOMAIN run.attempts :
            /\ next.attempts[n].identity = run.attempts[n].identity
            /\ IF e.type \in AttemptEnds /\ n = f
               THEN next.attempts[n].status = e.status /\ next.attempts[n].usage = e.usage
               ELSE /\ next.attempts[n].status = run.attempts[n].status
                    /\ next.attempts[n].usage = run.attempts[n].usage
  BY <1>1, <1>2, AttemptTypes DEF RunRecord
<1>4. /\ \A n : n \in EndedOf(run) <=> n \in DOMAIN run.attempts /\ run.attempts[n].status # "running"
      /\ \A n : n \in EndedOf(next) <=>
                n \in DOMAIN next.attempts /\ next.attempts[n].status # "running"
  BY DEF EndedOf, ActiveAttempts
<1>5. CASE e.type \in AttemptEnds
  <2>1. f \in DOMAIN run.attempts /\ run.attempts[f].id = e.attempt
    BY <1>1, <1>5, FoundPlace DEF Readable, Seeks
  <2>2. e.status # "running" /\ e.type # "attempt_started"
    BY <1>5 DEF Readable, Failures, AttemptEnds
  <2>3. f \notin EndedOf(run)
    BY <1>1, <1>4, <1>5
  <2>4. EndedOf(next) = EndedOf(run) \cup {f}
    BY <1>3, <1>4, <1>5, <2>1, <2>2
  <2>5. next.attempts[f].usage = e.usage
    BY <1>3, <1>5, <2>1
  <2>6. \A n \in EndedOf(run) : next.attempts[n].usage = run.attempts[n].usage
    BY <1>3, <1>4, <2>3
  <2> QED
    BY <1>1, <1>3, <1>5, <2>1, <2>3, <2>4, <2>5, <2>6
<1>6. CASE e.type = "attempt_started"
  <2>1. e.type \notin AttemptEnds
    BY <1>6 DEF AttemptEnds
  <2>2. NewAttempt(e).status = "running"
    BY DEF NewAttempt
  <2>3. /\ DOMAIN next.attempts = DOMAIN run.attempts \cup {Len(run.attempts) + 1}
        /\ next.attempts[Len(run.attempts) + 1] = NewAttempt(e)
        /\ Len(run.attempts) + 1 \notin DOMAIN run.attempts
    BY <1>3, <1>6
  <2>4. EndedOf(next) = EndedOf(run)
    <3>1. Len(run.attempts) + 1 \notin EndedOf(next) \cup EndedOf(run)
      BY <1>4, <2>2, <2>3
    <3>2. \A n \in DOMAIN run.attempts : n \in EndedOf(next) <=> n \in EndedOf(run)
      BY <1>3, <1>4, <2>1, <2>3
    <3>3. \A n : n \in EndedOf(next) \/ n \in EndedOf(run)
                => n \in DOMAIN run.attempts \/ n = Len(run.attempts) + 1
      BY <1>4, <2>3
    <3>4. \A n : n \in EndedOf(next) <=> n \in EndedOf(run)
      BY <3>1, <3>2, <3>3
    <3> QED
      BY <3>4
  <2>5. \A n \in EndedOf(run) : next.attempts[n].usage = run.attempts[n].usage
    BY <1>3, <1>4, <2>1
  <2> QED
    BY <1>1, <1>3, <2>1, <2>4, <2>5
<1>7. CASE e.type \notin AttemptEnds /\ e.type # "attempt_started"
  <2>1. EndedOf(next) = EndedOf(run)
    BY <1>3, <1>4, <1>7
  <2>2. \A n \in EndedOf(run) : next.attempts[n].usage = run.attempts[n].usage
    BY <1>3, <1>4, <1>7
  <2> QED
    BY <1>1, <1>3, <1>7, <2>1, <2>2
<1> QED
  BY <1>5, <1>6, <1>7

LEMMA EndedPlace ==
    ASSUME NEW v, NEW p
    PROVE  p \in EndedPlaces(v) <=>
                \E r \in DOMAIN v.runs : \E n \in EndedOf(v.runs[r]) : p = <<r, n>>
BY DEF EndedPlaces

\* The Attempt an event ends: it was running, and it is the one of its id.
LEMMA EndedRuns ==
    ASSUME NEW i, NEW v, NEW e, TraceInv(i), ViewInv(v), Agree(i, v), IsEvent(e),
           LinkFacts(i, e), e.type \in AttemptEnds, e.run \in DOMAIN v.runs,
           Readable(v.runs[e.run], e)
    PROVE  LET run == v.runs[e.run]
           IN  run.attempts[Found(run, e)].status = "running"
<1>1. PICK run : run = v.runs[e.run]
  OBVIOUS
<1>2. /\ Found(run, e) \in DOMAIN run.attempts
      /\ run.attempts[Found(run, e)].id = e.attempt
  BY <1>1, FoundPlace DEF Readable, Seeks
<1>3. e.attempt \notin DOMAIN i.terminalAttempts
  BY DEF LinkFacts, AttemptEnds
<1>4. AttemptsAgree(i, e.run, run)
  BY <1>1 DEF Agree
<1>5. run.attempts[Found(run, e)].status = "running"
  BY <1>2, <1>3, <1>4 DEF AttemptsAgree
<1> QED
  BY <1>1, <1>5

LEMMA EndedPlacesNext ==
    ASSUME NEW i, NEW v, NEW e, NEW w, TraceInv(i), ViewInv(v), Agree(i, v), IsEvent(e),
           LinkFacts(i, e), ValidEvent(e), NextView(v, e, w)
    PROVE  /\ \A p \in EndedPlaces(v) : /\ AttemptAt(w, p).usage = AttemptAt(v, p).usage
                                        /\ AttemptAt(w, p).identity = AttemptAt(v, p).identity
           /\ e.type \notin AttemptEnds => EndedPlaces(w) = EndedPlaces(v)
           /\ e.type \in AttemptEnds =>
                \E p : /\ p \notin EndedPlaces(v) /\ EndedPlaces(w) = EndedPlaces(v) \cup {p}
                       /\ AttemptAt(w, p).usage = e.usage
                       /\ AttemptAt(w, p).identity \in Identities
                       /\ Billed(v, e) /\ FromCommandsOnly(e.type) =>
                            AttemptAt(w, p).identity = e.identity
<1>1. /\ DOMAIN w.runs = DOMAIN v.runs \cup (IF e.type = "run_started" THEN {e.run} ELSE {})
      /\ e.type = "run_started" => w.runs[e.run] = Fresh(e)
      /\ \A r \in DOMAIN v.runs : /\ w.runs[r] = After(v.runs[r], r, e)
                                  /\ r = e.run /\ ~Plain(e) => Readable(v.runs[r], e)
  BY DEF NextView
<1>2. \A r \in DOMAIN v.runs : v.runs[r] \in RunRecord
  BY DEF ViewInv
<1>3. e.type = "run_started" => e.type \notin AttemptEnds /\ EndedOf(Fresh(e)) = {}
  <2>1. Fresh(e).attempts = <<>>
    BY DEF Fresh, NewRun
  <2> QED
    BY <2>1 DEF EndedOf, AttemptEnds
<1>4. e.type = "run_started" => e.run \notin DOMAIN v.runs
  BY DEF LinkFacts, Agree
<1>5. e.type \in AttemptEnds => ~Plain(e) /\ e.run \in DOMAIN v.runs
  BY Accepted, PlainTypes
<1>6. ASSUME NEW r \in DOMAIN v.runs
      PROVE  /\ \A n \in EndedOf(v.runs[r]) :
                    /\ w.runs[r].attempts[n].usage = v.runs[r].attempts[n].usage
                    /\ w.runs[r].attempts[n].identity = v.runs[r].attempts[n].identity
             /\ ~(r = e.run /\ e.type \in AttemptEnds) => EndedOf(w.runs[r]) = EndedOf(v.runs[r])
  <2>1. CASE r = e.run /\ ~Plain(e)
    <3>1. PICK run : run = v.runs[r]
      OBVIOUS
    <3>2. Readable(run, e) /\ run \in RunRecord /\ w.runs[r] = NextRun(run, e)
      BY <1>1, <1>2, <2>1, <3>1 DEF After
    <3>3. e.type \in AttemptEnds => run.attempts[Found(run, e)].status = "running"
      BY <2>1, <3>1, <3>2, EndedRuns
    <3>4. \A n \in EndedOf(run) : n \in DOMAIN run.attempts
      BY DEF EndedOf
    <3> QED
      BY <2>1, <3>1, <3>2, <3>3, <3>4, EndedOfNext
  <2>2. CASE ~(r = e.run /\ ~Plain(e))
    BY <1>1, <2>2 DEF After
  <2> QED
    BY <2>1, <2>2
<1>7. \A p \in EndedPlaces(v) : /\ AttemptAt(w, p).usage = AttemptAt(v, p).usage
                                /\ AttemptAt(w, p).identity = AttemptAt(v, p).identity
  <2> SUFFICES ASSUME NEW p \in EndedPlaces(v)
               PROVE  /\ AttemptAt(w, p).usage = AttemptAt(v, p).usage
                      /\ AttemptAt(w, p).identity = AttemptAt(v, p).identity
    OBVIOUS
  <2>1. PICK r \in DOMAIN v.runs : \E n \in EndedOf(v.runs[r]) : p = <<r, n>>
    BY EndedPlace
  <2>2. PICK n \in EndedOf(v.runs[r]) : p = <<r, n>>
    BY <2>1
  <2> QED
    BY <1>6, <2>2 DEF AttemptAt
<1>8. CASE e.type \notin AttemptEnds
  <2>1. ASSUME NEW r \in DOMAIN w.runs
        PROVE  EndedOf(w.runs[r]) = IF r \in DOMAIN v.runs THEN EndedOf(v.runs[r]) ELSE {}
    BY <1>1, <1>3, <1>6, <1>8
  <2>2. ASSUME NEW p
        PROVE  p \in EndedPlaces(w) <=> p \in EndedPlaces(v)
    BY <1>1, <2>1, EndedPlace
  <2> QED
    BY <1>7, <1>8, <2>2
<1>9. CASE e.type \in AttemptEnds
  <2>1. PICK run, n, p : run = v.runs[e.run] /\ n = Found(run, e) /\ p = <<e.run, n>>
    OBVIOUS
  <2>2. /\ run \in RunRecord /\ Readable(run, e) /\ w.runs[e.run] = NextRun(run, e)
        /\ run.attempts[n].status = "running" /\ DOMAIN w.runs = DOMAIN v.runs
    BY <1>1, <1>2, <1>3, <1>5, <1>9, <2>1, EndedRuns DEF After
  <2>3. /\ n \in DOMAIN run.attempts /\ n \notin EndedOf(run) /\ run.attempts[n].id = e.attempt
        /\ w.runs[e.run].attempts[n].usage = e.usage
        /\ w.runs[e.run].attempts[n].identity = run.attempts[n].identity
        /\ EndedOf(w.runs[e.run]) = EndedOf(run) \cup {n}
    BY <1>9, <2>1, <2>2, EndedOfNext
  <2>4. p \notin EndedPlaces(v)
    <3>1. \A r, m : p = <<r, m>> => r = e.run /\ m = n
      BY <2>1
    <3>2. \A r \in DOMAIN v.runs : \A m \in EndedOf(v.runs[r]) : p # <<r, m>>
      BY <2>1, <2>3, <3>1
    <3> QED
      BY <3>2, EndedPlace
  <2>5. ASSUME NEW q
        PROVE  q \in EndedPlaces(w) <=> q \in EndedPlaces(v) \/ q = p
    <3>1. ASSUME NEW r \in DOMAIN v.runs
          PROVE  EndedOf(w.runs[r]) = IF r = e.run THEN EndedOf(run) \cup {n}
                                      ELSE EndedOf(v.runs[r])
      BY <1>6, <2>3
    <3> QED
      BY <1>5, <1>9, <2>1, <2>2, <3>1, EndedPlace
  <2>6. EndedPlaces(w) = EndedPlaces(v) \cup {p}
    BY <2>5
  <2>7. AttemptAt(w, p).usage = e.usage /\ AttemptAt(w, p).identity = run.attempts[n].identity
    BY <2>1, <2>3 DEF AttemptAt
  <2>8. run.attempts[n].identity \in Identities
    <3>1. run.attempts \in Seq(AttemptRecord)
      BY <2>2 DEF RunRecord
    <3>2. run.attempts[n] \in AttemptRecord
      BY <2>3, <3>1
    <3> QED
      BY <3>2 DEF AttemptRecord
  <2>9. Billed(v, e) /\ FromCommandsOnly(e.type) => run.attempts[n].identity = e.identity
    BY <1>9, <2>1, <2>3 DEF Billed
  <2> QED
    BY <1>7, <1>9, <2>4, <2>6, <2>7, <2>8, <2>9
<1> QED
  BY <1>8, <1>9

\* What an event adds to its Run it adds to the totals.
LEMMA AmountsNext ==
    ASSUME NEW i, NEW v, NEW e, NEW w, TraceInv(i), ViewInv(v), Agree(i, v), IsEvent(e),
           LinkFacts(i, e), ValidEvent(e), NextView(v, e, w)
    PROVE  /\ TokensOf(e) \in Nat /\ TimeOf(e) \in Nat /\ CallsOf(e) \in Nat
           /\ e.run \notin DOMAIN v.runs => TokensOf(e) = 0 /\ TimeOf(e) = 0 /\ CallsOf(e) = 0
           /\ \/ DOMAIN w.runs = DOMAIN v.runs
              \/ /\ e.run \notin DOMAIN v.runs /\ DOMAIN w.runs = DOMAIN v.runs \cup {e.run}
                 /\ w.runs[e.run].used = NoUse /\ w.runs[e.run].tools = 0
           /\ \A r \in DOMAIN v.runs :
                LET before == v.runs[r]
                    after  == w.runs[r]
                IN  /\ before.used.tokens \in Nat /\ before.used.duration \in Nat
                    /\ before.tools \in Nat
                    /\ after.used.tokens = IF r = e.run THEN before.used.tokens + TokensOf(e)
                                           ELSE before.used.tokens
                    /\ after.used.duration = IF r = e.run THEN before.used.duration + TimeOf(e)
                                             ELSE before.used.duration
                    /\ after.tools = IF r = e.run THEN before.tools + CallsOf(e)
                                     ELSE before.tools
<1>1. /\ DOMAIN w.runs = DOMAIN v.runs \cup (IF e.type = "run_started" THEN {e.run} ELSE {})
      /\ e.type = "run_started" => w.runs[e.run] = Fresh(e)
      /\ \A r \in DOMAIN v.runs : w.runs[r] = After(v.runs[r], r, e)
  BY DEF NextView
<1>2. e.type \in AttemptEnds =>
        e.usage.input \in Nat /\ e.usage.output \in Nat /\ e.usage.duration \in Nat
  BY BoundsAssumption DEF IsEvent, AttemptEnds, Uses
<1>3. TokensOf(e) \in Nat /\ TimeOf(e) \in Nat /\ CallsOf(e) \in Nat
  BY <1>2 DEF TokensOf, TimeOf, CallsOf
<1>4. Plain(e) \/ e.run \notin DOMAIN v.runs =>
        /\ e.type \notin AttemptEnds \cup {"tool_call_completed"}
        /\ TokensOf(e) = 0 /\ TimeOf(e) = 0 /\ CallsOf(e) = 0
  BY Accepted, PlainTypes DEF TokensOf, TimeOf, CallsOf
<1>5. \/ DOMAIN w.runs = DOMAIN v.runs
      \/ /\ e.run \notin DOMAIN v.runs /\ DOMAIN w.runs = DOMAIN v.runs \cup {e.run}
         /\ w.runs[e.run].used = NoUse /\ w.runs[e.run].tools = 0
  <2>1. Fresh(e).used = NoUse /\ Fresh(e).tools = 0
    BY DEF Fresh, NewRun
  <2>2. e.type = "run_started" => e.run \notin DOMAIN v.runs
    BY DEF LinkFacts, Agree
  <2> QED
    BY <1>1, <2>1, <2>2
<1>6. ASSUME NEW r \in DOMAIN v.runs
      PROVE  LET before == v.runs[r]
                 after  == w.runs[r]
             IN  /\ before.used.tokens \in Nat /\ before.used.duration \in Nat
                 /\ before.tools \in Nat
                 /\ after.used.tokens = IF r = e.run THEN before.used.tokens + TokensOf(e)
                                        ELSE before.used.tokens
                 /\ after.used.duration = IF r = e.run THEN before.used.duration + TimeOf(e)
                                          ELSE before.used.duration
                 /\ after.tools = IF r = e.run THEN before.tools + CallsOf(e) ELSE before.tools
  <2>1. PICK before, after : before = v.runs[r] /\ after = w.runs[r]
    OBVIOUS
  <2>2. before \in RunRecord /\ after = After(before, r, e)
    BY <1>1, <2>1 DEF ViewInv
  <2>3. before.used.tokens \in Nat /\ before.used.duration \in Nat /\ before.tools \in Nat
    BY <2>2 DEF RunRecord, UseRecord
  <2>4. CASE r # e.run
    BY <2>1, <2>2, <2>3, <2>4 DEF After
  <2>5. CASE r = e.run /\ Plain(e)
    BY <1>4, <2>1, <2>2, <2>3, <2>5 DEF After
  <2>6. CASE r = e.run /\ ~Plain(e)
    <3>1. /\ after.used = IF e.type \in AttemptEnds THEN Consumed(before.used, e.usage, e.status)
                          ELSE before.used
          /\ after.tools = IF e.type = "tool_call_completed" THEN before.tools + 1
                           ELSE before.tools
      BY <2>2, <2>6 DEF After, NextRun
    <3>2. after.tools = before.tools + CallsOf(e)
      BY <2>3, <3>1 DEF CallsOf
    <3>3. after.used.tokens = before.used.tokens + TokensOf(e)
      BY <1>2, <2>3, <3>1 DEF TokensOf, Consumed
    <3>4. after.used.duration = before.used.duration + TimeOf(e)
      BY <1>2, <2>3, <3>1 DEF TimeOf, Consumed
    <3> QED
      BY <2>1, <2>3, <2>6, <3>2, <3>3, <3>4
  <2> QED
    BY <2>4, <2>5, <2>6
<1> QED
  BY <1>3, <1>4, <1>5, <1>6

LEMMA SumsNext ==
    ASSUME NEW i, NEW v, NEW e, NEW w, TraceInv(i), ViewInv(v), Agree(i, v), IsEvent(e),
           LinkFacts(i, e), ValidEvent(e), NextView(v, e, w), IsFiniteSet(DOMAIN v.runs)
    PROVE  /\ IsFiniteSet(DOMAIN w.runs)
           /\ SumOn(Tokens(w), DOMAIN w.runs) = SumOn(Tokens(v), DOMAIN v.runs) + TokensOf(e)
           /\ SumOn(Durations(w), DOMAIN w.runs) = SumOn(Durations(v), DOMAIN v.runs) + TimeOf(e)
           /\ SumOn(Tools(w), DOMAIN w.runs) = SumOn(Tools(v), DOMAIN v.runs) + CallsOf(e)
<1> DEFINE S == DOMAIN v.runs
           T == DOMAIN w.runs
<1>1. /\ TokensOf(e) \in Nat /\ TimeOf(e) \in Nat /\ CallsOf(e) \in Nat
      /\ e.run \notin S => TokensOf(e) = 0 /\ TimeOf(e) = 0 /\ CallsOf(e) = 0
      /\ \/ T = S
         \/ /\ e.run \notin S /\ T = S \cup {e.run}
            /\ w.runs[e.run].used = NoUse /\ w.runs[e.run].tools = 0
  BY AmountsNext
<1>2. /\ MoreAt(Tokens(v), Tokens(w), S, e.run, TokensOf(e))
      /\ MoreAt(Durations(v), Durations(w), S, e.run, TimeOf(e))
      /\ MoreAt(Tools(v), Tools(w), S, e.run, CallsOf(e))
  <2>1. S \subseteq T
    BY <1>1
  <2>2. \A r \in S : Tokens(v)[r] \in Nat
                /\ Tokens(w)[r] = IF r = e.run THEN Tokens(v)[r] + TokensOf(e) ELSE Tokens(v)[r]
    BY <2>1, AmountsNext DEF Tokens
  <2>3. \A r \in S : Durations(v)[r] \in Nat
                /\ Durations(w)[r] = IF r = e.run THEN Durations(v)[r] + TimeOf(e)
                                     ELSE Durations(v)[r]
    BY <2>1, AmountsNext DEF Durations
  <2>4. \A r \in S : Tools(v)[r] \in Nat
                /\ Tools(w)[r] = IF r = e.run THEN Tools(v)[r] + CallsOf(e) ELSE Tools(v)[r]
    BY <2>1, AmountsNext DEF Tools
  <2> QED
    BY <1>1, <2>2, <2>3, <2>4 DEF MoreAt
<1>3. /\ WithNothing(Tokens(w), S, T, e.run)
      /\ WithNothing(Durations(w), S, T, e.run)
      /\ WithNothing(Tools(w), S, T, e.run)
  BY <1>1 DEF WithNothing, Tokens, Durations, Tools, NoUse
<1>4. IsFiniteSet(T)
  BY <1>1, FS_AddElement
<1>5. IsFiniteSet(S)
  OBVIOUS
<1> HIDE DEF S, T
<1>6. SumOn(Tokens(w), T) = SumOn(Tokens(v), S) + TokensOf(e)
  BY <1>1, <1>2, <1>3, <1>5, SumGrows
<1>7. SumOn(Durations(w), T) = SumOn(Durations(v), S) + TimeOf(e)
  BY <1>1, <1>2, <1>3, <1>5, SumGrows
<1>8. SumOn(Tools(w), T) = SumOn(Tools(v), S) + CallsOf(e)
  BY <1>1, <1>2, <1>3, <1>5, SumGrows
<1> QED
  BY <1>4, <1>6, <1>7, <1>8 DEF S, T

\* What was made is not made again.
LEMMA MadeNext ==
    ASSUME NEW i, NEW v, NEW e, NEW w, TraceInv(i), ViewInv(v), Agree(i, v), IsEvent(e),
           LinkFacts(i, e), ValidEvent(e), NextView(v, e, w), IsFiniteSet(Made(v))
    PROVE  IsFiniteSet(Made(w)) /\ Cardinality(Made(w)) = Cardinality(Made(v)) + MadeBy(e)
<1>1. /\ DOMAIN w.runs = DOMAIN v.runs \cup (IF e.type = "run_started" THEN {e.run} ELSE {})
      /\ e.type = "run_started" => w.runs[e.run] = Fresh(e)
      /\ \A r \in DOMAIN v.runs : w.runs[r] = After(v.runs[r], r, e)
  BY DEF NextView
<1>2. Fresh(e).artifacts = {}
  BY DEF Fresh, NewRun
<1>3. /\ e.type = "run_started" => e.run \notin DOMAIN v.runs
      /\ e.type = "artifact_created" => ~Plain(e) /\ e.run \in DOMAIN v.runs
  BY Accepted, PlainTypes DEF LinkFacts, Agree
<1>4. \A u : \A x : x \in Made(u) <=>
                \E r \in DOMAIN u.runs : \E y \in u.runs[r].artifacts : x = y.id
  BY DEF Made
<1> DEFINE artifact == [id |-> Artifact(e), attempt |-> e.attempt]
<1>5. \A run : NextRun(run, e).artifacts = IF e.type = "artifact_created"
                                           THEN run.artifacts \cup {artifact}
                                           ELSE run.artifacts
  BY DEF NextRun
<1>6. artifact.id = Artifact(e)
  OBVIOUS
<1> HIDE DEF artifact
<1>7. Cardinality(Made(v)) \in Nat
  BY FS_CardinalityType
<1>8. CASE e.type # "artifact_created"
  <2>1. \A r \in DOMAIN v.runs : w.runs[r].artifacts = v.runs[r].artifacts
    BY <1>1, <1>8, <1>5 DEF After
  <2>2. \A x : x \in Made(w) <=> x \in Made(v)
    BY <1>1, <1>2, <1>3, <1>4, <2>1
  <2>3. Made(w) = Made(v)
    BY <2>2
  <2> QED
    BY <1>7, <1>8, <2>3 DEF MadeBy
<1>9. CASE e.type = "artifact_created"
  <2>1. DOMAIN w.runs = DOMAIN v.runs
    BY <1>1, <1>9
  <2>2. \A r \in DOMAIN v.runs :
            w.runs[r].artifacts = IF r = e.run
                                  THEN v.runs[r].artifacts
                                        \cup {artifact}
                                  ELSE v.runs[r].artifacts
    BY <1>1, <1>3, <1>9, <1>5 DEF After
  <2>3. \A x : x \in Made(w) <=> x \in Made(v) \/ x = Artifact(e)
    <3>1. \A r \in DOMAIN v.runs : \A y \in w.runs[r].artifacts :
            y \in v.runs[r].artifacts \/ y = artifact
      BY <2>2
    <3>2. \A r \in DOMAIN v.runs : \A y \in v.runs[r].artifacts : y \in w.runs[r].artifacts
      BY <2>2
    <3>3. artifact \in w.runs[e.run].artifacts
      BY <1>3, <1>9, <2>2
    <3>4. ASSUME NEW x \in Made(w)
          PROVE  x \in Made(v) \/ x = Artifact(e)
      BY <1>4, <1>6, <2>1, <3>1
    <3>5. ASSUME NEW x \in Made(v)
          PROVE  x \in Made(w)
      BY <1>4, <2>1, <3>2
    <3>6. Artifact(e) \in Made(w)
      BY <1>3, <1>4, <1>9, <1>6, <2>1, <3>3
    <3> QED
      BY <3>4, <3>5, <3>6
  <2>4. Artifact(e) \notin Made(v)
    <3>1. Artifact(e) \notin DOMAIN i.artifacts
      BY <1>9 DEF LinkFacts
    <3>2. ASSUME NEW r \in DOMAIN v.runs, NEW y \in v.runs[r].artifacts
          PROVE  y.id \in DOMAIN i.artifacts
      <4>1. {x.id : x \in v.runs[r].artifacts} = {x \in DOMAIN i.artifacts : i.artifacts[x] = r}
        BY DEF Agree, RecordsAgree
      <4> QED
        BY <4>1
    <3> QED
      BY <1>4, <3>1, <3>2
  <2>5. Made(w) = Made(v) \cup {Artifact(e)}
    BY <2>3
  <2> QED
    BY <1>7, <1>9, <2>4, <2>5, FS_AddElement DEF MadeBy
<1> QED
  BY <1>8, <1>9

\* What an Attempt used is added to the Home it ran under.
LEMMA SpentNext ==
    ASSUME NEW i, NEW v, NEW e, NEW w, TraceInv(i), ViewInv(v), Agree(i, v), IsEvent(e),
           LinkFacts(i, e), ValidEvent(e), NextView(v, e, w), Countable(v),
           EndedByCommands, Billed(v, e), NEW h \in Homes
    PROVE  SumOn(Spent(w), Under(w, h)) =
                SumOn(Spent(v), Under(v, h))
                    + IF e.identity # None /\ e.identity.home = h THEN TokensOf(e) ELSE 0
<1>1. /\ \A p \in EndedPlaces(v) : /\ AttemptAt(w, p).usage = AttemptAt(v, p).usage
                                   /\ AttemptAt(w, p).identity = AttemptAt(v, p).identity
      /\ e.type \notin AttemptEnds => EndedPlaces(w) = EndedPlaces(v)
      /\ e.type \in AttemptEnds =>
            \E p : /\ p \notin EndedPlaces(v) /\ EndedPlaces(w) = EndedPlaces(v) \cup {p}
                   /\ AttemptAt(w, p).usage = e.usage
                   /\ AttemptAt(w, p).identity \in Identities
                   /\ Billed(v, e) /\ FromCommandsOnly(e.type) =>
                        AttemptAt(w, p).identity = e.identity
  BY EndedPlacesNext
<1>2. /\ \A q : q \in Under(v, h) <=> q \in EndedPlaces(v) /\ AttemptAt(v, q).identity.home = h
      /\ \A q : q \in Under(w, h) <=> q \in EndedPlaces(w) /\ AttemptAt(w, q).identity.home = h
  BY DEF Under
<1>3. IsFiniteSet(Under(v, h))
  BY <1>2, FS_Subset DEF Countable
<1>4. EndedPlaces(v) \subseteq EndedPlaces(w)
  BY <1>1
<1>5. \A q \in Under(v, h) : Spent(v)[q] \in Nat /\ Spent(v)[q] = Spent(w)[q]
  <2> SUFFICES ASSUME NEW q \in Under(v, h)
               PROVE  Spent(v)[q] \in Nat /\ Spent(v)[q] = Spent(w)[q]
    OBVIOUS
  <2>1. q \in EndedPlaces(v) /\ q \in EndedPlaces(w)
    BY <1>2, <1>4
  <2>2. PICK u : u = AttemptAt(v, q).usage
    OBVIOUS
  <2>3. u.input \in Nat /\ u.output \in Nat
    BY <2>1, <2>2, BoundsAssumption DEF Countable, Uses
  <2>4. Spent(v)[q] = u.input + u.output /\ Spent(w)[q] = u.input + u.output
    BY <1>1, <2>1, <2>2 DEF Spent
  <2> QED
    BY <2>3, <2>4
<1>6. SumOn(Spent(v), Under(v, h)) \in Nat
  BY <1>3, <1>5, SumOnNat
<1>7. SumOn(Spent(v), Under(v, h)) = SumOn(Spent(w), Under(v, h))
  BY <1>3, <1>5, SumOnSame
<1>8. CASE e.type \notin AttemptEnds
  <2>1. \A q : q \in Under(w, h) <=> q \in Under(v, h)
    BY <1>1, <1>2, <1>8
  <2>2. Under(w, h) = Under(v, h)
    BY <2>1
  <2> QED
    BY <1>6, <1>7, <1>8, <2>2 DEF TokensOf
<1>9. CASE e.type \in AttemptEnds
  <2>1. FromCommandsOnly(e.type)
    BY <1>9 DEF EndedByCommands, AttemptEnds
  <2>2. PICK p : /\ p \notin EndedPlaces(v) /\ EndedPlaces(w) = EndedPlaces(v) \cup {p}
                 /\ AttemptAt(w, p).usage = e.usage
                 /\ AttemptAt(w, p).identity \in Identities
                 /\ AttemptAt(w, p).identity = e.identity
    BY <1>1, <1>9, <2>1
  <2>3. e.identity # None
    BY <2>2, NoneAssumption
  <2>4. CASE e.identity.home # h
    <3>1. \A q : q \in Under(w, h) <=> q \in Under(v, h)
      BY <1>1, <1>2, <2>2, <2>4
    <3>2. Under(w, h) = Under(v, h)
      BY <3>1
    <3> QED
      BY <1>6, <1>7, <2>4, <3>2
  <2>5. CASE e.identity.home = h
    <3>1. \A q : q \in Under(w, h) <=> q \in Under(v, h) \/ q = p
      BY <1>1, <1>2, <2>2, <2>5
    <3>2. Under(w, h) = Under(v, h) \cup {p} /\ p \notin Under(v, h)
      BY <1>2, <2>2, <3>1
    <3>3. Spent(w)[p] = TokensOf(e)
      BY <1>9, <2>2 DEF Spent, TokensOf
    <3>4. TokensOf(e) \in Nat
      BY AmountsNext
    <3>5. SumOn(Spent(w), Under(w, h)) = SumOn(Spent(w), Under(v, h)) + Spent(w)[p]
      BY <1>3, <1>5, <3>2, <3>3, <3>4, SumOnAdded
    <3> QED
      BY <1>7, <2>3, <2>5, <3>3, <3>5
  <2> QED
    BY <2>4, <2>5
<1> QED
  BY <1>8, <1>9

\* What is counted stays countable, and Attempts end one at a time.
LEMMA CountableNext ==
    ASSUME NEW i, NEW v, NEW e, NEW w, TraceInv(i), ViewInv(v), Agree(i, v), IsEvent(e),
           LinkFacts(i, e), ValidEvent(e), NextView(v, e, w), Countable(v)
    PROVE  /\ Countable(w)
           /\ Cardinality(EndedPlaces(w)) = Cardinality(EndedPlaces(v)) + EndsOf(e)
<1>1. IsFiniteSet(DOMAIN w.runs) /\ IsFiniteSet(Made(w))
  BY SumsNext, MadeNext DEF Countable
<1>2. Cardinality(EndedPlaces(v)) \in Nat /\ IsFiniteSet(EndedPlaces(v))
  BY FS_CardinalityType DEF Countable
<1>3. \A p \in EndedPlaces(v) : AttemptAt(w, p).usage \in Uses
  <2>1. \A p \in EndedPlaces(v) : AttemptAt(w, p).usage = AttemptAt(v, p).usage
    BY EndedPlacesNext
  <2> QED
    BY <2>1 DEF Countable
<1>4. CASE e.type \notin AttemptEnds
  <2>1. EndedPlaces(w) = EndedPlaces(v)
    BY <1>4, EndedPlacesNext
  <2> QED
    BY <1>1, <1>2, <1>3, <1>4, <2>1 DEF Countable, EndsOf
<1>5. CASE e.type \in AttemptEnds
  <2>1. PICK p : /\ p \notin EndedPlaces(v) /\ EndedPlaces(w) = EndedPlaces(v) \cup {p}
                 /\ AttemptAt(w, p).usage = e.usage
    BY <1>5, EndedPlacesNext
  <2>2. e.usage \in Uses
    BY <1>5 DEF IsEvent, AttemptEnds
  <2>3. /\ IsFiniteSet(EndedPlaces(w))
        /\ Cardinality(EndedPlaces(w)) = Cardinality(EndedPlaces(v)) + 1
    BY <1>2, <2>1, FS_AddElement
  <2> QED
    BY <1>1, <1>3, <1>5, <2>1, <2>2, <2>3 DEF Countable, EndsOf
<1> QED
  BY <1>4, <1>5

\* The summary goes on to match the Runs, event by event.
LEMMA MatchedNext ==
    ASSUME NEW i, NEW v, NEW s, NEW e, NEW w, NEW t, TraceInv(i), ViewInv(v), TotalsInv(s),
           Agree(i, v), IsEvent(e), LinkFacts(i, e), ValidEvent(e), Billed(v, e),
           NextView(v, e, w), t = Summed(s, e), t.ok,
           Countable(v), \A h \in Homes : s.byHome[h] \in TotalRecord, Matched(v, s)
    PROVE  Matched(w, t)
<1>1. s.all \in TotalRecord /\ t.all = Added(s.all, e)
  BY SummedFacts DEF TotalsInv
<1>2. /\ t.all.completed + t.all.failed = s.all.completed + s.all.failed + EndsOf(e)
      /\ t.all.input + t.all.output = s.all.input + s.all.output + TokensOf(e)
      /\ t.all.duration = s.all.duration + TimeOf(e)
      /\ t.all.tools = s.all.tools + CallsOf(e) /\ t.all.artifacts = s.all.artifacts + MadeBy(e)
  BY <1>1, AddedAmounts
<1>3. /\ Cardinality(EndedPlaces(w)) = Cardinality(EndedPlaces(v)) + EndsOf(e)
      /\ Cardinality(Made(w)) = Cardinality(Made(v)) + MadeBy(e)
  BY CountableNext, MadeNext DEF Countable
<1>4. /\ SumOn(Tokens(w), DOMAIN w.runs) = SumOn(Tokens(v), DOMAIN v.runs) + TokensOf(e)
      /\ SumOn(Durations(w), DOMAIN w.runs) = SumOn(Durations(v), DOMAIN v.runs) + TimeOf(e)
      /\ SumOn(Tools(w), DOMAIN w.runs) = SumOn(Tools(v), DOMAIN v.runs) + CallsOf(e)
  BY SumsNext DEF Countable
<1>5. ASSUME EndedByCommands, NEW h \in Homes
      PROVE  t.byHome[h].input + t.byHome[h].output = SumOn(Spent(w), Under(w, h))
  <2>1. s.byHome[h].input + s.byHome[h].output = SumOn(Spent(v), Under(v, h))
    BY <1>5 DEF Matched
  <2>2. s.byHome[h] \in TotalRecord
    OBVIOUS
  <2>3. PICK d : d = IF e.identity # None /\ e.identity.home = h THEN TokensOf(e) ELSE 0
    OBVIOUS
  <2>4. SumOn(Spent(w), Under(w, h)) = SumOn(Spent(v), Under(v, h)) + d
    BY <1>5, <2>3, SpentNext
  <2>5. t.byHome[h] = IF e.identity # None /\ e.identity.home = h
                      THEN Added(s.byHome[h], e) ELSE s.byHome[h]
    BY SummedHomes
  <2>6. t.byHome[h].input + t.byHome[h].output = s.byHome[h].input + s.byHome[h].output + d
    <3>1. CASE e.identity # None /\ e.identity.home = h
      BY <2>2, <2>3, <2>5, <3>1, AddedAmounts
    <3>2. CASE ~(e.identity # None /\ e.identity.home = h)
      <4>1. s.byHome[h].input \in Nat /\ s.byHome[h].output \in Nat
        BY <2>2 DEF TotalRecord
      <4> QED
        BY <2>3, <2>5, <3>2, <4>1
    <3> QED
      BY <3>1, <3>2
  <2> QED
    BY <2>1, <2>4, <2>6
<1> QED
  BY <1>2, <1>3, <1>4, <1>5 DEF Matched

LEMMA SummaryStep ==
    ASSUME NEW i, NEW v, NEW s, NEW e, RunsInv(i, v, s), IsEvent(e), Links(i, e), ValidEvent(e),
           Billed(v, e), SummaryInv(v, s)
    PROVE  SummaryInv(Folded(v, e), Summed(s, e))
<1>1. PICK w, t : w = Folded(v, e) /\ t = Summed(s, e)
  OBVIOUS
<1>2. TraceInv(i) /\ ViewInv(v) /\ TotalsInv(s) /\ s.ok \in BOOLEAN
  BY DEF RunsInv, TotalsInv
<1>3. \A h \in Homes : t.byHome[h] \in TotalRecord
  <2> SUFFICES ASSUME NEW h \in Homes PROVE t.byHome[h] \in TotalRecord
    OBVIOUS
  <2>1. s.byHome[h] \in TotalRecord
    BY DEF SummaryInv
  <2> QED
    BY <1>1, <1>2, <2>1, SummedHomes, AddedFacts
<1>4. t.ok => s.ok
  BY <1>1, <1>2, SummedFacts
<1>5. CASE ~w.ok /\ w.runs = v.runs
  <2>1. Countable(w)
    BY <1>5 DEF SummaryInv, Countable, EndedPlaces, Made, AttemptAt
  <2> QED
    BY <1>1, <1>3, <1>5, <2>1 DEF SummaryInv
<1>6. CASE v.ok /\ Agree(i, v) /\ LinkFacts(i, e) /\ NextView(v, e, w)
  <2>1. Countable(w)
    BY <1>2, <1>6, CountableNext DEF SummaryInv
  <2>2. t.ok => Matched(w, t)
    BY <1>1, <1>2, <1>4, <1>6, MatchedNext DEF SummaryInv
  <2> QED
    BY <1>1, <1>3, <2>1, <2>2 DEF SummaryInv
<1> QED
  BY <1>1, <1>5, <1>6, RunsStep

LEMMA InitSummary == Init => SummaryInv(view, totals)
<1> SUFFICES ASSUME Init PROVE SummaryInv(view, totals)
  OBVIOUS
<1>1. /\ view = [ok |-> TRUE, tasks |-> <<>>, runs |-> <<>>]
      /\ totals = [ok |-> TRUE, all |-> NoTotals, byHome |-> [h \in Homes |-> NoTotals]]
  BY DEF Init
<1>2. DOMAIN view.runs = {} /\ EndedPlaces(view) = {} /\ Made(view) = {}
  BY <1>1 DEF EndedPlaces, Made
<1>3. \A h : Under(view, h) = {}
  BY <1>2 DEF Under
<1>4. IsFiniteSet({}) /\ Cardinality({}) = 0
  BY FS_EmptySet
<1>5. \A f : SumOn(f, {}) = 0
  BY <1>4, SumOnStep
<1>6. NoTotals \in TotalRecord
  BY DEF NoTotals, TotalRecord
<1>7. Countable(view)
  BY <1>2, <1>4 DEF Countable
<1>8. \A h \in Homes : totals.byHome[h] = NoTotals
  BY <1>1
<1>9. totals.all = NoTotals
  BY <1>1
<1>10. Matched(view, totals)
  BY <1>2, <1>3, <1>4, <1>5, <1>8, <1>9 DEF Matched, NoTotals
<1> QED
  BY <1>6, <1>7, <1>8, <1>10 DEF SummaryInv

LEMMA SameSummary ==
    ASSUME NEW v, NEW s, SummaryInv(v, s), scope' = scope, view' = v, totals' = s
    PROVE  SummaryInv(view, totals)'
<1>1. EndedByCommands' <=> EndedByCommands
  BY DEF EndedByCommands, FromCommandsOnly
<1>2. Countable(view)' /\ (\A h \in Homes : totals.byHome[h] \in TotalRecord)'
  BY DEF SummaryInv
<1>3. (view.ok /\ totals.ok => Matched(view, totals))'
  BY <1>1 DEF SummaryInv, Matched
<1> QED
  BY <1>2, <1>3 DEF SummaryInv

LEMMA AppendedSummary ==
    ASSUME AgentRunsInv, SummaryInv(view, totals), NEW e, Appended(e)
    PROVE  SummaryInv(view, totals)'
<1>1. RunsInv(trace, view, totals)
  BY DEF AgentRunsInv
<1>2. SummaryInv(Folded(view, e), Summed(totals, e))
  BY <1>1, SummaryStep DEF Appended
<1> QED
  BY <1>2, SameSummary DEF Appended

LEMMA InitialBilled ==
    ASSUME NEW v, NEW e, Initial(e)
    PROVE  Billed(v, e)
BY DEF Initial, Billed

LEMMA DispatchedSummary ==
    ASSUME AgentRunsInv, SummaryInv(view, totals), NEW a, NEW b, NEW c, Dispatched(a, b, c)
    PROVE  SummaryInv(view, totals)'
<1>1. PICK i, v, s, j, w, t :
        /\ v = Folded(view, a) /\ s = Summed(totals, a)
        /\ w = Folded(v, b) /\ t = Summed(s, b)
        /\ view' = Folded(w, c) /\ totals' = Summed(t, c)
        /\ RunsInv(i, v, s) /\ RunsInv(j, w, t)
        /\ IsEvent(a) /\ Links(trace, a) /\ ValidEvent(a)
        /\ IsEvent(b) /\ Links(i, b) /\ ValidEvent(b)
        /\ IsEvent(c) /\ Links(j, c) /\ ValidEvent(c)
  BY DispatchedSteps
<1>2. scope' = scope /\ Billed(view, a) /\ Billed(v, b) /\ Billed(w, c)
  BY InitialBilled DEF Dispatched
<1>3. SummaryInv(v, s)
  BY <1>1, <1>2, SummaryStep DEF AgentRunsInv
<1>4. SummaryInv(w, t)
  BY <1>1, <1>2, <1>3, SummaryStep
<1>5. SummaryInv(Folded(w, c), Summed(t, c))
  BY <1>1, <1>2, <1>4, SummaryStep
<1> QED
  BY <1>1, <1>2, <1>5, SameSummary

LEMMA SummaryKept ==
    ASSUME AgentRunsInv, SummaryInv(view, totals), [Next]_vars
    PROVE  SummaryInv(view, totals)'
<1>1. CASE UNCHANGED vars
  BY <1>1, SameSummary DEF vars
<1>2. CASE Next
  BY <1>2, NextStep, AppendedSummary, DispatchedSummary
<1> QED
  BY <1>1, <1>2

\* What the invariant counts is what the reports show.
LEMMA SummaryShown ==
    ASSUME SummaryInv(view, totals)
    PROVE  SummaryMatchesRuns
<1> SUFFICES ASSUME view.ok, totals.ok PROVE SummaryMatchesRuns
  BY DEF SummaryMatchesRuns
<1> DEFINE places(r)   == {<<r, n>> : n \in DOMAIN view.runs[r].attempts
                                              \ ActiveAttempts(view.runs[r])}
           ended       == UNION {places(r) : r \in DOMAIN view.runs}
           attempt(p)  == view.runs[p[1]].attempts[p[2]]
           of(h)       == {p \in ended : attempt(p).identity.home = h}
           used(r)     == view.runs[r].used.tokens
           duration(r) == view.runs[r].used.duration
           tools(r)    == view.runs[r].tools
           spent(p)    == attempt(p).usage.input + attempt(p).usage.output
<1>1. Matched(view, totals) /\ Countable(view)
  BY DEF SummaryInv
<1>2. ended = EndedPlaces(view) /\ AllArtifacts = Made(view)
  BY DEF EndedPlaces, EndedOf, Made, AllArtifacts
<1>3. \A h : of(h) = Under(view, h)
  BY <1>2 DEF Under, AttemptAt
<1>4. /\ SumOver(DOMAIN view.runs, used) = SumOn(Tokens(view), DOMAIN view.runs)
      /\ SumOver(DOMAIN view.runs, duration) = SumOn(Durations(view), DOMAIN view.runs)
      /\ SumOver(DOMAIN view.runs, tools) = SumOn(Tools(view), DOMAIN view.runs)
  BY DEF SumOver, SumOn, Tokens, Durations, Tools
<1>5. ASSUME NEW h
      PROVE  SumOver(of(h), spent) = SumOn(Spent(view), Under(view, h))
  <2>1. PICK S : S = Under(view, h)
    OBVIOUS
  <2>2. PICK f : f = [p \in S |-> spent(p)]
    OBVIOUS
  <2>3. SumOver(S, spent) = SumOn(f, S)
    BY <2>2 DEF SumOver, SumOn
  <2>4. \A p \in S : p \in EndedPlaces(view)
    BY <2>1 DEF Under
  <2>5. IsFiniteSet(S) /\ \A p \in S : f[p] = Spent(view)[p]
    <3>1. S \subseteq EndedPlaces(view)
      BY <2>4
    <3>2. IsFiniteSet(S)
      BY <1>1, <3>1, FS_Subset DEF Countable
    <3> QED
      BY <2>2, <2>4, <3>2 DEF Spent, AttemptAt
  <2>6. SumOn(f, S) = SumOn(Spent(view), S)
    BY <2>5, SumOnSame
  <2>7. of(h) = S
    BY <1>3, <2>1
  <2> HIDE DEF of, spent
  <2> QED
    BY <2>1, <2>3, <2>6, <2>7
<1>6. /\ totals.all.completed + totals.all.failed = Cardinality(ended)
      /\ totals.all.input + totals.all.output = SumOver(DOMAIN view.runs, used)
      /\ totals.all.duration = SumOver(DOMAIN view.runs, duration)
      /\ totals.all.tools = SumOver(DOMAIN view.runs, tools)
      /\ totals.all.artifacts = Cardinality(AllArtifacts)
      /\ EndedByCommands =>
            \A h \in Homes :
                totals.byHome[h].input + totals.byHome[h].output = SumOver(of(h), spent)
  <2> HIDE DEF ended, of, used, duration, tools, spent
  <2> QED
    BY <1>1, <1>2, <1>4, <1>5 DEF Matched
<1> QED
  BY <1>6 DEF SummaryMatchesRuns

\* The summary, which adds up the events of a log, and the reports, which add up the
\* Attempts of every Run, account for the same work; and what the summary shows of a
\* Home is what the Attempts that ran under it used, where the commands end them.
THEOREM SummaryMatchesRunsHolds == Spec => []SummaryMatchesRuns
<1>1. SummaryInv(view, totals) /\ AgentRunsInv /\ [Next]_vars => SummaryInv(view, totals)'
  BY SummaryKept
<1>2. SummaryInv(view, totals) => SummaryMatchesRuns
  BY SummaryShown
<1> QED
  BY InitSummary, <1>1, <1>2, RunsInvariant, PTL DEF Spec

=============================================================================
