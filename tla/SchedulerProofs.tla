-------------------------- MODULE SchedulerProofs --------------------------
(***************************************************************************)
(* Theorems about Scheduler, for every value of its constants.             *)
(***************************************************************************)
EXTENDS SchedulerClaims, FiniteSetTheorems, TLAPS

----------------------------------------------------------------------------
\* Facts about the operators.

\* Closing an Attempt keeps the Attempts well typed and their number.
LEMMA ClosedType ==
    ASSUME attempts \in [Runs -> Seq(Attempt)], NEW r \in Runs, NEW i,
           NEW status \in AttemptStatus, NEW failure \in Failures
    PROVE  /\ Closed(r, i, status, failure) \in [Runs -> Seq(Attempt)]
           /\ Len(Closed(r, i, status, failure)[r]) = Len(attempts[r])
<1> DEFINE a    == attempts[r]
           new  == [candidate |-> a[i].candidate, status |-> status, failure |-> failure]
           next == [a EXCEPT ![i] = new]
<1>1. a \in Seq(Attempt)
  OBVIOUS
<1>2. next \in Seq(Attempt) /\ Len(next) = Len(a)
  <2>1. CASE i \in DOMAIN a
    <3>1. a[i] \in Attempt
      BY <1>1, <2>1
    <3>2. new \in Attempt
      BY <3>1 DEF Attempt
    <3> HIDE DEF new
    <3> QED
      BY <1>1, <2>1, <3>2
  <2>2. CASE i \notin DOMAIN a
    <3>1. next = a
      BY <1>1, <2>2
    <3> QED
      BY <1>1, <3>1
  <2> QED
    BY <2>1, <2>2
<1> QED
  BY <1>2 DEF Closed

\* Starting an Attempt keeps the Attempts well typed.
LEMMA StartedType ==
    ASSUME attempts \in [Runs -> Seq(Attempt)], NEW r \in Runs, NEW c \in Candidates
    PROVE  /\ Started(r, c) \in [Runs -> Seq(Attempt)]
           /\ Len(Started(r, c)[r]) = Len(attempts[r]) + 1
<1> DEFINE new == [candidate |-> c, status |-> "running", failure |-> "none"]
<1>1. new \in Attempt
  BY DEF Attempt, AttemptStatus, Failures
<1> HIDE DEF new
<1>2. Append(attempts[r], new) \in Seq(Attempt)
  BY <1>1
<1>3. Started(r, c) = [attempts EXCEPT ![r] = Append(attempts[r], new)]
  BY DEF Started, new
<1> QED
  BY <1>2, <1>3

\* Adding a usage keeps what a Run has used a number.
LEMMA UsedType ==
    ASSUME used \in [Runs -> Nat], NEW r \in Runs, NEW usage \in Usages
    PROVE  [used EXCEPT ![r] = @ + usage] \in [Runs -> Nat]
<1>1. usage \in Nat /\ used[r] \in Nat
  BY ConstantsAssumption
<1>2. used[r] + usage \in Nat
  BY <1>1
<1> QED
  BY <1>2

\* An append of events keeps the timestamps numbers.
LEMMA AppendType ==
    ASSUME TypeOK, NEW R, NEW ts \in Nat, AppendEvents(R, ts)
    PROVE  clock' \in Nat /\ lastTs' \in [Runs -> Nat]
BY DEF TypeOK, AppendEvents

----------------------------------------------------------------------------
\* Type correctness.

\* The specifications of jobs have numeric lengths of leases.
LEMMA LeaseLength == \A s \in Specs : s.lease \in Nat \ {0} /\ s.timeout \in Nat \ {0}
BY SpecsAssumption DEF ValidSpec, JobSpec

\* The initial states are well typed.
LEMMA TypeInit == Init => TypeOK
<1> SUFFICES ASSUME Init PROVE TypeOK
  OBVIOUS
<1>1. Scheduled = {}
  BY DEF Init, Scheduled
<1>2. /\ clock \in Nat
      /\ lastTs \in [Runs -> Nat]
      /\ run \in [Runs -> RunStatus]
      /\ worktree \in [Runs -> BOOLEAN]
      /\ used \in [Runs -> Nat]
      /\ mark \in [Runs -> JobMarks]
  BY DEF Init, RunStatus, JobMarks
<1>3. attempts \in [Runs -> Seq(Attempt)] /\ dispatches \in [Runs -> Seq(Dispatch)]
  BY DEF Init
<1>4. job \in [Scheduled -> Job]
  BY <1>1 DEF Init
<1> QED
  BY <1>1, <1>2, <1>3, <1>4 DEF TypeOK

\* Every step of every action keeps the state well typed, one action per step.
LEMMA TypeStep == TypeOK /\ [Next]_vars => TypeOK'
<1> SUFFICES ASSUME TypeOK, [Next]_vars PROVE TypeOK'
  OBVIOUS
<1> USE ConstantsAssumption
<1>1. CASE UNCHANGED vars
  BY <1>1 DEF TypeOK, vars, Scheduled
<1>2. CASE AdvanceClock
  BY <1>2 DEF TypeOK, AdvanceClock, runVars, jobVars, Scheduled
<1>3. ASSUME NEW r \in Runs, NEW c \in Candidates, StartAttempt(r, c)
      PROVE  TypeOK'
  <2>1. attempts' \in [Runs -> Seq(Attempt)]
    BY <1>3, StartedType DEF TypeOK, StartAttempt
  <2>2. clock' \in Nat /\ lastTs' \in [Runs -> Nat]
    BY <1>3, AppendType DEF TypeOK, StartAttempt
  <2> QED
    BY <1>3, <2>1, <2>2 DEF TypeOK, StartAttempt, jobVars, Scheduled
<1>4. ASSUME NEW r \in Runs, PrepareWorktree(r)
      PROVE  TypeOK'
  <2>1. clock' \in Nat /\ lastTs' \in [Runs -> Nat]
    BY <1>4, AppendType DEF TypeOK, PrepareWorktree
  <2> QED
    BY <1>4, <2>1 DEF TypeOK, PrepareWorktree, jobVars, Scheduled
<1>5. ASSUME NEW r \in Runs, NEW i, NEW status \in AttemptStatus,
             NEW failure \in Failures, NEW usage \in Usages,
             CloseAttempt(r, i, status, failure, usage)
      PROVE  TypeOK'
  <2>1. attempts' \in [Runs -> Seq(Attempt)]
    BY <1>5, ClosedType DEF TypeOK, CloseAttempt
  <2>2. clock' \in Nat /\ lastTs' \in [Runs -> Nat]
    BY <1>5, AppendType DEF TypeOK, CloseAttempt
  <2>3. used' \in [Runs -> Nat]
    BY <1>5, UsedType DEF TypeOK, CloseAttempt
  <2> QED
    BY <1>5, <2>1, <2>2, <2>3 DEF TypeOK, CloseAttempt, jobVars, Scheduled
<1>6. ASSUME NEW r \in Runs, CompleteRun(r)
      PROVE  TypeOK'
  <2>1. clock' \in Nat /\ lastTs' \in [Runs -> Nat]
    BY <1>6, AppendType DEF TypeOK, CompleteRun
  <2> QED
    BY <1>6, <2>1 DEF TypeOK, CompleteRun, RunStatus, jobVars, Scheduled
<1>7. ASSUME NEW r \in Runs, NEW status \in FailStatuses, FailRun(r, status)
      PROVE  TypeOK'
  <2>1. clock' \in Nat /\ lastTs' \in [Runs -> Nat]
    BY <1>7, AppendType DEF TypeOK, FailRun
  <2> QED
    BY <1>7, <2>1 DEF TypeOK, FailRun, RunStatus, jobVars, Scheduled
<1>8. ASSUME NEW r \in Runs, NEW spec \in Specs, NEW deps \in DepLists,
             Enqueue(r, spec, deps)
      PROVE  TypeOK'
  <2>1. clock' \in Nat /\ lastTs' \in [Runs -> Nat]
    BY <1>8, AppendType DEF TypeOK, Enqueue
  <2>2. deps \in Seq(Runs)
    <3>1. PICK n \in 0..MaxDeps : deps \in [1..n -> Scheduled]
      BY <1>8 DEF DepLists
    <3>2. n \in Nat /\ deps \in [1..n -> Runs]
      BY <3>1 DEF TypeOK
    <3> QED
      BY <3>2
  <2>3. [spec |-> spec, deps |-> deps, queuedAt |-> clock] \in Job
    BY <2>2 DEF Job, TypeOK
  <2>4. Scheduled' = Scheduled \cup {r} /\ job' \in [Scheduled' -> Job]
    BY <1>8, <2>3 DEF Enqueue, Scheduled, TypeOK
  <2> QED
    BY <1>8, <2>1, <2>4 DEF TypeOK, Enqueue, runVars
<1>9. ASSUME NEW j \in Scheduled, Pause(j) \/ Resume(j)
      PROVE  TypeOK'
  <2>1. clock' \in Nat /\ lastTs' \in [Runs -> Nat]
    BY <1>9, AppendType DEF TypeOK, Pause, Resume
  <2> QED
    BY <1>9, <2>1 DEF TypeOK, Pause, Resume, JobMarks, runVars, Scheduled
<1>10. ASSUME NEW j \in Scheduled, NEW d \in DOMAIN dispatches[j],
              NEW ts \in 0..clock, NEW extension \in Extensions,
              RenewLease(j, d, ts, extension)
       PROVE  TypeOK'
  <2> DEFINE old     == dispatches[j][d]
             renewed == [attempt |-> old.attempt, at |-> old.at,
                         expires |-> old.expires + extension]
  <2>1. clock' \in Nat /\ lastTs' \in [Runs -> Nat]
    <3>1. ts \in Nat /\ AppendEvents({j}, ts)
      BY <1>10 DEF TypeOK, RenewLease
    <3> QED
      BY <3>1, AppendType
  <2>2. renewed \in Dispatch
    <3>1. old \in Dispatch
      BY <1>10 DEF TypeOK
    <3>2. old.attempt \in Nat /\ old.at \in Nat /\ old.expires \in Nat
      BY <3>1 DEF Dispatch
    <3>3. old.expires + extension \in Nat
      BY <3>2
    <3> QED
      BY <3>2, <3>3 DEF Dispatch
  <2>3. dispatches' = [dispatches EXCEPT ![j] = [dispatches[j] EXCEPT ![d] = renewed]]
    BY <1>10 DEF RenewLease
  <2> HIDE DEF renewed
  <2>4. dispatches' \in [Runs -> Seq(Dispatch)]
    BY SMTT(20), <1>10, <2>2, <2>3 DEF TypeOK
  <2> QED
    BY <1>10, <2>1, <2>4 DEF TypeOK, RenewLease, runVars, Scheduled
<1>11. ASSUME NEW j \in Scheduled, NEW usage \in Usages, ResolveRecovery(j, usage)
       PROVE  TypeOK'
  <2>1. attempts' \in [Runs -> Seq(Attempt)]
    BY <1>11, ClosedType DEF TypeOK, ResolveRecovery, AttemptStatus, Failures
  <2>2. clock' \in Nat /\ lastTs' \in [Runs -> Nat]
    BY <1>11, AppendType DEF TypeOK, ResolveRecovery
  <2>3. used' \in [Runs -> Nat]
    BY <1>11, UsedType DEF TypeOK, ResolveRecovery
  <2> QED
    BY <1>11, <2>1, <2>2, <2>3 DEF TypeOK, ResolveRecovery, JobMarks, Scheduled
<1>12. ASSUME NEW j \in Scheduled, NEW status \in FailStatuses \ {"failed"},
              NEW usage \in Usages, Terminalize(j, status, usage)
       PROVE  TypeOK'
  <2>1. attempts' \in [Runs -> Seq(Attempt)]
    BY <1>12, ClosedType DEF TypeOK, Terminalize, AttemptStatus, Failures
  <2>2. clock' \in Nat /\ lastTs' \in [Runs -> Nat]
    BY <1>12, AppendType DEF TypeOK, Terminalize
  <2>3. status \in RunStatus /\ status \in JobMarks
    BY <1>12 DEF RunFailures, RunStatus, JobMarks
  <2>4. used' \in [Runs -> Nat]
    BY <1>12, UsedType DEF TypeOK, Terminalize
  <2> QED
    BY <1>12, <2>1, <2>2, <2>3, <2>4 DEF TypeOK, Terminalize, Scheduled
<1>13. ASSUME NEW ts \in 0..clock, Tick(ts)
       PROVE  TypeOK'
  <2>1. clock' \in Nat /\ lastTs' \in [Runs -> Nat]
    BY <1>13, AppendType DEF TypeOK, Tick
  <2> QED
    BY <1>13, <2>1 DEF TypeOK, Tick, JobMarks, runVars, Scheduled
<1>14. ASSUME NEW j \in Scheduled, NEW c \in Candidates, NEW ts \in 0..clock,
              Claim(j, c, ts)
       PROVE  TypeOK'
  <2> DEFINE new == [attempt |-> Len(attempts[j]) + 1, at |-> ts,
                     expires |-> ts + job[j].spec.lease]
  <2>1. attempts' \in [Runs -> Seq(Attempt)]
    BY <1>14, StartedType DEF TypeOK, Claim
  <2>2. clock' \in Nat /\ lastTs' \in [Runs -> Nat]
    BY SMTT(20), <1>14, AppendType DEF TypeOK, Claim
  <2>3. new \in Dispatch
    <3>1. job[j].spec.lease \in Nat
      BY LeaseLength DEF TypeOK, Job
    <3> QED
      BY <3>1, SMTT(20) DEF TypeOK, Dispatch
  <2>4. dispatches' = [dispatches EXCEPT ![j] = Append(@, new)]
    BY <1>14 DEF Claim
  <2> HIDE DEF new
  <2>5. dispatches' \in [Runs -> Seq(Dispatch)]
    BY <2>3, <2>4 DEF TypeOK
  <2> QED
    BY <1>14, <2>1, <2>2, <2>5 DEF TypeOK, Claim, JobMarks, Scheduled
<1>15. ASSUME NEW j \in Scheduled, NEW ts \in 0..clock, Defer(j, ts)
       PROVE  TypeOK'
  <2>1. clock' \in Nat /\ lastTs' \in [Runs -> Nat]
    BY <1>15, AppendType DEF TypeOK, Defer
  <2> QED
    BY <1>15, <2>1 DEF TypeOK, Defer, runVars, jobVars, Scheduled
<1>16. ASSUME NEW j \in Scheduled, NEW ts \in 0..clock, DispatchJob(j, ts)
       PROVE  TypeOK'
  BY <1>14, <1>15, <1>16 DEF DispatchJob, Choices, Acceptable
<1>17. ASSUME NEW r \in Runs, RunStep(r)
       PROVE  TypeOK'
  BY <1>3, <1>4, <1>5, <1>6, <1>7, <1>17
     DEF RunStep, CompleteAttempt, FailAttempt, AttemptStatus, Failures
<1>18. ASSUME NEW j \in Scheduled, JobStep(j)
       PROVE  TypeOK'
  BY <1>9, <1>10, <1>11, <1>12, <1>18 DEF JobStep
<1>19. CASE Next
  BY <1>2, <1>8, <1>13, <1>16, <1>17, <1>18, <1>19
     DEF Next, Operate, DispatchNamed, DispatchNext
<1> QED
  BY <1>1, <1>19

\* Every reachable state is well typed: the statuses, marks and failures stay in
\* their enumerations and every time the scheduler stores is a number.
THEOREM TypeCorrect == Spec => []TypeOK
BY TypeInit, TypeStep, PTL DEF Spec

----------------------------------------------------------------------------
\* Claims.

\* The inductive invariant behind the claim properties.  A Run that has ended is
\* quiet; the scheduler has left nothing on a Run that is not scheduled; and the
\* Attempts of a scheduled Run are in step with the dispatches of its job, the
\* newest alone possibly active, and not when the job is paused or ended.
QuietAtEnd == \A r \in Runs : run[r] # "running" => ActiveAttempts(r) = {}

Untouched == \A r \in Runs \ Scheduled : mark[r] = "queued" /\ dispatches[r] = <<>>

JobClaim(j) ==
    /\ Len(attempts[j]) = Len(dispatches[j])
    /\ \A k \in DOMAIN dispatches[j] : dispatches[j][k].attempt = k
    /\ ActiveAttempts(j) \subseteq {Len(attempts[j])}
    /\ mark[j] = "paused" => ActiveAttempts(j) = {}
    /\ mark[j] \in Terminal => run[j] = mark[j]

ClaimInv ==
    /\ TypeOK
    /\ QuietAtEnd
    /\ Untouched
    /\ \A j \in Scheduled : JobClaim(j)

\* Closing an Attempt takes it, and no other, off the active ones.
LEMMA ClosedActive ==
    ASSUME attempts \in [Runs -> Seq(Attempt)], NEW r \in Runs, NEW i,
           NEW status \in AttemptStatus \ {"running"}, NEW failure,
           attempts' = Closed(r, i, status, failure)
    PROVE  /\ ActiveAttempts(r)' = ActiveAttempts(r) \ {i}
           /\ Len(attempts'[r]) = Len(attempts[r])
           /\ \A q \in Runs \ {r} : attempts'[q] = attempts[q]
<1> DEFINE a    == attempts[r]
           new  == [candidate |-> a[i].candidate, status |-> status, failure |-> failure]
<1>1. attempts' = [attempts EXCEPT ![r] = [a EXCEPT ![i] = new]]
  BY DEF Closed
<1>2. new.status # "running"
  OBVIOUS
<1> HIDE DEF new
<1>3. attempts'[r] = [a EXCEPT ![i] = new]
  BY <1>1
<1>4. a \in Seq(Attempt)
  OBVIOUS
<1>5. DOMAIN attempts'[r] = DOMAIN a /\ Len(attempts'[r]) = Len(a)
  BY <1>3, <1>4
<1>6. \A k \in DOMAIN a : attempts'[r][k] = IF k = i THEN new ELSE a[k]
  BY <1>3
<1>7. ActiveAttempts(r)' = ActiveAttempts(r) \ {i}
  BY <1>2, <1>5, <1>6 DEF ActiveAttempts
<1> QED
  BY <1>1, <1>5, <1>7

\* Starting an Attempt adds one active Attempt, the newest.
LEMMA StartedActive ==
    ASSUME attempts \in [Runs -> Seq(Attempt)], NEW r \in Runs, NEW c,
           attempts' = Started(r, c)
    PROVE  /\ ActiveAttempts(r)' = ActiveAttempts(r) \cup {Len(attempts[r]) + 1}
           /\ Len(attempts'[r]) = Len(attempts[r]) + 1
           /\ \A q \in Runs \ {r} : attempts'[q] = attempts[q]
<1> DEFINE a    == attempts[r]
           new  == [candidate |-> c, status |-> "running", failure |-> "none"]
<1>1. attempts' = [attempts EXCEPT ![r] = Append(a, new)]
  BY DEF Started
<1>2. new.status = "running"
  OBVIOUS
<1> HIDE DEF new
<1>3. attempts'[r] = Append(a, new)
  BY <1>1
<1>4. a \in Seq(Attempt)
  OBVIOUS
<1>5. /\ DOMAIN attempts'[r] = DOMAIN a \cup {Len(a) + 1}
      /\ Len(attempts'[r]) = Len(a) + 1
  BY <1>3, <1>4
<1>6. /\ \A k \in DOMAIN a : attempts'[r][k] = a[k]
      /\ attempts'[r][Len(a) + 1] = new
  BY <1>3, <1>4
<1>7. ActiveAttempts(r)' = ActiveAttempts(r) \cup {Len(a) + 1}
  BY <1>2, <1>5, <1>6 DEF ActiveAttempts
<1> QED
  BY <1>1, <1>5, <1>7

\* What a step leaves of a Run alone keeps the Run's active Attempts, and the
\* claim of its job.
LEMMA ActiveFrame ==
    ASSUME NEW r, attempts'[r] = attempts[r]
    PROVE  ActiveAttempts(r)' = ActiveAttempts(r)
BY DEF ActiveAttempts

\* What keeps a job's Run, mark, Attempts and dispatches keeps its claim.
LEMMA ClaimFrame ==
    ASSUME NEW j, JobClaim(j),
           attempts'[j] = attempts[j], dispatches'[j] = dispatches[j],
           mark'[j] = mark[j], run'[j] = run[j]
    PROVE  JobClaim(j)'
BY ActiveFrame DEF JobClaim

\* An active Attempt shows in the status of the job.
LEMMA ActiveStatus ==
    ASSUME ClaimInv, NEW j \in Scheduled, ActiveAttempts(j) # {}
    PROVE  /\ run[j] = "running"
           /\ Reconciled(j) \in {"running", "recovery_required"}
<1>1. j \in Runs /\ JobClaim(j) /\ run[j] = "running"
  BY DEF ClaimInv, TypeOK, QuietAtEnd
<1>2. mark[j] \notin Terminal /\ mark[j] # "paused"
  BY <1>1 DEF JobClaim, Terminal
<1>3. /\ attempts[j] \in Seq(Attempt) /\ dispatches[j] \in Seq(Dispatch)
      /\ Len(attempts[j]) \in DOMAIN attempts[j]
      /\ attempts[j][Len(attempts[j])].status = "running"
  BY <1>1 DEF ClaimInv, TypeOK, JobClaim, ActiveAttempts
<1>4. dispatches[j] # <<>> /\ Latest(j).attempt = Len(attempts[j])
  BY <1>1, <1>3 DEF JobClaim, Latest
<1>5. LatestAttempt(j).status = "running"
  BY <1>3, <1>4 DEF LatestAttempt
<1> QED
  BY <1>1, <1>2, <1>4, <1>5 DEF Reconciled

\* Nothing is eligible, or can be paused, while an Attempt is active.
LEMMA ActiveView ==
    ASSUME ClaimInv, NEW j \in Scheduled, NEW ts, ActiveAttempts(j) # {}
    PROVE  /\ View(j, ts).status \in {"running", "recovery_required"}
           /\ ~Eligible(j, ts)
<1>1. Reconciled(j) \in {"running", "recovery_required"}
  BY ActiveStatus
<1> QED
  BY <1>1 DEF View, Eligible, Terminal

\* The claim invariant holds before any job is queued.
LEMMA ClaimInit == Init => ClaimInv
<1> SUFFICES ASSUME Init PROVE ClaimInv
  OBVIOUS
<1>1. TypeOK
  BY TypeInit
<1>2. Scheduled = {} /\ QuietAtEnd /\ Untouched
  BY DEF Init, Scheduled, QuietAtEnd, Untouched
<1> QED
  BY <1>1, <1>2 DEF ClaimInv

\* Every action keeps the claim invariant, one action per step.
LEMMA ClaimStep == ClaimInv /\ [Next]_vars => ClaimInv'
<1> SUFFICES ASSUME ClaimInv, [Next]_vars PROVE ClaimInv'
  OBVIOUS
<1>0. TypeOK /\ TypeOK'
  BY TypeStep DEF ClaimInv
<1>a. Scheduled \subseteq Runs /\ attempts \in [Runs -> Seq(Attempt)]
  BY <1>0 DEF TypeOK
<1> DEFINE Kept == QuietAtEnd' /\ Untouched' /\ \A j \in Scheduled' : JobClaim(j)'
<1>1. ASSUME UNCHANGED <<run, attempts, job, mark, dispatches>>
      PROVE  Kept
  <2>1. Scheduled' = Scheduled
    BY <1>1 DEF Scheduled
  <2> QED
    BY <1>1, <2>1, ClaimFrame, ActiveFrame DEF ClaimInv, QuietAtEnd, Untouched
<1>2. ASSUME NEW r \in Runs, NEW c \in Candidates, StartAttempt(r, c)
      PROVE  Kept
  <2>1. /\ r \notin Scheduled /\ run[r] = "running" /\ Scheduled' = Scheduled
        /\ run' = run /\ mark' = mark /\ dispatches' = dispatches
    BY <1>2 DEF StartAttempt, AppendEvents, jobVars, Scheduled
  <2>2. \A q \in Runs \ {r} : attempts'[q] = attempts[q]
    BY <1>2, <1>a, StartedActive DEF StartAttempt
  <2>3. QuietAtEnd'
    BY <2>1, <2>2, ActiveFrame DEF ClaimInv, QuietAtEnd
  <2>4. \A j \in Scheduled' : JobClaim(j)'
    BY <1>a, <2>1, <2>2, ClaimFrame DEF ClaimInv
  <2> QED
    BY <2>1, <2>3, <2>4 DEF ClaimInv, Untouched
<1>3. ASSUME NEW r \in Runs, NEW i, NEW status \in AttemptStatus \ {"running"},
             NEW failure \in Failures, NEW usage, CloseAttempt(r, i, status, failure, usage)
      PROVE  Kept
  <2>1. /\ Scheduled' = Scheduled
        /\ run' = run /\ mark' = mark /\ dispatches' = dispatches
    BY <1>3 DEF CloseAttempt, jobVars, Scheduled
  <2>2. /\ ActiveAttempts(r)' = ActiveAttempts(r) \ {i}
        /\ Len(attempts'[r]) = Len(attempts[r])
        /\ \A q \in Runs \ {r} : attempts'[q] = attempts[q]
    BY <1>3, <1>a, ClosedActive DEF CloseAttempt
  <2>3. QuietAtEnd'
    BY <2>1, <2>2, ActiveFrame DEF ClaimInv, QuietAtEnd
  <2>4. \A j \in Scheduled' : JobClaim(j)'
    <3>1. ASSUME r \in Scheduled PROVE JobClaim(r)'
      BY <2>1, <2>2, <3>1 DEF ClaimInv, JobClaim
    <3> QED
      BY <1>a, <2>1, <2>2, <3>1, ClaimFrame DEF ClaimInv
  <2> QED
    BY <2>1, <2>3, <2>4 DEF ClaimInv, Untouched
<1>4. ASSUME NEW r \in Runs, NEW status,
             /\ ActiveAttempts(r) = {}
             /\ AppendEvents({r}, clock)
             /\ run' = [run EXCEPT ![r] = status]
             /\ UNCHANGED <<attempts, worktree, used, jobVars>>
      PROVE  Kept
  <2>1. /\ Scheduled' = Scheduled /\ run[r] = "running"
        /\ attempts' = attempts /\ mark' = mark /\ dispatches' = dispatches
    BY <1>4 DEF AppendEvents, jobVars, Scheduled
  <2>2. \A q \in Runs \ {r} : run'[q] = run[q]
    BY <1>4, <1>0 DEF TypeOK
  <2>3. QuietAtEnd'
    BY <1>4, <2>1, <2>2, ActiveFrame DEF ClaimInv, QuietAtEnd
  <2>4. \A j \in Scheduled' : JobClaim(j)'
    <3>1. ASSUME r \in Scheduled PROVE JobClaim(r)'
      BY <2>1, <3>1, ActiveFrame DEF ClaimInv, JobClaim, Terminal
    <3> QED
      BY <1>a, <2>1, <2>2, <3>1, ClaimFrame DEF ClaimInv
  <2> QED
    BY <2>1, <2>3, <2>4 DEF ClaimInv, Untouched
<1>5. ASSUME NEW r \in Runs, NEW spec, NEW deps, Enqueue(r, spec, deps)
      PROVE  Kept
  <2>1. /\ Scheduled' = Scheduled \cup {r} /\ r \notin Scheduled /\ attempts[r] = <<>>
        /\ run' = run /\ attempts' = attempts
        /\ mark' = mark /\ dispatches' = dispatches
    BY <1>5 DEF Enqueue, runVars, Scheduled
  <2>2. QuietAtEnd'
    BY <2>1, ActiveFrame DEF ClaimInv, QuietAtEnd
  <2>3. JobClaim(r)'
    <3>1. mark[r] = "queued" /\ dispatches[r] = <<>>
      BY <2>1 DEF ClaimInv, Untouched
    <3>2. ActiveAttempts(r)' = {}
      BY <2>1 DEF ActiveAttempts
    <3> QED
      BY <2>1, <3>1, <3>2 DEF JobClaim, Terminal
  <2>4. \A j \in Scheduled : JobClaim(j)'
    BY <1>a, <2>1, ClaimFrame DEF ClaimInv
  <2> QED
    BY <2>1, <2>2, <2>3, <2>4 DEF ClaimInv, Untouched
<1>6. ASSUME NEW j \in Scheduled, NEW m \in {"paused", "queued"},
             m = "paused" => ActiveAttempts(j) = {},
             AppendEvents({j}, clock), mark' = [mark EXCEPT ![j] = m],
             UNCHANGED <<runVars, job, dispatches>>
      PROVE  Kept
  <2>1. /\ Scheduled' = Scheduled /\ run' = run /\ attempts' = attempts
        /\ dispatches' = dispatches
    BY <1>6 DEF runVars, Scheduled
  <2>2. mark'[j] = m /\ \A q \in Runs \ {j} : mark'[q] = mark[q]
    BY <1>6, <1>0 DEF TypeOK
  <2>3. QuietAtEnd' /\ Untouched'
    BY <1>a, <2>1, <2>2, ActiveFrame DEF ClaimInv, QuietAtEnd, Untouched
  <2>4. JobClaim(j)'
    BY <1>6, <2>1, <2>2, ActiveFrame DEF ClaimInv, JobClaim, Terminal
  <2> QED
    BY <1>a, <2>1, <2>2, <2>3, <2>4, ClaimFrame DEF ClaimInv
<1>7. ASSUME NEW j \in Scheduled, Pause(j) \/ Resume(j)
      PROVE  Kept
  <2>1. Pause(j) => ActiveAttempts(j) = {}
    BY ActiveView DEF Pause
  <2> QED
    BY <1>6, <1>7, <2>1 DEF Pause, Resume
<1>8. ASSUME NEW j \in Scheduled, NEW d \in DOMAIN dispatches[j], NEW ts,
             NEW extension, RenewLease(j, d, ts, extension)
      PROVE  Kept
  <2> DEFINE old     == dispatches[j][d]
             renewed == [attempt |-> old.attempt, at |-> old.at,
                         expires |-> old.expires + extension]
  <2>1. /\ Scheduled' = Scheduled /\ run' = run /\ attempts' = attempts /\ mark' = mark
        /\ dispatches' = [dispatches EXCEPT ![j] = [dispatches[j] EXCEPT ![d] = renewed]]
    BY <1>8 DEF RenewLease, runVars, Scheduled
  <2>2. renewed.attempt = old.attempt
    OBVIOUS
  <2> HIDE DEF renewed
  <2>3. /\ dispatches'[j] = [dispatches[j] EXCEPT ![d] = renewed]
        /\ \A q \in Runs \ {j} : dispatches'[q] = dispatches[q]
        /\ dispatches[j] \in Seq(Dispatch)
    BY <1>0, <1>a, <2>1 DEF TypeOK
  <2>4. /\ Len(dispatches'[j]) = Len(dispatches[j])
        /\ DOMAIN dispatches'[j] = DOMAIN dispatches[j]
        /\ \A k \in DOMAIN dispatches[j] :
              dispatches'[j][k].attempt = dispatches[j][k].attempt
    BY <2>2, <2>3
  <2>5. QuietAtEnd' /\ Untouched'
    BY <1>a, <2>1, <2>3, ActiveFrame DEF ClaimInv, QuietAtEnd, Untouched
  <2>6. JobClaim(j)'
    BY <2>1, <2>4, ActiveFrame DEF ClaimInv, JobClaim
  <2> QED
    BY <1>a, <2>1, <2>3, <2>5, <2>6, ClaimFrame DEF ClaimInv
<1>9. ASSUME NEW j \in Scheduled, NEW usage, ResolveRecovery(j, usage)
      PROVE  Kept
  <2>1. /\ Scheduled' = Scheduled /\ run' = run /\ dispatches' = dispatches
        /\ mark'[j] = "queued" /\ \A q \in Runs \ {j} : mark'[q] = mark[q]
    BY <1>9, <1>0, <1>a DEF ResolveRecovery, Scheduled, TypeOK
  <2>2. /\ ActiveAttempts(j)' = ActiveAttempts(j) \ {FirstActive(j)}
        /\ Len(attempts'[j]) = Len(attempts[j])
        /\ \A q \in Runs \ {j} : attempts'[q] = attempts[q]
    BY <1>9, <1>a, ClosedActive DEF ResolveRecovery, AttemptStatus
  <2>3. QuietAtEnd' /\ Untouched'
    BY <1>a, <2>1, <2>2, ActiveFrame DEF ClaimInv, QuietAtEnd, Untouched
  <2>4. JobClaim(j)'
    BY <2>1, <2>2 DEF ClaimInv, JobClaim, Terminal
  <2> QED
    BY <1>a, <2>1, <2>2, <2>3, <2>4, ClaimFrame DEF ClaimInv
<1>10. ASSUME NEW j \in Scheduled, NEW status, NEW usage, Terminalize(j, status, usage)
       PROVE  Kept
  <2>1. /\ Scheduled' = Scheduled /\ dispatches' = dispatches
        /\ mark'[j] = status /\ run'[j] = status
        /\ \A q \in Runs \ {j} : mark'[q] = mark[q] /\ run'[q] = run[q]
    BY <1>10, <1>0, <1>a DEF Terminalize, Scheduled, TypeOK
  <2>2. /\ ActiveAttempts(j)' = {}
        /\ Len(attempts'[j]) = Len(attempts[j])
        /\ \A q \in Runs \ {j} : attempts'[q] = attempts[q]
    <3>1. CASE ActiveAttempts(j) = {} /\ attempts' = attempts
      BY <3>1, ActiveFrame
    <3>2. CASE /\ ActiveAttempts(j) = {FirstActive(j)}
               /\ attempts' = Closed(j, FirstActive(j), "failed", "blocked")
      BY <3>2, <1>a, ClosedActive DEF AttemptStatus
    <3> QED
      BY <1>10, <3>1, <3>2 DEF Terminalize
  <2>3. QuietAtEnd' /\ Untouched'
    BY <1>a, <2>1, <2>2, ActiveFrame DEF ClaimInv, QuietAtEnd, Untouched
  <2>4. JobClaim(j)'
    BY <2>1, <2>2 DEF ClaimInv, JobClaim
  <2> QED
    BY <1>a, <2>1, <2>2, <2>3, <2>4, ClaimFrame DEF ClaimInv
<1>11. ASSUME NEW ts, Tick(ts)
       PROVE  Kept
  <2>1. /\ Scheduled' = Scheduled /\ run' = run /\ attempts' = attempts
        /\ dispatches' = dispatches
    BY <1>11 DEF Tick, runVars, Scheduled
  <2>2. \A q \in Runs : mark'[q] = IF q \in ExpiredJobs(ts) THEN "recovery_required"
                                   ELSE IF q \in AttentionJobs(ts) THEN "paused"
                                   ELSE mark[q]
    BY <1>11 DEF Tick
  <2>3. \A q \in AttentionJobs(ts) : q \in Scheduled /\ ActiveAttempts(q) = {}
    BY ActiveView DEF AttentionJobs
  <2>4. ExpiredJobs(ts) \subseteq Scheduled
    BY DEF ExpiredJobs
  <2>5. QuietAtEnd' /\ Untouched'
    BY <1>a, <2>1, <2>2, <2>3, <2>4, ActiveFrame DEF ClaimInv, QuietAtEnd, Untouched
  <2>6. \A j \in Scheduled : JobClaim(j)'
    BY <1>a, <2>1, <2>2, <2>3, ActiveFrame DEF ClaimInv, JobClaim, Terminal
  <2> QED
    BY <2>1, <2>5, <2>6
<1>12. ASSUME NEW j \in Scheduled, NEW c, NEW ts, Eligible(j, ts), Claim(j, c, ts)
       PROVE  Kept
  <2> DEFINE new == [attempt |-> Len(attempts[j]) + 1, at |-> ts,
                     expires |-> ts + job[j].spec.lease]
  <2>1. /\ Scheduled' = Scheduled /\ run' = run /\ run[j] = "running"
        /\ dispatches' = [dispatches EXCEPT ![j] = Append(@, new)]
        /\ mark'[j] = "running" /\ \A q \in Runs \ {j} : mark'[q] = mark[q]
    BY <1>12, <1>0, <1>a DEF Claim, AppendEvents, Scheduled, TypeOK
  <2>2. /\ ActiveAttempts(j)' = {Len(attempts[j]) + 1}
        /\ Len(attempts'[j]) = Len(attempts[j]) + 1
        /\ \A q \in Runs \ {j} : attempts'[q] = attempts[q]
    <3>1. ActiveAttempts(j) = {}
      BY <1>12, ActiveView
    <3> QED
      BY <1>12, <1>a, <3>1, StartedActive DEF Claim
  <2>3. new.attempt = Len(attempts[j]) + 1
    OBVIOUS
  <2> HIDE DEF new
  <2>4. /\ dispatches'[j] = Append(dispatches[j], new)
        /\ \A q \in Runs \ {j} : dispatches'[q] = dispatches[q]
        /\ dispatches[j] \in Seq(Dispatch)
    BY <1>0, <1>a, <2>1 DEF TypeOK
  <2>5. /\ Len(dispatches'[j]) = Len(dispatches[j]) + 1
        /\ \A k \in DOMAIN dispatches'[j] :
              dispatches'[j][k] = IF k = Len(dispatches[j]) + 1 THEN new
                                  ELSE dispatches[j][k]
        /\ DOMAIN dispatches'[j] = DOMAIN dispatches[j] \cup {Len(dispatches[j]) + 1}
    BY <2>4
  <2>6. QuietAtEnd' /\ Untouched'
    BY <1>a, <2>1, <2>2, <2>4, ActiveFrame DEF ClaimInv, QuietAtEnd, Untouched
  <2>7. JobClaim(j)'
    BY <2>1, <2>2, <2>3, <2>5 DEF ClaimInv, JobClaim, Terminal
  <2> QED
    BY <1>a, <2>1, <2>2, <2>4, <2>6, <2>7, ClaimFrame DEF ClaimInv
<1> HIDE DEF Kept
<1>13. ASSUME NEW j \in Scheduled, NEW ts, DispatchJob(j, ts)
       PROVE  Kept
  BY <1>1, <1>12, <1>13 DEF DispatchJob, Defer, runVars, jobVars
<1>14. ASSUME NEW r \in Runs, RunStep(r)
       PROVE  Kept
  <2>1. ASSUME PrepareWorktree(r) PROVE Kept
    BY <1>1, <2>1 DEF PrepareWorktree, jobVars
  <2>2. ASSUME CompleteRun(r) PROVE Kept
    BY <1>4, <2>2 DEF CompleteRun
  <2>3. ASSUME NEW status, FailRun(r, status) PROVE Kept
    BY <1>4, <2>3 DEF FailRun
  <2> QED
    BY <1>2, <1>3, <1>14, <2>1, <2>2, <2>3
       DEF RunStep, CompleteAttempt, FailAttempt, AttemptStatus, Failures
<1>15. ASSUME NEW j \in Scheduled, JobStep(j)
       PROVE  Kept
  BY <1>7, <1>8, <1>9, <1>10, <1>15 DEF JobStep
<1>16. ASSUME UNCHANGED vars PROVE Kept
  BY <1>1, <1>16 DEF vars
<1>17. ASSUME AdvanceClock PROVE Kept
  BY <1>1, <1>17 DEF AdvanceClock, runVars, jobVars
<1>18. ASSUME Next PROVE Kept
  BY <1>5, <1>11, <1>13, <1>14, <1>15, <1>17, <1>18
     DEF Next, Operate, DispatchNamed, DispatchNext
<1>19. Kept
  BY <1>16, <1>18
<1> QED
  BY <1>0, <1>19 DEF Kept, ClaimInv

\* The claim invariant holds in every reachable state.
LEMMA ClaimInvariant == Spec => []ClaimInv
BY ClaimInit, ClaimStep, PTL DEF Spec

\* Whatever dispatchers, ticks, late workers and operators race, and however
\* many, a scheduled Run has no active Attempt but that of the newest dispatch.
THEOREM SingleClaimHolds == Spec => []SingleClaim
<1>1. ClaimInv => SingleClaim
  <2> SUFFICES ASSUME ClaimInv, NEW j \in Scheduled, NEW i \in ActiveAttempts(j)
               PROVE  dispatches[j] # <<>> /\ i = Latest(j).attempt
    BY DEF SingleClaim
  <2>1. /\ JobClaim(j) /\ i = Len(attempts[j]) /\ i \in DOMAIN attempts[j]
        /\ attempts[j] \in Seq(Attempt) /\ dispatches[j] \in Seq(Dispatch)
    BY DEF ClaimInv, TypeOK, JobClaim, ActiveAttempts
  <2> QED
    BY <2>1 DEF JobClaim, Latest
<1> QED
  BY <1>1, ClaimInvariant, PTL

\* Attempts and dispatches of a scheduled Run stay in step, one to one.
THEOREM AttemptsAreDispatchedHolds == Spec => []AttemptsAreDispatched
<1>1. ClaimInv => AttemptsAreDispatched
  BY DEF ClaimInv, JobClaim, AttemptsAreDispatched
<1> QED
  BY <1>1, ClaimInvariant, PTL

\* A worker is only active while its job says so.
THEOREM ActiveOnlyUnderLeaseHolds == Spec => []ActiveOnlyUnderLease
<1>1. ClaimInv => ActiveOnlyUnderLease
  BY ActiveStatus DEF ActiveOnlyUnderLease
<1> QED
  BY <1>1, ClaimInvariant, PTL

\* A job that is cancelled or timed out ends with its Run, and no ended Run has
\* an active Attempt.
THEOREM TerminalTogetherHolds == Spec => []TerminalTogether
<1>1. ClaimInv => TerminalTogether
  BY DEF ClaimInv, QuietAtEnd, JobClaim, TerminalTogether
<1> QED
  BY <1>1, ClaimInvariant, PTL

----------------------------------------------------------------------------
\* What a step does to one Run and its job.

Keeps(r) ==
    /\ attempts'[r] = attempts[r] /\ dispatches'[r] = dispatches[r] /\ used'[r] = used[r]
    /\ mark'[r] = mark[r] /\ run'[r] = run[r]
    /\ r \in Scheduled' <=> r \in Scheduled
    /\ r \in Scheduled => job'[r] = job[r]

\* The only Attempt that may be active, the newest, is closed.
Closes(j, status, failure) ==
    LET newest == Len(attempts[j])
    IN  /\ ActiveAttempts(j) = {newest} /\ newest \in DOMAIN attempts[j]
        /\ attempts'[j] = [attempts[j] EXCEPT ![newest] =
                              [candidate |-> attempts[j][newest].candidate,
                               status |-> status, failure |-> failure]]
        /\ ActiveAttempts(j)' = {}

Marks(j, m) ==
    /\ mark'[j] = m
    /\ attempts'[j] = attempts[j] /\ dispatches'[j] = dispatches[j] /\ used'[j] = used[j]
    /\ run'[j] = run[j]

Pauses(j) ==
    /\ Marks(j, "paused")
    /\ \E ts \in 0..clock : View(j, ts).status \in {"queued", "waiting", "ready",
                                                    "retry_ready", "needs_attention"}
Resumes(j)  == Marks(j, "queued") /\ Reconciled(j) = "paused"
Suspects(j) ==
    /\ Marks(j, "recovery_required")
    /\ \E ts \in 0..clock :
          View(j, ts).status = "running" /\ Latest(j).expires <= ts /\ lastTs'[j] = ts

Finishes(j) ==
    /\ ActiveAttempts(j) = {} /\ run'[j] \in Terminal
    /\ attempts'[j] = attempts[j] /\ dispatches'[j] = dispatches[j] /\ used'[j] = used[j]
    /\ mark'[j] = mark[j]
Releases(j) ==
    /\ \E status \in {"succeeded", "failed"}, failure \in Failures : Closes(j, status, failure)
    /\ dispatches'[j] = dispatches[j] /\ mark'[j] = mark[j] /\ run'[j] = run[j]
Recovers(j) ==
    /\ Reconciled(j) = "recovery_required"
    /\ Closes(j, "failed", "retryable") /\ mark'[j] = "queued"
    /\ dispatches'[j] = dispatches[j] /\ run'[j] = run[j]
Ends(j) ==
    /\ Reconciled(j) \notin Terminal
    /\ mark'[j] \in {"cancelled", "timed_out"} /\ run'[j] = mark'[j]
    /\ \/ ActiveAttempts(j) = {} /\ attempts'[j] = attempts[j] /\ used'[j] = used[j]
       \/ Closes(j, "failed", "blocked")
    /\ dispatches'[j] = dispatches[j]
Renews(j) ==
    \E d \in DOMAIN dispatches[j], ts \in 0..clock, extension \in Extensions :
        RenewLease(j, d, ts, extension)
Claimed(j) ==
    \E c \in Candidates, ts \in 0..clock :
        /\ Eligible(j, ts) /\ HasCapacity /\ c \in Acceptable(j, Candidates)
        /\ Claim(j, c, ts)

JobMoves(j) ==
    /\ j \in Scheduled /\ j \in Scheduled' /\ job'[j] = job[j] /\ run[j] = "running"
    /\ \/ Pauses(j) \/ Resumes(j) \/ Suspects(j)
       \/ Finishes(j) \/ Releases(j) \/ Recovers(j) \/ Ends(j)
       \/ Renews(j) \/ Claimed(j)

Enters(r) ==
    /\ r \notin Scheduled /\ r \in Scheduled' /\ attempts[r] = <<>> /\ run[r] = "running"
    /\ lastTs'[r] = clock
    /\ attempts'[r] = attempts[r] /\ dispatches'[r] = dispatches[r] /\ mark'[r] = mark[r]
    /\ run'[r] = run[r]
    /\ \E spec \in Specs, deps \in DepLists :
          job'[r] = [spec |-> spec, deps |-> deps, queuedAt |-> clock]

Outside(r) ==
    /\ r \notin Scheduled /\ r \notin Scheduled' /\ run[r] = "running"
    /\ dispatches'[r] = dispatches[r] /\ mark'[r] = mark[r]

Sweeps(r) == Keeps(r) \/ (JobMoves(r) /\ (Pauses(r) \/ Suspects(r)))

\* One Run moves, or none does, or a tick sweeps all jobs.
StepShape ==
    \/ \A r \in Runs : Keeps(r)
    \/ \E r \in Runs : /\ JobMoves(r) \/ Enters(r) \/ Outside(r)
                       /\ \A q \in Runs \ {r} : Keeps(q)
    \/ \A r \in Runs : Sweeps(r)

\* A step that closes an Attempt of a job closes the active one.
LEMMA ClosesNewest ==
    ASSUME ClaimInv, NEW j \in Scheduled, NEW i \in ActiveAttempts(j),
           NEW status \in AttemptStatus \ {"running"}, NEW failure,
           attempts' = Closed(j, i, status, failure)
    PROVE  Closes(j, status, failure) /\ \A q \in Runs \ {j} : attempts'[q] = attempts[q]
<1>1. /\ j \in Runs /\ attempts \in [Runs -> Seq(Attempt)]
      /\ ActiveAttempts(j) \subseteq {Len(attempts[j])}
  BY DEF ClaimInv, TypeOK, JobClaim
<1>2. i = Len(attempts[j]) /\ ActiveAttempts(j) = {i} /\ i \in DOMAIN attempts[j]
  BY <1>1 DEF ActiveAttempts
<1>3. /\ ActiveAttempts(j)' = ActiveAttempts(j) \ {i}
      /\ \A q \in Runs \ {j} : attempts'[q] = attempts[q]
  BY <1>1, ClosedActive
<1>4. attempts'[j] = [attempts[j] EXCEPT ![i] = [candidate |-> attempts[j][i].candidate,
                                                 status |-> status, failure |-> failure]]
  BY <1>1 DEF Closed
<1> QED
  BY <1>2, <1>3, <1>4 DEF Closes

\* The first of the active Attempts of a job is the only one.
LEMMA FirstIsOnly ==
    ASSUME ClaimInv, NEW j \in Scheduled, ActiveAttempts(j) # {}
    PROVE  FirstActive(j) \in ActiveAttempts(j)
<1>1. ActiveAttempts(j) = {Len(attempts[j])} /\ Len(attempts[j]) \in Nat
  BY DEF ClaimInv, TypeOK, JobClaim
<1>2. \E i \in ActiveAttempts(j) : \A k \in ActiveAttempts(j) : i <= k
  BY <1>1
<1> QED
  BY <1>2 DEF FirstActive

\* Every step of the scheduler has the shape.
LEMMA ShapeStep ==
    ASSUME ClaimInv, [Next]_vars
    PROVE  StepShape
<1> USE ConstantsAssumption
<1>a. /\ TypeOK /\ Scheduled \subseteq Runs /\ attempts \in [Runs -> Seq(Attempt)]
      /\ dispatches \in [Runs -> Seq(Dispatch)] /\ used \in [Runs -> Nat]
      /\ mark \in [Runs -> JobMarks] /\ run \in [Runs -> RunStatus] /\ clock \in Nat
  BY DEF ClaimInv, TypeOK
<1>b. ASSUME UNCHANGED <<run, attempts, used, job, mark, dispatches>> PROVE StepShape
  <2>1. \A r \in Runs : Keeps(r)
    BY <1>b DEF Keeps, Scheduled
  <2> QED
    BY <2>1 DEF StepShape
<1>1. ASSUME NEW r \in Runs, NEW c \in Candidates, StartAttempt(r, c) PROVE StepShape
  <2>1. /\ r \notin Scheduled /\ run[r] = "running" /\ Scheduled' = Scheduled
        /\ UNCHANGED <<run, used, job, mark, dispatches>>
    BY <1>1 DEF StartAttempt, AppendEvents, jobVars, Scheduled
  <2>2. \A q \in Runs \ {r} : attempts'[q] = attempts[q]
    BY <1>1, <1>a, StartedActive DEF StartAttempt
  <2>3. Outside(r) /\ \A q \in Runs \ {r} : Keeps(q)
    BY <2>1, <2>2 DEF Outside, Keeps
  <2> QED
    BY <2>3 DEF StepShape
<1>2. ASSUME NEW r \in Runs, NEW i \in DOMAIN attempts[r], NEW status \in {"succeeded", "failed"},
             NEW failure \in Failures, NEW usage \in Usages,
             CloseAttempt(r, i, status, failure, usage)
      PROVE  StepShape
  <2>1. /\ run[r] = "running" /\ Scheduled' = Scheduled /\ UNCHANGED <<run, job, mark, dispatches>>
        /\ i \in ActiveAttempts(r) /\ attempts' = Closed(r, i, status, failure)
    BY <1>2 DEF CloseAttempt, AppendEvents, jobVars, Scheduled
  <2>2. \A q \in Runs \ {r} : attempts'[q] = attempts[q] /\ used'[q] = used[q]
    BY <1>2, <2>1, <1>a, ClosedActive DEF AttemptStatus, CloseAttempt
  <2>3. \A q \in Runs \ {r} : Keeps(q)
    BY <2>1, <2>2 DEF Keeps
  <2>4. r \notin Scheduled => Outside(r)
    BY <2>1 DEF Outside
  <2>5. ASSUME r \in Scheduled PROVE JobMoves(r)
    <3>1. Closes(r, status, failure)
      BY <2>1, <2>5, ClosesNewest DEF AttemptStatus
    <3>2. Releases(r)
      BY <2>1, <3>1 DEF Releases
    <3> QED
      BY <2>1, <2>5, <3>2 DEF JobMoves
  <2> QED
    BY <2>3, <2>4, <2>5 DEF StepShape
<1>3. ASSUME NEW r \in Runs, NEW status \in Terminal,
             /\ ActiveAttempts(r) = {}
             /\ AppendEvents({r}, clock)
             /\ run' = [run EXCEPT ![r] = status]
             /\ UNCHANGED <<attempts, worktree, used, jobVars>>
      PROVE  StepShape
  <2>1. /\ run[r] = "running" /\ Scheduled' = Scheduled
        /\ UNCHANGED <<attempts, used, job, mark, dispatches>>
    BY <1>3 DEF AppendEvents, jobVars, Scheduled
  <2>2. run'[r] = status /\ \A q \in Runs \ {r} : run'[q] = run[q]
    BY <1>3, <1>a
  <2>3. \A q \in Runs \ {r} : Keeps(q)
    BY <2>1, <2>2 DEF Keeps
  <2>4. r \notin Scheduled => Outside(r)
    BY <2>1 DEF Outside
  <2>5. ASSUME r \in Scheduled PROVE JobMoves(r)
    <3>1. Finishes(r)
      BY <1>3, <2>1, <2>2 DEF Finishes
    <3> QED
      BY <2>1, <2>5, <3>1 DEF JobMoves
  <2> QED
    BY <2>3, <2>4, <2>5 DEF StepShape
<1>4. ASSUME NEW r \in Runs, NEW spec \in Specs, NEW deps \in DepLists, Enqueue(r, spec, deps)
      PROVE  StepShape
  <2>1. /\ Scheduled' = Scheduled \cup {r} /\ r \notin Scheduled /\ attempts[r] = <<>>
        /\ run[r] = "running" /\ UNCHANGED <<run, attempts, used, mark, dispatches>>
        /\ job'[r] = [spec |-> spec, deps |-> deps, queuedAt |-> clock]
        /\ \A q \in Scheduled : job'[q] = job[q]
        /\ lastTs'[r] = clock
    BY <1>4 DEF Enqueue, AppendEvents, runVars, Scheduled
  <2>2. Enters(r) /\ \A q \in Runs \ {r} : Keeps(q)
    BY <2>1 DEF Enters, Keeps
  <2> QED
    BY <2>2 DEF StepShape
<1>5. ASSUME NEW j \in Scheduled, Pause(j) \/ Resume(j) PROVE StepShape
  <2>1. /\ run[j] = "running" /\ Scheduled' = Scheduled
        /\ UNCHANGED <<run, attempts, used, job, dispatches>>
    BY <1>5 DEF Pause, Resume, AppendEvents, runVars, Scheduled
  <2>2. \A q \in Runs \ {j} : mark'[q] = mark[q]
    BY <1>5, <1>a DEF Pause, Resume
  <2>3. \A q \in Runs \ {j} : Keeps(q)
    BY <2>1, <2>2 DEF Keeps
  <2>4. ASSUME Pause(j) PROVE Pauses(j)
    <3>1. clock \in 0..clock
      BY <1>a
    <3> QED
      BY <1>a, <2>1, <2>4, <3>1 DEF Pause, Pauses, Marks
  <2>5. ASSUME Resume(j) PROVE Resumes(j)
    BY <1>a, <2>1, <2>5 DEF Resume, Resumes, Marks
  <2>6. JobMoves(j)
    BY <1>5, <2>1, <2>4, <2>5 DEF JobMoves
  <2> QED
    BY <1>a, <2>3, <2>6 DEF StepShape
<1>6. ASSUME NEW j \in Scheduled, NEW d \in DOMAIN dispatches[j], NEW ts \in 0..clock,
             NEW extension \in Extensions, RenewLease(j, d, ts, extension)
      PROVE  StepShape
  <2>1. /\ run[j] = "running" /\ Scheduled' = Scheduled
        /\ UNCHANGED <<run, attempts, used, job, mark>>
    BY <1>6 DEF RenewLease, AppendEvents, runVars, Scheduled
  <2>2. \A q \in Runs \ {j} : dispatches'[q] = dispatches[q]
    BY <1>6, <1>a DEF RenewLease
  <2>3. Renews(j) /\ \A q \in Runs \ {j} : Keeps(q)
    BY <1>6, <2>1, <2>2 DEF Renews, Keeps
  <2> QED
    BY <1>a, <2>1, <2>3 DEF StepShape, JobMoves
<1>7. ASSUME NEW j \in Scheduled, NEW usage \in Usages, ResolveRecovery(j, usage) PROVE StepShape
  <2>1. /\ run[j] = "running" /\ Scheduled' = Scheduled /\ UNCHANGED <<run, job, dispatches>>
        /\ Reconciled(j) = "recovery_required" /\ ActiveAttempts(j) # {}
        /\ attempts' = Closed(j, FirstActive(j), "failed", "retryable")
    BY <1>7 DEF ResolveRecovery, AppendEvents, Scheduled
  <2>2. /\ mark'[j] = "queued"
        /\ \A q \in Runs \ {j} : mark'[q] = mark[q] /\ used'[q] = used[q]
    BY <1>7, <1>a DEF ResolveRecovery
  <2>3. Closes(j, "failed", "retryable") /\ \A q \in Runs \ {j} : attempts'[q] = attempts[q]
    BY <2>1, FirstIsOnly, ClosesNewest DEF AttemptStatus
  <2>4. Recovers(j) /\ \A q \in Runs \ {j} : Keeps(q)
    BY <2>1, <2>2, <2>3 DEF Recovers, Keeps
  <2> QED
    BY <1>a, <2>1, <2>4 DEF StepShape, JobMoves
<1>8. ASSUME NEW j \in Scheduled, NEW status \in FailStatuses \ {"failed"}, NEW usage \in Usages,
             Terminalize(j, status, usage)
      PROVE  StepShape
  <2>1. /\ run[j] = "running" /\ Scheduled' = Scheduled /\ UNCHANGED <<job, dispatches>>
        /\ Reconciled(j) \notin Terminal
    BY <1>8 DEF Terminalize, AppendEvents, Scheduled
  <2>2. /\ mark'[j] = status /\ run'[j] = status /\ status \in {"cancelled", "timed_out"}
        /\ \A q \in Runs \ {j} : mark'[q] = mark[q] /\ run'[q] = run[q] /\ used'[q] = used[q]
    BY <1>8, <1>a DEF Terminalize, RunFailures
  <2>3. \/ ActiveAttempts(j) = {} /\ attempts' = attempts /\ used'[j] = used[j]
        \/ Closes(j, "failed", "blocked") /\ \A q \in Runs \ {j} : attempts'[q] = attempts[q]
    <3>1. CASE ActiveAttempts(j) = {} /\ usage = 0 /\ attempts' = attempts
      <4>1. used'[j] = used[j]
        BY <1>8, <1>a, <3>1 DEF Terminalize
      <4> QED
        BY <3>1, <4>1
    <3>2. CASE ActiveAttempts(j) # {} /\ attempts' = Closed(j, FirstActive(j), "failed", "blocked")
      BY <3>2, FirstIsOnly, ClosesNewest DEF AttemptStatus
    <3> QED
      BY <1>8, <3>1, <3>2 DEF Terminalize
  <2>4. Ends(j) /\ \A q \in Runs \ {j} : Keeps(q)
    BY <2>1, <2>2, <2>3 DEF Ends, Keeps
  <2> QED
    BY <1>a, <2>1, <2>4 DEF StepShape, JobMoves
<1>9. ASSUME NEW ts \in 0..clock, Tick(ts) PROVE StepShape
  <2>1. /\ Scheduled' = Scheduled /\ UNCHANGED <<run, attempts, used, job, dispatches>>
        /\ \A r \in ExpiredJobs(ts) \cup AttentionJobs(ts) : run[r] = "running"
        /\ mark' = [r \in Runs |-> IF r \in ExpiredJobs(ts) THEN "recovery_required"
                                   ELSE IF r \in AttentionJobs(ts) THEN "paused" ELSE mark[r]]
        /\ \A r \in Runs : r \in ExpiredJobs(ts) => lastTs'[r] = ts
    BY <1>9 DEF Tick, AppendEvents, runVars, Scheduled
  <2>2. ASSUME NEW r \in Runs PROVE Sweeps(r)
    <3>1. CASE r \in ExpiredJobs(ts)
      <4>1. Suspects(r) /\ r \in Scheduled
        BY <2>1, <3>1 DEF Suspects, Marks, ExpiredJobs
      <4> QED
        BY <2>1, <3>1, <4>1 DEF Sweeps, JobMoves
    <3>2. CASE r \in AttentionJobs(ts) \ ExpiredJobs(ts)
      <4>1. Pauses(r) /\ r \in Scheduled
        BY <2>1, <3>2 DEF Pauses, Marks, AttentionJobs
      <4> QED
        BY <2>1, <3>2, <4>1 DEF Sweeps, JobMoves
    <3>3. CASE r \notin ExpiredJobs(ts) \cup AttentionJobs(ts)
      BY <2>1, <3>3 DEF Sweeps, Keeps
    <3> QED
      BY <3>1, <3>2, <3>3
  <2> QED
    BY <2>2 DEF StepShape
<1>10. ASSUME NEW j \in Scheduled, NEW c \in Acceptable(j, Candidates), NEW ts \in 0..clock,
              c \in Candidates, Eligible(j, ts), HasCapacity, Claim(j, c, ts)
       PROVE  StepShape
  <2>1. /\ run[j] = "running" /\ Scheduled' = Scheduled /\ UNCHANGED <<run, used, job>>
        /\ attempts' = Started(j, c)
    BY <1>10 DEF Claim, AppendEvents, Scheduled
  <2>2. \A q \in Runs \ {j} : /\ attempts'[q] = attempts[q] /\ mark'[q] = mark[q]
                              /\ dispatches'[q] = dispatches[q]
    BY <1>10, <1>a, <2>1, StartedActive DEF Claim
  <2>3. Claimed(j) /\ \A q \in Runs \ {j} : Keeps(q)
    BY <1>10, <2>1, <2>2 DEF Claimed, Keeps
  <2> QED
    BY <1>a, <2>1, <2>3 DEF StepShape, JobMoves
<1> HIDE DEF StepShape
<1>11. ASSUME NEW j \in Scheduled, NEW ts \in 0..clock, DispatchJob(j, ts) PROVE StepShape
  <2>1. ASSUME Defer(j, ts) PROVE StepShape
    BY <1>b, <2>1 DEF Defer, runVars, jobVars
  <2>2. ASSUME NEW routable \in SUBSET Candidates, NEW c \in Choices(j, routable),
               Eligible(j, ts), HasCapacity, Claim(j, c, ts)
        PROVE  StepShape
    <3>1. c \in Acceptable(j, routable)
      BY DEF Choices
    <3>2. c \in Acceptable(j, Candidates) /\ c \in Candidates
      BY <3>1 DEF Acceptable
    <3> QED
      BY <1>10, <2>2, <3>2
  <2> QED
    BY <1>11, <2>1, <2>2 DEF DispatchJob
<1>12. ASSUME NEW r \in Runs, RunStep(r) PROVE StepShape
  <2>1. ASSUME PrepareWorktree(r) PROVE StepShape
    BY <1>b, <2>1 DEF PrepareWorktree, jobVars
  <2>2. ASSUME CompleteRun(r) PROVE StepShape
    BY <1>3, <2>2 DEF CompleteRun, Terminal
  <2>3. ASSUME NEW status \in FailStatuses, FailRun(r, status) PROVE StepShape
    BY <1>3, <2>3 DEF FailRun, Terminal, RunFailures
  <2> QED
    BY <1>1, <1>2, <1>12, <2>1, <2>2, <2>3 DEF RunStep, CompleteAttempt, FailAttempt, Failures
<1>13. ASSUME NEW j \in Scheduled, JobStep(j) PROVE StepShape
  BY <1>5, <1>6, <1>7, <1>8, <1>13 DEF JobStep
<1>14. ASSUME AdvanceClock PROVE StepShape
  BY <1>b, <1>14 DEF AdvanceClock, runVars, jobVars
<1>15. ASSUME UNCHANGED vars PROVE StepShape
  BY <1>b, <1>15 DEF vars
<1>16. ASSUME Next PROVE StepShape
  BY <1>4, <1>9, <1>11, <1>12, <1>13, <1>14, <1>16
     DEF Next, Operate, DispatchNamed, DispatchNext
<1> QED
  BY <1>15, <1>16

----------------------------------------------------------------------------
\* Leases.

\* A recovery mark shows in the status of the job.
LEMMA RecoveryStatus ==
    ASSUME ClaimInv, NEW j \in Scheduled, mark[j] = "recovery_required"
    PROVE  /\ Reconciled(j) \in Terminal \cup {"recovery_required"}
           /\ \A ts : View(j, ts).status \in Terminal \cup {"recovery_required"}
           /\ \A ts : ~Eligible(j, ts)
<1>1. run[j] \in RunStatus
  BY DEF ClaimInv, TypeOK
<1>2. Reconciled(j) \in Terminal \cup {"recovery_required"}
  BY <1>1 DEF Reconciled, Terminal, RunStatus, RunFailures
<1> QED
  BY <1>2 DEF View, Eligible, Terminal

\* What changes of the dispatches of a job when a lease is renewed.
LEMMA RenewedLease ==
    ASSUME ClaimInv, NEW j \in Scheduled, NEW d \in DOMAIN dispatches[j], NEW ts \in 0..clock,
           NEW extension \in Extensions, RenewLease(j, d, ts, extension)
    PROVE  /\ View(j, ts).status = "running" /\ d = Len(dispatches[j]) /\ lastTs'[j] = ts
           /\ DOMAIN dispatches'[j] = DOMAIN dispatches[j]
           /\ Len(dispatches'[j]) = Len(dispatches[j])
           /\ \A k \in DOMAIN dispatches[j] \ {d} : dispatches'[j][k] = dispatches[j][k]
           /\ dispatches'[j][d].attempt = dispatches[j][d].attempt
           /\ dispatches'[j][d].at = dispatches[j][d].at
           /\ dispatches'[j][d].expires = dispatches[j][d].expires + extension
           /\ dispatches'[j][d].expires > dispatches[j][d].expires
           /\ RenewableTo(j, ts, dispatches'[j][d].expires)
           /\ UNCHANGED <<run, attempts, used, job, mark>>
<1> USE ConstantsAssumption
<1> DEFINE old     == dispatches[j][d]
           renewed == [attempt |-> old.attempt, at |-> old.at,
                       expires |-> old.expires + extension]
<1>1. /\ j \in Runs /\ dispatches \in [Runs -> Seq(Dispatch)] /\ dispatches[j] \in Seq(Dispatch)
  BY DEF ClaimInv, TypeOK
<1>2. old.expires \in Nat /\ extension \in Nat \ {0}
  <2>1. old \in Dispatch
    BY <1>1
  <2> QED
    BY <2>1 DEF Dispatch
<1>3. old.expires + extension > old.expires
  BY <1>2
<1>4. renewed.attempt = old.attempt /\ renewed.at = old.at
      /\ renewed.expires = old.expires + extension
  OBVIOUS
<1>5. /\ View(j, ts).status = "running" /\ d = Len(dispatches[j]) /\ lastTs'[j] = ts
      /\ RenewableTo(j, ts, old.expires + extension)
      /\ UNCHANGED <<run, attempts, used, job, mark>>
      /\ dispatches' = [dispatches EXCEPT ![j] = [dispatches[j] EXCEPT ![d] = renewed]]
  BY <1>1 DEF RenewLease, MayRenew, AppendEvents, runVars
<1> HIDE DEF renewed
<1>6. dispatches'[j] = [dispatches[j] EXCEPT ![d] = renewed]
  BY <1>1, <1>5
<1>7. /\ DOMAIN dispatches'[j] = DOMAIN dispatches[j]
      /\ Len(dispatches'[j]) = Len(dispatches[j])
      /\ dispatches'[j][d] = renewed
      /\ \A k \in DOMAIN dispatches[j] \ {d} : dispatches'[j][k] = dispatches[j][k]
  BY <1>1, <1>6
<1> QED
  BY <1>3, <1>4, <1>5, <1>7

\* What a dispatch adds to a job: one active Attempt, one lease.
LEMMA ClaimedLease ==
    ASSUME ClaimInv, NEW j \in Scheduled, NEW c \in Candidates, NEW ts \in 0..clock,
           Eligible(j, ts), Claim(j, c, ts)
    PROVE  LET n == Len(dispatches[j]) + 1
           IN  /\ n \in Nat /\ Len(attempts[j]) + 1 = n
               /\ Len(dispatches'[j]) = n /\ DOMAIN dispatches'[j] = 1..n
               /\ DOMAIN dispatches[j] = 1..(n - 1)
               /\ \A k \in 1..(n - 1) : dispatches'[j][k] = dispatches[j][k]
               /\ dispatches'[j][n].at = ts
               /\ dispatches'[j][n].expires = ts + job[j].spec.lease
               /\ Len(attempts'[j]) = n /\ DOMAIN attempts'[j] = 1..n
               /\ DOMAIN attempts[j] = 1..(n - 1)
               /\ \A k \in 1..(n - 1) : attempts'[j][k] = attempts[j][k]
               /\ attempts'[j][n].candidate = c /\ attempts'[j][n].status = "running"
               /\ ActiveAttempts(j) = {} /\ ActiveAttempts(j)' = {n}
               /\ \A q \in Runs \ {j} : /\ attempts'[q] = attempts[q]
                                        /\ dispatches'[q] = dispatches[q]
               /\ mark'[j] = "running" /\ UNCHANGED <<run, used, job>>
<1> DEFINE n      == Len(dispatches[j]) + 1
           lease  == [attempt |-> Len(attempts[j]) + 1, at |-> ts,
                      expires |-> ts + job[j].spec.lease]
           start  == [candidate |-> c, status |-> "running", failure |-> "none"]
<1>1. /\ j \in Runs /\ dispatches \in [Runs -> Seq(Dispatch)] /\ attempts \in [Runs -> Seq(Attempt)]
      /\ mark \in [Runs -> JobMarks] /\ JobClaim(j)
  BY DEF ClaimInv, TypeOK
<1>2. /\ n \in Nat /\ Len(attempts[j]) + 1 = n
      /\ DOMAIN dispatches[j] = 1..(n - 1) /\ DOMAIN attempts[j] = 1..(n - 1)
  <2>1. dispatches[j] \in Seq(Dispatch) /\ attempts[j] \in Seq(Attempt)
    BY <1>1
  <2>2. Len(attempts[j]) = Len(dispatches[j])
    BY <1>1 DEF JobClaim
  <2> QED
    BY <2>1, <2>2
<1>3. lease.at = ts /\ lease.expires = ts + job[j].spec.lease
  OBVIOUS
<1>4. start.candidate = c /\ start.status = "running"
  OBVIOUS
<1>5. /\ dispatches' = [dispatches EXCEPT ![j] = Append(@, lease)]
      /\ attempts' = [attempts EXCEPT ![j] = Append(attempts[j], start)]
      /\ mark' = [mark EXCEPT ![j] = "running"] /\ UNCHANGED <<run, used, job>>
      /\ attempts' = Started(j, c)
  BY DEF Claim, Started
<1> HIDE DEF lease, start, n
<1>6. dispatches'[j] = Append(dispatches[j], lease) /\ attempts'[j] = Append(attempts[j], start)
  BY <1>1, <1>5
<1>7. /\ Len(dispatches'[j]) = n /\ DOMAIN dispatches'[j] = 1..n /\ dispatches'[j][n] = lease
      /\ \A k \in 1..(n - 1) : dispatches'[j][k] = dispatches[j][k]
  <2>1. dispatches[j] \in Seq(Dispatch) /\ n = Len(dispatches[j]) + 1
    BY <1>1 DEF n
  <2> QED
    BY <1>6, <2>1
<1>8. /\ Len(attempts'[j]) = n /\ DOMAIN attempts'[j] = 1..n /\ attempts'[j][n] = start
      /\ \A k \in 1..(n - 1) : attempts'[j][k] = attempts[j][k]
  <2>1. attempts[j] \in Seq(Attempt) /\ n = Len(attempts[j]) + 1
    BY <1>1, <1>2
  <2> QED
    BY <1>6, <2>1
<1>9. ActiveAttempts(j) = {}
  BY ActiveView
<1>10. ActiveAttempts(j)' = {n}
  BY <1>1, <1>2, <1>5, <1>9, StartedActive
<1>11. mark'[j] = "running" /\ \A q \in Runs \ {j} : attempts'[q] = attempts[q]
                                                  /\ dispatches'[q] = dispatches[q]
  BY <1>1, <1>5
<1> QED
  BY <1>2, <1>3, <1>4, <1>5, <1>7, <1>8, <1>9, <1>10, <1>11 DEF n

\* A job that shows as running has a lease.
LEMMA RunningLease ==
    ASSUME ClaimInv, NEW j \in Scheduled, NEW ts, View(j, ts).status = "running"
    PROVE  dispatches[j] # <<>>
<1>1. Reconciled(j) = "running" \/ ActiveAttempts(j) # {}
  BY DEF View, Terminal
<1>2. j \in Runs /\ run[j] \in RunStatus /\ mark[j] \in JobMarks
  BY DEF ClaimInv, TypeOK
<1>3. ASSUME ActiveAttempts(j) # {} PROVE Len(dispatches[j]) # 0
  BY <1>2, <1>3 DEF ClaimInv, TypeOK, JobClaim, ActiveAttempts
<1> QED
  BY <1>1, <1>2, <1>3 DEF Reconciled, Terminal, RunStatus, RunFailures, JobMarks

\* A lease goes from one worker to the next only through its expiry, its recovery
\* and a new dispatch, however stale the timestamps of the calls are.
LEMMA LeaseStep ==
    ASSUME ClaimInv, StepShape, NEW j \in Scheduled
    PROVE  RecoveryBarrier(j) /\ NoEarlyRecovery(j) /\ RenewalBounded(j)
<1> USE ConstantsAssumption
<1> DEFINE Disciplined == RecoveryBarrier(j) /\ NoEarlyRecovery(j) /\ RenewalBounded(j)
<1>a. j \in Runs /\ clock \in Nat
  BY DEF ClaimInv, TypeOK
<1>1. ASSUME dispatches'[j] = dispatches[j], mark'[j] = mark[j] PROVE Disciplined
  BY <1>1 DEF RecoveryBarrier, NoEarlyRecovery, RenewalBounded
<1>2. ASSUME Pauses(j) \/ Resumes(j) PROVE Disciplined
  <2>1. mark[j] # "recovery_required"
    BY <1>2, RecoveryStatus DEF Pauses, Resumes, Terminal
  <2> QED
    BY <1>2, <2>1 DEF Pauses, Resumes, Marks, RecoveryBarrier, NoEarlyRecovery, RenewalBounded
<1>3. ASSUME Suspects(j) PROVE Disciplined
  <2>1. PICK ts \in 0..clock : Latest(j).expires <= ts
    BY <1>3 DEF Suspects
  <2>2. dispatches'[j] = dispatches[j] /\ mark'[j] = "recovery_required"
    BY <1>3 DEF Suspects, Marks
  <2>3. ASSUME mark[j] # "recovery_required" PROVE Latest(j).expires <= clock
    <3>1. dispatches[j] # <<>>
      BY <1>3, RunningLease DEF Suspects
    <3>2. Latest(j).expires \in Nat
      <4>1. dispatches[j] \in Seq(Dispatch) /\ Len(dispatches[j]) \in DOMAIN dispatches[j]
        BY <1>a, <3>1 DEF ClaimInv, TypeOK
      <4>2. Latest(j) \in Dispatch
        BY <4>1 DEF Latest
      <4> QED
        BY <4>2 DEF Dispatch
    <3> QED
      BY <1>a, <2>1, <3>2
  <2> QED
    BY <2>2, <2>3 DEF RecoveryBarrier, NoEarlyRecovery, RenewalBounded
<1>4. ASSUME Recovers(j) PROVE Disciplined
  <2>1. /\ ActiveAttempts(j) # {} /\ ActiveAttempts(j)' = {} /\ mark'[j] = "queued"
        /\ dispatches'[j] = dispatches[j]
    BY <1>4 DEF Recovers, Closes
  <2> QED
    BY <2>1 DEF RecoveryBarrier, NoEarlyRecovery, RenewalBounded
<1>5. ASSUME Ends(j) PROVE Disciplined
  BY <1>5 DEF Ends, Terminal, RecoveryBarrier, NoEarlyRecovery, RenewalBounded
<1>6. ASSUME Renews(j) PROVE Disciplined
  <2>1. PICK d \in DOMAIN dispatches[j], ts \in 0..clock, extension \in Extensions :
           RenewLease(j, d, ts, extension)
    BY <1>6 DEF Renews
  <2>2. mark'[j] = mark[j] /\ mark[j] # "recovery_required"
    BY <2>1, RenewedLease, RecoveryStatus DEF Terminal
  <2>3. RenewalBounded(j)
    BY <2>1, RenewedLease DEF RenewalBounded, RenewableTo
  <2> QED
    BY <2>2, <2>3 DEF RecoveryBarrier, NoEarlyRecovery
<1>7. ASSUME Claimed(j) PROVE Disciplined
  <2>1. PICK c \in Candidates, ts \in 0..clock : Eligible(j, ts) /\ Claim(j, c, ts)
    BY <1>7 DEF Claimed
  <2>2. mark[j] # "recovery_required" /\ mark'[j] = "running"
    BY <2>1, RecoveryStatus, ClaimedLease
  <2>3. \A k \in DOMAIN dispatches[j] : dispatches'[j][k] = dispatches[j][k]
    <3> DEFINE n == Len(dispatches[j]) + 1
    <3>1. /\ DOMAIN dispatches[j] = 1..(n - 1)
          /\ \A k \in 1..(n - 1) : dispatches'[j][k] = dispatches[j][k]
      BY <2>1, ClaimedLease
    <3> QED
      BY <3>1
  <2> QED
    BY <2>2, <2>3 DEF RecoveryBarrier, NoEarlyRecovery, RenewalBounded
<1> HIDE DEF Disciplined
<1>8. ASSUME JobMoves(j) PROVE Disciplined
  BY <1>1, <1>2, <1>3, <1>4, <1>5, <1>6, <1>7, <1>8 DEF JobMoves, Finishes, Releases
<1>9. ASSUME Keeps(j) PROVE Disciplined
  BY <1>1, <1>9 DEF Keeps
<1>10. Disciplined
  BY <1>a, <1>8, <1>9 DEF StepShape, Sweeps, Enters, Outside
<1> QED
  BY <1>10 DEF Disciplined

\* Workers, dispatchers and ticks race for a lease, and each brings a timestamp it
\* read before it had the lock: a lease is still only given on after it expired and
\* was recovered.
THEOREM LeaseDisciplineHolds == Spec => LeaseDiscipline
<1>1. ClaimInv /\ [Next]_vars =>
         [\A j \in Scheduled : RecoveryBarrier(j) /\ NoEarlyRecovery(j) /\ RenewalBounded(j)]_vars
  BY ShapeStep, LeaseStep
<1> QED
  BY <1>1, ClaimInvariant, PTL DEF Spec, LeaseDiscipline

----------------------------------------------------------------------------
\* The limits of a job.

\* Each lease of a job, renewed or not, is within its timeout and its time window.
LeasesInBounds(j) ==
    \A k \in DOMAIN dispatches[j] :
        /\ dispatches[j][k].at < dispatches[j][k].expires
        /\ dispatches[j][k].expires <= dispatches[j][k].at + job[j].spec.timeout
        /\ job[j].spec.notBefore # None => dispatches[j][k].at >= job[j].spec.notBefore
        /\ job[j].spec.deadline # None  => dispatches[j][k].at < job[j].spec.deadline

LeaseInBudget(j) ==
    ActiveAttempts(j) # {} => \A deadline \in BudgetDeadlines(j) : Latest(j).expires <= deadline

\* While an Attempt is active there is room for it to fail.
Failed(j) == {i \in DOMAIN attempts[j] :
                 /\ attempts[j][i].status = "failed"
                 /\ \A k \in i..Len(attempts[j]) : attempts[j][k].status # "succeeded"}

InCeilings(j) ==
    /\ Len(dispatches[j]) <= job[j].spec.maxDispatches
    /\ FailureStreak(j) <= job[j].spec.maxFailures
    /\ ActiveAttempts(j) # {} => FailureStreak(j) < job[j].spec.maxFailures

Lineage(j) ==
    \A k \in 1..(Len(attempts[j]) - 1) :
        /\ attempts[j][k].status = "failed"
        /\ SameIdentity(attempts[j][k].candidate, attempts[j][k + 1].candidate)
              => attempts[j][k].failure = "retryable"

InLimits(j) == LeasesInBounds(j) /\ LeaseInBudget(j) /\ InCeilings(j) /\ Lineage(j)

LimitInv == ClaimInv /\ \A j \in Scheduled : InLimits(j)

\* The numbers of a job.
LEMMA SpecNumbers ==
    ASSUME ClaimInv, NEW j \in Scheduled
    PROVE  /\ job[j].spec.lease \in Nat \ {0} /\ job[j].spec.timeout \in Nat
           /\ job[j].spec.lease <= job[j].spec.timeout
           /\ job[j].spec.maxDispatches \in Nat \ {0} /\ job[j].spec.maxFailures \in Nat \ {0}
           /\ job[j].spec.notBefore # None => job[j].spec.notBefore \in Nat
           /\ job[j].spec.deadline # None => job[j].spec.deadline \in Nat
           /\ job[j].spec.budget # None => job[j].spec.budget \in Nat
           /\ job[j].spec.priority \in 0..4 /\ job[j].queuedAt \in Nat
<1>1. job[j].spec \in Specs /\ job[j].queuedAt \in Nat
  BY DEF ClaimInv, TypeOK, Job
<1>2. job[j].spec \in JobSpec /\ job[j].spec.lease <= job[j].spec.timeout
  BY <1>1, SpecsAssumption DEF ValidSpec
<1> QED
  BY <1>1, <1>2 DEF JobSpec, Priorities

\* The failures of a job are a finite set.
LEMMA StreakType ==
    ASSUME NEW r \in Runs, attempts \in [Runs -> Seq(Attempt)]
    PROVE  /\ IsFiniteSet(Failed(r)) /\ FailureStreak(r) = Cardinality(Failed(r))
           /\ FailureStreak(r) \in Nat
<1>1. FailureStreak(r) = Cardinality(Failed(r))
  BY DEF FailureStreak, Failed
<1>2. Len(attempts[r]) \in Nat /\ DOMAIN attempts[r] = 1..Len(attempts[r])
  OBVIOUS
<1>3. IsFiniteSet(1..Len(attempts[r])) /\ Failed(r) \in SUBSET (1..Len(attempts[r]))
  BY <1>2, FS_Interval DEF Failed
<1>4. IsFiniteSet(Failed(r))
  BY <1>3, FS_Subset
<1> QED
  BY <1>1, <1>4, FS_CardinalityType

\* Closing the newest Attempt ends the streak of failures or makes it longer by one.
LEMMA StreakCloses ==
    ASSUME ClaimInv, TypeOK', NEW j \in Scheduled, NEW status \in {"succeeded", "failed"},
           NEW failure, Closes(j, status, failure)
    PROVE  FailureStreak(j)' \in 0..FailureStreak(j) + 1
<1> DEFINE n   == Len(attempts[j])
           new == [candidate |-> attempts[j][n].candidate, status |-> status,
                   failure |-> failure]
<1>1. /\ j \in Runs /\ attempts \in [Runs -> Seq(Attempt)] /\ attempts[j] \in Seq(Attempt)
      /\ attempts' \in [Runs -> Seq(Attempt)]
  BY DEF ClaimInv, TypeOK
<1>2. /\ n \in DOMAIN attempts[j] /\ attempts[j][n].status = "running"
      /\ attempts'[j] = [attempts[j] EXCEPT ![n] = new]
  BY DEF Closes, ActiveAttempts
<1>3. new.status = status
  OBVIOUS
<1> HIDE DEF new
<1>4. /\ n \in Nat /\ DOMAIN attempts[j] = 1..n
      /\ Len(attempts'[j]) = n /\ DOMAIN attempts'[j] = 1..n
      /\ attempts'[j][n] = new
      /\ \A k \in 1..n \ {n} : attempts'[j][k] = attempts[j][k]
  BY <1>1, <1>2
<1> HIDE DEF n
<1>5. /\ IsFiniteSet(Failed(j)) /\ FailureStreak(j) = Cardinality(Failed(j))
      /\ FailureStreak(j) \in Nat
  BY <1>1, StreakType
<1>6. FailureStreak(j)' = Cardinality(Failed(j)')
  BY DEF FailureStreak, Failed
<1>7. CASE status = "succeeded"
  <2>1. Failed(j)' = {}
    <3> SUFFICES ASSUME NEW i \in Failed(j)' PROVE FALSE
      OBVIOUS
    <3>1. i \in 1..n /\ \A k \in i..n : attempts'[j][k].status # "succeeded"
      BY <1>4 DEF Failed
    <3>2. n \in i..n
      BY <1>4, <3>1
    <3> QED
      BY <1>3, <1>4, <1>7, <3>1, <3>2
  <2>2. Cardinality(Failed(j)') = 0
    BY <2>1, FS_EmptySet
  <2> QED
    BY <1>5, <1>6, <2>2
<1>8. CASE status = "failed"
  <2>1. Failed(j)' \subseteq Failed(j) \cup {n}
    <3> SUFFICES ASSUME NEW i \in Failed(j)', i # n PROVE i \in Failed(j)
      OBVIOUS
    <3>1. /\ i \in 1..n /\ attempts'[j][i].status = "failed"
          /\ \A k \in i..n : attempts'[j][k].status # "succeeded"
      BY <1>4 DEF Failed
    <3>2. \A k \in i..n : attempts[j][k].status # "succeeded"
      BY <1>2, <1>4, <3>1
    <3>3. Len(attempts[j]) = n /\ attempts[j][i].status = "failed"
      BY <1>4, <3>1 DEF n
    <3> QED
      BY <1>4, <3>1, <3>2, <3>3 DEF Failed
  <2>2. /\ IsFiniteSet(Failed(j) \cup {n})
        /\ Cardinality(Failed(j) \cup {n}) \in {Cardinality(Failed(j)), Cardinality(Failed(j)) + 1}
    BY <1>5, FS_AddElement
  <2>3. /\ IsFiniteSet(Failed(j)')
        /\ Cardinality(Failed(j)') <= Cardinality(Failed(j) \cup {n})
    BY <2>1, <2>2, FS_Subset
  <2>4. Cardinality(Failed(j)') \in Nat
    BY <2>3, FS_CardinalityType
  <2> QED
    BY <1>5, <1>6, <2>2, <2>3, <2>4
<1> QED
  BY <1>7, <1>8

\* What leaves a job's Attempts, leases and usage alone leaves it within its limits.
LEMMA LimitFrame ==
    ASSUME NEW j, InLimits(j), attempts'[j] = attempts[j], dispatches'[j] = dispatches[j],
           used'[j] = used[j], job'[j] = job[j]
    PROVE  InLimits(j)'
<1>1. ActiveAttempts(j)' = ActiveAttempts(j)
  BY ActiveFrame
<1>2. FailureStreak(j)' = FailureStreak(j)
  BY DEF FailureStreak
<1>3. BudgetDeadlines(j)' = BudgetDeadlines(j) /\ Latest(j)' = Latest(j)
  BY DEF BudgetDeadlines, Latest
<1>4. LeasesInBounds(j)' /\ Lineage(j)'
  BY DEF InLimits, LeasesInBounds, Lineage
<1>5. LeaseInBudget(j)' /\ InCeilings(j)'
  BY <1>1, <1>2, <1>3 DEF InLimits, LeaseInBudget, InCeilings
<1> QED
  BY <1>4, <1>5 DEF InLimits

\* The end of an Attempt.
LEMMA LimitCloses ==
    ASSUME ClaimInv, TypeOK', NEW j \in Scheduled, InLimits(j), NEW status \in {"succeeded", "failed"},
           NEW failure, Closes(j, status, failure), dispatches'[j] = dispatches[j],
           job'[j] = job[j]
    PROVE  InLimits(j)'
<1> DEFINE n == Len(attempts[j])
           new == [candidate |-> attempts[j][n].candidate, status |-> status,
                   failure |-> failure]
<1>1. j \in Runs /\ attempts[j] \in Seq(Attempt) /\ ActiveAttempts(j) = {n}
      /\ ActiveAttempts(j)' = {} /\ n \in DOMAIN attempts[j]
      /\ attempts'[j] = [attempts[j] EXCEPT ![n] = new]
  BY DEF ClaimInv, TypeOK, Closes
<1>2. LeasesInBounds(j)'
  BY DEF InLimits, LeasesInBounds
<1>3. LeaseInBudget(j)'
  BY <1>1 DEF LeaseInBudget
<1>4. InCeilings(j)'
  <2>1. FailureStreak(j)' \in 0..FailureStreak(j) + 1
    BY StreakCloses
  <2>2. FailureStreak(j) < job[j].spec.maxFailures /\ FailureStreak(j) \in Nat
    BY <1>1, StreakType DEF InLimits, InCeilings, ClaimInv, TypeOK
  <2>3. FailureStreak(j)' <= job[j].spec.maxFailures
    BY <2>1, <2>2, SpecNumbers
  <2> QED
    BY <1>1, <2>3 DEF InLimits, InCeilings
<1>5. Lineage(j)'
  <2>1. new.candidate = attempts[j][n].candidate
    OBVIOUS
  <2> HIDE DEF new
  <2>2. /\ n \in Nat /\ DOMAIN attempts[j] = 1..n /\ Len(attempts'[j]) = n
        /\ \A k \in 1..(n - 1) : attempts'[j][k] = attempts[j][k]
        /\ \A k \in 1..n : attempts'[j][k].candidate = attempts[j][k].candidate
    BY <1>1, <2>1
  <2>3. \A k \in 1..(n - 1) : k + 1 \in 1..n /\ k \in 1..n
    BY <2>2
  <2> HIDE DEF n
  <2>4. Len(attempts[j]) = n
    BY DEF n
  <2> QED
    BY <2>2, <2>3, <2>4 DEF InLimits, Lineage
<1> QED
  BY <1>2, <1>3, <1>4, <1>5 DEF InLimits

\* A renewal.
LEMMA LimitRenews ==
    ASSUME ClaimInv, NEW j \in Scheduled, InLimits(j), Renews(j)
    PROVE  InLimits(j)'
<1>1. PICK d \in DOMAIN dispatches[j], ts \in 0..clock, extension \in Extensions :
         RenewLease(j, d, ts, extension)
  BY DEF Renews
<1> DEFINE until == dispatches'[j][d].expires
<1>2. /\ d = Len(dispatches[j]) /\ DOMAIN dispatches'[j] = DOMAIN dispatches[j]
      /\ Len(dispatches'[j]) = Len(dispatches[j])
      /\ \A k \in DOMAIN dispatches[j] \ {d} : dispatches'[j][k] = dispatches[j][k]
      /\ dispatches'[j][d].at = dispatches[j][d].at
      /\ until > dispatches[j][d].expires
      /\ RenewableTo(j, ts, until)
      /\ UNCHANGED <<run, attempts, used, job, mark>>
  BY <1>1, RenewedLease
<1>3. Latest(j) = dispatches[j][d] /\ Latest(j)' = dispatches'[j][d]
  BY <1>2 DEF Latest
<1>4. /\ until <= dispatches[j][d].at + job[j].spec.timeout
      /\ \A deadline \in BudgetDeadlines(j) : until <= deadline
  BY <1>2, <1>3 DEF RenewableTo
<1>5. dispatches[j][d].at < until
  <2>1. dispatches[j][d] \in Dispatch
    BY DEF ClaimInv, TypeOK
  <2>2. dispatches[j][d].at \in Nat /\ dispatches[j][d].expires \in Nat
    BY <2>1 DEF Dispatch
  <2>3. dispatches[j][d].at < dispatches[j][d].expires
    BY DEF InLimits, LeasesInBounds
  <2>4. until = dispatches[j][d].expires + extension /\ extension \in Nat
    BY <1>1, RenewedLease, ConstantsAssumption
  <2> QED
    BY <2>2, <2>3, <2>4
<1> HIDE DEF until
<1>6. LeasesInBounds(j)'
  <2>1. ASSUME NEW k \in DOMAIN dispatches'[j], k # d
        PROVE  dispatches'[j][k] = dispatches[j][k] /\ k \in DOMAIN dispatches[j]
    BY <1>2, <2>1
  <2> QED
    BY <1>2, <1>4, <1>5, <2>1 DEF InLimits, LeasesInBounds, until
<1>7. BudgetDeadlines(j)' = BudgetDeadlines(j)
  BY <1>2, <1>3 DEF BudgetDeadlines
<1>8. ActiveAttempts(j)' = ActiveAttempts(j) /\ FailureStreak(j)' = FailureStreak(j)
  BY <1>2, ActiveFrame DEF FailureStreak
<1>9. LeaseInBudget(j)' /\ InCeilings(j)' /\ Lineage(j)'
  BY <1>2, <1>3, <1>4, <1>7, <1>8 DEF InLimits, LeaseInBudget, InCeilings, Lineage, until
<1> QED
  BY <1>6, <1>9 DEF InLimits

\* What a dispatch reads of an eligible job.
LEMMA EligibleJob ==
    ASSUME ClaimInv, NEW j \in Scheduled, NEW ts, Eligible(j, ts)
    PROVE  /\ Reconciled(j) \in {"queued", "retry_ready"}
           /\ ~TooEarly(j, ts) /\ ~TooLate(j, ts) /\ FirstUnmet(j) = 0
           /\ ActiveAttempts(j) = {} /\ ~DispatchLimit(j) /\ ~FailureThreshold(j)
           /\ attempts[j] # <<>> => attempts[j][Len(attempts[j])].status = "failed"
<1>1. j \in Runs /\ run[j] \in RunStatus /\ mark[j] \in JobMarks
      /\ attempts[j] \in Seq(Attempt) /\ dispatches[j] \in Seq(Dispatch)
      /\ Len(attempts[j]) = Len(dispatches[j])
      /\ \A k \in DOMAIN dispatches[j] : dispatches[j][k].attempt = k
  BY DEF ClaimInv, TypeOK, JobClaim
<1>2. attempts[j] # <<>> =>
         /\ Len(attempts[j]) \in DOMAIN attempts[j] /\ dispatches[j] # <<>>
         /\ attempts[j][Len(attempts[j])] \in Attempt
         /\ LatestAttempt(j) = attempts[j][Len(attempts[j])]
  BY <1>1 DEF LatestAttempt, Latest
<1>3. /\ Reconciled(j) \notin Terminal \cup {"paused", "recovery_required", "running", "verifying"}
      /\ ~TooEarly(j, ts) /\ ~TooLate(j, ts) /\ FirstUnmet(j) = 0
      /\ ActiveAttempts(j) = {} /\ ~DispatchLimit(j) /\ ~FailureThreshold(j)
  BY DEF Eligible, View, Terminal
<1>4. attempts[j] # <<>> => LatestAttempt(j).status \in {"running", "succeeded", "failed"}
  BY <1>2 DEF Attempt, AttemptStatus
<1>5. attempts[j] = <<>> => dispatches[j] = <<>>
  BY <1>1
<1>6. /\ Reconciled(j) \in {"queued", "retry_ready"}
      /\ attempts[j] # <<>> => LatestAttempt(j).status = "failed"
  BY <1>1, <1>2, <1>3, <1>4, <1>5 DEF Reconciled, Terminal, RunStatus, RunFailures, JobMarks
<1> QED
  BY <1>2, <1>3, <1>6

\* A dispatch: it is stamped inside the window of the job, within its ceilings, and
\* its lease within what is left of every budget.
LEMMA LimitClaims ==
    ASSUME ClaimInv, NEW j \in Scheduled, InLimits(j), Claimed(j)
    PROVE  InLimits(j)'
<1> USE ConstantsAssumption
<1>1. PICK c \in Candidates, ts \in 0..clock :
         Eligible(j, ts) /\ c \in Acceptable(j, Candidates) /\ Claim(j, c, ts)
  BY DEF Claimed
<1> DEFINE n     == Len(dispatches[j]) + 1
           lease == job[j].spec.lease
<1>2. /\ n \in Nat /\ Len(attempts[j]) + 1 = n
      /\ Len(dispatches'[j]) = n /\ DOMAIN dispatches'[j] = 1..n
      /\ DOMAIN dispatches[j] = 1..(n - 1)
      /\ \A k \in 1..(n - 1) : dispatches'[j][k] = dispatches[j][k]
      /\ dispatches'[j][n].at = ts /\ dispatches'[j][n].expires = ts + lease
      /\ Len(attempts'[j]) = n /\ DOMAIN attempts'[j] = 1..n
      /\ DOMAIN attempts[j] = 1..(n - 1)
      /\ \A k \in 1..(n - 1) : attempts'[j][k] = attempts[j][k]
      /\ attempts'[j][n].candidate = c /\ attempts'[j][n].status = "running"
      /\ ActiveAttempts(j)' = {n} /\ UNCHANGED <<run, used, job>>
  BY <1>1, ClaimedLease
<1>3. Len(dispatches[j]) = n - 1 /\ Len(attempts[j]) = n - 1 /\ n >= 1
  <2>1. Len(dispatches[j]) \in Nat
    BY DEF ClaimInv, TypeOK
  <2> QED
    BY <1>2, <2>1
<1>4. /\ j \in Runs /\ ts \in Nat /\ used[j] \in Nat /\ RunBudget[j] \in Nat \cup {None}
      /\ attempts \in [Runs -> Seq(Attempt)]
  BY DEF ClaimInv, TypeOK
<1> HIDE DEF n
<1>5. /\ ~TooEarly(j, ts) /\ ~TooLate(j, ts) /\ ~DispatchLimit(j) /\ ~FailureThreshold(j)
      /\ attempts[j] # <<>> => attempts[j][Len(attempts[j])].status = "failed"
  BY <1>1, EligibleJob
<1>6. LeasesInBounds(j)'
  <2>1. /\ ts < ts + lease /\ ts + lease <= ts + job[j].spec.timeout
        /\ job[j].spec.notBefore # None => ts >= job[j].spec.notBefore
        /\ job[j].spec.deadline # None => ts < job[j].spec.deadline
    <3>1. lease \in Nat \ {0} /\ job[j].spec.timeout \in Nat /\ lease <= job[j].spec.timeout
      BY SpecNumbers
    <3>2. ts < ts + lease /\ ts + lease <= ts + job[j].spec.timeout
      BY <1>4, <3>1
    <3>3. job[j].spec.notBefore # None => job[j].spec.notBefore \in Nat
      BY SpecNumbers
    <3>4. job[j].spec.deadline # None => job[j].spec.deadline \in Nat
      BY SpecNumbers
    <3>5. job[j].spec.notBefore # None => ts >= job[j].spec.notBefore
      BY <1>4, <1>5, <3>3 DEF TooEarly
    <3>6. job[j].spec.deadline # None => ts < job[j].spec.deadline
      BY <1>4, <1>5, <3>4 DEF TooLate
    <3> QED
      BY <3>2, <3>5, <3>6
  <2>2. \A k \in DOMAIN dispatches'[j] : k = n \/ k \in 1..(n - 1)
    BY <1>2
  <2> QED
    BY <1>2, <2>1, <2>2 DEF InLimits, LeasesInBounds
<1>7. LeaseInBudget(j)'
  <2>1. Latest(j)' = dispatches'[j][n]
    BY <1>2 DEF Latest
  <2>2. ASSUME NEW limit \in {RunBudget[j], job[j].spec.budget} \ {None}
        PROVE  ts + lease <= ts + (IF limit > used[j] THEN limit - used[j] ELSE 0)
    <3>1. used[j] + lease <= limit
      BY <1>1, <2>2 DEF Acceptable, FitsBudget
    <3>2. limit \in Nat /\ lease \in Nat \ {0}
      BY <1>4, <2>2, SpecNumbers
    <3> QED
      BY SMTT(20), <1>4, <3>1, <3>2
  <2>3. BudgetDeadlines(j)' =
           {ts + (IF limit > used[j] THEN limit - used[j] ELSE 0) :
               limit \in {RunBudget[j], job[j].spec.budget} \ {None}}
    BY <1>2, <2>1 DEF BudgetDeadlines
  <2> QED
    BY <1>2, <2>1, <2>2, <2>3 DEF LeaseInBudget
<1>8. InCeilings(j)'
  <2>1. Failed(j)' = Failed(j)
    <3>1. ASSUME NEW i \in 1..n
          PROVE  i \in Failed(j)' <=> i \in Failed(j)
      <4>1. CASE i = n
        <5>1. i \notin Failed(j) /\ i \notin Failed(j)'
          BY <1>2, <1>3, <4>1 DEF Failed
        <5> QED
          BY <5>1
      <4>2. CASE i # n
        <5>1. i \in 1..(n - 1) /\ i..n = (i..(n - 1)) \cup {n} /\ i..(n - 1) \subseteq 1..(n - 1)
          BY <1>2, <3>1, <4>2
        <5>2. (\A k \in i..n : attempts'[j][k].status # "succeeded")
                  <=> (\A k \in i..(n - 1) : attempts[j][k].status # "succeeded")
          BY <1>2, <5>1
        <5> QED
          BY <1>2, <1>3, <5>1, <5>2 DEF Failed
      <4> QED
        BY <4>1, <4>2
    <3>2. Failed(j) \subseteq 1..n /\ Failed(j)' \subseteq 1..n
      BY <1>2, <1>3 DEF Failed
    <3> QED
      BY <3>1, <3>2
  <2>2. FailureStreak(j)' = FailureStreak(j) /\ FailureStreak(j) \in Nat
    <3>1. FailureStreak(j)' = Cardinality(Failed(j)')
      BY DEF FailureStreak, Failed
    <3> QED
      BY <1>4, <2>1, <3>1, StreakType
  <2>3. /\ n <= job[j].spec.maxDispatches
        /\ FailureStreak(j) < job[j].spec.maxFailures
    BY SMTT(20), <1>2, <1>3, <1>5, <2>2, SpecNumbers DEF DispatchLimit, FailureThreshold
  <2>4. FailureStreak(j) <= job[j].spec.maxFailures
    BY <2>2, <2>3, SpecNumbers
  <2> QED
    BY <1>2, <2>2, <2>3, <2>4 DEF InCeilings
<1>9. Lineage(j)'
  <2> SUFFICES ASSUME NEW k \in 1..(n - 1)
               PROVE  /\ attempts'[j][k].status = "failed"
                      /\ SameIdentity(attempts'[j][k].candidate, attempts'[j][k + 1].candidate)
                            => attempts'[j][k].failure = "retryable"
    BY <1>2 DEF Lineage, SameIdentity
  <2>1. CASE k = n - 1
    <3>1. attempts[j] # <<>> /\ k = Len(attempts[j]) /\ k + 1 = n
      BY <1>2, <1>3, <2>1
    <3>2. SameIdentity(attempts[j][k].candidate, c) => attempts[j][k].failure = "retryable"
      BY <1>1, <3>1 DEF Acceptable, RetryAllowed
    <3> QED
      BY <1>2, <1>5, <3>1, <3>2
  <2>2. CASE k # n - 1
    <3>1. k \in 1..((n - 1) - 1) /\ k + 1 \in 1..(n - 1)
      BY <1>2, <2>2
    <3>2. /\ attempts[j][k].status = "failed"
          /\ SameIdentity(attempts[j][k].candidate, attempts[j][k + 1].candidate)
                => attempts[j][k].failure = "retryable"
      BY <1>3, <3>1 DEF InLimits, Lineage
    <3>3. attempts'[j][k] = attempts[j][k] /\ attempts'[j][k + 1] = attempts[j][k + 1]
      BY <1>2, <3>1
    <3> QED
      BY <3>2, <3>3
  <2> QED
    BY <2>1, <2>2
<1> QED
  BY <1>6, <1>7, <1>8, <1>9 DEF InLimits

\* A job enters the queue with nothing dispatched.
LEMMA LimitEnters ==
    ASSUME ClaimInv, NEW r \in Runs, Enters(r), TypeOK'
    PROVE  InLimits(r)'
<1>1. /\ attempts'[r] = <<>> /\ dispatches'[r] = <<>> /\ r \in Scheduled'
      /\ \E spec \in Specs, deps \in DepLists :
            job'[r] = [spec |-> spec, deps |-> deps, queuedAt |-> clock]
  BY DEF Enters, ClaimInv, Untouched
<1>2. job'[r].spec \in Specs
  BY <1>1
<1>3. job'[r].spec.maxDispatches \in Nat \ {0} /\ job'[r].spec.maxFailures \in Nat \ {0}
  <2>1. job'[r].spec \in JobSpec
    BY <1>2, SpecsAssumption DEF ValidSpec
  <2> QED
    BY <2>1 DEF JobSpec
<1>4. ActiveAttempts(r)' = {}
  BY <1>1 DEF ActiveAttempts
<1>5. FailureStreak(r)' = 0
  <2>1. FailureStreak(r)' = Cardinality(Failed(r)')
    BY DEF FailureStreak, Failed
  <2>2. Failed(r)' = {}
    BY <1>1 DEF Failed
  <2> QED
    BY <2>1, <2>2, FS_EmptySet
<1>6. LeasesInBounds(r)' /\ LeaseInBudget(r)' /\ Lineage(r)'
  BY <1>1, <1>4 DEF LeasesInBounds, LeaseInBudget, Lineage
<1>7. InCeilings(r)'
  BY <1>1, <1>3, <1>4, <1>5 DEF InCeilings
<1> QED
  BY <1>6, <1>7 DEF InLimits

\* Every step keeps every job within its limits.
LEMMA LimitStep == LimitInv /\ [Next]_vars => LimitInv'
<1> SUFFICES ASSUME LimitInv, [Next]_vars PROVE LimitInv'
  OBVIOUS
<1>1. ClaimInv /\ ClaimInv' /\ TypeOK' /\ StepShape
  <2>1. ClaimInv
    BY DEF LimitInv
  <2>2. ClaimInv'
    BY <2>1, ClaimStep
  <2> QED
    BY <2>1, <2>2, ShapeStep DEF ClaimInv
<1> DEFINE Kept(j) == j \in Scheduled' => InLimits(j)'
<1>2. ASSUME NEW j \in Runs, Keeps(j) PROVE Kept(j)
  <2> SUFFICES ASSUME j \in Scheduled' PROVE InLimits(j)'
    OBVIOUS
  <2>1. j \in Scheduled /\ InLimits(j)
    BY <1>2 DEF Keeps, LimitInv
  <2> QED
    BY <1>2, <2>1, LimitFrame DEF Keeps
<1>3. ASSUME NEW j \in Runs, JobMoves(j) PROVE Kept(j)
  <2>1. j \in Scheduled /\ InLimits(j) /\ job'[j] = job[j]
    BY <1>3 DEF JobMoves, LimitInv
  <2>2. ASSUME Marks(j, mark'[j]) PROVE InLimits(j)'
    BY <2>1, <2>2, LimitFrame DEF Marks
  <2>3. ASSUME Pauses(j) \/ Resumes(j) \/ Suspects(j) PROVE InLimits(j)'
    BY <2>2, <2>3 DEF Pauses, Resumes, Suspects, Marks
  <2>4. ASSUME Finishes(j) PROVE InLimits(j)'
    BY <2>1, <2>4, LimitFrame DEF Finishes
  <2>5. ASSUME Releases(j) PROVE InLimits(j)'
    <3>1. PICK status \in {"succeeded", "failed"}, failure \in Failures :
             Closes(j, status, failure)
      BY <2>5 DEF Releases
    <3> QED
      BY <1>1, <2>1, <2>5, <3>1, LimitCloses DEF Releases
  <2>6. ASSUME Recovers(j) PROVE InLimits(j)'
    BY <1>1, <2>1, <2>6, LimitCloses DEF Recovers
  <2>7. ASSUME Ends(j) PROVE InLimits(j)'
    <3>1. CASE attempts'[j] = attempts[j] /\ used'[j] = used[j]
      BY <2>1, <2>7, <3>1, LimitFrame DEF Ends
    <3>2. CASE Closes(j, "failed", "blocked")
      BY <1>1, <2>1, <2>7, <3>2, LimitCloses DEF Ends
    <3> QED
      BY <2>7, <3>1, <3>2 DEF Ends
  <2>8. ASSUME Renews(j) PROVE InLimits(j)'
    BY <1>1, <2>1, <2>8, LimitRenews
  <2>9. ASSUME Claimed(j) PROVE InLimits(j)'
    BY <1>1, <2>1, <2>9, LimitClaims
  <2> HIDE DEF Kept
  <2>10. InLimits(j)'
    BY <1>3, <2>3, <2>4, <2>5, <2>6, <2>7, <2>8, <2>9 DEF JobMoves
  <2> QED
    BY <2>10 DEF Kept
<1>4. ASSUME NEW r \in Runs, Enters(r) PROVE Kept(r)
  BY <1>1, <1>4, LimitEnters
<1>5. ASSUME NEW r \in Runs, Outside(r) PROVE Kept(r)
  BY <1>5 DEF Outside
<1> HIDE DEF Kept
<1>6. \A r \in Runs : Kept(r)
  BY <1>1, <1>2, <1>3, <1>4, <1>5 DEF StepShape, Sweeps
<1>7. Scheduled' \subseteq Runs
  BY <1>1 DEF TypeOK
<1> QED
  BY <1>1, <1>6, <1>7 DEF LimitInv, Kept

LEMMA LimitInvariant == Spec => []LimitInv
<1>1. Init => LimitInv
  BY ClaimInit DEF Init, LimitInv, Scheduled
<1> QED
  BY <1>1, LimitStep, PTL DEF Spec

\* Across retries, recoveries, renewals and pauses, every lease of a job stays within
\* its timeout, its window and its budgets, and its dispatches and failures within
\* its ceilings.
THEOREM JobLimitsKeptHolds == Spec => []JobLimitsKept
<1>1. LimitInv => JobLimitsKept
  <2> SUFFICES ASSUME LimitInv PROVE JobLimitsKept
    OBVIOUS
  <2>1. LeaseWithinCaps
    BY DEF LimitInv, InLimits, LeasesInBounds, LeaseInBudget, LeaseWithinCaps
  <2>2. DispatchedInWindow
    BY DEF LimitInv, InLimits, LeasesInBounds, DispatchedInWindow
  <2>3. RetryCeilings
    BY DEF LimitInv, InLimits, InCeilings, RetryCeilings
  <2> QED
    BY <2>1, <2>2, <2>3 DEF JobLimitsKept
<1> QED
  BY <1>1, LimitInvariant, PTL

\* Whatever path led to a retry, it follows a failure, and keeps the Home and the
\* model only when that failure may be retried.
THEOREM RetryLineageHolds == Spec => []RetryLineage
<1>1. LimitInv => RetryLineage
  BY DEF LimitInv, InLimits, Lineage, RetryLineage
<1> QED
  BY <1>1, LimitInvariant, PTL

----------------------------------------------------------------------------
\* Dependencies.

\* A set of natural numbers that is not empty has a least element.
LEMMA Least ==
    ASSUME NEW T, T \subseteq Nat, T # {}
    PROVE  \E x \in T : \A y \in T : x <= y
<1>1. \E R : IsWellFoundedOn(R, Nat) /\ \A x, y \in Nat : <<y, x>> \in R <=> y < x
  <2> DEFINE R == OpToRel(<, Nat)
  <2>1. IsWellFoundedOn(R, Nat)
    BY NatLessThanWellFounded
  <2>2. \A x, y \in Nat : <<y, x>> \in R <=> y < x
    BY DEF OpToRel
  <2> HIDE DEF R
  <2> QED
    BY <2>1, <2>2
<1>2. PICK R : IsWellFoundedOn(R, Nat) /\ \A x, y \in Nat : <<y, x>> \in R <=> y < x
  BY <1>1
<1>3. PICK x \in T : \A y \in T : ~ (<<y, x>> \in R)
  BY <1>2, WFMin
<1>4. ASSUME NEW y \in T PROVE x <= y
  <2>1. x \in Nat /\ y \in Nat /\ <<y, x>> \notin R
    BY <1>3
  <2>2. ~ (y < x)
    BY <1>2, <2>1
  <2> QED
    BY <2>1, <2>2
<1> QED
  BY <1>4

\* A job depends on jobs only.
DepsQueued == \A j \in Scheduled : \A k \in DOMAIN job[j].deps : job[j].deps[k] \in Scheduled

DependencyInv == ClaimInv /\ DepsQueued /\ DependenciesKept

\* The newest dispatch of a job points to one of its Attempts.
LEMMA LatestType ==
    ASSUME ClaimInv, NEW j \in Scheduled, dispatches[j] # <<>>
    PROVE  LatestAttempt(j).status \in AttemptStatus
<1>1. /\ attempts[j] \in Seq(Attempt) /\ dispatches[j] \in Seq(Dispatch)
      /\ Len(attempts[j]) = Len(dispatches[j])
      /\ \A k \in DOMAIN dispatches[j] : dispatches[j][k].attempt = k
  BY DEF ClaimInv, TypeOK, JobClaim
<1>2. LatestAttempt(j) \in Attempt
  BY <1>1 DEF LatestAttempt, Latest
<1> QED
  BY <1>2 DEF Attempt

\* An eligible job has no unmet dependency, and a dependency is met only by a Run
\* that succeeded.
LEMMA EligibleDependencies ==
    ASSUME ClaimInv, DepsQueued, NEW j \in Scheduled, NEW ts, Eligible(j, ts)
    PROVE  \A k \in DOMAIN job[j].deps : run[job[j].deps[k]] = "succeeded"
<1> DEFINE unmet == {k \in DOMAIN job[j].deps : Reconciled(job[j].deps[k]) # "succeeded"}
           first == CHOOSE k \in unmet : \A m \in unmet : k <= m
<1>1. job[j].deps \in Seq(Runs) /\ mark \in [Runs -> JobMarks]
  <2>1. job[j] \in Job
    BY DEF ClaimInv, TypeOK
  <2> QED
    BY <2>1 DEF Job, ClaimInv, TypeOK
<1>2. FirstUnmet(j) = 0
  BY EligibleJob
<1>3. unmet \subseteq Nat \ {0}
  BY <1>1
<1>4. unmet = {}
  <2> SUFFICES ASSUME unmet # {} PROVE FALSE
    OBVIOUS
  <2>1. FirstUnmet(j) = first
    BY DEF FirstUnmet
  <2>2. \E k \in unmet : \A m \in unmet : k <= m
    BY <1>3, Least
  <2> HIDE DEF unmet
  <2>3. first \in unmet
    BY <2>2
  <2> QED
    BY <1>2, <1>3, <2>1, <2>3
<1>5. ASSUME NEW k \in DOMAIN job[j].deps PROVE run[job[j].deps[k]] = "succeeded"
  <2> DEFINE d == job[j].deps[k]
  <2>1. d \in Runs /\ d \in Scheduled /\ mark[d] \in JobMarks
    BY <1>1 DEF DepsQueued
  <2>2. Reconciled(d) = "succeeded"
    BY <1>4
  <2> HIDE DEF d
  <2>3. mark[d] # "succeeded"
    BY <2>1 DEF JobMarks
  <2>4. dispatches[d] # <<>> => LatestAttempt(d).status \in AttemptStatus
    BY <2>1, LatestType
  <2>5. run[d] = "succeeded"
    BY <2>2, <2>3, <2>4 DEF Reconciled, AttemptStatus
  <2> QED
    BY <2>5 DEF d
<1> QED
  BY <1>5

\* A job keeps what it was queued with, and the newly queued one depends on those
\* before it.
LEMMA JobsStay ==
    ASSUME TypeOK, StepShape, NEW j \in Scheduled
    PROVE  j \in Scheduled' /\ job'[j] = job[j]
<1>1. j \in Runs
  BY DEF TypeOK
<1>2. \A r \in Runs : (Keeps(r) \/ JobMoves(r)) /\ r = j => j \in Scheduled' /\ job'[j] = job[j]
  BY DEF Keeps, JobMoves
<1>3. ~ Enters(j) /\ ~ Outside(j)
  BY DEF Enters, Outside
<1> QED
  BY <1>1, <1>2, <1>3 DEF StepShape, Sweeps

\* A Run that succeeded stays so.
LEMMA SuccessStays ==
    ASSUME StepShape, NEW r \in Runs, run[r] = "succeeded"
    PROVE  run'[r] = "succeeded"
<1>1. ~ JobMoves(r) /\ ~ Enters(r) /\ ~ Outside(r)
  BY DEF JobMoves, Enters, Outside
<1>2. Keeps(r)
  BY <1>1 DEF StepShape, Sweeps
<1> QED
  BY <1>2 DEF Keeps

\* The job a step queues.
LEMMA NewJob ==
    ASSUME TypeOK', StepShape, NEW j \in Scheduled' \ Scheduled
    PROVE  /\ Enters(j) /\ \A q \in Scheduled' \ Scheduled : q = j
           /\ \A k \in DOMAIN job'[j].deps : job'[j].deps[k] \in Scheduled
<1>1. Scheduled' \subseteq Runs
  BY DEF TypeOK
<1>2. \A r \in Scheduled' \ Scheduled : ~ Keeps(r) /\ ~ JobMoves(r) /\ ~ Outside(r)
  BY DEF Keeps, JobMoves, Outside
<1>3. Enters(j) /\ \A q \in Scheduled' \ Scheduled : q = j
  BY <1>1, <1>2 DEF StepShape, Sweeps
<1>4. PICK spec \in Specs, deps \in DepLists :
         job'[j] = [spec |-> spec, deps |-> deps, queuedAt |-> clock]
  BY <1>3 DEF Enters
<1>5. job'[j].deps = deps
  BY <1>4
<1>6. \A k \in DOMAIN deps : deps[k] \in Scheduled
  BY DEF DepLists
<1> QED
  BY <1>3, <1>5, <1>6

\* Queueing a job closes no circle: it waits only for jobs queued before, which do
\* not wait for it.
LEMMA AcyclicStep ==
    ASSUME TypeOK, TypeOK', StepShape, DepsQueued, DependenciesAcyclic
    PROVE  DependenciesAcyclic'
<1> SUFFICES ASSUME NEW S \in SUBSET Scheduled', S # {}
             PROVE  \E j \in S : \A k \in DOMAIN job'[j].deps : job'[j].deps[k] \notin S
  BY DEF DependenciesAcyclic
<1> DEFINE old == S \cap Scheduled
<1>1. \A j \in Scheduled : job'[j] = job[j]
  BY JobsStay
<1>2. CASE old # {}
  <2>1. PICK j \in old : \A k \in DOMAIN job[j].deps : job[j].deps[k] \notin old
    BY <1>2 DEF DependenciesAcyclic
  <2>2. \A k \in DOMAIN job[j].deps : job[j].deps[k] \notin S
    BY <2>1 DEF DepsQueued
  <2> QED
    BY <1>1, <2>1, <2>2
<1>3. CASE old = {}
  <2>1. PICK j \in S : TRUE
    OBVIOUS
  <2>2. j \in Scheduled' \ Scheduled
    BY <1>3, <2>1
  <2>3. \A k \in DOMAIN job'[j].deps : job'[j].deps[k] \in Scheduled
    BY <2>2, NewJob
  <2> QED
    BY <1>3, <2>1, <2>3
<1> QED
  BY <1>2, <1>3

\* Only a dispatch gives a job its first dispatch.
LEMMA FirstDispatch ==
    ASSUME ClaimInv, StepShape, NEW j \in Scheduled, dispatches[j] = <<>>, dispatches'[j] # <<>>
    PROVE  \E ts \in 0..clock : Eligible(j, ts) /\ run' = run
<1>1. j \in Runs
  BY DEF ClaimInv, TypeOK
<1>2. ~ Keeps(j) /\ ~ Enters(j) /\ ~ Outside(j)
  BY DEF Keeps, Enters, Outside
<1>3. JobMoves(j)
  BY <1>1, <1>2 DEF StepShape, Sweeps
<1>4. ~ Pauses(j) /\ ~ Resumes(j) /\ ~ Suspects(j) /\ ~ Finishes(j) /\ ~ Releases(j)
      /\ ~ Recovers(j) /\ ~ Ends(j)
  BY DEF Pauses, Resumes, Suspects, Marks, Finishes, Releases, Recovers, Ends
<1>5. ~ Renews(j)
  BY DEF Renews
<1>6. Claimed(j)
  BY <1>3, <1>4, <1>5 DEF JobMoves
<1> QED
  BY <1>6 DEF Claimed, Claim

\* Every step keeps jobs waiting for their dependencies.
LEMMA DependencyStep == DependencyInv /\ [Next]_vars => DependencyInv'
<1> SUFFICES ASSUME DependencyInv, [Next]_vars PROVE DependencyInv'
  OBVIOUS
<1>1. ClaimInv /\ ClaimInv' /\ TypeOK /\ TypeOK' /\ StepShape /\ DepsQueued
      /\ StartedAfterDependencies /\ DependenciesAcyclic
  <2>1. ClaimInv /\ DepsQueued /\ StartedAfterDependencies /\ DependenciesAcyclic
    BY DEF DependencyInv, DependenciesKept
  <2>2. ClaimInv'
    BY <2>1, ClaimStep
  <2> QED
    BY <2>1, <2>2, ShapeStep DEF ClaimInv
<1>2. DepsQueued'
  <2> SUFFICES ASSUME NEW j \in Scheduled', NEW k \in DOMAIN job'[j].deps
               PROVE  job'[j].deps[k] \in Scheduled'
    BY DEF DepsQueued
  <2>1. CASE j \in Scheduled
    BY <1>1, <2>1, JobsStay DEF DepsQueued
  <2>2. CASE j \notin Scheduled
    <3>1. job'[j].deps[k] \in Scheduled
      BY <1>1, <2>2, NewJob
    <3> QED
      BY <1>1, <3>1, JobsStay
  <2> QED
    BY <2>1, <2>2
<1>3. StartedAfterDependencies'
  <2> SUFFICES ASSUME NEW j \in Scheduled', dispatches'[j] # <<>>, NEW k \in DOMAIN job'[j].deps
               PROVE  run'[job'[j].deps[k]] = "succeeded"
    BY DEF StartedAfterDependencies
  <2>1. j \in Scheduled
    <3> SUFFICES ASSUME j \notin Scheduled PROVE FALSE
      OBVIOUS
    <3>1. Enters(j)
      BY <1>1, NewJob
    <3>2. j \in Runs /\ dispatches[j] = <<>>
      BY <1>1 DEF ClaimInv, Untouched, TypeOK
    <3> QED
      BY <3>1, <3>2 DEF Enters
  <2>2. job'[j] = job[j] /\ k \in DOMAIN job[j].deps /\ job[j].deps[k] \in Runs
    BY <1>1, <2>1, JobsStay DEF DepsQueued, TypeOK
  <2>3. CASE dispatches[j] # <<>>
    <3>1. run[job[j].deps[k]] = "succeeded"
      BY <2>1, <2>2, <2>3, <1>1 DEF StartedAfterDependencies
    <3> QED
      BY <1>1, <2>2, <3>1, SuccessStays
  <2>4. CASE dispatches[j] = <<>>
    <3>1. PICK ts \in 0..clock : Eligible(j, ts) /\ run' = run
      BY <1>1, <2>1, <2>4, FirstDispatch
    <3>2. run[job[j].deps[k]] = "succeeded"
      BY <1>1, <2>1, <2>2, <3>1, EligibleDependencies
    <3> QED
      BY <2>2, <3>1, <3>2
  <2> QED
    BY <2>3, <2>4
<1>4. DependenciesAcyclic'
  BY <1>1, AcyclicStep
<1> QED
  BY <1>1, <1>2, <1>3, <1>4 DEF DependencyInv, DependenciesKept

\* A job starts only after all it depends on succeeded, which nothing undoes, and
\* no sequence of enqueues makes jobs wait for each other.
THEOREM DependenciesKeptHolds == Spec => []DependenciesKept
<1>1. Init => DependencyInv
  <2> SUFFICES ASSUME Init PROVE DependencyInv
    OBVIOUS
  <2>1. Scheduled = {}
    BY DEF Init, Scheduled
  <2>2. DepsQueued /\ StartedAfterDependencies /\ DependenciesAcyclic
    BY <2>1 DEF DepsQueued, StartedAfterDependencies, DependenciesAcyclic
  <2> QED
    BY <2>2, ClaimInit DEF DependencyInv, DependenciesKept
<1>2. DependencyInv => DependenciesKept
  BY DEF DependencyInv
<1> QED
  BY <1>1, <1>2, DependencyStep, PTL DEF Spec

----------------------------------------------------------------------------
\* Limits of concurrency, and the order of the queue.

\* However many Runs exist, finitely many Attempts are active.
FiniteInv == ClaimInv /\ IsFiniteSet(ActivePairs)

LEMMA FiniteStep == FiniteInv /\ [Next]_vars => FiniteInv'
<1> SUFFICES ASSUME FiniteInv, [Next]_vars PROVE FiniteInv'
  OBVIOUS
<1>1. ClaimInv /\ ClaimInv' /\ TypeOK' /\ StepShape /\ IsFiniteSet(ActivePairs)
  <2>1. ClaimInv /\ IsFiniteSet(ActivePairs)
    BY DEF FiniteInv
  <2>2. ClaimInv'
    BY <2>1, ClaimStep
  <2> QED
    BY <2>1, <2>2, ShapeStep DEF ClaimInv
<1>2. ASSUME NEW r \in Runs, \A q \in Runs \ {r} : attempts'[q] = attempts[q]
      PROVE  IsFiniteSet(ActivePairs')
  <2> DEFINE n   == Len(attempts'[r])
             new == {r} \X (1..n)
  <2>1. n \in Nat /\ ActiveAttempts(r)' \subseteq 1..n
    BY <1>1 DEF TypeOK, ActiveAttempts
  <2>2. IsFiniteSet(1..n)
    BY <2>1, FS_Interval
  <2> HIDE DEF n
  <2>3. IsFiniteSet(new)
    BY <2>2, FS_Singleton, FS_Product
  <2>4. \A q \in Runs \ {r} : ActiveAttempts(q)' = ActiveAttempts(q)
    BY <1>2, ActiveFrame
  <2>5. ActivePairs' \subseteq ActivePairs \cup new
    BY <2>1, <2>4 DEF ActivePairs
  <2>6. IsFiniteSet(ActivePairs \cup new)
    BY <1>1, <2>3, FS_Union
  <2> QED
    BY <2>5, <2>6, FS_Subset
<1>3. ASSUME \A r \in Runs : attempts'[r] = attempts[r] PROVE IsFiniteSet(ActivePairs')
  <2>1. \A q \in Runs : ActiveAttempts(q)' = ActiveAttempts(q)
    BY <1>3, ActiveFrame
  <2>2. ActivePairs' = ActivePairs
    BY <2>1 DEF ActivePairs
  <2> QED
    BY <1>1, <2>2
<1>4. \A r \in Runs : Keeps(r) => attempts'[r] = attempts[r]
  BY DEF Keeps
<1>5. \A r \in Runs : Sweeps(r) => attempts'[r] = attempts[r]
  BY DEF Sweeps, Keeps, Pauses, Suspects, Marks
<1>6. IsFiniteSet(ActivePairs')
  BY <1>1, <1>2, <1>3, <1>4, <1>5 DEF StepShape
<1> QED
  BY <1>1, <1>6 DEF FiniteInv

LEMMA FiniteInvariant == Spec => []FiniteInv
<1>1. Init => FiniteInv
  <2> SUFFICES ASSUME Init PROVE FiniteInv
    OBVIOUS
  <2>1. \A r \in Runs : ActiveAttempts(r) = {}
    BY DEF Init, ActiveAttempts
  <2>2. ActivePairs = {}
    BY <2>1 DEF ActivePairs
  <2> QED
    BY <2>2, ClaimInit, FS_EmptySet DEF FiniteInv
<1> QED
  BY <1>1, FiniteStep, PTL DEF Spec

\* A job gets a new dispatch only by a claim.
LEMMA DispatchedClaims ==
    ASSUME ClaimInv, StepShape, NEW j \in Scheduled, Dispatched(j)
    PROVE  Claimed(j)
<1>1. j \in Runs
  BY DEF ClaimInv, TypeOK
<1>2. Len(dispatches[j]) \in Nat
  BY DEF ClaimInv, TypeOK
<1>3. dispatches'[j] # dispatches[j]
  BY <1>2 DEF Dispatched
<1>4. ~ Keeps(j) /\ ~ Enters(j) /\ ~ Outside(j)
  BY <1>3 DEF Keeps, Enters, Outside
<1>5. JobMoves(j)
  BY <1>1, <1>4 DEF StepShape, Sweeps
<1>6. ~ Pauses(j) /\ ~ Resumes(j) /\ ~ Suspects(j) /\ ~ Finishes(j) /\ ~ Releases(j)
      /\ ~ Recovers(j) /\ ~ Ends(j)
  BY <1>3 DEF Pauses, Resumes, Suspects, Marks, Finishes, Releases, Recovers, Ends
<1>7. ~ Renews(j)
  <2> SUFFICES ASSUME NEW d \in DOMAIN dispatches[j], NEW ts \in 0..clock,
                      NEW extension \in Extensions, RenewLease(j, d, ts, extension)
               PROVE  FALSE
    BY DEF Renews
  <2>1. Len(dispatches'[j]) = Len(dispatches[j])
    BY RenewedLease
  <2> QED
    BY <1>2, <2>1 DEF Dispatched
<1> QED
  BY <1>5, <1>6, <1>7 DEF JobMoves

\* One more element takes a set that is under its limit at most to the limit.
LEMMA OneMore ==
    ASSUME NEW S, IsFiniteSet(S), NEW x, NEW T, T \subseteq S \cup {x},
           NEW limit \in Nat, Cardinality(S) < limit
    PROVE  Cardinality(T) <= limit
<1>1. /\ IsFiniteSet(S \cup {x}) /\ Cardinality(S) \in Nat
      /\ Cardinality(S \cup {x}) \in {Cardinality(S), Cardinality(S) + 1}
  BY FS_AddElement, FS_CardinalityType
<1>2. IsFiniteSet(T) /\ Cardinality(T) <= Cardinality(S \cup {x})
  BY <1>1, FS_Subset
<1>3. Cardinality(T) \in Nat
  BY <1>2, FS_CardinalityType
<1> QED
  BY <1>1, <1>2, <1>3

\* A dispatch leaves the active Attempts within the limits of the policy.
LEMMA LimitsRespected ==
    ASSUME FiniteInv, StepShape, NEW j \in Scheduled, NEW c \in Candidates, Dispatched(j),
           attempts'[j][Len(attempts'[j])].candidate = c
    PROVE  WithinLimits(c)'
<1> USE ConstantsAssumption
<1>1. ClaimInv /\ IsFiniteSet(ActivePairs) /\ j \in Runs /\ TypeOK
  BY DEF FiniteInv, ClaimInv, TypeOK
<1>2. PICK d \in Candidates, ts \in 0..clock :
         /\ Eligible(j, ts) /\ HasCapacity /\ d \in Acceptable(j, Candidates)
         /\ Claim(j, d, ts)
  BY <1>1, DispatchedClaims DEF Claimed
<1> DEFINE n == Len(dispatches[j]) + 1
<1>3. /\ Len(attempts'[j]) = n /\ attempts'[j][n].candidate = d
      /\ ActiveAttempts(j) = {} /\ ActiveAttempts(j)' = {n}
      /\ \A q \in Runs \ {j} : attempts'[q] = attempts[q]
  BY <1>1, <1>2, ClaimedLease
<1> HIDE DEF n
<1>4. c = d
  BY <1>3
<1>5. \A q \in Runs \ {j} : ActiveAttempts(q)' = ActiveAttempts(q)
  BY <1>3, ActiveFrame
<1>6. ActivePairs' = ActivePairs \cup {<<j, n>>}
  BY <1>1, <1>3, <1>5 DEF ActivePairs
<1>7. \A p \in ActivePairs : /\ p[1] \in Runs \ {j}
                             /\ attempts'[p[1]][p[2]] = attempts[p[1]][p[2]]
  BY <1>3 DEF ActivePairs
<1>8. /\ ActiveOnHome(HomeOf[c])' \subseteq ActiveOnHome(HomeOf[c]) \cup {<<j, n>>}
      /\ ActiveOnModel(ModelOf[c])' \subseteq ActiveOnModel(ModelOf[c]) \cup {<<j, n>>}
  <2>1. \A p \in ActiveOnHome(HomeOf[c])' : p \in ActivePairs' /\ HomeOf[attempts'[p[1]][p[2]].candidate] = HomeOf[c]
    BY DEF ActiveOnHome
  <2>2. \A p \in ActiveOnModel(ModelOf[c])' : p \in ActivePairs' /\ ModelOf[attempts'[p[1]][p[2]].candidate] = ModelOf[c]
    BY DEF ActiveOnModel
  <2>3. \A p \in ActivePairs' : p \in ActivePairs \/ p = <<j, n>>
    BY <1>6
  <2>4. \A p \in ActivePairs : attempts'[p[1]][p[2]].candidate = attempts[p[1]][p[2]].candidate
    BY <1>7
  <2>5. ActiveOnHome(HomeOf[c])' \subseteq ActiveOnHome(HomeOf[c]) \cup {<<j, n>>}
    BY <2>1, <2>3, <2>4 DEF ActiveOnHome
  <2>6. ActiveOnModel(ModelOf[c])' \subseteq ActiveOnModel(ModelOf[c]) \cup {<<j, n>>}
    BY <2>2, <2>3, <2>4 DEF ActiveOnModel
  <2> QED
    BY <2>5, <2>6
<1>9. IsFiniteSet(ActiveOnHome(HomeOf[c])) /\ IsFiniteSet(ActiveOnModel(ModelOf[c]))
  <2>1. ActiveOnHome(HomeOf[c]) \subseteq ActivePairs /\ ActiveOnModel(ModelOf[c]) \subseteq ActivePairs
    BY DEF ActiveOnHome, ActiveOnModel
  <2> QED
    BY <1>1, <2>1, FS_Subset
<1>10. /\ Cardinality(ActivePairs) < MaxActive
       /\ Cardinality(ActiveOnHome(HomeOf[c])) < HomeLimit[HomeOf[c]]
       /\ Cardinality(ActiveOnModel(ModelOf[c])) < ModelLimit[ModelOf[c]]
  BY <1>2, <1>4 DEF HasCapacity, Acceptable
<1>11. Cardinality(ActivePairs') <= MaxActive
  BY <1>1, <1>6, <1>10, OneMore
<1>12. Cardinality(ActiveOnHome(HomeOf[c])') <= HomeLimit[HomeOf[c]]
  BY <1>8, <1>9, <1>10, OneMore
<1>13. Cardinality(ActiveOnModel(ModelOf[c])') <= ModelLimit[ModelOf[c]]
  BY <1>8, <1>9, <1>10, OneMore
<1> QED
  BY <1>11, <1>12, <1>13 DEF WithinLimits

\* Whatever races, a dispatch finds room within every limit it is bound by, in all,
\* on its Home and on its model, Attempts started outside the scheduler included.
THEOREM ConcurrencyRespectedHolds == Spec => ConcurrencyRespected
<1>1. FiniteInv /\ [Next]_vars =>
         [\A j \in Scheduled, c \in Candidates :
             Dispatched(j) /\ attempts'[j][Len(attempts'[j])].candidate = c
                 => WithinLimits(c)']_vars
  BY ShapeStep, LimitsRespected DEF FiniteInv
<1> QED
  BY <1>1, FiniteInvariant, PTL DEF Spec, ConcurrencyRespected

----------------------------------------------------------------------------
\* The time of a job.

\* No Run's newest event is older than the one before it.
LEMMA TimeStep ==
    ASSUME TypeOK, [Next]_vars, NEW r \in Runs
    PROVE  lastTs[r] \in Nat /\ lastTs'[r] \in Nat /\ lastTs[r] <= lastTs'[r]
<1> DEFINE Later == \A q \in Runs : lastTs'[q] \in Nat /\ lastTs[q] <= lastTs'[q]
<1>a. lastTs \in [Runs -> Nat] /\ clock \in Nat /\ \A ts \in 0..clock : ts \in Nat
  BY DEF TypeOK
<1>1. ASSUME NEW R, NEW ts \in Nat, AppendEvents(R, ts) PROVE Later
  BY <1>a, <1>1 DEF AppendEvents
<1>2. ASSUME UNCHANGED lastTs PROVE Later
  BY <1>a, <1>2
<1> HIDE DEF Later
<1>3. ASSUME NEW q \in Runs, RunStep(q) PROVE Later
  BY <1>a, <1>1, <1>3 DEF RunStep, StartAttempt, PrepareWorktree, CompleteAttempt, FailAttempt,
                          CloseAttempt, CompleteRun, FailRun
<1>4. ASSUME NEW j \in Scheduled, JobStep(j) PROVE Later
  BY <1>a, <1>1, <1>4 DEF JobStep, Pause, Resume, RenewLease, ResolveRecovery, Terminalize
<1>5. ASSUME NEW ts \in 0..clock, NEW j \in Scheduled, DispatchJob(j, ts) PROVE Later
  <2>1. ASSUME NEW c, Claim(j, c, ts) PROVE Later
    BY <1>a, <1>1, <2>1 DEF Claim
  <2>2. ASSUME Defer(j, ts) PROVE Later
    BY <1>a, <1>1, <2>2 DEF Defer
  <2> QED
    BY <1>5, <2>1, <2>2 DEF DispatchJob
<1>6. ASSUME NEW ts \in 0..clock, Tick(ts) PROVE Later
  BY <1>a, <1>1, <1>6 DEF Tick
<1>7. ASSUME NEW q \in Runs, NEW spec \in Specs, NEW deps \in DepLists, Enqueue(q, spec, deps)
      PROVE  Later
  BY <1>a, <1>1, <1>7 DEF Enqueue
<1>8. ASSUME AdvanceClock \/ UNCHANGED vars PROVE Later
  BY <1>2, <1>8 DEF AdvanceClock, vars
<1>9. Later
  BY <1>3, <1>4, <1>5, <1>6, <1>7, <1>8 DEF Next, Operate, DispatchNamed, DispatchNext
<1> QED
  BY <1>a, <1>9 DEF Later

\* What has been dispatched is in order, and not newer than the job's newest event.
InOrder(j) ==
    \A k \in DOMAIN dispatches[j] :
        /\ job[j].queuedAt <= dispatches[j][k].at
        /\ \A m \in 1..k : dispatches[j][m].at <= dispatches[j][k].at
        /\ dispatches[j][k].at <= lastTs[j]

OverWhenTaken(j) ==
    mark[j] = "recovery_required" => dispatches[j] # <<>> /\ Latest(j).expires <= lastTs[j]

JobTime(j) == job[j].queuedAt <= lastTs[j] /\ InOrder(j) /\ OverWhenTaken(j)

TimeInv == ClaimInv /\ \A j \in Scheduled : JobTime(j)

\* The times of a job are numbers, and there is a lease where one was taken.
LEMMA JobTimes ==
    ASSUME ClaimInv, NEW j \in Scheduled
    PROVE  /\ job[j].queuedAt \in Nat /\ DOMAIN dispatches[j] = 1..Len(dispatches[j])
           /\ Len(dispatches[j]) \in Nat
           /\ \A k \in DOMAIN dispatches[j] : /\ dispatches[j][k].at \in Nat
                                              /\ dispatches[j][k].expires \in Nat
<1>1. j \in Runs /\ dispatches[j] \in Seq(Dispatch)
  BY DEF ClaimInv, TypeOK
<1>2. \A k \in DOMAIN dispatches[j] : dispatches[j][k] \in Dispatch
  BY <1>1
<1> QED
  BY <1>1, <1>2, SpecNumbers DEF Dispatch

\* A later newest event leaves what was in order in order.
LEMMA TimeFrame ==
    ASSUME ClaimInv, NEW j \in Scheduled, JobTime(j), dispatches'[j] = dispatches[j],
           job'[j] = job[j], lastTs[j] \in Nat, lastTs'[j] \in Nat, lastTs[j] <= lastTs'[j]
    PROVE  job'[j].queuedAt <= lastTs'[j] /\ InOrder(j)'
<1>1. job'[j].queuedAt <= lastTs'[j]
  BY JobTimes DEF JobTime
<1>2. ASSUME NEW k \in DOMAIN dispatches[j] PROVE dispatches[j][k].at <= lastTs'[j]
  <2>1. dispatches[j][k].at \in Nat /\ dispatches[j][k].at <= lastTs[j]
    BY JobTimes DEF JobTime, InOrder
  <2> QED
    BY <2>1
<1> QED
  BY <1>1, <1>2 DEF JobTime, InOrder

\* A renewal leaves the beginnings of the leases alone.
LEMMA TimeRenews ==
    ASSUME ClaimInv, NEW j \in Scheduled, JobTime(j), Renews(j),
           lastTs[j] \in Nat, lastTs'[j] \in Nat, lastTs[j] <= lastTs'[j]
    PROVE  JobTime(j)'
<1>1. PICK d \in DOMAIN dispatches[j], ts \in 0..clock, extension \in Extensions :
         RenewLease(j, d, ts, extension)
  BY DEF Renews
<1>2. /\ DOMAIN dispatches'[j] = DOMAIN dispatches[j]
      /\ \A k \in DOMAIN dispatches[j] : dispatches'[j][k].at = dispatches[j][k].at
      /\ job'[j] = job[j] /\ mark'[j] # "recovery_required"
  <2>1. mark[j] # "recovery_required"
    BY <1>1, RenewedLease, RecoveryStatus DEF Terminal
  <2> QED
    BY <1>1, <2>1, RenewedLease
<1>3. job'[j].queuedAt <= lastTs'[j]
  BY <1>2, JobTimes DEF JobTime
<1>4. \A k \in DOMAIN dispatches[j] : \A m \in 1..k : m \in DOMAIN dispatches[j]
  BY JobTimes
<1>5. ASSUME NEW k \in DOMAIN dispatches[j] PROVE dispatches[j][k].at <= lastTs'[j]
  <2>1. dispatches[j][k].at \in Nat /\ dispatches[j][k].at <= lastTs[j]
    BY JobTimes DEF JobTime, InOrder
  <2> QED
    BY <2>1
<1>6. InOrder(j)'
  BY <1>2, <1>4, <1>5 DEF JobTime, InOrder
<1> QED
  BY <1>2, <1>3, <1>6 DEF JobTime, OverWhenTaken

\* A lease begins at the job's newest event, and so after all before it.
LEMMA TimeClaims ==
    ASSUME ClaimInv, NEW j \in Scheduled, JobTime(j), Claimed(j),
           lastTs[j] \in Nat, lastTs'[j] \in Nat, lastTs[j] <= lastTs'[j]
    PROVE  JobTime(j)'
<1>1. PICK c \in Candidates, ts \in 0..clock : Eligible(j, ts) /\ Claim(j, c, ts)
  BY DEF Claimed
<1> DEFINE n == Len(dispatches[j]) + 1
<1>2. /\ n \in Nat /\ DOMAIN dispatches'[j] = 1..n /\ DOMAIN dispatches[j] = 1..(n - 1)
      /\ \A k \in 1..(n - 1) : dispatches'[j][k] = dispatches[j][k]
      /\ dispatches'[j][n].at = ts /\ mark'[j] = "running" /\ job' = job
  <2>1. Eligible(j, ts) /\ Claim(j, c, ts)
    BY <1>1
  <2> QED
    BY <2>1, ClaimedLease, SMTT(30)
<1>3. lastTs'[j] = ts
  BY <1>1 DEF Claim, AppendEvents, ClaimInv, TypeOK
<1>4. \A k \in 1..(n - 1) : /\ dispatches[j][k].at \in Nat
                            /\ dispatches[j][k].at <= lastTs[j]
                            /\ job[j].queuedAt <= dispatches[j][k].at
                            /\ \A m \in 1..k : dispatches[j][m].at <= dispatches[j][k].at
  BY <1>2, JobTimes DEF JobTime, InOrder
<1>5. job[j].queuedAt \in Nat /\ job[j].queuedAt <= lastTs[j]
  BY JobTimes DEF JobTime
<1> HIDE DEF n
<1>6. ASSUME NEW k \in 1..(n - 1)
      PROVE  /\ dispatches'[j][k].at <= ts /\ job[j].queuedAt <= dispatches'[j][k].at
             /\ \A m \in 1..k : dispatches'[j][m].at <= dispatches'[j][k].at
  <2>1. \A m \in 1..k : m \in 1..(n - 1)
    BY <1>2
  <2>2. \A m \in 1..(n - 1) : dispatches'[j][m].at = dispatches[j][m].at
    BY <1>2
  <2>3. dispatches[j][k].at <= ts
    BY <1>2, <1>3, <1>4
  <2> QED
    BY <1>4, <2>1, <2>2, <2>3
<1>7. ASSUME NEW k \in 1..n
      PROVE  /\ dispatches'[j][k].at <= ts /\ job[j].queuedAt <= dispatches'[j][k].at
             /\ \A m \in 1..k : dispatches'[j][m].at <= dispatches'[j][k].at
  <2>1. CASE k \in 1..(n - 1)
    BY <1>6, <2>1
  <2>2. CASE k = n
    <3>1. \A m \in 1..n : m \in 1..(n - 1) \/ m = n
      BY <1>2
    <3>2. job[j].queuedAt <= ts /\ ts <= ts
      BY <1>3, <1>5
    <3> QED
      BY <1>2, <1>6, <2>2, <3>1, <3>2
  <2> QED
    BY <1>2, <2>1, <2>2
<1>8. InOrder(j)'
  BY <1>2, <1>3, <1>7 DEF InOrder
<1>9. job'[j].queuedAt <= lastTs'[j]
  BY <1>2, <1>5
<1> QED
  BY <1>2, <1>8, <1>9 DEF JobTime, OverWhenTaken

\* Every step takes every job forward.
LEMMA JobTimeStep == TimeInv /\ [Next]_vars => TimeInv'
<1> SUFFICES ASSUME TimeInv, [Next]_vars PROVE TimeInv'
  OBVIOUS
<1>1. ClaimInv /\ ClaimInv' /\ TypeOK /\ TypeOK' /\ StepShape
  <2>1. ClaimInv
    BY DEF TimeInv
  <2>2. ClaimInv'
    BY <2>1, ClaimStep
  <2> QED
    BY <2>1, <2>2, ShapeStep DEF ClaimInv
<1>2. \A r \in Runs : lastTs[r] \in Nat /\ lastTs'[r] \in Nat /\ lastTs[r] <= lastTs'[r]
  BY <1>1, TimeStep
<1>3. ASSUME NEW j \in Scheduled, dispatches'[j] = dispatches[j], job'[j] = job[j],
             mark'[j] = "recovery_required" => mark[j] = "recovery_required" \/ Suspects(j)
      PROVE  JobTime(j)'
  <2>1. j \in Runs /\ JobTime(j)
    BY <1>1 DEF TimeInv, TypeOK
  <2>2. job'[j].queuedAt <= lastTs'[j] /\ InOrder(j)'
    BY <1>1, <1>2, <1>3, <2>1, TimeFrame
  <2>3. Latest(j)' = Latest(j)
    BY <1>3 DEF Latest
  <2>4. ASSUME mark[j] = "recovery_required"
        PROVE  dispatches[j] # <<>> /\ Latest(j).expires <= lastTs'[j]
    <3>1. dispatches[j] # <<>> /\ Latest(j).expires <= lastTs[j]
      BY <2>1, <2>4 DEF JobTime, OverWhenTaken
    <3>2. Len(dispatches[j]) \in DOMAIN dispatches[j]
      BY <1>1, <2>1, <3>1 DEF ClaimInv, TypeOK
    <3>3. Latest(j).expires \in Nat
      BY <1>1, <3>2, JobTimes DEF Latest
    <3> QED
      BY <1>2, <2>1, <3>1, <3>3
  <2>5. ASSUME Suspects(j) PROVE dispatches[j] # <<>> /\ Latest(j).expires <= lastTs'[j]
    BY <1>1, <2>5, RunningLease DEF Suspects
  <2> QED
    BY <1>3, <2>2, <2>3, <2>4, <2>5 DEF JobTime, OverWhenTaken
<1>4. ASSUME NEW j \in Runs, Keeps(j), j \in Scheduled' PROVE JobTime(j)'
  BY <1>3, <1>4 DEF Keeps
<1>5. ASSUME NEW j \in Runs, JobMoves(j) PROVE JobTime(j)'
  <2>1. j \in Scheduled /\ JobTime(j) /\ job'[j] = job[j]
    BY <1>5 DEF JobMoves, TimeInv
  <2>2. ASSUME Renews(j) \/ Claimed(j) PROVE JobTime(j)'
    BY <1>1, <1>2, <1>5, <2>1, <2>2, TimeRenews, TimeClaims
  <2>3. ASSUME ~ (Renews(j) \/ Claimed(j))
        PROVE  /\ dispatches'[j] = dispatches[j]
               /\ mark'[j] = "recovery_required" => mark[j] = "recovery_required" \/ Suspects(j)
    BY <1>5, <2>3 DEF JobMoves, Pauses, Resumes, Suspects, Marks, Finishes, Releases, Recovers, Ends
  <2> QED
    BY <1>3, <2>1, <2>2, <2>3
<1>6. ASSUME NEW j \in Runs, Enters(j) PROVE JobTime(j)'
  <2>1. /\ dispatches'[j] = <<>> /\ mark'[j] = "queued" /\ lastTs'[j] = clock
        /\ job'[j].queuedAt = clock /\ clock \in Nat
    BY <1>1, <1>6 DEF Enters, ClaimInv, Untouched, TypeOK
  <2> QED
    BY <2>1 DEF JobTime, InOrder, OverWhenTaken
<1>7. ASSUME NEW j \in Scheduled' PROVE JobTime(j)'
  <2>1. j \in Runs
    BY <1>1 DEF TypeOK
  <2>2. ~ Outside(j)
    BY DEF Outside
  <2>3. Keeps(j) \/ JobMoves(j) \/ Enters(j)
    BY <2>1, <2>2, <1>1 DEF StepShape, Sweeps
  <2> QED
    BY <1>4, <1>5, <1>6, <1>7, <2>1, <2>3
<1> QED
  BY <1>1, <1>7 DEF TimeInv

\* However stale the timestamps of dispatchers, workers and ticks, the leases of a job
\* begin in order and not before it was queued, and one taken for recovery has ended.
THEOREM JobTimeGoesForwardHolds == Spec => []JobTimeGoesForward
<1>1. Init => TimeInv
  BY ClaimInit DEF Init, TimeInv, Scheduled
<1>2. TimeInv => JobTimeGoesForward
  BY DEF TimeInv, JobTime, InOrder, OverWhenTaken, JobTimeGoesForward
<1> QED
  BY <1>1, <1>2, JobTimeStep, PTL DEF Spec

----------------------------------------------------------------------------
\* The refinement of ScheduleClaims.

\* The phase of a job, read off its Run, its mark and its newest Attempt.
PhaseRead(j) ==
    IF run[j] # "running" THEN "done"
    ELSE IF mark[j] = "paused" THEN "paused"
    ELSE IF mark[j] = "recovery_required" THEN "suspect"
    ELSE IF dispatches[j] = <<>> THEN "free"
    ELSE IF LatestAttempt(j).status = "running" THEN "held"
    ELSE IF LatestAttempt(j).status = "succeeded" THEN "settled"
    ELSE "free"

PhasesRead == \A j \in Scheduled : PhaseOf(j) = PhaseRead(j)

LEMMA PhaseIs == ClaimInv => PhasesRead
<1> SUFFICES ASSUME ClaimInv, NEW j \in Scheduled PROVE PhaseOf(j) = PhaseRead(j)
  BY DEF PhasesRead
<1>1. /\ j \in Runs /\ run[j] \in RunStatus /\ mark[j] \in JobMarks
      /\ mark[j] \in Terminal => run[j] = mark[j]
  BY DEF ClaimInv, TypeOK, JobClaim
<1>2. dispatches[j] # <<>> => LatestAttempt(j).status \in {"running", "succeeded", "failed"}
  BY LatestType DEF AttemptStatus
<1>3. CASE run[j] # "running"
  <2>1. Reconciled(j) \in Terminal
    BY <1>1, <1>3 DEF Reconciled, Terminal, RunStatus, RunFailures
  <2> QED
    BY <1>3, <2>1 DEF PhaseOf, PhaseRead
<1>4. CASE run[j] = "running"
  <2>1. mark[j] \notin Terminal
    BY <1>1, <1>4 DEF Terminal
  <2>2. Reconciled(j) =
           IF mark[j] \in {"paused", "recovery_required"} THEN mark[j]
           ELSE IF dispatches[j] = <<>> THEN "queued"
           ELSE IF LatestAttempt(j).status = "running" THEN "running"
           ELSE IF LatestAttempt(j).status = "succeeded" THEN "verifying"
           ELSE "retry_ready"
    BY <1>2, <1>4, <2>1 DEF Reconciled
  <2> QED
    BY <1>4, <2>2 DEF PhaseOf, PhaseRead, Terminal
<1> QED
  BY <1>3, <1>4

LEMMA PhaseIsNext == ClaimInv' => \A j \in Scheduled' : PhaseOf(j)' = PhaseRead(j)'
<1>1. ClaimInv' => PhasesRead'
  BY PhaseIs, PTL
<1> QED
  BY <1>1 DEF PhasesRead

\* The status a pause, a tick, a renewal or a dispatch reads tells the phase.
LEMMA ViewPhase ==
    ASSUME ClaimInv, NEW j \in Scheduled, NEW ts
    PROVE  /\ View(j, ts).status \in {"queued", "waiting", "ready", "retry_ready", "needs_attention"}
                 => PhaseOf(j) = "free"
           /\ View(j, ts).status = "running" => PhaseOf(j) = "held"
           /\ Eligible(j, ts) => PhaseOf(j) = "free"
<1>1. ActiveAttempts(j) # {} => Reconciled(j) \in {"running", "recovery_required"}
  BY ActiveStatus
<1>2. View(j, ts).status \in {"queued", "waiting", "ready", "retry_ready", "needs_attention"}
         => Reconciled(j) \notin Terminal \cup {"paused", "recovery_required", "running", "verifying"}
  BY DEF View, Terminal
<1>3. View(j, ts).status = "running" => Reconciled(j) = "running"
  BY <1>1 DEF View, Terminal
<1>4. Eligible(j, ts) => Reconciled(j) \in {"queued", "retry_ready"}
  BY EligibleJob
<1> QED
  BY <1>2, <1>3, <1>4 DEF PhaseOf, Terminal

\* A paused job has nothing running and nothing done: it can be given out again.
PausedFree(j) ==
    mark[j] = "paused" =>
        dispatches[j] = <<>> \/ LatestAttempt(j).status = "failed"

PauseInv == ClaimInv /\ \A j \in Scheduled : PausedFree(j)

\* What a move of a job does to its phase and the number of its dispatches.
Turns(j, from, to, more) ==
    /\ PhaseOf(j) \in from /\ PhaseOf(j)' = to
    /\ Len(dispatches'[j]) = Len(dispatches[j]) + more

Stays(j) == PhaseOf(j)' = PhaseOf(j) /\ Len(dispatches'[j]) = Len(dispatches[j])

AbstractMove(j) ==
    \/ Stays(j)
    \/ Turns(j, {"unqueued"}, "free", 0)
    \/ Turns(j, {"free"}, "held", 1)
    \/ Turns(j, {"free"}, "paused", 0)
    \/ Turns(j, {"paused"}, "free", 0)
    \/ Turns(j, {"held"}, "free", 0)
    \/ Turns(j, {"held"}, "settled", 0)
    \/ Turns(j, {"held"}, "suspect", 0)
    \/ Turns(j, {"suspect"}, "free", 0)
    \/ Turns(j, {"free", "paused", "held", "suspect", "settled"}, "done", 0)

\* What keeps a job's Run, mark, Attempts and dispatches keeps its phase.
LEMMA PhaseFrame ==
    ASSUME NEW j, attempts'[j] = attempts[j], dispatches'[j] = dispatches[j]
    PROVE  /\ LatestAttempt(j)' = LatestAttempt(j) /\ Latest(j)' = Latest(j)
           /\ mark'[j] = mark[j] /\ run'[j] = run[j] => PhaseRead(j)' = PhaseRead(j)
BY DEF LatestAttempt, Latest, PhaseRead

\* After its newest Attempt closed, a job shows how.
LEMMA ClosedPhase ==
    ASSUME ClaimInv, NEW j \in Scheduled, NEW status, NEW failure, Closes(j, status, failure),
           dispatches'[j] = dispatches[j]
    PROVE  /\ dispatches[j] # <<>> /\ LatestAttempt(j)'.status = status
           /\ run[j] = "running" /\ mark[j] # "paused"
           /\ PhaseRead(j) = IF mark[j] = "recovery_required" THEN "suspect" ELSE "held"
<1> DEFINE n   == Len(attempts[j])
           new == [candidate |-> attempts[j][n].candidate, status |-> status,
                   failure |-> failure]
<1>1. /\ j \in Runs /\ attempts[j] \in Seq(Attempt) /\ dispatches[j] \in Seq(Dispatch)
      /\ Len(dispatches[j]) = n /\ n \in DOMAIN attempts[j]
      /\ \A k \in DOMAIN dispatches[j] : dispatches[j][k].attempt = k
      /\ attempts'[j] = [attempts[j] EXCEPT ![n] = new]
      /\ n \in ActiveAttempts(j) /\ (mark[j] = "paused" => ActiveAttempts(j) = {})
      /\ (run[j] # "running" => ActiveAttempts(j) = {})
  BY DEF ClaimInv, TypeOK, JobClaim, Closes, QuietAtEnd
<1>2. new.status = status
  OBVIOUS
<1> HIDE DEF new
<1>3. dispatches[j] # <<>> /\ Latest(j).attempt = n /\ Latest(j)' = Latest(j)
  BY <1>1 DEF Latest
<1>4. LatestAttempt(j)' = new /\ LatestAttempt(j) = attempts[j][n]
  <2>1. attempts'[j][n] = new
    BY <1>1
  <2> HIDE DEF n
  <2> QED
    BY <1>3, <2>1 DEF LatestAttempt, n
<1>5. attempts[j][n].status = "running"
  BY <1>1 DEF ActiveAttempts
<1> QED
  BY <1>1, <1>2, <1>3, <1>4, <1>5 DEF PhaseRead

\* Every move of a job is one that the abstract claims allow.
LEMMA MoveRefines ==
    ASSUME PauseInv, ClaimInv', NEW j \in Runs, JobMoves(j)
    PROVE  AbstractMove(j) /\ PausedFree(j)'
<1> USE ConstantsAssumption
<1> DEFINE Kept == AbstractMove(j) /\ PausedFree(j)'
<1>1. /\ ClaimInv /\ PausedFree(j) /\ j \in Scheduled /\ j \in Scheduled' /\ run[j] = "running"
      /\ Len(dispatches[j]) \in Nat
  BY DEF PauseInv, JobMoves, ClaimInv, TypeOK
<1>2. PhaseOf(j) = PhaseRead(j) /\ PhaseOf(j)' = PhaseRead(j)'
  BY <1>1, PhaseIs, PhaseIsNext DEF PhasesRead
<1>3. ASSUME Pauses(j) PROVE Kept
  <2>1. PhaseOf(j) = "free"
    BY <1>1, <1>3, ViewPhase DEF Pauses
  <2>2. PhaseRead(j)' = "paused"
    BY <1>1, <1>3 DEF PhaseRead, Pauses, Marks
  <2>3. dispatches[j] = <<>> \/ LatestAttempt(j).status = "failed"
    <3>1. dispatches[j] # <<>> => LatestAttempt(j).status \in {"running", "succeeded", "failed"}
      BY <1>1, LatestType DEF AttemptStatus
    <3> QED
      BY <1>1, <1>2, <2>1, <3>1 DEF PhaseRead
  <2>4. PausedFree(j)'
    BY <1>3, <2>3, PhaseFrame DEF PausedFree, Pauses, Marks
  <2> QED
    BY <1>1, <1>2, <1>3, <2>1, <2>2, <2>4 DEF AbstractMove, Turns, Pauses, Marks
<1>4. ASSUME Resumes(j) PROVE Kept
  <2>1. PhaseOf(j) = "paused"
    BY <1>1, <1>4 DEF Resumes, PhaseOf, Terminal
  <2>2. mark[j] = "paused"
    BY <1>1, <1>2, <2>1 DEF PhaseRead
  <2>3. dispatches[j] = <<>> \/ LatestAttempt(j).status = "failed"
    BY <1>1, <2>2 DEF PausedFree
  <2>4. PhaseRead(j)' = "free"
    BY <1>1, <1>4, <2>3, PhaseFrame DEF PhaseRead, Resumes, Marks
  <2>5. PausedFree(j)'
    BY <1>4 DEF PausedFree, Resumes, Marks
  <2> QED
    BY <1>1, <1>2, <1>4, <2>1, <2>4, <2>5 DEF AbstractMove, Turns, Resumes, Marks
<1>5. ASSUME Suspects(j) PROVE Kept
  <2>1. PhaseOf(j) = "held"
    BY <1>1, <1>5, ViewPhase DEF Suspects
  <2>2. PhaseRead(j)' = "suspect" /\ PausedFree(j)'
    BY <1>1, <1>5 DEF PhaseRead, Suspects, Marks, PausedFree
  <2> QED
    BY <1>1, <1>2, <1>5, <2>1, <2>2 DEF AbstractMove, Turns, Suspects, Marks
<1>6. PhaseOf(j) \in {"free", "paused", "held", "suspect", "settled"}
  BY <1>1, <1>2 DEF PhaseRead
<1>7. ASSUME Finishes(j) PROVE Kept
  <2>1. PhaseRead(j)' = "done"
    BY <1>7 DEF PhaseRead, Finishes, Terminal
  <2>2. PausedFree(j)'
    BY <1>1, <1>7, PhaseFrame DEF PausedFree, Finishes
  <2> QED
    BY <1>1, <1>2, <1>6, <1>7, <2>1, <2>2 DEF AbstractMove, Turns, Finishes
<1>8. ASSUME Releases(j) PROVE Kept
  <2>1. PICK status \in {"succeeded", "failed"}, failure \in Failures : Closes(j, status, failure)
    BY <1>8 DEF Releases
  <2>2. /\ dispatches[j] # <<>> /\ LatestAttempt(j)'.status = status
        /\ mark[j] # "paused"
        /\ PhaseRead(j) = IF mark[j] = "recovery_required" THEN "suspect" ELSE "held"
    BY <1>1, <1>8, <2>1, ClosedPhase DEF Releases
  <2>3. PhaseRead(j)' = IF mark[j] = "recovery_required" THEN "suspect"
                        ELSE IF status = "succeeded" THEN "settled" ELSE "free"
    BY <1>1, <1>8, <2>1, <2>2 DEF Releases, PhaseRead
  <2>4. PausedFree(j)'
    BY <1>8, <2>2 DEF PausedFree, Releases
  <2> QED
    BY <1>1, <1>2, <1>8, <2>2, <2>3, <2>4 DEF AbstractMove, Turns, Stays, Releases
<1>9. ASSUME Recovers(j) PROVE Kept
  <2>1. PhaseOf(j) = "suspect"
    BY <1>1, <1>9 DEF Recovers, PhaseOf, Terminal
  <2>2. dispatches[j] # <<>> /\ LatestAttempt(j)'.status = "failed"
    BY <1>1, <1>9, ClosedPhase DEF Recovers
  <2>3. PhaseRead(j)' = "free" /\ PausedFree(j)'
    BY <1>1, <1>9, <2>2 DEF Recovers, PhaseRead, PausedFree
  <2> QED
    BY <1>1, <1>2, <1>9, <2>1, <2>3 DEF AbstractMove, Turns, Recovers
<1>10. ASSUME Ends(j) PROVE Kept
  <2>1. PhaseRead(j)' = "done" /\ PausedFree(j)'
    BY <1>10 DEF Ends, PhaseRead, PausedFree
  <2> QED
    BY <1>1, <1>2, <1>6, <1>10, <2>1 DEF AbstractMove, Turns, Ends
<1>11. ASSUME Renews(j) PROVE Kept
  <2>1. PICK d \in DOMAIN dispatches[j], ts \in 0..clock, extension \in Extensions :
           RenewLease(j, d, ts, extension)
    BY <1>11 DEF Renews
  <2>2. /\ View(j, ts).status = "running" /\ d = Len(dispatches[j])
        /\ Len(dispatches'[j]) = Len(dispatches[j])
        /\ dispatches'[j][d].attempt = dispatches[j][d].attempt
        /\ UNCHANGED <<run, attempts, used, job, mark>>
    <3>1. ClaimInv /\ j \in Scheduled
      BY <1>1
    <3> HIDE DEF Kept
    <3> QED
      BY <2>1, <3>1, RenewedLease
  <2>3. LatestAttempt(j)' = LatestAttempt(j)
    BY <2>2 DEF LatestAttempt, Latest
  <2>4. dispatches[j] # <<>> /\ dispatches'[j] # <<>>
    <3>1. dispatches[j] \in Seq(Dispatch) /\ dispatches'[j] \in Seq(Dispatch)
      BY <1>1 DEF ClaimInv, TypeOK
    <3> QED
      BY <2>2, <3>1
  <2>5. PhaseRead(j)' = PhaseRead(j) /\ PausedFree(j)'
    BY <1>1, <2>2, <2>3, <2>4 DEF PhaseRead, PausedFree
  <2> QED
    BY <1>2, <2>2, <2>5 DEF AbstractMove, Stays
<1>12. ASSUME Claimed(j) PROVE Kept
  <2>1. PICK c \in Candidates, ts \in 0..clock : Eligible(j, ts) /\ Claim(j, c, ts)
    BY <1>12 DEF Claimed
  <2> DEFINE n == Len(dispatches[j]) + 1
  <2>2. /\ Len(dispatches'[j]) = n /\ DOMAIN dispatches'[j] = 1..n
        /\ attempts'[j][n].status = "running" /\ n \in Nat
        /\ mark'[j] = "running" /\ UNCHANGED run
    BY <1>1, <2>1, ClaimedLease
  <2> HIDE DEF n
  <2>3. n \in DOMAIN dispatches'[j] /\ n # 0
    BY <1>1, <2>2 DEF n
  <2>4. dispatches'[j][n].attempt = n
    BY <1>1, <2>3 DEF ClaimInv, JobClaim
  <2>5. LatestAttempt(j)'.status = "running" /\ dispatches'[j] # <<>>
    BY <2>2, <2>3, <2>4 DEF LatestAttempt, Latest
  <2>6. PhaseRead(j)' = "held" /\ PausedFree(j)'
    BY <1>1, <2>2, <2>5 DEF PhaseRead, PausedFree
  <2>7. PhaseOf(j) = "free"
    BY <1>1, <2>1, ViewPhase
  <2> QED
    BY <1>2, <2>2, <2>6, <2>7 DEF AbstractMove, Turns, n
<1> HIDE DEF Kept
<1>13. Kept
  BY <1>3, <1>4, <1>5, <1>7, <1>8, <1>9, <1>10, <1>11, <1>12 DEF JobMoves
<1> QED
  BY <1>13 DEF Kept

\* Every step of the scheduler is one of the abstract claims, or moves nothing there.
LEMMA RefinesStep ==
    ASSUME PauseInv, [Next]_vars
    PROVE  /\ PauseInv'
           /\ \/ \A r \in Runs : Stays(r)
              \/ \E r \in Runs : AbstractMove(r) /\ \A q \in Runs \ {r} : Stays(q)
              \/ \A r \in Runs : \/ Stays(r) \/ Turns(r, {"held"}, "suspect", 0)
                                 \/ Turns(r, {"free"}, "paused", 0)
<1>1. ClaimInv /\ ClaimInv' /\ StepShape /\ Scheduled \subseteq Runs /\ Scheduled' \subseteq Runs
  <2>1. ClaimInv
    BY DEF PauseInv
  <2>2. ClaimInv'
    BY <2>1, ClaimStep
  <2> QED
    BY <2>1, <2>2, ShapeStep DEF ClaimInv, TypeOK
<1> DEFINE Free(r) == r \in Scheduled' => PausedFree(r)'
<1>2. ASSUME NEW r \in Runs, Keeps(r) PROVE Stays(r) /\ Free(r)
  <2>1. CASE r \in Scheduled
    <3>1. r \in Scheduled' /\ PausedFree(r)
      BY <1>2, <2>1 DEF Keeps, PauseInv
    <3>2. PhaseOf(r) = PhaseRead(r) /\ PhaseOf(r)' = PhaseRead(r)'
      BY <1>1, <2>1, <3>1, PhaseIs, PhaseIsNext DEF PhasesRead
    <3>3. PhaseRead(r)' = PhaseRead(r) /\ PausedFree(r)'
      BY <1>2, <3>1, PhaseFrame DEF Keeps, PausedFree
    <3> QED
      BY <1>2, <3>2, <3>3 DEF Keeps, Stays
  <2>2. CASE r \notin Scheduled
    BY <1>2, <2>2 DEF Keeps, Stays, PhaseOf
  <2> QED
    BY <2>1, <2>2
<1>3. ASSUME NEW r \in Runs, JobMoves(r) PROVE AbstractMove(r) /\ Free(r)
  BY <1>1, <1>3, MoveRefines
<1>4. ASSUME NEW r \in Runs, Enters(r) PROVE AbstractMove(r) /\ Free(r)
  <2>1. r \in Scheduled' /\ r \notin Scheduled /\ dispatches[r] = <<>> /\ mark[r] = "queued"
    BY <1>1, <1>4 DEF Enters, ClaimInv, Untouched
  <2>2. dispatches'[r] = <<>> /\ mark'[r] = "queued" /\ run'[r] = "running"
    BY <1>4, <2>1 DEF Enters
  <2>3. PhaseOf(r) = "unqueued" /\ PhaseOf(r)' = "free"
    BY <1>1, <2>1, <2>2, PhaseIsNext DEF PhaseOf, PhaseRead
  <2>4. PausedFree(r)'
    BY <2>2 DEF PausedFree
  <2> QED
    BY <2>1, <2>2, <2>3, <2>4 DEF AbstractMove, Turns
<1>5. ASSUME NEW r \in Runs, Outside(r) PROVE AbstractMove(r) /\ Free(r)
  BY <1>5 DEF Outside, AbstractMove, Stays, PhaseOf
<1>6. ASSUME NEW r \in Runs, JobMoves(r), Pauses(r) PROVE Turns(r, {"free"}, "paused", 0)
  <2>1. r \in Scheduled /\ r \in Scheduled' /\ run[r] = "running"
        /\ Len(dispatches[r]) \in Nat
    BY <1>1, <1>6 DEF JobMoves, ClaimInv, TypeOK
  <2>2. PhaseOf(r) = "free" /\ PhaseOf(r)' = PhaseRead(r)'
    BY <1>1, <1>6, <2>1, ViewPhase, PhaseIsNext DEF Pauses
  <2>3. PhaseRead(r)' = "paused"
    BY <1>6, <2>1 DEF PhaseRead, Pauses, Marks
  <2> QED
    BY <1>6, <2>1, <2>2, <2>3 DEF Turns, Pauses, Marks
<1>7. ASSUME NEW r \in Runs, JobMoves(r), Suspects(r) PROVE Turns(r, {"held"}, "suspect", 0)
  <2>1. r \in Scheduled /\ r \in Scheduled' /\ run[r] = "running"
        /\ Len(dispatches[r]) \in Nat
    BY <1>1, <1>7 DEF JobMoves, ClaimInv, TypeOK
  <2>2. PhaseOf(r) = "held" /\ PhaseOf(r)' = PhaseRead(r)'
    BY <1>1, <1>7, <2>1, ViewPhase, PhaseIsNext DEF Suspects
  <2>3. PhaseRead(r)' = "suspect"
    BY <1>7, <2>1 DEF PhaseRead, Suspects, Marks
  <2> QED
    BY <1>7, <2>1, <2>2, <2>3 DEF Turns, Suspects, Marks
<1> HIDE DEF Free
<1>8. ASSUME NEW r \in Runs, Sweeps(r)
      PROVE  /\ \/ Stays(r) \/ Turns(r, {"held"}, "suspect", 0) \/ Turns(r, {"free"}, "paused", 0)
             /\ Free(r)
  BY <1>2, <1>3, <1>6, <1>7, <1>8 DEF Sweeps
<1>9. \A r \in Runs : Free(r)
  BY <1>1, <1>2, <1>3, <1>4, <1>5, <1>8 DEF StepShape
<1>10. PauseInv'
  BY <1>1, <1>9 DEF PauseInv, Free
<1>11. CASE \A r \in Runs : Keeps(r)
  BY <1>2, <1>10, <1>11
<1>12. CASE \E r \in Runs : /\ JobMoves(r) \/ Enters(r) \/ Outside(r)
                            /\ \A q \in Runs \ {r} : Keeps(q)
  BY <1>2, <1>3, <1>4, <1>5, <1>10, <1>12
<1>13. CASE \A r \in Runs : Sweeps(r)
  BY <1>8, <1>10, <1>13
<1> QED
  BY <1>1, <1>11, <1>12, <1>13 DEF StepShape

\* The scheduler hands out jobs as the abstract claims do: one worker at a time, none
\* while a claim is suspect, and never again what is settled or done.
THEOREM ImplementsClaimsHolds == Spec => ImplementsClaims
<1> DEFINE phases == [j \in Runs |-> PhaseOf(j)]
           tokens == [j \in Runs |-> Len(dispatches[j])]
<1>1. Init => PauseInv /\ Claims!Init
  <2> SUFFICES ASSUME Init PROVE PauseInv /\ Claims!Init
    OBVIOUS
  <2>1. Scheduled = {} /\ \A r \in Runs : Len(dispatches[r]) = 0
    BY DEF Init, Scheduled
  <2>2. \A r \in Runs : PhaseOf(r) = "unqueued"
    BY <2>1 DEF PhaseOf
  <2> QED
    BY <2>1, <2>2, ClaimInit DEF PauseInv, Claims!Init
<1>2. PauseInv /\ [Next]_vars => PauseInv' /\ [Claims!Next]_<<phases, tokens>>
  <2> SUFFICES ASSUME PauseInv, [Next]_vars
               PROVE  PauseInv' /\ [Claims!Next]_<<phases, tokens>>
    OBVIOUS
  <2>0. /\ \A r \in Runs : phases[r] = PhaseOf(r) /\ phases'[r] = PhaseOf(r)'
        /\ \A r \in Runs : tokens[r] = Len(dispatches[r]) /\ tokens'[r] = Len(dispatches'[r])
        /\ DOMAIN phases = Runs /\ DOMAIN phases' = Runs
        /\ DOMAIN tokens = Runs /\ DOMAIN tokens' = Runs
    OBVIOUS
  <2>1. CASE \A r \in Runs : Stays(r)
    <3>1. phases' = phases /\ tokens' = tokens
      BY <2>1 DEF Stays
    <3> QED
      BY <3>1, RefinesStep
  <2>2. ASSUME NEW r \in Runs, AbstractMove(r), \A q \in Runs \ {r} : Stays(q)
        PROVE  [Claims!Next]_<<phases, tokens>>
    <3>1. Len(dispatches[r]) \in Nat
      BY DEF PauseInv, ClaimInv, TypeOK
    <3>2. ASSUME NEW from, NEW to, NEW more \in {0, 1}, Turns(r, from, to, more)
          PROVE  /\ Claims!Moves(r, from, to)
                 /\ more = 0 => tokens' = tokens
                 /\ more = 1 => tokens' = [tokens EXCEPT ![r] = @ + 1]
      <4>1. phases' = [phases EXCEPT ![r] = to] /\ phases[r] \in from
        BY <2>2, <3>2 DEF Turns, Stays
      <4>2. more = 0 => tokens' = tokens
        BY <2>2, <3>1, <3>2 DEF Turns, Stays
      <4>3. more = 1 => tokens' = [tokens EXCEPT ![r] = @ + 1]
        BY <2>2, <3>1, <3>2 DEF Turns, Stays
      <4> QED
        BY <4>1, <4>2, <4>3 DEF Claims!Moves
    <3>3. Stays(r) => phases' = phases /\ tokens' = tokens
      BY <2>2 DEF Stays
    <3>4. Turns(r, {"unqueued"}, "free", 0) => Claims!Queue(r)
      BY <3>2 DEF Claims!Queue
    <3>5. Turns(r, {"free"}, "held", 1) => Claims!Claim(r)
      BY <3>2 DEF Claims!Claim
    <3>6. Turns(r, {"free"}, "paused", 0) => Claims!Pause(r)
      BY <3>2 DEF Claims!Pause
    <3>7. Turns(r, {"paused"}, "free", 0) => Claims!Resume(r)
      BY <3>2 DEF Claims!Resume
    <3>8. Turns(r, {"held"}, "free", 0) => Claims!Release(r)
      BY <3>2 DEF Claims!Release
    <3>9. Turns(r, {"held"}, "settled", 0) => Claims!Settle(r)
      BY <3>2 DEF Claims!Settle
    <3>10. Turns(r, {"held"}, "suspect", 0) => Claims!Sweep
      <4> SUFFICES ASSUME Turns(r, {"held"}, "suspect", 0) PROVE Claims!Sweep
        OBVIOUS
      <4>1. Claims!Moves(r, {"held"}, "suspect") /\ tokens' = tokens
        BY <3>2
      <4>2. \A q \in Runs : PhaseOf(q)' \in Claims!Phases
        BY DEF PhaseOf, Claims!Phases
      <4> QED
        BY <4>1, <4>2 DEF Claims!Sweep, Claims!Moves
    <3>11. Turns(r, {"suspect"}, "free", 0) => Claims!Recover(r)
      BY <3>2 DEF Claims!Recover
    <3>12. Turns(r, {"free", "paused", "held", "suspect", "settled"}, "done", 0) => Claims!End(r)
      BY <3>2 DEF Claims!End
    <3> HIDE DEF phases, tokens
    <3> QED
      BY <2>2, <3>3, <3>4, <3>5, <3>6, <3>7, <3>8, <3>9, <3>10, <3>11, <3>12
         DEF AbstractMove, Claims!Next
  <2>3. CASE \A r \in Runs : \/ Stays(r) \/ Turns(r, {"held"}, "suspect", 0)
                             \/ Turns(r, {"free"}, "paused", 0)
    <3>1. ASSUME NEW r \in Runs PROVE tokens'[r] = tokens[r]
      <4>1. Len(dispatches[r]) \in Nat
        BY DEF PauseInv, ClaimInv, TypeOK
      <4> QED
        BY <2>3, <4>1 DEF Stays, Turns
    <3>2. tokens' = tokens
      BY <3>1
    <3>3. \A r \in Runs : PhaseOf(r)' \in Claims!Phases
      BY DEF PhaseOf, Claims!Phases
    <3>4. \A r \in Runs : \/ phases'[r] = phases[r]
                          \/ phases[r] = "held" /\ phases'[r] = "suspect"
                          \/ phases[r] = "free" /\ phases'[r] = "paused"
      BY <2>3 DEF Stays, Turns
    <3>5. Claims!Sweep
      BY <3>2, <3>3, <3>4 DEF Claims!Sweep
    <3> HIDE DEF phases, tokens
    <3>6. Claims!Next
      BY <3>5, Zenon DEF Claims!Next
    <3> QED
      BY <3>6, RefinesStep
  <2> HIDE DEF phases, tokens
  <2> QED
    BY <2>1, <2>2, <2>3, RefinesStep
<1>3. PauseInv /\ [Next]_vars =>
         [Claims!Next]_<<[j \in Runs |-> PhaseOf(j)], [j \in Runs |-> Len(dispatches[j])]>>
  BY <1>2
<1> HIDE DEF phases, tokens
<1> QED
  BY <1>1, <1>2, <1>3, PTL DEF Spec, ImplementsClaims, Claims!Spec

=============================================================================
