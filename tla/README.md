# A TLA+ model of codexhome-manager

`codexhome-manager` supervises coding agents. It registers *Homes* (directories
with the configuration, skills, rules and hooks of one agent identity), records
*Runs* of work and their *Attempts* in one append-only event log, schedules
queued work onto Homes under leases and budgets, and lets a worktree Run
complete only after an independent review. Everything is a command-line call
that reads a file, decides, and replaces the file; any number of such calls run
at once, each may be killed, and the agents themselves work for hours between
two calls. That is what the modules here are about.

Paths below are relative to `src/crates/codexhome-core/src/` unless they start
with `docs/` or `crates/`.

## 1. Inventory

| Component | State it keeps | Operations | Depends on |
|---|---|---|---|
| `ObservabilityStore` (`observability.rs`) | one JSONL file and a sidecar lock file | `append`, `append_checked`, `append_checked_optional`, `load` | the file system |
| trace verification (`verify_events`, `verify_links`, `observability.rs`) | none: accepts or refuses a whole log | run on every append and every verified load | — |
| `AgentRunStore` (`agent_runs.rs`) | the fold of the log into Runs, Attempts, worktree records, budgets | one `apply` for all actions | the store |
| `SchedulerStore` (`scheduler.rs`) | the fold of the log into jobs, dispatches, leases | `enqueue`, `pause`, `resume`, `dispatch`, `renew_lease`, `tick`, `resolve_recovery_for_retry`, `cancel`, `timeout` | the store, the Run projection, `RouteEngine` |
| `GitWorktreeManager` (`worktree.rs`) | a git worktree and branch per Run, sidecar files of evidence | `plan`, `prepare`, `rollback`, `collect_evidence`, `check_conflicts`, `verify_current` | git |
| `HomeManager`, `RegistryStore` (`home.rs`, `registry.rs`) | directories of Homes; one JSON file and a lock file | `create`, `import`, `clone_home`, `add` | the file system, inspection |
| `RouteEngine` (`router.rs`) | none | `evaluate` | policy, Home states |
| `RuntimeProjection` (`projection.rs`) | links and copies in a target directory, a manifest | `plan`, `apply`, `verify`, `clean` | effective environment |
| `EnvironmentResolver` (`environment.rs`) | none | `resolve` | layers of configuration |
| discovery, inspection, doctor (`lib.rs`) | none | one pass over the file system | — |
| command line (`crates/codexhome-cli`), desktop (`apps/desktop`) | none | call the core, print | all of the above |

How they interact. The scheduler and the Run store never call each other: they
meet in the event log, each folding the events of both. An append holds the
exclusive lock while it reads the log, decides, verifies the combined log and
replaces the file, so a decision and its events are one atomic step of the log.
What is *outside* that step is where things go wrong:

* a timestamp read before the lock (`dispatch`, `renew_lease`, `tick`),
* a git command run before the lock (`prepare`, `collect_evidence`,
  `check_conflicts`),
* a report loaded after the lock (`mutation_report`),
* a preview before, and a rollback after, the lock (`create`, `clone_home`),
* Homes read from the registry before the lock of the log (`route decide`,
  `schedule dispatch`),
* projections, which have no lock at all,
* a worker that answers after its lease was taken away.

### What makes each component correct

* Store: readers, decisions and restarts see whole batches only; no batch is
  lost to another; what was acknowledged survives a loss of power.
* Scheduler: one worker per job; leases within every cap; no dispatch before a
  lost worker is accounted for; dependencies, windows, ceilings and concurrency
  limits kept, and the time of a job going forward, whatever races.
* Worktrees: a failed prepare leaves nothing and takes nothing that is recorded;
  what completes is what is in the worktree, was tested, was
  approved by another Home and merges.
* Homes: no two entries share an alias or path, no add is lost, a failed call
  leaves nothing it could remove and takes nothing that was there before it checked.
* Trace verification and the folds of the log: what the verifier accepts can be
  read and reads as what was accepted, what a report advises is accepted, the
  summary and the reports account for the same work.
* Agent Runs: what has ended stays as it ended; a Run whose budget is used up does
  nothing more; a retry or migration continues a failure of its own Run.
* Router: a candidate is eligible exactly when the newest report of each kind, its
  profile, its Home and its load allow it; the score never turns against the
  better candidate; a dispatch takes no place twice.
* Environment and projection: what any layer requires is there when an apply is
  reported as verified; a failed apply leaves the targets as they were; half a copy
  is not taken for a whole one; what a user has at a target is not lost.

The hazards, each at its line with the properties that watch it, are listed in
`PROJECT.json`.

## 2. Modules

| Module | Models | Uses |
|---|---|---|
| `Scheduler` | `scheduler.rs` over the Run operations it races with | — |
| `ScheduleClaims` | what the scheduler promises: one claim at a time | — |
| `SchedulerClaims` | the refinement mapping from `Scheduler` to it | both |
| `EventLog` | what the store promises: an append-only log of whole batches | — |
| `EventStore` | the store step by step, and the refinement to `EventLog` | `EventLog` |
| `Trace` | the verifier of the log: valid events, links, indexes | — |
| `AgentRuns` | every command of Agent Runs, and events from outside, over verifier, projection and summary | `Trace` |
| `Router` | the route engine, and the two calls that decide with it | — |
| `Environment` | the merge of account, packs, layer and Skill registry | — |
| `Projection` | putting a manifest on the disk: plan, apply, verify, clean | `Environment` |
| `WorktreePrepare` | preparing, recording and rolling back worktrees | — |
| `WorktreeGate` | evidence, review, conflict check, completion gate | — |
| `HomeRegistry` | creating, importing, cloning and registering Homes | — |
| `MC...` | instances of each for TLC | the module it is named after |
| `...Proofs` | theorems about each, proved (section 4) | the module it is named after; `SchedulerProofs`, `SchedulerClaims` |

`EventStore` is the reason the others may treat an append as one step: it
implements `EventLog`, whose only way to grow is a whole batch decided on the
very log it extends. `Scheduler` and `WorktreeGate` each stand on that.
So do `AgentRuns` and `Router`. `Scheduler` leaves the completion gate of a
worktree Run open either way: `AgentRuns` has the gate of the records, and
`WorktreeGate` adds what git says. `Scheduler` takes the route engine for an
arbitrary set of candidates, and `Router` is that engine.

### Scheduler

State is the fold the code computes, not the events: `run`, `attempts`,
`worktree` and `used` are `project_agent_runs`; `job`, `mark` and `dispatches`
are `project_scheduler`. `mark` is the status the newest scheduler event of the
job leaves; `Reconciled` is `reconcile_job`, which lets the Run override it, and
`View` is `evaluate_job` with its gates in their order. `lastTs` is what
`verify_events` compares timestamps with. One action is one append and bears the
name of the code's operation. `ts` is the timestamp a call read before it had
the lock: any value the clock has shown. Operations whose timestamp the store
takes under the lock use `clock`.

Abstractions. A job is named by its Run, to which it is bound one to one. The
route engine is an arbitrary set `routable`. Of the budget dimensions only the
duration is kept, because it alone also bounds leases. The three failure
statuses of an Attempt are one. The `Runs` exist and are active at the start.
Attempt failure codes are reduced to whether the same identity may be retried.

### EventStore

Each system call of an append is a step: open, lock, read, build, write and sync
the temporary file, rename, sync the directory, unlock. `survivors` is the set of
contents a loss of power may leave: every rename since the directory was last
synced may or may not have reached the disk. `Fail` ends a call at any step with
an error, also after the rename; `Kill` and `LosePower` may come at any time. An
event carries who wrote it, how many events its writer had read, and its place
in its batch, which is what the properties compare.

### Trace and AgentRuns

The program keeps no state but the log, and three pieces of code fold it:
`verify_events` (`trace`, the indexes of module `Trace`), `project_agent_runs`
(`view`) and `summarize` (`totals`). They are variables of `AgentRuns`, each
brought forward by its own operator, `Indexed`, `Projected` and `Summed`; nothing
in the model keeps them together, and that they agree is what is checked. `Links`
has a disjunct for each kind of event, in the order of `verify_links`; a batch is
accepted when every event of it is, one after the other.

An action is one command of `build_action_event`, whose guard is what that
function asks of the projection, followed by `Commit`, which asks the verifier.
`Observe` is `observe record`: any events of a type, well formed or not, that only
the verifier looks at. A `scope` is which of these one behaviour has, so that one
run can have many Attempts in one behaviour and many kinds of event in another.
Of usage there are input and output tokens and a duration: cost and cached tokens
are treated as the duration is. Texts, labels, paths and the checks of their
wording are left out.

### Router

`Drafts` and `Evaluate` are `RouteEngine::evaluate` in its two passes: the runtime
of each candidate from the log (`FromEvents`, one event at a time) with its
rejections, then the parts of the score relative to the others, in whole ten-thousandths
rounded down as the code rounds them. `Recordable` is what the verifier asks of a
decision. `Decide` is `decide_route` and `Dispatch` is what the scheduler appends;
both use Homes read by an earlier step. Health reports, starts and ends of
Attempts are the other events the router reads.

### Environment and Projection

`Resolve` of `Environment` is a function of the files it is given: `Requested`
merges the requirements of the layers by id, `Registered` finds each Skill
whatever the case of its id, `ManagedRoot` is where a manifest may write. In
`Projection` a call plans entry by entry, then takes the steps of `apply`: stage
what is to be replaced, link or copy (a directory, its files, the marker), and at
the end remove the backups; or, after any failure, remove what was created and
rename the backups back. Verifying and cleaning follow their own loops. Nothing is
locked, so the steps of two calls interleave, sources are edited in between, the user
makes directories at targets or works in those that are there (`UserMakes`,
`UserWorks`), and a kill may come anywhere.

A directory is removed the way `fs::remove_dir_all` does it, one child after the other
and in any order, and then itself (`Removals`): by the rollback (`UndoCreated`), by
`clean` (`RemoveEntry`) and when the backups go (`Discard`). A kill may come between two
children. A removal that fails ends a `clean` (`FailRemoval`) or the discarding, and is
swallowed by the rollback, which goes on (`LeaveCreated`). A removal works on the path,
so it also takes what another call or the user puts there while it runs. Renaming a
backup back fails only for what stands in the way. The user adds work and removes none.

`before`, `alone`, `touched` and `stuck` of a call, and `copied` and `cut` of a directory,
are not in the program: they remember what the targets were when the call began, whether
it had the disk for itself, where the user worked since and what the rollback could not
remove; whether a copy was once finished in the directory, and whether a removal took a
part of it and did not get to the end. They are where the properties allow what the code
does, and section 3 says of each what that is.

### WorktreePrepare

One action is one command of git or one append: the plan looks whether branch and
path are free, `prepare` looks again, `git worktree add` makes the branch and then
the directory, the result is verified, the event recorded, and its report loaded. A
failure of any of them goes to the rollback, which removes what is at the path and
on the branch of the plan. The branch is made from the Run, so calls for one Run
meet on it; calls of two Runs meet on a path the callers ask for. `there` is whose
branch is checked out at a path. `made` and `alone` of a call, and `left`, are not in
the program.

### WorktreeGate

A tree is a number and a commit is known by its tree. The worker may put any tree
and any HEAD into the worktree at any time. Collecting evidence is four steps
(HEAD, tests, status, record), a conflict check two (merge, record).
Recording is one append. `tested` is not in the program: it remembers whether the
tests passed on the commit the evidence names. `verify_current` and the append of
`run_completed` are one step, although the worktree is not frozen by the lock:
the properties speak of the moment the gate looks.

### HomeRegistry

A Home is the set of its parts, so that partial skeletons, capabilities and what
users put there are told apart. The steps follow `clone_home`: check, preview
without a lock, directory, one step per part, capabilities, lock, load, write,
return, or roll back. The rollback takes the parts one by one, in any order, and then
the directory (`RollBack`); its error is ignored, so it may also stop and leave the rest
(`LeaveDirectory`). `maker` and `left` are not in the program: they remember who made a
directory, and the paths where a builder was killed or could not remove everything.

## 3. What is checked

Bounds are the constants of each `.cfg`. The `event_store` and `homes` runs check
deadlock. The others switch that check off, because in them the clock, the
events, the calls, the Attempts or the records are bounded, or the end of a Run is
final, and the model stops there; in `prepare` no call can be planned once every
branch or path is left over. No operation of those modules waits for another one, so a
deadlock could only be the bound.

| Passing run | Shows | Bounds |
|---|---|---|
| `scheduler_lease` | types, one claim at a time, leases and budgets (`JobLimitsKept`), the lineage of retries, recovery before the next dispatch (`LeaseDiscipline`), that the time of a job goes forward under stale timestamps (`JobTimeGoesForward`), and that `Scheduler` implements `ScheduleClaims` | 1 job, 2 candidates on 2 Homes, 2 specifications, leases of 1 renewable to 2 or 3, clock 0..2, 2 Attempts, 2 duration budgets, 2 failure statuses, with and without a worktree |
| `scheduler_queue` | that an expired lease is noticed (`ExpiredLeaseNoticed`), with two jobs that wait for one Home | 2 jobs, 2 priorities, 1 candidate, clock 0..1, leases of 1 |
| `scheduler_many` | dependencies come first and form no cycle (`DependenciesKept`); limits count Attempts started outside the scheduler | 3 Runs with up to 2 dependencies each, 2 Homes and 2 models with limits of 1 and 2, Attempts from outside |
| `event_store` | readers and decisions see whole batches and reports their own events (`ReadsAreSound`), durability, the refinement of `EventLog`, and that the lock is given back | 2 processes, batches of 2, a log of 4 |
| `runs` | the three folds agree, what is accepted can be read and what is advised is accepted (`AcceptedIsReported`), the summary matches, continuations are sound, ended and exhausted Runs do nothing more (`ClosedRunsStay`) | 8 scopes of at most 2 Runs, 3 Attempts and 6 to 10 events, counters to 5 |
| `routes` | eligibility by the newest reports, a monotone score, decisions that can be recorded, no place taken twice | 2 candidates on 2 Homes, 4 kinds of request, 2 registries, 7 reports in any order, 2 Attempts, 3 events |
| `projection` | no half copy is taken for whole (`MarkedIsWhole`), a failed apply restores (`FailedApplyRestores`), a verified one has all that is required (`AppliedIsProjected`), the user's work is kept (`UserWorkKept`) | 2 calls of 5 kinds on 2 manifests, linked and copied, forced and not; a Skill under two spellings, and the two files of the account; 1 file a Skill, so that a directory has up to three children (file, marker, the user's work); the user at 1 target, with work in 1 directory at once; sources there or gone, edited only by a copy that writes through a link |
| `prepare` | a failed prepare leaves nothing, and its rollback takes no recorded worktree it did not make unless calls met on its path (`PreparingIsClean`) | 2 processes, 2 Runs, 2 paths, a user on one of them, 2 calls that stop halfway |
| `gate` | no evidence is recorded after a review, and what completes was approved, merged and is in the worktree (`CompletesReviewedWork`) | 2 trees, 3 commits of the target, 2 pieces of evidence, 2 reviews, 2 checks, 2 Attempts |
| `homes` | a consistent registry that loses no add (`RegistryGrows`); no directory that no call, entry, kill or failed removal accounts for, registered Homes whole, and nothing removed from what was there before the calls under way checked (`HomesAreWhole`) | 2 processes and a user, 2 paths, 2 aliases, rollbacks that stop at any part |

Why the bounds are enough for the questions asked. A double claim needs one job,
a lease that expires, and a second dispatch: `scheduler_lease` has time for a
lease, a renewal, an expiry, a recovery and a retry on the same or another
identity, and each of its properties is about one job. Order and competing
claims relate two jobs; a dependency behind another needs three. Losing an
append takes two writers, a torn batch a batch of two, and two batches of two
make a log in which a reader can stop between them. In the gate two pieces of
evidence are needed for a review or check of the wrong one, two checks for a
stale one, and two trees for work that changed. Two processes, and a user,
suffice for every race over a target, of a Home, a worktree or a projection; the second
call is also the one that comes after a killed or failed first one. A directory of three
children is one that a removal can leave in every mixture of file, marker and the user's
work. Three Attempts
are a chain of two continuations, or one beside another; ten events are a
worktree Run from its task to its completion, and two dispatches with the jobs they are
for. Counters to 5 overflow with two large usages. Three reports are two that come out of order
and a decision on them; the `survey` request and its rule
together ask for 70 capabilities, more than the 64 texts an event may hold.

Each property is tested itself: `PROJECT.json` names for each one a change of one
definition, of the kind a careless edit of that code would bring, under which TLC
finds the property violated.

### Liveness and fairness

* `ExpiredLeaseNoticed` assumes weak fairness of `TickNow`: a supervisor runs
  `schedule tick`, which reads the clock, again and again. The repository leaves
  that to an external supervisor (docs/scheduler.md). A tick with an older timestamp may
  be refused as a whole; it is an action too, but not a fair one. Nothing else is assumed
  fair, not even that the clock advances. The run has leases that cannot be
  renewed; a lease that is renewed again and again need not be noticed, and
  `RenewalBounded`, a part of `LeaseDiscipline`, says how far renewals can go.
* `LockReturned` assumes weak fairness of `Advance(p)`: a process that began a
  call goes on with it, unless it fails or is killed, in which case the system releases
  its lock. `Fail` and `Kill` are not fair: nothing depends on an error. No call
  waits for anything but the lock.

No progress is claimed for jobs: dispatching is up to callers whose behaviour the
repository does not fix.

### Where the documents and the code differ

Two runs state what a document or a message of the program says, and TLC finds
a behaviour of the code that breaks it (`findings` in `PROJECT.json` quote both):

* `recover_retry_stranded`: a worker reports its failure after its lease was
  marked for recovery; `recover-retry` then finds nothing to close and the job
  can only be ended.
* `gate_tested`: the tests ran on another tree than the HEAD the evidence names.

Other differences were met while modelling. The modules model what the code does,
and the properties are stated so that they allow it; they are listed here for
whoever changes that code.

Scheduler and log:

* Nothing compares the timestamps of two Runs, so a decision about one job may be
  stamped earlier than what it knows of another; `JobTimeGoesForward` is about each job.
* A renewal that waited for the lock renews an expired lease: it compares with the
  timestamp it read before it had the lock (`scheduler.rs:619`, `657`).
* A failed dependency listed after a pending one leaves the job waiting, and not
  blocked (`scheduler.rs:1392`, docs/scheduler.md:42-44).
* The dispatch the verifier accepts takes the mark `recovery_required` off a job
  without a `scheduler_recovery_resolved`; the scheduler itself never writes one.
* `sync_directory` does nothing where the system is not Unix, although
  docs/observability.md:12-13 promises the sync; the model is the Unix one, and
  the mutant `SyncDirectory_Skipped` is the other.
* `duration_budget_deadline` drops the cap when start and budget overflow 64 bits
  (`scheduler.rs:1794`). The model's times are unbounded.

Runs and the gate:

* An end whose usage makes the sums of a Run overflow is accepted, and every later
  report and command fails (`agent_runs.rs:1621`); `ReadableUnlessOverflow` says
  that nothing else does.
* `recovery` advises a retry or a migration of a Run with a worktree, which
  `run attempt` then refuses (`agent_runs.rs:1715`, docs/agent-runs.md:91);
  the verifier would accept it, which is what `AdviceIsAccepted` states.
* Sidecars are truncated before a repeated evidence id is refused, so the patch of
  recorded evidence may change (`worktree.rs:751`, docs/agent-runs.md:123-125).
* The gate reads the newest check of the *newest evidence*: a check made later of
  an older piece with the same HEAD does not count.

Router:

* The Home of a candidate is the first registry entry with its id *or* its alias
  (`router.rs:1011`), so a new Home under an old alias is taken for it.
* A report without account and model counts for every candidate of its Home.
* More than 64 reasons against a candidate make the decision one the log refuses
  (`observability.rs:3643`).
* Two candidates of a policy may be one identity with two concurrency limits: only
  equal `candidateId`s are refused (`router.rs:98-133`). A dispatch that selects the
  one with the larger limit goes past that of the other, so `DispatchWithinCapacity`
  speaks of the candidate that is selected.

Projection:

* A copy that fails halfway stays at its target, and what it replaced only in its
  backup; `FailedApplyRestores` allows that one target.
* A rollback swallows a removal that fails (`projection.rs:187`), and so the renaming of
  the backup over what is left (`projection.rs:190`): the target is then not what it was,
  its old content is in a backup, and the report names neither. `FailedApplyRestores`
  allows these targets (`stuck`) and asks that the backup is there.
* A removal that fails or is killed halfway, in `clean` (`projection.rs:231`) or in a
  rollback (`projection.rs:187`), can leave a directory whose marker is there and whose
  files are not. The next plan reads the marker only (`projection.rs:360`) and keeps it,
  and `apply` and `verify` report it as verified. `MarkedIsWhole` and
  `AppliedIsProjected` leave out what such a removal left (`cut`); they show that
  nothing else, no failed or killed copy and no rollback that could remove what it created,
  gives half a copy a marker.
* `create_dir_all` accepts a directory that the user made after the plan
  (`projection.rs:178`, `463`), and the copy gives it the marker. The rollback of that
  apply (`projection.rs:187`) or a later `clean` (`projection.rs:231`) then removes it with
  everything the user has in it, as they do with work put into a directory that was
  copied; neither call needs force, and docs/effective-environment.md:39 speaks of
  "entries it created". The test `apply_and_clean_refuse_unowned_existing_targets` has a
  directory that is there before the plan. `UserWorkKept` leaves out directories in which a copy
  was finished (`copied`); it shows that the user's work is lost in no other way to a
  call that has the disk for itself: not to a copy that fails or is killed before its
  marker, not to a `clean` that finds no marker, not to staging, and not to
  a rollback of other targets.
* Of a copy only the marker is read, so a copy older than its source is kept and
  verified.
* Two spellings of one Skill id give one target twice, and linking it then always
  fails. A forced copying apply of such a manifest that fails after the first of the
  two copies leaves that copy at the target, and what the user had there only in its
  backup, although docs/effective-environment.md:39 says that an apply is rolled back;
  `FailedApplyRestores` is about calls whose entries have targets of their own.
* Two forced applies beside each other can lose a user's directory, and a copy
  beside a linking apply can write through the link into the source.
* The id of a manifest has the revision of the registry in it, and not the content.

Worktrees:

* A worktree whose event is recorded is rolled back when its report cannot be loaded,
  with the message that "its run event could not be recorded"
  (`crates/codexhome-cli/src/main.rs:1755`, `agent_runs.rs:504`). The Run then records
  a worktree that is not there, and refuses another.
* Of two prepares on one path that both passed the checks, the one whose `git
  worktree add` fails removes the worktree and the branch of the other
  (`worktree.rs:165-174`), also when that one is recorded.

Homes:

* The rollback of a create or clone removes whatever is at its path (`home.rs:465`): on a
  path two processes or a user contend for, a builder that checked before the directory was
  there may remove the Home of the one that won, or the user's directory, though
  docs/registry.md:33 speaks of "newly created destination directories".
  `RegisteredIsBuilt` is about paths on which one process builds, and `SettledStay` says
  that nothing is lost any more once the calls that found no directory are over.
* The rollback ignores that it could not remove a directory (`home.rs:465-468`), which
  then blocks the next create and is in no registry; `NoOrphans` accounts for it in `left`.
* After an error of the unlock the caller removes the Home while its entry is
  already written (`registry.rs:262`), and the registry's directory is not synced
  (`registry.rs:457`). Unlocking does not fail in the model, and the registry
  promises no durability.

## 4. What is proved

Every theorem holds for all values of the constants that satisfy the assumptions of
its module, and for any number of steps. Those marked with a run in section 3 are the
very definitions the run checks. The assumptions say of what kind the constants are (numbers,
finite sets, an absent value that is none of the others) and what the code itself
asks of its input; no bound of a `.cfg` is among them.

| Module | Theorems | Inductive invariant | Assumptions |
|---|---|---|---|
| `SchedulerProofs` | types; one claim at a time (`SingleClaim`, `AttemptsAreDispatched`, `ActiveOnlyUnderLease`, `TerminalTogether`); `LeaseDiscipline`; `JobLimitsKept`; `RetryLineage`; `DependenciesKept`; `ConcurrencyRespected`; `JobTimeGoesForward`; `Scheduler` implements `ScheduleClaims` | `ClaimInv`, and on it `LimitInv`, `DependencyInv`, `FiniteInv`, `TimeInv`, `PauseInv` | `SpecsAssumption` (what `validate` asks of a specification), `ConstantsAssumption` |
| `EventStoreProofs` | types; `ReadsAreSound`; `AcknowledgedIsDurable`; `EventStore` implements `EventLog` | `StoreInv` | `StoreAssumption` |
| `HomeRegistryProofs` | types; `RegistryGrows`; `HomesAreWhole` | `HomeInv` | `HomesAssumption`, `CallsAssumption` |
| `WorktreePrepareProofs` | types; `PreparingIsClean` | `PrepareInv` | `PrepareAssumption` |
| `WorktreeGateProofs` | types; `CompletesReviewedWork` | `GateInv` | `GateAssumption` |
| `ProjectionProofs` | types; `MarkedIsWhole`; `UserWorkKept`; `FailedApplyRestores`; `AppliedIsProjected` | `TypeInv`; on it `WholeInv` with `AloneInv`, `UndoableInv`, `RemovableInv`, `ReadyInv` | `InputsAssumption` (the inputs resolve), `IdsAssumption` (finitely many ids, in an order), `CallsAssumption`, `WantedAssumption`, `PlacesAssumption` |
| `RouterProofs` | types; `EligibleExactly`; `NoneAsGoodScoresLower`; `DecisionsAreRecordable`; `DispatchWithinCapacity` | `RouterInv` | `PolicyAssumption` (`RoutePolicy::validate`), `BoundsAssumption`, `TypesAssumption` |
| `AgentRunsProofs` | types; `AcceptedIsReported`; `SummaryMatchesRuns`; `ContinuationsAreSound`; `ClosedRunsStay` | `AgentRunsInv`; on it `SummaryInv` | `BoundsAssumption`, `NoneAssumption` |

Each inductive invariant was checked by TLC on the run of its component before it was
proved. In each proof there is a lemma for every action, or for every kind of step,
and the theorems follow from the invariant. The two refinements and the properties of the
store are proved for `Spec`, which is `FairSpec` without its fairness.

**Scheduler.** `SingleClaim` is not inductive: from a state that merely satisfies it, a
pause or a late report can be followed by a dispatch beside an active Attempt.
`ClaimInv` adds: a Run that has ended is quiet; a Run that is not scheduled bears no
scheduler mark; and for each job, Attempts and dispatches have one length, only the
newest Attempt can be active, a paused job has none, and a terminal mark is the status
of the Run. Its two key lemmas are `ActiveStatus` (an active Attempt shows in
`Reconciled`) and `ActiveView` (so nothing is eligible, and nothing can be paused,
while one is active). `LimitInv` adds what bounds the lease of a job, that its failures are
within their ceiling while an Attempt is active, and the lineage of its Attempts.
`DependencyInv` adds that dependencies are jobs, and shows that there is no cycle from the
order in which jobs were queued. `FiniteInv` has finitely many active Attempts, so that
they can be counted at all. `TimeInv` adds the log's own time of each job. `PauseInv` says
that a paused job has nothing running and nothing done, which the abstract specification needs to give it out again.

**Store.** `StoreInv` says who holds the lock at each place of a call, what a
process between lock and release knows of the log, and that every content a loss of
power may leave begins the file and has all that was acknowledged. That a reader
sees whole batches follows because the file is only ever replaced by a log that extends it.

**Homes and worktrees.** Both invariants account for everything that exists: each
directory, or branch and worktree, has an entry that names it, a call that will add or
remove it, or the kill or the failed removal that left it (`AllClaimed`). `HomeInv` adds
that what was loaded under the lock is still what is there, and how much of a Home its builder has made.
`GateInv` adds that nobody reviews while an Attempt is active, and that a free check
was a merge that succeeded.

**Projection.** `TypeInv` says where each call is in its plan and which backups it may
have. `WholeInv` adds that a copy has already put into its directory whatever is not left
`todo`, or that it cannot write there, unless a removal took something from that
directory (`MayLack`). `UndoableInv` describes, for each place of an apply that has the disk
for itself, how the targets it has passed, the one it is at and those before it
differ from what was there when it began, where the user has worked since or a removal
failed (`Worked`, `stuck`), and that its backups make up the difference. `RemovableInv`,
on which `UserWorkKept` rests, says that a directory with a marker is one in which a copy
was finished, and that what a call on its own will still remove, as created or as its
own, is a link or such a directory, also when the user has worked in it meanwhile
and the removal stopped before.
`ReadyInv` says that each entry of a plan is the one that is wanted there and that none
that is required is skipped. `AppliedIsProjected` follows from it and from what `Resolve`
gives for any layers: a Skill required by one of them is found (`RequiredFound`), has a
place in the manifest, because the ids of a finite map are all walked (`SortedHas`), and
so one in the plan (`SkillPlanned`, `AccountPlanned`). The proof met a case that the
two calls of the run are too few for: after a forced call beside another a marked
directory may not be whole, and a third call on its own keeps and verifies it.
`InPlace` therefore asks for a whole copy only where `Undisturbed` holds.

**Router.** The state of the router is the log. `RouterInv` says of each decision in it
that it is what the engine says of the events before it, of each Attempt that it starts
once and ends after that. What the fold of the events keeps of a candidate, for a log of any
length, is shown by taking a shortest log for which it would be wrong: such a
log has a last event, and without it the fold is right. From this come `Known` (the
fold keeps the newest report of each kind) and with it `EligibleExactly`.
`NoneAsGoodScoresLower` is arithmetic over whole ten-thousandths rounded down: each part
of the score is monotone, for all weights. The proof met one defect of the model, two
overlapping cases of `RelativeInverse`, which TLC had resolved as the code does.

**Agent Runs.** `AgentRunsInv` says of the three folds of the log: whatever an index of
the verifier refers to was entered before (`TraceInv`); the reports are of their types, an
Attempt is in one Run once and its continuation is sound (`ViewInv`); as long as the log can be
projected the two agree on every Attempt, record and worktree of a Run (`Agree`, which
is the half of `AcceptedIsReported` that is inductive); and no Run has used more than
the summary says all have, and the projection fails only where the summary passes its
counters (`Accounted`). One lemma shows that any accepted event preserves it,
whoever wrote it; one lemma for each command and each kind of event from outside
shows that the step appends such an event, and a dispatch that it appends three of them.
The proof met an error in the model: a dispatch written from outside starts an
Attempt too, so that an exhausted Run starts none only where both kinds of event come from
the commands (`StartedByCommands`).
`SummaryInv` says that Runs, ended Attempts and artifacts are finitely many and that,
while neither fold has failed, every total of the summary is the sum, or the number, of
what the Runs or the ended Attempts of a Home have. `SumOver` is a fold over a
finite set in an order nobody knows; what it gives when one value changes (`SumOnChanged`)
or one member is added (`SumOnAdded`) is proved by taking a smallest set for which it would
fail. Which of the summary's numbers an event adds to is then one lemma per
kind of event (`SumGrows`, `EndedOfNext`, `MadeNext`, `SpentNext`). This proof too corrected
the model: the totals of a Home are those of the Attempts that ran under it only where the
ends of Attempts come from the commands (`EndedByCommands`), because an end from outside may
name another Home; who starts them does not matter.

### What is only model-checked

* The two liveness properties, `ExpiredLeaseNoticed` and `LockReturned`, and everything
  else about fairness and `ENABLED`: out of the prover's reach.
* The claims that the runs `recover_retry_stranded` and `gate_tested` refute: their
  results are counterexamples.

## 5. What is not modelled, and the plan

Left out for good:

* discovery, inspection and the doctor (one pass, no state), the desktop and the
  output of the command line;
* the wording of events, ids, labels and paths, and the normalization of names and
  paths, `ensure_managed_target` among it;
* what a footprint or a digest is computed from, and the content of sidecars;
* the other groupings of the summary, its filters and the exports;
* overflow of times, the budget of cost, and a loss of power between two renames of
  the registry, for which it promises nothing;
* in `Scheduler`, events that did not come from its operations: `AgentRuns` has those.

No part of the system that keeps state is left without a module, and every safety
property of a run that passes is a theorem. What is left is out of the prover's reach:
liveness, `ENABLED`, and what a fold gives for every input where no smallest
counterexample can be taken.
