---------------------------- MODULE WorktreeGate ----------------------------
(***************************************************************************)
(* The review gate of a worktree Run: GitWorktreeManager::collect_evidence  *)
(* and check_conflicts (worktree.rs), the Agent Run actions that record     *)
(* evidence, reviews and conflict checks, and the completion gate           *)
(* (agent_runs.rs).  The Run's worktree is prepared when the model starts,  *)
(* so no further Attempt may begin.                                         *)
(*                                                                          *)
(* Collecting evidence runs the tests for up to a day and holds no lock;    *)
(* the worker may edit, commit and reset meanwhile, and the target branch   *)
(* moves.  A record is one append under the lock of the event store, which  *)
(* is one step here.                                                        *)
(*                                                                          *)
(* A tree is a number and a commit is known by its tree: 0 is the base.     *)
(***************************************************************************)
EXTENDS Integers, Sequences

CONSTANTS
    Collectors,      \* processes that collect evidence
    Checkers,        \* processes that check for conflicts
    Attempts,        \* Attempts of the Run
    Responsible,     \* the Attempt the worktree was prepared for
    Homes,           \* Homes that may review
    ResponsibleHome, \* the Home of the responsible Attempt
    MaxTree,         \* the trees are 0..MaxTree
    EvidenceIds,     \* names given to evidence
    Passing,         \* the trees on which the tests pass
    Targets,         \* commits of the target branch, a range of numbers
    Conflicting,     \* pairs of a target commit and a HEAD that conflict
    MaxEvidence,     \* bounds of the model: evidence,
    MaxReviews,      \*   reviews
    MaxChecks        \*   and conflict checks recorded

Trees == 0..MaxTree

ASSUME GateAssumption ==
    /\ Responsible \in Attempts /\ ResponsibleHome \in Homes
    /\ MaxTree \in Nat /\ MaxEvidence \in Nat /\ MaxReviews \in Nat /\ MaxChecks \in Nat
    /\ Passing \subseteq Trees /\ 0 \in Targets /\ Targets \subseteq Nat
    /\ Conflicting \subseteq Targets \X Trees

VARIABLES
    head,      \* the commit at HEAD of the worktree
    tree,      \* what is in the worktree; clean when it is HEAD
    target,    \* the commit of the target branch
    run,       \* status of the Run
    attempt,   \* [Attempts -> status]
    evidence,  \* the evidence recorded, oldest first
    reviews,   \* the reviews recorded
    checks,    \* the conflict checks recorded
    collecting,\* [Collectors -> the evidence being collected]
    checking   \* [Checkers -> the conflict check under way]

gitVars == <<head, tree, target>>
logVars == <<run, attempt, evidence, reviews, checks>>
vars    == <<head, tree, target, run, attempt, evidence, reviews, checks,
             collecting, checking>>

Statuses  == {"running", "succeeded", "failed"}
Decisions == {"approved", "rejected"}

\* tested: did the tests pass on the tree of HEAD?  No field of the record says so.
Evidence == [id : EvidenceIds, head : Trees, tested : BOOLEAN, passed : BOOLEAN, clean : BOOLEAN]
Review   == [evidence : Nat, decision : Decisions, home : Homes]
Check    == [evidence : Nat, head : Trees, free : BOOLEAN]

NotCollecting ==
    [at |-> "idle", id |-> 0, head |-> 0, tested |-> FALSE, passed |-> FALSE, clean |-> FALSE]
NotChecking   == [at |-> "idle", head |-> 0, free |-> FALSE]

\* Nothing is recorded, and nothing in the worktree matters, after the end.
Ongoing == run = "running"

Active == {a \in Attempts : attempt[a] = "running"}

----------------------------------------------------------------------------
\* The worker and the target branch.

\* The worker edits, commits, resets.
Work ==
    /\ Ongoing
    /\ \E h, t \in Trees : head' = h /\ tree' = t
    /\ UNCHANGED <<target, logVars, collecting, checking>>

TargetMoves ==
    /\ Ongoing
    /\ target + 1 \in Targets
    /\ target' = target + 1
    /\ UNCHANGED <<head, tree, logVars, collecting, checking>>

----------------------------------------------------------------------------
\* Collecting evidence.

\* HEAD is read first; it must have left the base.  The caller names the evidence
\* as it likes.
ReadHead(c, id) ==
    /\ Ongoing
    /\ collecting[c].at = "idle"
    /\ head # 0
    /\ collecting' = [collecting EXCEPT ![c] =
          [NotCollecting EXCEPT !.at = "test", !.id = id, !.head = head]]
    /\ UNCHANGED <<gitVars, logVars, checking>>

\* The tests run on what is in the worktree by then, and may time out.
RunTests(c) ==
    /\ Ongoing
    /\ collecting[c].at = "test"
    /\ \E passed \in {FALSE, (tree \in Passing)} :
          collecting' = [collecting EXCEPT
              ![c].at = "status", ![c].passed = passed,
              ![c].tested = (passed /\ tree = collecting[c].head)]
    /\ UNCHANGED <<gitVars, logVars, checking>>

\* Whether the worktree is clean is read last.  The patch and the log of the tests
\* are written beside; what is in them is left out.
ReadStatus(c) ==
    /\ Ongoing
    /\ collecting[c].at = "status"
    /\ collecting' = [collecting EXCEPT ![c].at = "record", ![c].clean = (tree = head)]
    /\ UNCHANGED <<gitVars, logVars, checking>>

UnusedId(id) == \A k \in DOMAIN evidence : evidence[k].id # id

RecordEvidence_NameReused(c) ==
    /\ collecting[c].at = "record"
    /\ Ongoing /\ Responsible \in Active /\ Len(evidence) < MaxEvidence
    /\ evidence' = Append(evidence, [id     |-> collecting[c].id,
                                     head   |-> collecting[c].head,
                                     tested |-> collecting[c].tested,
                                     passed |-> collecting[c].passed,
                                     clean  |-> collecting[c].clean])
    /\ collecting' = [collecting EXCEPT ![c] = NotCollecting]
    /\ UNCHANGED <<gitVars, run, attempt, reviews, checks, checking>>

\* RecordWorktreeEvidence: the responsible Attempt is still active.
RecordEvidence(c) ==
    /\ collecting[c].at = "record"
    /\ Ongoing /\ Responsible \in Active /\ Len(evidence) < MaxEvidence
    /\ UnusedId(collecting[c].id)
    /\ evidence' = Append(evidence, [id     |-> collecting[c].id,
                                     head   |-> collecting[c].head,
                                     tested |-> collecting[c].tested,
                                     passed |-> collecting[c].passed,
                                     clean  |-> collecting[c].clean])
    /\ collecting' = [collecting EXCEPT ![c] = NotCollecting]
    /\ UNCHANGED <<gitVars, run, attempt, reviews, checks, checking>>

\* The command fails, is refused or is killed.
AbandonEvidence(c) ==
    /\ collecting[c].at # "idle"
    /\ collecting' = [collecting EXCEPT ![c] = NotCollecting]
    /\ UNCHANGED <<gitVars, logVars, checking>>

----------------------------------------------------------------------------
\* Reviewing.

\* require_independent_reviewer.
Independent(home) == home # ResponsibleHome

\* RecordWorktreeReview.
RecordReview(e, decision, home) ==
    /\ Ongoing /\ Active = {} /\ Len(reviews) < MaxReviews
    /\ Independent(home)
    /\ decision = "approved" => evidence[e].clean /\ evidence[e].passed
    /\ reviews' = Append(reviews, [evidence |-> e, decision |-> decision, home |-> home])
    /\ UNCHANGED <<gitVars, run, attempt, evidence, checks, collecting, checking>>

Approved(e) ==
    \E k \in DOMAIN reviews : reviews[k].evidence = e /\ reviews[k].decision = "approved"

----------------------------------------------------------------------------
\* Checking for conflicts.

\* check_conflicts: HEAD and the target are read, and merged on the side.
TryMerge(k) ==
    /\ Ongoing
    /\ checking[k].at = "idle"
    /\ checking' = [checking EXCEPT ![k] = [at |-> "record", head |-> head,
                                            free |-> <<target, head>> \notin Conflicting]]
    /\ UNCHANGED <<gitVars, logVars, collecting>>

\* RecordWorktreeConflict: the HEAD that was merged is that of the evidence.
RecordCheck(k, e, home) ==
    /\ checking[k].at = "record"
    /\ Ongoing /\ Active = {} /\ Len(checks) < MaxChecks
    /\ Independent(home)
    /\ checking[k].head = evidence[e].head
    /\ Approved(e)
    /\ checks' = Append(checks, [evidence |-> e, head |-> checking[k].head,
                                 free |-> checking[k].free])
    /\ checking' = [checking EXCEPT ![k] = NotChecking]
    /\ UNCHANGED <<gitVars, run, attempt, evidence, reviews, collecting>>

AbandonCheck(k) ==
    /\ checking[k].at # "idle"
    /\ checking' = [checking EXCEPT ![k] = NotChecking]
    /\ UNCHANGED <<gitVars, logVars, collecting>>

----------------------------------------------------------------------------
\* Attempts and the end of the Run.  None is started: StartAttempt refuses a Run
\* with a worktree.

CloseAttempt(a, status) ==
    /\ Ongoing /\ a \in Active
    /\ attempt' = [attempt EXCEPT ![a] = status]
    /\ UNCHANGED <<gitVars, run, evidence, reviews, checks, collecting, checking>>

LatestCheck_Oldest(e) ==
    LET of == {k \in DOMAIN checks : checks[k].evidence = e}
    IN  IF of = {} THEN 0 ELSE CHOOSE k \in of : \A m \in of : k <= m

\* The newest check of evidence e, or 0.
LatestCheck(e) ==
    LET of == {k \in DOMAIN checks : checks[k].evidence = e}
    IN  IF of = {} THEN 0 ELSE CHOOSE k \in of : \A m \in of : m <= k

\* ensure_worktree_completion_gate, with verify_current for its last line.
MayComplete ==
    LET e == Len(evidence)
        k == LatestCheck(e)
    IN  /\ e # 0 /\ evidence[e].clean /\ evidence[e].passed
        /\ attempt[Responsible] = "succeeded"
        /\ Approved(e)
        /\ k # 0 /\ checks[k].free /\ checks[k].head = evidence[e].head
        /\ head = evidence[e].head /\ tree = head

CompleteRun ==
    /\ Ongoing /\ Active = {}
    /\ \E a \in Attempts : attempt[a] = "succeeded"
    /\ MayComplete
    /\ run' = "succeeded"
    /\ UNCHANGED <<gitVars, attempt, evidence, reviews, checks, collecting, checking>>

FailRun ==
    /\ Ongoing /\ Active = {}
    /\ run' = "failed"
    /\ UNCHANGED <<gitVars, attempt, evidence, reviews, checks, collecting, checking>>

----------------------------------------------------------------------------
Init ==
    /\ head = 0 /\ tree = 0 /\ target = 0
    /\ run = "running"
    /\ attempt \in {f \in [Attempts -> Statuses] : f[Responsible] = "running"}
    /\ evidence = <<>> /\ reviews = <<>> /\ checks = <<>>
    /\ collecting = [c \in Collectors |-> NotCollecting]
    /\ checking   = [k \in Checkers |-> NotChecking]

Next ==
    \/ Work \/ TargetMoves
    \/ \E c \in Collectors :
          \/ \E id \in EvidenceIds : ReadHead(c, id)
          \/ RunTests(c) \/ ReadStatus(c)
          \/ RecordEvidence(c) \/ AbandonEvidence(c)
    \/ \E e \in DOMAIN evidence, home \in Homes :
          \/ \E decision \in Decisions : RecordReview(e, decision, home)
          \/ \E k \in Checkers : RecordCheck(k, e, home)
    \/ \E k \in Checkers : TryMerge(k) \/ AbandonCheck(k)
    \/ \E a \in Attempts, status \in {"succeeded", "failed"} : CloseAttempt(a, status)
    \/ CompleteRun \/ FailRun

Spec == Init /\ [][Next]_vars

----------------------------------------------------------------------------
\* Properties.

Typed ==
    /\ head \in Trees /\ tree \in Trees /\ target \in Targets
    /\ run \in Statuses /\ attempt \in [Attempts -> Statuses]
    /\ evidence \in Seq(Evidence) /\ reviews \in Seq(Review) /\ checks \in Seq(Check)
    /\ collecting \in [Collectors ->
          [at : {"idle", "test", "status", "record"}, id : EvidenceIds \cup {0}, head : Trees, tested : BOOLEAN,
           passed : BOOLEAN, clean : BOOLEAN]]
    /\ checking \in [Checkers -> [at : {"idle", "record"}, head : Trees, free : BOOLEAN]]

\* The records refer to each other by name: a name stands for one piece of
\* evidence, whoever collected at the same time; a review names evidence that is
\* there, an approving one evidence that is clean and passed; and a check names
\* evidence that was approved, and merged its very commit.
Refers ==
    /\ \A m, n \in DOMAIN evidence : evidence[m].id = evidence[n].id => m = n
    /\ \A r \in DOMAIN reviews :
          /\ reviews[r].evidence \in DOMAIN evidence
          /\ reviews[r].decision = "approved" =>
                evidence[reviews[r].evidence].clean /\ evidence[reviews[r].evidence].passed
    /\ \A k \in DOMAIN checks :
          /\ checks[k].evidence \in DOMAIN evidence
          /\ checks[k].head = evidence[checks[k].evidence].head
          /\ Approved(checks[k].evidence)

\* Every variable holds a value of its type, and the records of the Run refer to
\* each other as the store verifies it.
TypeOK == Typed /\ Refers

\* The evidence is complete before anyone reviews it: however long a collector
\* took, nothing is recorded after the first review, so the evidence that counts
\* at completion is one the reviewers could see.
ReviewsComeLast == evidence' # evidence => reviews = <<>>

\* A Run completes only on work that is in the worktree at that moment, that
\* another Home has approved as it is, and that merged with some commit the target
\* branch has had when it was last checked.
CompletesApprovedWork ==
    run' = "succeeded" /\ run # "succeeded" =>
        /\ tree = head
        /\ \E e \in DOMAIN evidence, r \in DOMAIN reviews, k \in DOMAIN checks :
            /\ evidence[e].head = head
            /\ reviews[r].evidence = e /\ reviews[r].decision = "approved"
            /\ reviews[r].home # ResponsibleHome
            /\ checks[k].evidence = e /\ checks[k].free /\ checks[k].head = head
            /\ \E t \in 0..target : <<t, head>> \notin Conflicting
            /\ \A m \in DOMAIN checks : m > k => checks[m].evidence # e

\* What completes is what was reviewed, whatever was collected, checked or changed
\* beside it.
CompletesReviewedWork == [][ReviewsComeLast /\ CompletesApprovedWork]_vars

----------------------------------------------------------------------------
\* What the documentation says and the code does not keep.

\* docs/agent-runs.md: run complete rejects a worktree Run unless its latest
\* evidence is clean and tested.  The tests may have run on another tree than
\* the commit the evidence names.
CompletesTestedWork ==
    run = "succeeded" => evidence[Len(evidence)].tested

=============================================================================
