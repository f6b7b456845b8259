-------------------------- MODULE WorktreePrepare --------------------------
(***************************************************************************)
(* `run worktree prepare': GitWorktreeManager::plan, prepare and rollback  *)
(* (worktree.rs) and the sequence the command line adds (main.rs): the     *)
(* worktree is made first, then its event is recorded, and a failure of    *)
(* either rolls back what is at the path and on the branch of the plan.    *)
(* No lock is held, so calls for one Run, or on one path, run beside each  *)
(* other; a call may be killed between two commands of git.                *)
(*                                                                         *)
(* The branch is made from the Run, so a Run has one.  A path is the       *)
(* default of the Run or what the caller asks for.  `git worktree add' is  *)
(* two steps, the branch and the directory; the commit is left out: nobody *)
(* works in a worktree before it is recorded.                              *)
(***************************************************************************)
EXTENDS FiniteSets, Naturals

CONSTANTS
    None,
    Preparers,       \* processes that prepare worktrees
    Runs,
    Attempts,
    RunOf,           \* the Run of an Attempt
    Paths,           \* where a worktree may be
    UserPaths,       \* the paths where a user may make a directory
    User,            \* owner of a directory that is not a worktree
    MaxLeft          \* bound of the model: Runs and paths on which a call stops halfway

ASSUME PrepareAssumption ==
    /\ RunOf \in [Attempts -> Runs]
    /\ UserPaths \subseteq Paths
    /\ MaxLeft \in Nat
    /\ None \notin Runs \cup Paths \cup Attempts
    /\ User \notin Runs \cup {None}

VARIABLES
    there,     \* [Paths -> the Run whose branch is checked out there, User or None]
    branches,  \* the Runs whose branch exists
    recorded,  \* [Runs -> the path of the worktree that is recorded, or None]
    active,    \* the Attempts that are active
    call,      \* [Preparers -> the call it makes]
    left       \* Runs and paths a call was killed or could not be rolled back on

gitVars == <<there, branches>>
vars    == <<there, branches, recorded, active, call, left>>

Places == {"idle", "planned", "checked", "branched", "added", "verified", "recorded",
           "undo", "undo_branch"}

\* made: has this call made the worktree?  alone: was no other call on this path
\* beside it?  Both are for the properties only.
Idle == [at |-> "idle", attempt |-> None, path |-> None, made |-> FALSE, alone |-> FALSE]

Run(p)  == RunOf[call[p].attempt]
Path(p) == call[p].path
At(p, place)   == call[p].at = place
Goto(p, place) == call' = [call EXCEPT ![p].at = place]
Over(p)        == call' = [call EXCEPT ![p] = Idle]

\* Mutant: a directory may be there.
Absent_BranchOnly(run, path) == run \notin branches

\* ensure_branch_absent, ensure_new_worktree_path.
Absent(run, path) == run \notin branches /\ there[path] = None

CheckedOut(run) == \E t \in Paths : there[t] = run

----------------------------------------------------------------------------

\* plan, for any Attempt that was reported: whether it is active is asked at the end.
Plan(p, a, path) ==
    /\ At(p, "idle")
    /\ Absent(RunOf[a], path)
    /\ LET beside == {q \in Preparers : Path(q) = path}
       IN  call' = [q \in Preparers |->
                IF q = p THEN [Idle EXCEPT !.at = "planned", !.attempt = a, !.path = path,
                                           !.alone = (beside = {})]
                ELSE [call[q] EXCEPT !.alone = @ /\ q \notin beside]]
    /\ UNCHANGED <<gitVars, recorded, active, left>>

\* prepare checks once more.
CheckAgain(p) ==
    /\ At(p, "planned")
    /\ IF Absent(Run(p), Path(p)) THEN Goto(p, "checked") ELSE Over(p)
    /\ UNCHANGED <<gitVars, recorded, active, left>>

\* A dry run ends here, and so does a call that cannot make the parent directory or
\* start git; nothing was made.
EndEarly(p) ==
    /\ call[p].at \in {"planned", "checked"}
    /\ Over(p)
    /\ UNCHANGED <<gitVars, recorded, active, left>>

\* git worktree add -b: the branch, which must be new, and the path as well.
AddBranch(p) ==
    /\ At(p, "checked")
    /\ Run(p) \notin branches /\ there[Path(p)] = None
    /\ branches' = branches \cup {Run(p)}
    /\ Goto(p, "branched")
    /\ UNCHANGED <<there, recorded, active, left>>

\* The directory: git checks out a branch in one worktree only.
AddTree(p) ==
    /\ At(p, "branched")
    /\ there[Path(p)] = None /\ Run(p) \in branches /\ ~CheckedOut(Run(p))
    /\ there' = [there EXCEPT ![Path(p)] = Run(p)]
    /\ call' = [call EXCEPT ![p].at = "added", ![p].made = TRUE]
    /\ UNCHANGED <<branches, recorded, active, left>>

\* The branch at the path is the one of the plan, whoever put it there.
Verify(p) ==
    /\ At(p, "added")
    /\ there[Path(p)] = Run(p)
    /\ Goto(p, "verified")
    /\ UNCHANGED <<gitVars, recorded, active, left>>

\* Mutant: a second worktree of a Run is recorded.
Record_Again(p) ==
    /\ At(p, "verified")
    /\ call[p].attempt \in active
    /\ recorded' = [recorded EXCEPT ![Run(p)] = Path(p)]
    /\ Goto(p, "recorded")
    /\ UNCHANGED <<gitVars, active, left>>

\* RecordWorktreePrepared, one append.
Record(p) ==
    /\ At(p, "verified")
    /\ call[p].attempt \in active /\ recorded[Run(p)] = None
    /\ recorded' = [recorded EXCEPT ![Run(p)] = Path(p)]
    /\ Goto(p, "recorded")
    /\ UNCHANGED <<gitVars, active, left>>

\* The log is loaded again for the report of the mutation.
ReportRecord(p) ==
    /\ At(p, "recorded")
    /\ Over(p)
    /\ UNCHANGED <<gitVars, recorded, active, left>>

\* git fails, the worktree is not what was planned, the event is refused, or its
\* report cannot be loaded: everything the plan names is taken back.
Fail(p) ==
    /\ call[p].at \in {"checked", "branched", "added", "verified", "recorded"}
    /\ Goto(p, "undo")
    /\ UNCHANGED <<gitVars, recorded, active, left>>

----------------------------------------------------------------------------
\* rollback.

\* git worktree remove --force: whatever worktree is there, but only a worktree.
UndoTree(p) ==
    /\ At(p, "undo")
    /\ there[Path(p)] # User
    /\ there' = [there EXCEPT ![Path(p)] = None]
    /\ Goto(p, "undo_branch")
    /\ UNCHANGED <<branches, recorded, active, left>>

\* git branch -D, which refuses a branch that is checked out.
UndoBranch(p) ==
    /\ At(p, "undo_branch")
    /\ ~CheckedOut(Run(p))
    /\ branches' = branches \ {Run(p)}
    /\ Over(p)
    /\ UNCHANGED <<there, recorded, active, left>>

\* The process is killed, or a command of the rollback fails.
Stop(p) ==
    /\ ~At(p, "idle")
    /\ left' = left \cup {<<Run(p), Path(p)>>}
    /\ Cardinality(left') <= MaxLeft
    /\ Over(p)
    /\ UNCHANGED <<gitVars, recorded, active>>

----------------------------------------------------------------------------

EndAttempt(a) ==
    /\ a \in active
    /\ active' = active \ {a}
    /\ UNCHANGED <<gitVars, recorded, call, left>>

\* A user makes a directory.
UserMakes(path) ==
    /\ there[path] = None
    /\ there' = [there EXCEPT ![path] = User]
    /\ UNCHANGED <<branches, recorded, active, call, left>>

Init ==
    /\ there    = [t \in Paths |-> None]
    /\ branches = {}
    /\ recorded = [r \in Runs |-> None]
    /\ active   = Attempts
    /\ call     = [p \in Preparers |-> Idle]
    /\ left     = {}

PrepareStep(p) ==
    \/ \E a \in Attempts, path \in Paths : Plan(p, a, path)
    \/ CheckAgain(p) \/ EndEarly(p) \/ AddBranch(p) \/ AddTree(p) \/ Verify(p)
    \/ Record(p) \/ ReportRecord(p)
    \/ Fail(p) \/ UndoTree(p) \/ UndoBranch(p) \/ Stop(p)

Next ==
    \/ \E p \in Preparers : PrepareStep(p)
    \/ \E a \in Attempts : EndAttempt(a)
    \/ \E path \in UserPaths : UserMakes(path)

Spec == Init /\ [][Next]_vars

----------------------------------------------------------------------------
\* Properties.

\* Every variable holds a value of its type, a Run has one worktree at most, and
\* what a call has recorded is what is recorded of its Run.
TypeOK ==
    /\ there \in [Paths -> Runs \cup {None, User}]
    /\ branches \subseteq Runs
    /\ recorded \in [Runs -> Paths \cup {None}]
    /\ active \subseteq Attempts
    /\ left \subseteq Runs \X Paths
    /\ call \in [Preparers -> [at : Places, attempt : Attempts \cup {None},
                               path : Paths \cup {None}, made : BOOLEAN, alone : BOOLEAN]]
    /\ \A t, u \in Paths : there[t] \in Runs /\ there[t] = there[u] => t = u
    /\ \A p \in Preparers : At(p, "recorded") => recorded[Run(p)] = Path(p)

\* A call that fails, at whatever command and beside whatever other call, leaves no
\* worktree and no branch: what is there is recorded, or belongs to a call that goes
\* on, or to one that was killed or could not be rolled back.
NoLeftovers ==
    LET names(r, t) == \/ recorded[r] = t
                       \/ \E p \in Preparers : ~At(p, "idle") /\ Run(p) = r /\ Path(p) = t
                       \/ <<r, t>> \in left
    IN  /\ \A t \in Paths : there[t] \in Runs => there[t] \in branches /\ names(there[t], t)
        /\ \A r \in branches : \E t \in Paths : names(r, t)

\* A worktree that is recorded is not taken away by the rollback of a call that did
\* not make it, unless another call was on the path of that call at the same time.
\* One that made it takes it away when the event is in the log and its report cannot
\* be loaded.
RecordedStays ==
    \A r \in Runs :
        LET t == recorded[r]
        IN  t # None /\ there[t] = r /\ there'[t] # r =>
                \E p \in Preparers :
                    At(p, "undo") /\ Path(p) = t /\ (call[p].made \/ ~call[p].alone)

\* Preparing leaves nothing that is not recorded, and takes nothing that is.
PreparingIsClean == [][NoLeftovers' /\ RecordedStays]_vars
=============================================================================
