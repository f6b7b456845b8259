---------------------------- MODULE HomeRegistry ----------------------------
(***************************************************************************)
(* HomeManager (home.rs) over RegistryStore (registry.rs): processes that   *)
(* create, import and clone Codex Homes and register them in one JSON file. *)
(*                                                                          *)
(* A call checks its target and previews the registration without a lock,   *)
(* builds the Home's directory piece by piece, then adds the entry under    *)
(* the registry's file lock, where it is validated again.  When building or *)
(* adding fails, the directory is removed child by child: whatever directory*)
(* is there by then, and as far as the file system lets it.  Users write    *)
(* into Homes, and make Homes of their own, meanwhile.                      *)
(*                                                                          *)
(* Paths are canonical and do not nest.                                     *)
(***************************************************************************)
EXTENDS Integers, Sequences, FiniteSets

CONSTANTS Procs,    \* processes that run a command
          Paths,    \* canonical paths of Homes
          Aliases,  \* normalized aliases
          Skeleton, \* the parts of a new Home in the order they are made:
                    \* skills, rules, hooks and config.toml in the code
          UserPaths,\* the paths where users make Homes and sign in
          Calls,    \* [Procs -> the calls the process may make]
          User,     \* the user, who makes Homes without this program
          None      \* nobody, nothing

ASSUME HomesAssumption ==
    /\ User \notin Procs /\ None \notin Procs \cup {User}
    /\ Skeleton \in Seq(STRING) /\ Skeleton # <<>>
    /\ UserPaths \subseteq Paths

Call == [kind  : {"create", "import", "clone"},
         alias : Aliases,
         path  : Paths,
         from  : Paths \cup {None},  \* the Home a clone copies
         copy  : BOOLEAN]            \* are its capabilities copied?

Entry == [alias : Aliases, path : Paths, kind : {"create", "import", "clone"}]

Parts  == {Skeleton[k] : k \in DOMAIN Skeleton} \cup {"capabilities", "user"}

ASSUME CallsAssumption ==
    /\ \A p \in Procs : Calls[p] \subseteq Call
    /\ None \notin Call
    /\ \A held \in SUBSET Parts : held # None

Places == {"idle", "checked", "building", "copying", "adding",
           "locked", "loaded", "written", "failed"}

VARIABLES
    dirs,    \* [Paths -> what the directory holds, or None where there is none]
    homes,   \* the entries of the registry file
    revision,\* its revision
    lock,    \* the process that holds the registry lock, or None
    pc,      \* [Procs -> where the process is in its call]
    call,    \* [Procs -> the call, or None]
    step,    \* [Procs -> the next part of the skeleton to make]
    seen,    \* [Procs -> the registry the process loaded under the lock]
    maker,   \* [Paths -> who made the directory that is there, or None]
    left     \* the paths where a builder was killed, or could not roll back

fileVars == <<homes, revision, lock>>
procVars == <<pc, call, step, seen>>
vars     == <<dirs, homes, revision, lock, pc, call, step, seen, maker, left>>

NothingSeen == [homes |-> {}, revision |-> 0]

\* inspect_home_path: the directory is there and holds something a Home has.
Recognizable(path) == dirs[path] # None /\ dirs[path] # {}

\* validate_candidate.
Conflicts(entries, c) == \E e \in entries : e.alias = c.alias \/ e.path = c.path

Builds(p) == call[p].kind # "import"

Goto(p, place) == pc' = [pc EXCEPT ![p] = place]

\* The call of p is over.
Over(p) ==
    /\ Goto(p, "idle")
    /\ call' = [call EXCEPT ![p] = None]
    /\ step' = [step EXCEPT ![p] = 0]
    /\ seen' = [seen EXCEPT ![p] = NothingSeen]

----------------------------------------------------------------------------
\* Before anything is written.

\* ensure_new_target and inspect_home_path.
Check(p, c) ==
    /\ pc[p] = "idle"
    /\ IF c.kind = "import" THEN Recognizable(c.path) ELSE dirs[c.path] = None
    /\ c.kind = "clone" =>
          /\ \E e \in homes : e.path = c.from
          /\ c.from # c.path /\ Recognizable(c.from)
    /\ Goto(p, "checked")
    /\ call' = [call EXCEPT ![p] = c]
    /\ UNCHANGED <<dirs, fileVars, step, seen, maker, left>>

\* RegistryStore::preview_add, which takes no lock.  A dry run ends here too, and
\* so does a clone whose capabilities cannot be counted.
PreviewAdd(p) ==
    /\ pc[p] = "checked"
    /\ \/ Over(p)
       \/ /\ ~Conflicts(homes, call[p])
          /\ Goto(p, IF Builds(p) THEN "building" ELSE "adding")
          /\ UNCHANGED <<call, step, seen>>
    /\ UNCHANGED <<dirs, fileVars, maker, left>>

----------------------------------------------------------------------------
\* Building the Home.

\* create_dir_all makes the directory where there is none, and accepts one
\* that is there.
EnsureDirectory(p, content) ==
    LET path == call[p].path
    IN  /\ dirs'  = [dirs EXCEPT ![path] = IF @ = None THEN content ELSE @ \cup content]
        /\ maker' = [maker EXCEPT ![path] = IF dirs[path] = None THEN p ELSE @]

MakeDirectory(p) ==
    /\ pc[p] = "building" /\ step[p] = 0
    /\ EnsureDirectory(p, {})
    /\ step' = [step EXCEPT ![p] = 1]
    /\ UNCHANGED <<fileVars, pc, call, seen, left>>

\* Each further part must not exist, in a directory that must.
MakePart(p) ==
    LET path == call[p].path
        part == Skeleton[step[p]]
        last == step[p] = Len(Skeleton)
    IN  /\ pc[p] = "building" /\ step[p] # 0
        /\ IF dirs[path] = None \/ part \in dirs[path]
           THEN Goto(p, "failed") /\ UNCHANGED <<dirs, step>>
           ELSE /\ dirs' = [dirs EXCEPT ![path] = @ \cup {part}]
                /\ step' = [step EXCEPT ![p] = IF last THEN 0 ELSE @ + 1]
                /\ Goto(p, IF ~last THEN "building"
                           ELSE IF call[p].kind = "clone" /\ call[p].copy THEN "copying"
                           ELSE "adding")
        /\ UNCHANGED <<fileVars, call, seen, maker, left>>

\* copy_capability_trees makes the directories it copies into.
CopyCapabilities(p) ==
    /\ pc[p] = "copying"
    /\ EnsureDirectory(p, {"capabilities"})
    /\ Goto(p, "adding")
    /\ UNCHANGED <<fileVars, call, step, seen, left>>

\* An I/O error, or a tree of capabilities beyond the limit.
FailBuilding(p) ==
    /\ pc[p] \in {"building", "copying"}
    /\ Goto(p, "failed")
    /\ UNCHANGED <<dirs, fileVars, call, step, seen, maker, left>>

----------------------------------------------------------------------------
\* RegistryStore::add.

LockRegistry(p) ==
    /\ pc[p] = "adding"
    /\ lock = None
    /\ lock' = p
    /\ Goto(p, "locked")
    /\ UNCHANGED <<dirs, homes, revision, call, step, seen, maker, left>>

Load(p, place) ==
    /\ pc[p] = place
    /\ seen' = [seen EXCEPT ![p] = [homes |-> homes, revision |-> revision]]
    /\ Goto(p, "loaded")
    /\ UNCHANGED <<dirs, fileVars, call, step, maker, left>>

LoadRegistry_NoLock(p) == Load(p, "adding")
LoadRegistry(p)        == Load(p, "locked")

WriteRegistry_WholeCall(p) ==
    /\ pc[p] = "loaded"
    /\ ~Conflicts(seen[p].homes, call[p])
    /\ homes' = seen[p].homes \cup {call[p]}
    /\ revision' = seen[p].revision + 1
    /\ Goto(p, "written")
    /\ UNCHANGED <<dirs, lock, call, step, seen, maker, left>>

\* validate_candidate once more, and write_registry.
WriteRegistry(p) ==
    /\ pc[p] = "loaded"
    /\ ~Conflicts(seen[p].homes, call[p])
    /\ homes' = seen[p].homes \cup
                   {[alias |-> call[p].alias, path |-> call[p].path, kind |-> call[p].kind]}
    /\ revision' = seen[p].revision + 1
    /\ Goto(p, "written")
    /\ UNCHANGED <<dirs, lock, call, step, seen, maker, left>>

Unlock(p) == lock' = IF lock = p THEN None ELSE lock

MayFailAdd(p) == pc[p] \in {"adding", "locked", "loaded"}

FailAdd_NoRollback(p) ==
    /\ MayFailAdd(p)
    /\ Unlock(p)
    /\ Over(p)
    /\ UNCHANGED <<dirs, homes, revision, maker, left>>

\* The entry conflicts, or an I/O error: the lock is dropped, and then the
\* caller sees the error.
FailAdd(p) ==
    /\ MayFailAdd(p)
    /\ Unlock(p)
    /\ IF Builds(p)
       THEN Goto(p, "failed") /\ UNCHANGED <<call, step, seen>>
       ELSE Over(p)
    /\ UNCHANGED <<dirs, homes, revision, maker, left>>

Return(p) ==
    /\ pc[p] = "written"
    /\ Unlock(p)
    /\ Over(p)
    /\ UNCHANGED <<dirs, homes, revision, maker, left>>

\* rollback_new_home: remove_dir_all takes the children one by one, whoever made
\* them,
RemovePart(p, part) ==
    LET path == call[p].path
    IN  /\ pc[p] = "failed"
        /\ dirs[path] # None /\ part \in dirs[path]
        /\ dirs' = [dirs EXCEPT ![path] = @ \ {part}]
        /\ UNCHANGED <<fileVars, procVars, maker, left>>

\* and the directory when it is empty.
RollBack(p) ==
    LET path == call[p].path
    IN  /\ pc[p] = "failed"
        /\ dirs[path] \in {None, {}}
        /\ dirs'  = [dirs EXCEPT ![path] = None]
        /\ maker' = [maker EXCEPT ![path] = None]
        /\ left'  = left \ {path}
        /\ Over(p)
        /\ UNCHANGED fileVars

\* Its error is ignored: what it could not remove stays.
LeaveDirectory(p) ==
    /\ pc[p] = "failed"
    /\ dirs[call[p].path] # None
    /\ left' = left \cup {call[p].path}
    /\ Over(p)
    /\ UNCHANGED <<dirs, fileVars, maker>>

----------------------------------------------------------------------------
\* What else happens.

\* The process is killed; its lock is released, what it built stays.
Kill(p) ==
    /\ pc[p] # "idle"
    /\ Unlock(p)
    /\ left' = left \cup {t \in Paths : Builds(p) /\ t = call[p].path /\ dirs[t] # None}
    /\ Over(p)
    /\ UNCHANGED <<dirs, homes, revision, maker>>

\* A user makes a Home, or signs in to one.
UserWrites(path) ==
    /\ dirs'  = [dirs EXCEPT ![path] = IF @ = None THEN {"user"} ELSE @ \cup {"user"}]
    /\ maker' = [maker EXCEPT ![path] = IF dirs[path] = None THEN User ELSE @]
    /\ UNCHANGED <<fileVars, procVars, left>>

Init ==
    /\ dirs     = [t \in Paths |-> None]
    /\ homes    = {}
    /\ revision = 0
    /\ lock     = None
    /\ pc       = [p \in Procs |-> "idle"]
    /\ call     = [p \in Procs |-> None]
    /\ step     = [p \in Procs |-> 0]
    /\ seen     = [p \in Procs |-> NothingSeen]
    /\ maker    = [t \in Paths |-> None]
    /\ left     = {}

Advance(p) ==
    \/ PreviewAdd(p)
    \/ MakeDirectory(p) \/ MakePart(p) \/ CopyCapabilities(p) \/ FailBuilding(p)
    \/ LockRegistry(p) \/ LoadRegistry(p) \/ WriteRegistry(p) \/ FailAdd(p)
    \/ Return(p)
    \/ \E part \in Parts : RemovePart(p, part)
    \/ RollBack(p) \/ LeaveDirectory(p)

Next ==
    \/ \E p \in Procs : (\E c \in Calls[p] : Check(p, c)) \/ Advance(p) \/ Kill(p)
    \/ \E t \in UserPaths : UserWrites(t)

Spec == Init /\ [][Next]_vars

----------------------------------------------------------------------------
\* Properties.

\* Every variable holds a value of its type.
TypeOK ==
    /\ dirs     \in [Paths -> (SUBSET Parts) \cup {None}]
    /\ homes    \subseteq Entry
    /\ revision \in Nat
    /\ lock     \in Procs \cup {None}
    /\ pc       \in [Procs -> Places]
    /\ call     \in [Procs -> Call \cup {None}]
    /\ step     \in [Procs -> 0..Len(Skeleton)]
    /\ seen     \in [Procs -> [homes : SUBSET Entry, revision : Nat]]
    /\ maker    \in [Paths -> Procs \cup {User, None}]
    /\ left     \subseteq Paths

\* However many calls were previewed on the same registry, no two entries share
\* an alias or a path.
RegistryConsistent ==
    \A d, e \in homes : d.alias = e.alias \/ d.path = e.path => d = e

\* No add is lost: of two that race, neither overwrites the other's entry, and
\* each has a revision of its own.
EveryAddKept ==
    /\ homes \subseteq homes'
    /\ homes' # homes => revision' = revision + 1

\* The registry only grows, one consistent entry at a time.
RegistryGrows == [][RegistryConsistent' /\ EveryAddKept]_vars

\* A call that fails leaves no directory behind, unless it is killed or the file
\* system keeps it from removing one: a directory that this program made is
\* registered, or being built or rolled back, or one of these was left.
NoOrphans ==
    \A t \in Paths : dirs[t] # None /\ maker[t] # User =>
        \/ \E e \in homes : e.path = t
        \/ \E p \in Procs : call[p] # None /\ call[p].path = t
        \/ t \in left

\* The paths on which no two processes build.
OwnPaths ==
    {t \in Paths : \A p, q \in Procs :
        /\ \E c \in Calls[p] : c.path = t /\ c.kind # "import"
        /\ \E c \in Calls[q] : c.path = t /\ c.kind # "import"
        => p = q}

\* On a path where one process builds, whatever else is imported, rolled back or
\* written, a registered Home has its whole skeleton.
RegisteredIsBuilt ==
    \A e \in homes : e.kind # "import" /\ e.path \in OwnPaths =>
        dirs[e.path] # None /\ \A k \in DOMAIN Skeleton : Skeleton[k] \in dirs[e.path]

\* A directory that no call is building.
Settled(t) ==
    /\ dirs[t] # None
    /\ \A p \in Procs : pc[p] # "idle" /\ Builds(p) => call[p].path # t

\* A rollback takes what came after the check of its call only: once every call that
\* found no directory at a path is over, what is there, the Home of the call that won
\* or of a user, is not built on again, and nothing is removed from it.
SettledStay == \A t \in Paths : Settled(t) => Settled(t)' /\ dirs[t] \subseteq dirs'[t]

\* A call leaves a whole Home, or nothing that it could remove, and takes nothing
\* that was there before it.
HomesAreWhole == [](NoOrphans /\ RegisteredIsBuilt) /\ [][SettledStay]_vars
=============================================================================
