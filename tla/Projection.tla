----------------------------- MODULE Projection -----------------------------
(***************************************************************************)
(* The runtime projection (projection.rs): the Skills of a manifest, and   *)
(* the config and the auth of its account, are linked or copied into the   *)
(* directory a runtime reads, verified, and cleaned.  A call plans its     *)
(* entries one by one, then works through them; nothing is locked, so      *)
(* calls run beside each other, and each file system operation of a call   *)
(* is a step, may fail, and may be the last one before the process is      *)
(* killed.  Sources are edited and removed, and the user makes a directory *)
(* at a target or puts something into the one that is there, at any time.  *)
(*                                                                         *)
(* What is at a target is a link, or a directory with the parts that were  *)
(* copied into it, the marker that is written last, and perhaps what the   *)
(* user has in it.  A part or a marker is written in one step; a directory *)
(* is removed child by child, in any order, and then itself, and what a    *)
(* removal meets at the path is what it removes.  Renaming a backup back   *)
(* fails only for what stands in the way.  Process ids are not used twice. *)
(* A marker that a copy writes through a link, into a source, is not found *)
(* again.  The user removes nothing.                                       *)
(***************************************************************************)
EXTENDS Environment, TLC

CONSTANTS
    Inputs,          \* what may be resolved: a function to the inputs of a manifest
    Kinds,           \* the calls that may be made: [op, inputs, mode, force]
    Parts,           \* the files of a source
    UserTargets,     \* targets where the user works
    MaxCalls,        \* bounds of the model: calls,
    MaxWorks,        \* directories with the user's work at once,
    MaxVersion,      \* versions of a source,
    MaxAbsent        \* and sources that are not there

VARIABLES
    source,          \* per source: its version, or None when it is not there
    disk,            \* per target: what is there, or None
    backups,         \* per backup, <<call, entry>>: [target, node]
    calls            \* the calls that were made, by process id

vars == <<source, disk, backups, calls>>

ASSUME InputsAssumption == \A n \in DOMAIN Inputs : Resolvable(Inputs[n])

\* The ids of the Skills that are asked for are in order, and a map holds finitely many.
ASSUME IdsAssumption ==
    \A n \in DOMAIN Inputs : /\ DOMAIN Requested(Inputs[n]) \subseteq Int
                             /\ IsFiniteSet(DOMAIN Requested(Inputs[n]))

ASSUME CallsAssumption ==
    /\ \A kind \in Kinds : /\ kind.op \in {"plan", "verify", "clean", "apply"}
                           /\ kind.inputs \in DOMAIN Inputs
                           /\ kind.mode \in {"symlink", "copy"}
                           /\ kind.force \in BOOLEAN
    /\ MaxCalls \in Nat /\ MaxVersion \in Nat \ {0} /\ MaxAbsent \in Nat

Manifest == [n \in DOMAIN Inputs |-> Resolve(Inputs[n])]

\* The account's config and auth, in an isolated runtime; both are always linked.
AccountEntry(m, file, from, required) ==
    [source |-> from, target |-> <<m.root, file, 0>>, required |-> required, digest |-> None,
     mode |-> "symlink"]

AccountEntries(m) ==
    IF m.isolation = "shared" THEN <<>>
    ELSE <<AccountEntry(m, "config.toml", m.account.config, m.account.hasConfig),
           AccountEntry(m, "auth.json", m.account.auth, m.account.hasAuth)>>

\* What a call has to plan, in its order.
EntriesOf(m, mode) ==
    [n \in DOMAIN m.skills |-> [source   |-> m.skills[n].source,
                                target   |-> m.skills[n].target,
                                required |-> m.skills[n].required,
                                digest   |-> m.skills[n].digest,
                                mode     |-> mode]]
    \o AccountEntries(m)

Wanted == [kind \in Kinds |-> EntriesOf(Manifest[kind.inputs], kind.mode)]

Sources == UNION {{Wanted[k][n].source : n \in DOMAIN Wanted[k]} : k \in Kinds}
Targets == UNION {{Wanted[k][n].target : n \in DOMAIN Wanted[k]} : k \in Kinds}

\* The plan walks lists, and links or copies each entry.
ASSUME WantedAssumption ==
    \A k \in Kinds :
        /\ Len(Wanted[k]) \in Nat /\ DOMAIN Wanted[k] = 1..Len(Wanted[k])
        /\ \A n \in DOMAIN Wanted[k] : Wanted[k][n].mode \in {"symlink", "copy"}

----------------------------------------------------------------------------
\* What is on the disk.

Link(s)     == [kind |-> "link", to |-> s]
Links       == {Link(s) : s \in Sources}

\* Two of the fields are for the properties only: whether a copy was once finished
\* here, and whether a removal took something and did not get to the end.
Dirs        == [kind : {"dir"}, user : BOOLEAN, marker : Sources \cup {None},
                files : UNION {[parts -> 0..MaxVersion] : parts \in SUBSET Parts},
                copied : BOOLEAN, cut : BOOLEAN]
Nodes       == {None} \cup Links \cup Dirs

\* How a call ends.
Outcomes    == {"refused", "planned", "failed", "undiscarded", "verified", "unverified",
                "cleaned", "uncleaned", "unremoved", "killed"}

ASSUME PlacesAssumption ==
    /\ None \notin Sources /\ None \notin Links /\ None \notin Dirs /\ None \notin Outcomes
    /\ UserTargets \subseteq Targets

EmptyDir    == [kind |-> "dir", files |-> <<>>, marker |-> None, user |-> FALSE,
                copied |-> FALSE, cut |-> FALSE]
UserDir     == [EmptyDir EXCEPT !.user = TRUE]
IsDir(node) == node # None /\ node.kind = "dir"
Empty(node) == IsDir(node) /\ node.files = <<>> /\ node.marker = None /\ ~node.user

\* projection_matches: of a copy only the marker is read, and that its source is there.
Matches(s, node, mode) ==
    IF mode = "symlink" THEN node = Link(s)
                        ELSE source[s] # None /\ IsDir(node) /\ node.marker = s

\* A directory without one of its children, which may be any.
OneLess(node) ==
    {[node EXCEPT !.files = [p \in (DOMAIN @) \ {part} |-> @[p]], !.cut = TRUE] :
         part \in DOMAIN node.files}
    \cup {[node EXCEPT !.marker = None, !.cut = TRUE] : m \in {node.marker} \ {None}}
    \cup {[node EXCEPT !.user = FALSE, !.cut = TRUE] : u \in {node.user} \ {FALSE}}

\* What the next operation of remove_projection_target may leave of a node.
Removals(node) == IF IsDir(node) /\ ~Empty(node) THEN OneLess(node) ELSE {None}

\* What fs::rename replaces: a link by a link, an empty directory by a directory.
MayReplace(node, there) ==
    there = None \/ IF IsDir(node) THEN Empty(there) ELSE there.kind = "link"

----------------------------------------------------------------------------
\* A call.

Running(n)    == calls[n].step # "done"
Entry(n)      == calls[n].entries[calls[n].at]
Going(n, step) == n \in DOMAIN calls /\ calls[n].step = step
Plans(n)      == Len(calls[n].entries) < Len(Wanted[calls[n].kind])

Set(n, call) == calls' = [calls EXCEPT ![n] = call]

\* Four of the fields are for the properties only: whether a call has the disk for
\* itself but for the user, and then what the targets were when it began, where the
\* user has worked since, and what it created and could not remove again.
NewCall(kind, alone) ==
    [kind |-> kind, step |-> "plan", entries |-> <<>>, at |-> 0, todo |-> {},
     created |-> <<>>, outcome |-> None, alone |-> alone,
     before |-> IF alone THEN disk ELSE <<>>, touched |-> {}, stuck |-> {}]

\* Nothing is left of a call but its outcome.
Ends(n, outcome) ==
    Set(n, [calls[n] EXCEPT !.step = "done", !.outcome = outcome, !.entries = <<>>, !.at = 0,
                            !.todo = {}, !.created = <<>>, !.before = <<>>,
                            !.touched = {}, !.stuck = {}])

Accompanied(call) == [call EXCEPT !.alone = FALSE, !.before = <<>>, !.touched = {}, !.stuck = {}]

Begin(kind) ==
    LET running == {n \in DOMAIN calls : Running(n)}
    IN  /\ Len(calls) < MaxCalls
        /\ calls' = Append([n \in DOMAIN calls |-> IF n \in running THEN Accompanied(calls[n])
                                                   ELSE calls[n]],
                           NewCall(kind, running = {}))
        /\ UNCHANGED <<source, disk, backups>>

Operation(s, entry) ==
    CASE source[s] = None                         -> "skip"
      [] Matches(s, disk[entry.target], entry.mode) -> "keep"
      [] disk[entry.target] # None                -> "replace"
      [] OTHER                                    -> "create"

\* plan, one entry on: the digest of a Skill that is there, then plan_entry.
PlanEntry(n) ==
    /\ Going(n, "plan") /\ Plans(n)
    /\ LET entry == Wanted[calls[n].kind][Len(calls[n].entries) + 1]
           s     == entry.source
       IN  IF \/ source[s] # None /\ entry.digest # None /\ entry.digest # source[s]
              \/ source[s] = None /\ entry.required
           THEN Ends(n, "refused")
           ELSE Set(n, [calls[n] EXCEPT !.entries = Append(@,
                    [source |-> s, target |-> entry.target, mode |-> entry.mode,
                     operation |-> Operation(s, entry)])])
    /\ UNCHANGED <<source, disk, backups>>

Own(n)     == {b \in DOMAIN backups : b[1] = n}
Without(b) == [c \in (DOMAIN backups) \ {b} |-> backups[c]]

Put(f, x, y) == [z \in {x} \cup DOMAIN f |-> IF z = x THEN y ELSE f[z]]

\* The loop of apply goes on with the next entry there is something to do for, and
\* after the last with the backups, if there are any.
Onward(n, call) ==
    LET left == {k \in DOMAIN call.entries :
                    k > call.at /\ call.entries[k].operation \in {"create", "replace"}}
        k    == Min(left)
    IN  IF left # {}
        THEN [call EXCEPT !.at = k, !.step = IF call.entries[k].operation = "replace"
                                            THEN "stage" ELSE "create"]
        ELSE [call EXCEPT !.step = IF Own(n) = {} THEN "verify" ELSE "discard"]

\* Mutant: replacing is not asked for.
Permitted_Always(call) == TRUE

\* Only a forced apply may replace what is there.
Permitted(call) ==
    call.kind.force \/ \A k \in DOMAIN call.entries : call.entries[k].operation # "replace"

\* What the plan is for.
Planned(n) ==
    /\ Going(n, "plan") /\ ~Plans(n)
    /\ LET call == calls[n]
       IN  CASE call.kind.op = "plan"   -> Ends(n, "planned")
             [] call.kind.op = "verify" -> Set(n, [call EXCEPT !.step = "verify"])
             [] call.kind.op = "clean"  -> Set(n, [call EXCEPT !.step = "clean",
                                                              !.at = Len(call.entries)])
             [] call.kind.op = "apply"  -> IF Permitted(call) THEN Set(n, Onward(n, call))
                                           ELSE Ends(n, "refused")
    /\ UNCHANGED <<source, disk, backups>>

\* The target is renamed to its backup.
Stage(n) ==
    /\ Going(n, "stage")
    /\ disk[Entry(n).target] # None
    /\ disk'    = [disk EXCEPT ![Entry(n).target] = None]
    /\ backups' = Put(backups, <<n, calls[n].at>>,
                      [target |-> Entry(n).target, node |-> disk[Entry(n).target]])
    /\ Set(n, [calls[n] EXCEPT !.step = "create"])
    /\ UNCHANGED source

Created(n) == Set(n, Onward(n, [calls[n] EXCEPT !.created = Append(@, Entry(n).target)]))

CreateLink(n) ==
    /\ Going(n, "create") /\ Entry(n).mode = "symlink"
    /\ disk[Entry(n).target] = None
    /\ disk' = [disk EXCEPT ![Entry(n).target] = Link(Entry(n).source)]
    /\ Created(n)
    /\ UNCHANGED <<source, backups>>

\* copy_tree: the directory may be there, then every file, then the marker.
CreateDir(n) ==
    /\ Going(n, "create") /\ Entry(n).mode = "copy"
    /\ source[Entry(n).source] # None
    /\ disk' = [disk EXCEPT ![Entry(n).target] = IF @ = None THEN EmptyDir ELSE @]
    /\ Set(n, [calls[n] EXCEPT !.step = "copy", !.todo = Parts])
    /\ UNCHANGED <<source, backups>>

\* What is written into a directory.  Through a link it is written into the source
\* that the link is to, and the source is not what it was (version 0).
Write(n, node) ==
    LET there == disk[Entry(n).target]
    IN  \/ /\ IsDir(there)
           /\ disk' = [disk EXCEPT ![Entry(n).target] = node]
           /\ UNCHANGED source
        \/ /\ there # None /\ ~IsDir(there) /\ source[there.to] # None
           /\ source' = [source EXCEPT ![there.to] = 0]
           /\ UNCHANGED disk

CopyPart(n, part) ==
    /\ Going(n, "copy") /\ part \in calls[n].todo
    /\ source[Entry(n).source] # None
    /\ Write(n, [disk[Entry(n).target] EXCEPT !.files = Put(@, part, source[Entry(n).source])])
    /\ Set(n, [calls[n] EXCEPT !.todo = @ \ {part}])
    /\ UNCHANGED backups

Marked(n) ==
    Write(n, [disk[Entry(n).target] EXCEPT !.marker = Entry(n).source, !.copied = TRUE])

\* Mutant: the marker may be written before every file is there.
WriteMarker_Early(n) ==
    /\ Going(n, "copy") /\ Cardinality(calls[n].todo) <= 1
    /\ Marked(n)
    /\ IF calls[n].todo = {} THEN Created(n) ELSE UNCHANGED calls
    /\ UNCHANGED backups

WriteMarker(n) ==
    /\ Going(n, "copy") /\ calls[n].todo = {}
    /\ Marked(n)
    /\ Created(n)
    /\ UNCHANGED backups

\* Any operation of the loop may fail, and all that was created goes again.
Fail(n) ==
    /\ n \in DOMAIN calls /\ calls[n].step \in {"stage", "create", "copy"}
    /\ Set(n, [calls[n] EXCEPT !.step = "undo"])
    /\ UNCHANGED <<source, disk, backups>>

\* The rollback: what was created, the last first, then the backups.
UndoCreated(n) ==
    /\ Going(n, "undo") /\ calls[n].created # <<>>
    /\ LET target == Last(calls[n].created)
       IN  \E node \in Removals(disk[target]) :
               /\ disk' = [disk EXCEPT ![target] = node]
               /\ IF node = None THEN Set(n, [calls[n] EXCEPT !.created = Front(@)])
                                 ELSE UNCHANGED calls
    /\ UNCHANGED <<source, backups>>

\* One that cannot be removed stays, and nothing is said of it.
LeaveCreated(n) ==
    /\ Going(n, "undo") /\ calls[n].created # <<>>
    /\ disk[Last(calls[n].created)] # None
    /\ Set(n, [calls[n] EXCEPT !.created = Front(@), !.stuck = @ \cup {Last(calls[n].created)}])
    /\ UNCHANGED <<source, disk, backups>>

\* Mutant: the backups are not renamed back.
RestoreBackup_Forgotten(n) ==
    /\ Going(n, "undo") /\ calls[n].created = <<>>
    /\ Ends(n, "failed")
    /\ UNCHANGED <<source, disk, backups>>

\* Also the last first.  One that cannot be renamed back stays, and nothing is said of it.
RestoreBackup(n) ==
    /\ Going(n, "undo") /\ calls[n].created = <<>>
    /\ LET left == {b \in Own(n) : b[2] <= calls[n].at}
       IN  IF left = {} THEN Ends(n, "failed") /\ UNCHANGED <<disk, backups>>
           ELSE LET b      == CHOOSE b \in left : \A c \in left : c[2] <= b[2]
                    target == backups[b].target
                IN  /\ IF MayReplace(backups[b].node, disk[target])
                       THEN /\ disk'    = [disk EXCEPT ![target] = backups[b].node]
                            /\ backups' = Without(b)
                       ELSE UNCHANGED <<disk, backups>>
                    /\ Set(n, [calls[n] EXCEPT !.at = b[2] - 1])
    /\ UNCHANGED source

\* All entries are there: the backups are removed; the first failure ends the call.
Discard(n) ==
    /\ Going(n, "discard")
    /\ \/ LET b == CHOOSE b \in Own(n) : \A c \in Own(n) : b[2] <= c[2]
          IN  \E node \in Removals(backups[b].node) :
                  IF node = None
                  THEN /\ backups' = Without(b)
                       /\ Set(n, [calls[n] EXCEPT !.step = IF Cardinality(Own(n)) = 1
                                                          THEN "verify" ELSE @])
                  ELSE backups' = [backups EXCEPT ![b].node = node] /\ UNCHANGED calls
       \/ Ends(n, "undiscarded") /\ UNCHANGED backups
    /\ UNCHANGED <<source, disk>>

\* verify_entries.
Projects(entries) ==
    \A k \in DOMAIN entries :
        entries[k].operation # "skip" =>
            Matches(entries[k].source, disk[entries[k].target], entries[k].mode)

Verify(n) ==
    /\ Going(n, "verify")
    /\ Ends(n, IF Projects(calls[n].entries) THEN "verified" ELSE "unverified")
    /\ UNCHANGED <<source, disk, backups>>

\* Mutant: whatever is at a target is removed.
MayRemove_Any(n) == disk[Entry(n).target] # None

\* clean, from the last entry to the first; it stops at what is not its own.
MayRemove(n) == Matches(Entry(n).source, disk[Entry(n).target], Entry(n).mode)

CleanEntry(n) ==
    /\ Going(n, "clean")
    /\ IF calls[n].at = 0
       THEN Ends(n, IF \A k \in DOMAIN calls[n].entries :
                            disk[calls[n].entries[k].target] = None
                    THEN "cleaned" ELSE "uncleaned")
       ELSE IF disk[Entry(n).target] = None THEN Set(n, [calls[n] EXCEPT !.at = @ - 1])
       ELSE IF MayRemove(n) THEN Set(n, [calls[n] EXCEPT !.step = "remove"])
       ELSE Ends(n, "refused")
    /\ UNCHANGED <<source, disk, backups>>

RemoveEntry(n) ==
    /\ Going(n, "remove")
    /\ \E node \in Removals(disk[Entry(n).target]) :
           /\ disk' = [disk EXCEPT ![Entry(n).target] = node]
           /\ IF node = None THEN Set(n, [calls[n] EXCEPT !.step = "clean", !.at = @ - 1])
                             ELSE UNCHANGED calls
    /\ UNCHANGED <<source, backups>>

\* A removal that fails ends the call, and what is left stays there.
FailRemoval(n) ==
    /\ Going(n, "remove")
    /\ Ends(n, "unremoved")
    /\ UNCHANGED <<source, disk, backups>>

\* The process is killed.
Kill(n) ==
    /\ n \in DOMAIN calls /\ Running(n)
    /\ Ends(n, IF calls[n].step \in {"discard", "verify"} THEN "unverified" ELSE "killed")
    /\ UNCHANGED <<source, disk, backups>>

Absent == {s \in Sources : source[s] = None}

\* The owner of a source edits it, or takes it away.
EditSource(s) ==
    /\ source[s] # None
    /\ \/ /\ Cardinality(Absent) < MaxAbsent
          /\ source' = [source EXCEPT ![s] = None]
       \/ source[s] < MaxVersion /\ source' = [source EXCEPT ![s] = @ + 1]
    /\ UNCHANGED <<disk, backups, calls>>

HasWork(node) == IsDir(node) /\ node.user

Works == Cardinality({t \in Targets : HasWork(disk[t])})
         + Cardinality({b \in DOMAIN backups : HasWork(backups[b].node)})

\* The user makes a directory, or puts something into one; no call is told.
UserActs(t, node) ==
    /\ Works < MaxWorks
    /\ disk' = [disk EXCEPT ![t] = node]
    /\ calls' = [n \in DOMAIN calls |->
                    IF Running(n) /\ calls[n].alone
                    THEN [calls[n] EXCEPT !.touched = @ \cup {t}] ELSE calls[n]]
    /\ UNCHANGED <<source, backups>>

UserMakes(t) == disk[t] = None /\ UserActs(t, UserDir)

UserWorks(t) ==
    /\ IsDir(disk[t]) /\ ~disk[t].user
    /\ UserActs(t, [disk[t] EXCEPT !.user = TRUE])

Init ==
    /\ source \in [Sources -> {None, 1}] /\ Cardinality(Absent) <= MaxAbsent
    /\ disk = [t \in Targets |-> None]
    /\ backups = <<>>
    /\ calls = <<>>

CallStep(n) ==
    \/ PlanEntry(n) \/ Planned(n) \/ Stage(n)
    \/ CreateLink(n) \/ CreateDir(n) \/ (\E part \in Parts : CopyPart(n, part)) \/ WriteMarker(n)
    \/ Fail(n) \/ UndoCreated(n) \/ LeaveCreated(n) \/ RestoreBackup(n)
    \/ Discard(n) \/ Verify(n) \/ CleanEntry(n) \/ RemoveEntry(n) \/ FailRemoval(n)
    \/ Kill(n)

Next ==
    \/ \E kind \in Kinds : Begin(kind)
    \/ \E n \in 1..MaxCalls : CallStep(n)
    \/ \E s \in Sources : EditSource(s)
    \/ \E t \in UserTargets : UserMakes(t) \/ UserWorks(t)

Spec == Init /\ [][Next]_vars

----------------------------------------------------------------------------
(* Properties.                                                             *)

Overlapped == \E n \in DOMAIN calls : ~calls[n].alone

\* Everything at a target is what a call or the user can have put there, and every
\* backup belongs to a call that has staged it and not yet thrown it away.
TypeOK ==
    /\ source \in [Sources -> 0..MaxVersion \cup {None}]
    /\ disk \in [Targets -> Nodes]
    /\ \A b \in DOMAIN backups :
        /\ b[1] \in DOMAIN calls
        /\ backups[b].node \in Nodes \ {None}
        /\ calls[b[1]].kind.op = "apply" /\ calls[b[1]].kind.force
        /\ calls[b[1]].outcome \notin {"verified", "refused"}

\* Two calls at once may leave another's marker in a directory when one is forced; so
\* may three, of which one takes back what the second copies into and the third
\* makes it again.
Undisturbed ==
    Overlapped => Len(calls) <= 2 /\ \A n \in DOMAIN calls : ~calls[n].kind.force

\* What a removal did not get to the end of may have a marker and no files: the next
\* plan keeps that, and an apply reports it as verified.  Or the user made the
\* directory where one of two calls had removed what the other copied into.
MayLack(node) == node.cut \/ (Overlapped /\ node.user)

\* A directory that the next plan takes for a finished copy is one: it has all files
\* of its source.  No copy that failed or was killed halfway leaves a marker; only a
\* removal may leave one in what is not whole.
MarkedIsWhole ==
    Undisturbed =>
        \A t \in Targets :
            IsDir(disk[t]) /\ disk[t].marker # None /\ ~MayLack(disk[t])
            => DOMAIN disk[t].files = Parts

\* No two entries have one target.  They may when two layers spell the id of a Skill
\* in two ways: each is found in the registry, and what the first put in place is
\* replaced by the second.
OwnTargets(kind) ==
    \A j, k \in DOMAIN Wanted[kind] : Wanted[kind][j].target = Wanted[kind][k].target => j = k

\* What was at a target when a call began, or nothing, is in the call's backup.
InBackup(n, t) ==
    calls[n].before[t] # None =>
        \E b \in DOMAIN backups' :
            b[1] = n /\ backups'[b] = [target |-> t, node |-> calls[n].before[t]]

\* A target is not what it was, and neither the user nor a removal that failed is why.
Changed(n, t) ==
    disk'[t] # calls[n].before[t] /\ t \notin calls[n].touched \cup calls[n].stuck

\* docs/effective-environment.md: apply rolls back entries it created when a later
\* operation fails.  When a call that had the disk for itself has failed, every
\* target at which the user did nothing is what it was, except the one the failure
\* left half copied and those that could not be removed; what was there before is
\* then kept in its backup.
FailedApplyRestores ==
    [][\A n \in DOMAIN calls :
        /\ calls'[n].outcome = "failed" /\ calls[n].outcome = None /\ calls[n].alone
        /\ OwnTargets(calls[n].kind)
        => \A t \in Targets \ calls[n].touched :
            \/ disk'[t] = calls[n].before[t]
            \/ t \in calls[n].stuck /\ InBackup(n, t)
            \/ /\ IsDir(disk'[t]) /\ disk'[t].marker = None /\ ~disk'[t].user
               /\ \A u \in Targets : Changed(n, u) => u = t
               /\ InBackup(n, t)]_vars

\* A source is at a target.  A copy is whole unless forced calls, or three, were
\* beside each other before, or a removal took a part of it.
InPlace(s, t) ==
    \/ disk[t] = Link(s)
    \/ /\ IsDir(disk[t]) /\ disk[t].marker = s
       /\ Undisturbed /\ ~MayLack(disk[t]) => DOMAIN disk[t].files = Parts

RequiredInPlace(inputs) ==
    \A l \in DOMAIN Layers(inputs) : \A k \in DOMAIN Layers(inputs)[l].skills :
        LET asked == Layers(inputs)[l].skills[k]
            found == Registered(inputs.registry, asked.skill)
        IN  asked.required =>
                found # None /\ InPlace(found.source, <<ManagedRoot(inputs), "skills", found.id>>)

AccountInPlace(inputs) ==
    LET root    == ManagedRoot(inputs)
        account == AccountOf(inputs)
    IN  Isolation(inputs) = "hard" =>
            /\ account.hasConfig => disk[<<root, "config.toml", 0>>] = Link(account.config)
            /\ account.hasAuth   => disk[<<root, "auth.json", 0>>] = Link(account.auth)

\* What an apply reports as verified: every Skill that any layer of the binding
\* requires is at its place, linked to its source or copied from it, and an isolated
\* runtime has the config and the auth of the account that is bound.
AppliedIsProjected ==
    [][\A n \in DOMAIN calls :
        /\ calls'[n].outcome = "verified" /\ calls[n].outcome = None /\ calls[n].alone
        => /\ RequiredInPlace(Inputs[calls[n].kind.inputs])
           /\ AccountInPlace(Inputs[calls[n].kind.inputs])]_vars

\* Calls are beside each other, or one replaces what it has put in place itself.
Contested ==
    \E n \in DOMAIN calls : Running(n) /\ (~calls[n].alone \/ ~OwnTargets(calls[n].kind))

\* What the user has at a target stays there, or a forced call puts the whole
\* directory into a backup.  A directory is taken from the user only when a copy
\* was finished in it: clean, and the rollback of the apply that copied, go by that
\* also when the user had made it or worked in it.
WorkStays ==
    \A t \in Targets :
        HasWork(disk[t]) =>
            \/ HasWork(disk'[t])
            \/ \E b \in (DOMAIN backups') \ DOMAIN backups :
                calls[b[1]].kind.force /\ backups'[b] = [target |-> t, node |-> disk[t]]
            \/ disk[t].copied
            \/ Contested

\* What the user had is in the backup until it is renamed back, or until the call has
\* created all it had to.
BackupStays ==
    \A b \in DOMAIN backups :
        HasWork(backups[b].node) =>
            \/ b \in DOMAIN backups' /\ backups'[b] = backups[b]
            \/ disk'[backups[b].target] = backups[b].node
            \/ calls[b[1]].step = "discard"

\* What the user has at a target is never lost to a call that was not forced, and
\* to a forced one only when all it had to create was there; failures and kills
\* leave it at the target or in a backup.  What a finished copy was made of is not
\* the user's any more.  Only calls beside each other can do more.
UserWorkKept == [][WorkStays /\ BackupStays]_vars
=============================================================================
