------------------------- MODULE HomeRegistryProofs -------------------------
(***************************************************************************)
(* Theorems about HomeRegistry, for every value of its constants.          *)
(***************************************************************************)
EXTENDS HomeRegistry, TLAPS

----------------------------------------------------------------------------
\* The inductive invariant.

\* A process that is not idle is in one of its calls; only the calls that build go
\* where Homes are built and taken back; the parts are counted while building only.
CallsAreCalls ==
    \A p \in Procs :
        /\ IF pc[p] = "idle" THEN call[p] = None ELSE call[p] \in Calls[p]
        /\ pc[p] \in {"building", "copying", "failed"} => Builds(p)
        /\ pc[p] \notin {"building", "failed"} => step[p] = 0

\* The registry is loaded and written under the lock: what was loaded is what is there.
AddsUnderLock ==
    \A p \in Procs :
        /\ pc[p] \in {"locked", "loaded", "written"} => lock = p
        /\ pc[p] = "loaded" => seen[p].homes = homes /\ seen[p].revision = revision
        /\ pc[p] = "written" => \E e \in homes : e.path = call[p].path

\* A process that may have made a directory: what it has planned only counts not.
Begun(p) == pc[p] \notin {"idle", "checked"} /\ Builds(p)

\* Who answers for the directory at t.
Claimed(t) ==
    \/ \E e \in homes : e.path = t
    \/ \E p \in Procs : Begun(p) /\ call[p].path = t
    \/ t \in left

AllClaimed == \A t \in Paths : dirs[t] # None /\ maker[t] # User => Claimed(t)

Holds(t, parts) == dirs[t] # None /\ \A k \in parts : Skeleton[k] \in dirs[t]

BuiltEntry(e, t) == e.kind # "import" /\ e.path = t

\* A process that builds where no other does finds there what it has made, and no
\* entry before its own.
OwnBuilt(p) ==
    pc[p] # "idle" /\ Builds(p) /\ call[p].path \in OwnPaths =>
        /\ pc[p] = "building" /\ step[p] # 0 => Holds(call[p].path, 1..(step[p] - 1))
        /\ pc[p] \in {"copying", "adding", "locked", "loaded", "written"} =>
              Holds(call[p].path, DOMAIN Skeleton)
        /\ pc[p] # "written" => ~\E e \in homes : BuiltEntry(e, call[p].path)

OwnIsBuilt == \A p \in Procs : OwnBuilt(p)

HomeInv ==
    /\ TypeOK /\ CallsAreCalls /\ AddsUnderLock
    /\ RegistryConsistent /\ AllClaimed /\ OwnIsBuilt /\ RegisteredIsBuilt

----------------------------------------------------------------------------
\* Types and calls.

\* It holds before any call.
LEMMA HomeInit == Init => HomeInv
<1> SUFFICES ASSUME Init PROVE HomeInv
  OBVIOUS
<1> USE HomesAssumption
<1>1. TypeOK
  <2>1. 0 \in 0..Len(Skeleton)
    OBVIOUS
  <2>2. NothingSeen \in [homes : SUBSET Entry, revision : Nat]
    BY DEF NothingSeen
  <2>3. /\ dirs \in [Paths -> (SUBSET Parts) \cup {None}]
        /\ maker \in [Paths -> Procs \cup {User, None}]
    BY DEF Init
  <2>4. pc \in [Procs -> Places] /\ call \in [Procs -> Call \cup {None}]
    BY DEF Init, Places
  <2>5. step \in [Procs -> 0..Len(Skeleton)]
    BY <2>1 DEF Init
  <2>6. seen \in [Procs -> [homes : SUBSET Entry, revision : Nat]]
    BY <2>2 DEF Init
  <2> QED
    BY <2>3, <2>4, <2>5, <2>6 DEF Init, TypeOK
<1>2. CallsAreCalls /\ AddsUnderLock /\ OwnIsBuilt
  BY DEF Init, CallsAreCalls, AddsUnderLock, OwnIsBuilt, OwnBuilt
<1>3. RegistryConsistent /\ AllClaimed /\ RegisteredIsBuilt
  BY DEF Init, RegistryConsistent, AllClaimed, RegisteredIsBuilt
<1> QED
  BY <1>1, <1>2, <1>3 DEF HomeInv

\* What is known of a call that is under way.
LEMMA CallType ==
    ASSUME TypeOK, CallsAreCalls, NEW p \in Procs, pc[p] # "idle"
    PROVE  /\ call[p] \in Call /\ call[p] # None
           /\ call[p].path \in Paths /\ call[p].alias \in Aliases
           /\ call[p].kind \in {"create", "import", "clone"}
BY CallsAssumption DEF CallsAreCalls, Call

\* Making the directory and adding to it keeps what it holds parts.
LEMMA EnsureType ==
    ASSUME TypeOK, NEW p \in Procs, call[p].path \in Paths,
           NEW content \in SUBSET Parts, EnsureDirectory(p, content)
    PROVE  /\ dirs' \in [Paths -> (SUBSET Parts) \cup {None}]
           /\ maker' \in [Paths -> Procs \cup {User, None}]
BY CallsAssumption DEF TypeOK, EnsureDirectory

\* Every step keeps the values of their types and the calls calls.
LEMMA HomeType ==
    ASSUME TypeOK, CallsAreCalls, [Next]_vars
    PROVE  TypeOK' /\ CallsAreCalls'
<1> USE HomesAssumption, CallsAssumption
<1> DEFINE Kept == TypeOK' /\ CallsAreCalls'
<1>a. Len(Skeleton) \in Nat
  OBVIOUS
\* A step of one process, as far as the calls are concerned.
<1>1. ASSUME NEW p \in Procs, NEW place \in Places \ {"idle"}, Goto(p, place),
             pc[p] # "idle", call' = call,
             place \in {"building", "copying", "failed"} => Builds(p),
             step' \in [Procs -> 0..Len(Skeleton)],
             \A q \in Procs \ {p} : step'[q] = step[q],
             place \notin {"building", "failed"} => step'[p] = 0
      PROVE  pc' \in [Procs -> Places] /\ CallsAreCalls'
  BY <1>1 DEF TypeOK, CallsAreCalls, Goto, Builds
<1>2. ASSUME NEW p \in Procs, Over(p)
      PROVE  /\ pc' \in [Procs -> Places] /\ CallsAreCalls'
             /\ call' \in [Procs -> Call \cup {None}]
             /\ step' \in [Procs -> 0..Len(Skeleton)]
             /\ seen' \in [Procs -> [homes : SUBSET Entry, revision : Nat]]
  <2>1. NothingSeen \in [homes : SUBSET Entry, revision : Nat]
    BY DEF NothingSeen
  <2> QED
    BY <1>2, <1>a, <2>1 DEF TypeOK, CallsAreCalls, Over, Goto, Builds, Places
<1>3. ASSUME NEW p \in Procs, NEW c \in Calls[p], Check(p, c) PROVE Kept
  BY <1>3 DEF Check, TypeOK, CallsAreCalls, Goto, Builds, Places, fileVars
<1>4. ASSUME NEW p \in Procs, PreviewAdd(p) PROVE Kept
  <2>1. UNCHANGED <<dirs, homes, revision, lock, maker, left>> /\ pc[p] = "checked"
    BY <1>4 DEF PreviewAdd, fileVars
  <2>2. CASE Over(p)
    BY <1>2, <2>1, <2>2 DEF TypeOK
  <2>3. CASE /\ Goto(p, IF Builds(p) THEN "building" ELSE "adding")
             /\ UNCHANGED <<call, step, seen>>
    <3>1. step[p] = 0
      BY <2>1 DEF CallsAreCalls
    <3>2. CallsAreCalls' /\ pc' \in [Procs -> Places]
      BY <1>1, <2>1, <2>3, <3>1 DEF TypeOK, Places
    <3> QED
      BY <2>1, <2>3, <3>2 DEF TypeOK
  <2> QED
    BY <1>4, <2>2, <2>3 DEF PreviewAdd
<1>5. ASSUME NEW p \in Procs, MakeDirectory(p) PROVE Kept
  <2>1. Len(Skeleton) # 0
    OBVIOUS
  <2>2. CallsAreCalls' /\ step' \in [Procs -> 0..Len(Skeleton)]
    BY <1>5, <1>a, <2>1 DEF MakeDirectory, TypeOK, CallsAreCalls, Builds
  <2> QED
    BY <1>5, <2>2, CallType, EnsureType DEF MakeDirectory, TypeOK, fileVars
<1>6. ASSUME NEW p \in Procs, MakePart(p) PROVE Kept
  <2>1. call[p].path \in Paths /\ Builds(p) /\ step[p] \in DOMAIN Skeleton
    BY <1>6, <1>a, CallType DEF MakePart, TypeOK, CallsAreCalls
  <2>2. Skeleton[step[p]] \in Parts
    BY <2>1 DEF Parts
  <2>3. dirs' \in [Paths -> (SUBSET Parts) \cup {None}]
    <3>1. CASE UNCHANGED dirs
      BY <3>1 DEF TypeOK
    <3>2. CASE /\ dirs[call[p].path] # None
               /\ dirs' = [dirs EXCEPT ![call[p].path] = @ \cup {Skeleton[step[p]]}]
      <4>1. dirs[call[p].path] \cup {Skeleton[step[p]]} \in SUBSET Parts
        <5>1. dirs[call[p].path] \in SUBSET Parts
          BY <2>1, <3>2 DEF TypeOK
        <5> QED
          BY <2>2, <5>1
      <4> QED
        BY <2>1, <3>2, <4>1 DEF TypeOK
    <3> QED
      BY <1>6, <3>1, <3>2 DEF MakePart
  <2>4. CallsAreCalls' /\ step' \in [Procs -> 0..Len(Skeleton)] /\ pc' \in [Procs -> Places]
    <3>1. CASE Goto(p, "failed") /\ UNCHANGED <<dirs, step>>
      BY <1>1, <1>6, <2>1, <3>1 DEF MakePart, TypeOK, Places
    <3>2. CASE /\ step' = [step EXCEPT ![p] = IF step[p] = Len(Skeleton) THEN 0 ELSE @ + 1]
               /\ Goto(p, IF step[p] # Len(Skeleton) THEN "building"
                          ELSE IF call[p].kind = "clone" /\ call[p].copy THEN "copying"
                          ELSE "adding")
      <4>1. /\ step' \in [Procs -> 0..Len(Skeleton)]
            /\ \A q \in Procs \ {p} : step'[q] = step[q]
            /\ step[p] = Len(Skeleton) => step'[p] = 0
        BY <1>a, <2>1, <3>2 DEF TypeOK
      <4> QED
        BY <1>1, <1>6, <2>1, <3>2, <4>1 DEF MakePart, Places
    <3> QED
      BY <1>6, <3>1, <3>2 DEF MakePart
  <2> QED
    BY <1>6, <2>3, <2>4 DEF MakePart, TypeOK, fileVars
<1>7. ASSUME NEW p \in Procs, CopyCapabilities(p) PROVE Kept
  <2>1. CallsAreCalls' /\ pc' \in [Procs -> Places]
    BY <1>1, <1>7 DEF CopyCapabilities, TypeOK, CallsAreCalls, Places
  <2> QED
    BY <1>7, <2>1, CallType, EnsureType DEF CopyCapabilities, TypeOK, fileVars, Parts
<1>8. ASSUME NEW p \in Procs, FailBuilding(p) PROVE Kept
  BY <1>1, <1>8 DEF FailBuilding, TypeOK, CallsAreCalls, Places, fileVars
<1>9. ASSUME NEW p \in Procs, LockRegistry(p) PROVE Kept
  BY <1>1, <1>9 DEF LockRegistry, TypeOK, CallsAreCalls, Places
<1>10. ASSUME NEW p \in Procs, LoadRegistry(p) PROVE Kept
  <2>1. CallsAreCalls' /\ pc' \in [Procs -> Places]
    BY <1>1, <1>10 DEF LoadRegistry, Load, TypeOK, CallsAreCalls, Places
  <2> QED
    BY <1>10, <2>1 DEF LoadRegistry, Load, TypeOK, fileVars
<1>11. ASSUME NEW p \in Procs, WriteRegistry(p) PROVE Kept
  <2>1. CallsAreCalls' /\ pc' \in [Procs -> Places]
    BY <1>1, <1>11 DEF WriteRegistry, TypeOK, CallsAreCalls, Places
  <2>2. [alias |-> call[p].alias, path |-> call[p].path, kind |-> call[p].kind] \in Entry
    BY <1>11, CallType DEF WriteRegistry, Entry
  <2>3. seen[p].homes \in SUBSET Entry /\ seen[p].revision \in Nat
    BY DEF TypeOK
  <2>4. homes' \subseteq Entry /\ revision' \in Nat
    BY <1>11, <2>2, <2>3 DEF WriteRegistry
  <2> QED
    BY <1>11, <2>1, <2>4 DEF WriteRegistry, TypeOK
<1>12. ASSUME NEW p \in Procs, Unlock(p) PROVE lock' \in Procs \cup {None}
  BY <1>12 DEF Unlock, TypeOK
<1>13. ASSUME NEW p \in Procs, FailAdd(p) PROVE Kept
  <2>1. /\ pc[p] \in {"adding", "locked", "loaded"} /\ lock' \in Procs \cup {None}
        /\ UNCHANGED <<dirs, homes, revision, maker, left>>
    BY <1>12, <1>13 DEF FailAdd, MayFailAdd
  <2>2. CASE Over(p)
    BY <1>2, <2>1, <2>2 DEF TypeOK
  <2>3. CASE Builds(p) /\ Goto(p, "failed") /\ UNCHANGED <<call, step, seen>>
    <3>1. CallsAreCalls' /\ pc' \in [Procs -> Places]
      BY <1>1, <2>1, <2>3 DEF TypeOK, Places
    <3> QED
      BY <2>1, <2>3, <3>1 DEF TypeOK
  <2> QED
    BY <1>13, <2>2, <2>3 DEF FailAdd
<1>14. ASSUME NEW p \in Procs, Return(p) PROVE Kept
  BY <1>2, <1>12, <1>14 DEF Return, TypeOK
<1>15. ASSUME NEW p \in Procs, RollBack(p) \/ LeaveDirectory(p) PROVE Kept
  <2>1. call[p].path \in Paths
    BY <1>15, CallType DEF RollBack, LeaveDirectory
  <2>2. /\ dirs' \in [Paths -> (SUBSET Parts) \cup {None}]
        /\ maker' \in [Paths -> Procs \cup {User, None}]
        /\ left' \subseteq Paths
    BY <1>15, <2>1 DEF RollBack, LeaveDirectory, TypeOK
  <2>3. Over(p) /\ UNCHANGED fileVars
    BY <1>15 DEF RollBack, LeaveDirectory
  <2> QED
    BY <1>2, <2>2, <2>3 DEF TypeOK, fileVars
<1>r. ASSUME NEW p \in Procs, NEW part \in Parts, RemovePart(p, part) PROVE Kept
  <2>1. call[p].path \in Paths /\ dirs[call[p].path] \in SUBSET Parts
    BY <1>r, CallType DEF RemovePart, TypeOK
  <2>2. dirs[call[p].path] \ {part} \in SUBSET Parts
    BY <2>1
  <2>3. dirs' \in [Paths -> (SUBSET Parts) \cup {None}]
    BY <1>r, <2>1, <2>2 DEF RemovePart, TypeOK
  <2> QED
    BY <1>r, <2>3 DEF RemovePart, TypeOK, CallsAreCalls, Builds, fileVars, procVars
<1>16. ASSUME NEW p \in Procs, Kill(p) PROVE Kept
  BY <1>2, <1>12, <1>16, CallType DEF Kill, TypeOK
<1>17. ASSUME NEW t \in UserPaths, UserWrites(t) PROVE Kept
  <2>1. t \in Paths /\ {"user"} \in SUBSET Parts
    BY DEF Parts
  <2>2. dirs' \in [Paths -> (SUBSET Parts) \cup {None}] /\ maker' \in [Paths -> Procs \cup {User, None}]
    BY <1>17, <2>1 DEF UserWrites, TypeOK
  <2> QED
    BY <1>17, <2>2 DEF UserWrites, TypeOK, CallsAreCalls, Builds, fileVars, procVars
<1>18. ASSUME UNCHANGED vars PROVE Kept
  BY <1>18 DEF vars, TypeOK, CallsAreCalls, Builds
<1> HIDE DEF Kept
<1>19. ASSUME NEW p \in Procs, Advance(p) PROVE Kept
  BY <1>4, <1>5, <1>6, <1>7, <1>8, <1>9, <1>10, <1>11, <1>13, <1>14, <1>15, <1>r, <1>19
     DEF Advance
<1>20. ASSUME Next PROVE Kept
  BY <1>3, <1>16, <1>17, <1>19, <1>20 DEF Next
<1>21. Kept
  BY <1>18, <1>20
<1> QED
  BY <1>21 DEF Kept

----------------------------------------------------------------------------
\* The registry.

\* What an action leaves of the registry, and of the calls that work on it, alone.
LEMMA RegistryFrame ==
    ASSUME TypeOK, AddsUnderLock, RegistryConsistent, NEW p \in Procs,
           homes' = homes, revision' = revision, lock' = lock \/ lock \in {None, p},
           \A q \in Procs \ {p} : pc'[q] = pc[q] /\ call'[q] = call[q] /\ seen'[q] = seen[q],
           pc'[p] \in {"locked", "loaded", "written"} => lock' = p,
           pc'[p] = "loaded" => seen'[p].homes = homes /\ seen'[p].revision = revision,
           pc'[p] # "written"
    PROVE  AddsUnderLock' /\ RegistryConsistent' /\ EveryAddKept
BY HomesAssumption DEF AddsUnderLock, RegistryConsistent, EveryAddKept

\* Every step keeps the lock's promise, and the registry consistent and complete.
LEMMA RegistryStep ==
    ASSUME TypeOK, CallsAreCalls, AddsUnderLock, RegistryConsistent, [Next]_vars
    PROVE  AddsUnderLock' /\ RegistryConsistent' /\ EveryAddKept
<1> USE HomesAssumption
<1> DEFINE Kept == AddsUnderLock' /\ RegistryConsistent' /\ EveryAddKept
<1>1. ASSUME NEW p \in Procs, Over(p), homes' = homes, revision' = revision,
             lock' = lock \/ (lock' = None /\ lock = p)
      PROVE  Kept
  <2>1. /\ pc'[p] = "idle"
        /\ \A q \in Procs \ {p} : pc'[q] = pc[q] /\ call'[q] = call[q] /\ seen'[q] = seen[q]
    BY <1>1 DEF Over, Goto, TypeOK
  <2> QED
    BY <1>1, <2>1, RegistryFrame
<1>2. ASSUME NEW p \in Procs, NEW place \in {"building", "copying", "adding", "checked", "failed"},
             Goto(p, place), \A q \in Procs \ {p} : call'[q] = call[q], seen' = seen,
             homes' = homes, revision' = revision,
             lock' = lock \/ (lock' = None /\ lock = p)
      PROVE  Kept
  <2>1. pc'[p] = place /\ \A q \in Procs \ {p} : pc'[q] = pc[q]
    BY <1>2 DEF Goto, TypeOK
  <2> QED
    BY <1>2, <2>1, RegistryFrame
<1>3. ASSUME NEW p \in Procs, NEW c \in Calls[p], Check(p, c) PROVE Kept
  BY <1>2, <1>3 DEF Check, fileVars, TypeOK
<1>4. ASSUME NEW p \in Procs, PreviewAdd(p) PROVE Kept
  BY <1>1, <1>2, <1>4 DEF PreviewAdd, fileVars
<1>5. ASSUME UNCHANGED <<fileVars, pc, call, seen>> PROVE Kept
  BY <1>5 DEF fileVars, AddsUnderLock, RegistryConsistent, EveryAddKept
<1>6. ASSUME NEW p \in Procs, MakePart(p) PROVE Kept
  <2>1. \E place \in {"building", "copying", "adding", "failed"} : Goto(p, place)
    BY <1>6 DEF MakePart
  <2> QED
    BY <1>2, <1>6, <2>1 DEF MakePart, fileVars
<1>7. ASSUME NEW p \in Procs, CopyCapabilities(p) \/ FailBuilding(p) PROVE Kept
  BY <1>2, <1>7 DEF CopyCapabilities, FailBuilding, fileVars
<1>8. ASSUME NEW p \in Procs, LockRegistry(p) PROVE Kept
  <2>1. pc'[p] = "locked" /\ \A q \in Procs \ {p} : pc'[q] = pc[q]
    BY <1>8 DEF LockRegistry, Goto, TypeOK
  <2> QED
    BY <1>8, <2>1, RegistryFrame DEF LockRegistry
<1>9. ASSUME NEW p \in Procs, LoadRegistry(p) PROVE Kept
  <2>1. /\ pc'[p] = "loaded" /\ \A q \in Procs \ {p} : pc'[q] = pc[q]
        /\ seen'[p] = [homes |-> homes, revision |-> revision]
        /\ \A q \in Procs \ {p} : seen'[q] = seen[q]
    BY <1>9 DEF LoadRegistry, Load, Goto, TypeOK
  <2>2. lock = p
    BY <1>9 DEF LoadRegistry, Load, AddsUnderLock
  <2> QED
    BY <1>9, <2>1, <2>2, RegistryFrame DEF LoadRegistry, Load, fileVars
<1>10. ASSUME NEW p \in Procs, WriteRegistry(p) PROVE Kept
  <2> DEFINE new == [alias |-> call[p].alias, path |-> call[p].path, kind |-> call[p].kind]
  <2>1. lock = p /\ seen[p].homes = homes /\ seen[p].revision = revision
    BY <1>10 DEF WriteRegistry, AddsUnderLock
  <2>2. /\ homes' = homes \cup {new} /\ revision' = revision + 1
        /\ \A e \in homes : e.alias # new.alias /\ e.path # new.path
    BY <1>10, <2>1 DEF WriteRegistry, Conflicts
  <2>3. pc'[p] = "written" /\ \A q \in Procs \ {p} : pc'[q] = pc[q]
    BY <1>10 DEF WriteRegistry, Goto, TypeOK
  <2>4. new.path = call[p].path
    OBVIOUS
  <2> HIDE DEF new
  <2>5. AddsUnderLock'
    BY <1>10, <2>1, <2>2, <2>3, <2>4 DEF WriteRegistry, AddsUnderLock
  <2>6. RegistryConsistent'
    BY <2>2 DEF RegistryConsistent
  <2> QED
    BY <2>2, <2>5, <2>6 DEF EveryAddKept
<1>11. ASSUME NEW p \in Procs, FailAdd(p) \/ Return(p) \/ Kill(p) PROVE Kept
  BY <1>1, <1>2, <1>11 DEF FailAdd, Return, Kill, Unlock
<1>12. ASSUME NEW p \in Procs, RollBack(p) \/ LeaveDirectory(p) PROVE Kept
  BY <1>1, <1>12 DEF RollBack, LeaveDirectory, fileVars
<1>r. ASSUME NEW p \in Procs, NEW part \in Parts, RemovePart(p, part) PROVE Kept
  BY <1>5, <1>r DEF RemovePart, procVars
<1> HIDE DEF Kept
<1>13. ASSUME NEW p \in Procs, Advance(p) PROVE Kept
  BY <1>4, <1>5, <1>6, <1>7, <1>8, <1>9, <1>10, <1>11, <1>12, <1>r, <1>13
     DEF Advance, MakeDirectory
<1>14. ASSUME NEW t \in UserPaths, UserWrites(t) PROVE Kept
  BY <1>5, <1>14 DEF UserWrites, procVars
<1>15. ASSUME Next PROVE Kept
  BY <1>3, <1>11, <1>13, <1>14, <1>15 DEF Next
<1>16. ASSUME UNCHANGED vars PROVE Kept
  BY <1>5, <1>16 DEF vars, fileVars
<1>17. Kept
  BY <1>15, <1>16
<1> QED
  BY <1>17 DEF Kept

----------------------------------------------------------------------------
\* The directories that are there.

\* Every directory this program made stays claimed.
LEMMA ClaimedStep ==
    ASSUME TypeOK, CallsAreCalls, AddsUnderLock, AllClaimed, homes \subseteq homes', [Next]_vars
    PROVE  AllClaimed'
<1> USE HomesAssumption
<1> DEFINE Kept == AllClaimed'
\* A claim goes over to the entry, or to what a killed call leaves.
<1>1. ASSUME NEW p \in Procs, left \subseteq left',
             \A q \in Procs \ {p} : pc'[q] = pc[q] /\ call'[q] = call[q],
             Begun(p) => \/ pc'[p] \notin {"idle", "checked"} /\ call'[p] = call[p]
                         \/ \E e \in homes' : e.path = call[p].path
                         \/ call[p].path \in left'
      PROVE  \A t \in Paths : Claimed(t) => Claimed(t)'
  BY <1>1 DEF Claimed, Begun, Builds
<1>2. ASSUME NEW p \in Procs, left \subseteq left',
             \A t \in Paths : dirs'[t] # None /\ maker'[t] # User =>
                                 dirs[t] # None /\ maker[t] # User,
             \A q \in Procs \ {p} : pc'[q] = pc[q] /\ call'[q] = call[q],
             Begun(p) => \/ pc'[p] \notin {"idle", "checked"} /\ call'[p] = call[p]
                         \/ \E e \in homes' : e.path = call[p].path
                         \/ call[p].path \in left'
      PROVE  Kept
  BY <1>1, <1>2 DEF AllClaimed
<1>3. ASSUME NEW p \in Procs, Over(p)
      PROVE  /\ pc'[p] = "idle"
             /\ \A q \in Procs \ {p} : pc'[q] = pc[q] /\ call'[q] = call[q]
  BY <1>3 DEF Over, Goto, TypeOK
<1>4. ASSUME NEW p \in Procs, NEW place, Goto(p, place)
      PROVE  pc'[p] = place /\ \A q \in Procs \ {p} : pc'[q] = pc[q]
  BY <1>4 DEF Goto, TypeOK
<1>5. ASSUME NEW p \in Procs, NEW c \in Calls[p], Check(p, c) PROVE Kept
  BY ZenonT(40), <1>2, <1>4, <1>5 DEF Check, Begun, TypeOK
<1>6. ASSUME NEW p \in Procs, PreviewAdd(p) PROVE Kept
  BY <1>2, <1>3, <1>4, <1>6 DEF PreviewAdd, Begun
\* A call that makes a directory has begun.
<1>7. ASSUME NEW p \in Procs, NEW content, EnsureDirectory(p, content), Begun(p)', call' = call,
             left' = left, \A q \in Procs \ {p} : pc'[q] = pc[q], Begun(p)
      PROVE  Kept
  <2>1. \A t \in Paths : Claimed(t) => Claimed(t)'
    BY <1>1, <1>7 DEF Begun
  <2>2. \A t \in Paths \ {call[p].path} : dirs'[t] = dirs[t] /\ maker'[t] = maker[t]
    BY <1>7 DEF EnsureDirectory, TypeOK
  <2>3. \A t : t = call[p].path => Claimed(t)'
    BY <1>7 DEF Claimed
  <2> QED
    BY <2>1, <2>2, <2>3 DEF AllClaimed
<1>8. ASSUME NEW p \in Procs, MakeDirectory(p) PROVE Kept
  <2>1. Begun(p) /\ Begun(p)'
    BY <1>8 DEF MakeDirectory, Begun, Builds, CallsAreCalls
  <2> QED
    BY <1>7, <1>8, <2>1 DEF MakeDirectory
<1>9. ASSUME NEW p \in Procs, CopyCapabilities(p) PROVE Kept
  <2>1. Begun(p) /\ Begun(p)' /\ \A q \in Procs \ {p} : pc'[q] = pc[q]
    BY <1>4, <1>9 DEF CopyCapabilities, Begun, Builds, CallsAreCalls
  <2> QED
    BY <1>7, <1>9, <2>1 DEF CopyCapabilities
<1>10. ASSUME NEW p \in Procs, MakePart(p) PROVE Kept
  <2>1. \E place : place \notin {"idle", "checked"} /\ Goto(p, place)
    BY <1>10 DEF MakePart
  <2>2. pc'[p] \notin {"idle", "checked"} /\ \A q \in Procs \ {p} : pc'[q] = pc[q]
    BY <1>4, <2>1
  <2>3. \A t \in Paths : dirs'[t] # None => dirs[t] # None
    BY <1>10 DEF MakePart, TypeOK
  <2> QED
    BY <1>2, <1>10, <2>2, <2>3 DEF MakePart
<1>11. ASSUME NEW p \in Procs, NEW place, place \notin {"idle", "checked"}, Goto(p, place),
              UNCHANGED <<dirs, call, maker, left>>
       PROVE  Kept
  BY <1>2, <1>4, <1>11
<1>12. ASSUME NEW p \in Procs, FailAdd(p) PROVE Kept
  BY <1>2, <1>3, <1>11, <1>12 DEF FailAdd, Begun
<1>13. ASSUME NEW p \in Procs, Return(p) PROVE Kept
  <2>1. \E e \in homes' : e.path = call[p].path
    BY <1>13 DEF Return, AddsUnderLock
  <2> QED
    BY <1>2, <1>3, <1>13, <2>1 DEF Return
<1>14. ASSUME NEW p \in Procs, RollBack(p) PROVE Kept
  <2>1. pc'[p] = "idle" /\ \A q \in Procs \ {p} : pc'[q] = pc[q] /\ call'[q] = call[q]
    BY <1>3, <1>14 DEF RollBack
  <2>2. \A t \in Paths : IF t = call[p].path THEN dirs'[t] = None
                         ELSE dirs'[t] = dirs[t] /\ maker'[t] = maker[t]
    BY <1>14 DEF RollBack, TypeOK
  <2>3. \A t \in Paths : t # call[p].path /\ Claimed(t) => Claimed(t)'
    BY <1>14, <2>1 DEF RollBack, Claimed, Begun, Builds
  <2> QED
    BY <2>2, <2>3 DEF AllClaimed
<1>r. ASSUME NEW p \in Procs, NEW part \in Parts, RemovePart(p, part) PROVE Kept
  <2>1. \A t \in Paths : dirs'[t] # None => dirs[t] # None
    BY <1>r DEF RemovePart, TypeOK
  <2>2. \A t \in Paths : Claimed(t) => Claimed(t)'
    BY <1>r DEF RemovePart, procVars, Claimed, Begun, Builds
  <2> QED
    BY <1>r, <2>1, <2>2 DEF RemovePart, AllClaimed
<1>l. ASSUME NEW p \in Procs, LeaveDirectory(p) PROVE Kept
  BY <1>2, <1>3, <1>l DEF LeaveDirectory
\* A killed builder leaves what is there.
<1>15. ASSUME NEW p \in Procs, Kill(p) PROVE Kept
  <2>1. pc'[p] = "idle" /\ \A q \in Procs \ {p} : pc'[q] = pc[q] /\ call'[q] = call[q]
    BY <1>3, <1>15 DEF Kill
  <2>2. /\ UNCHANGED <<dirs, homes, maker>>
        /\ \A t \in left : t \in left'
        /\ \A t \in Paths : Builds(p) /\ t = call[p].path /\ dirs[t] # None => t \in left'
    BY <1>15 DEF Kill
  <2>3. \A t \in Paths : dirs[t] # None /\ Claimed(t) => Claimed(t)'
    BY <2>1, <2>2 DEF Claimed, Begun, Builds
  <2> QED
    BY <2>2, <2>3 DEF AllClaimed
<1>16. ASSUME NEW t \in UserPaths, UserWrites(t) PROVE Kept
  <2>1. \A u \in Paths : dirs'[u] # None /\ maker'[u] # User => dirs[u] # None /\ maker[u] # User
    BY <1>16 DEF UserWrites, TypeOK
  <2>2. \A u \in Paths : Claimed(u) => Claimed(u)'
    BY <1>16 DEF UserWrites, procVars, Claimed, Begun, Builds
  <2> QED
    BY <2>1, <2>2 DEF AllClaimed
<1>17. ASSUME UNCHANGED vars PROVE Kept
  BY <1>17 DEF vars, AllClaimed, Claimed, Begun, Builds
<1> HIDE DEF Kept
<1>18. ASSUME NEW p \in Procs, FailBuilding(p) \/ LockRegistry(p) \/ LoadRegistry(p)
                                  \/ WriteRegistry(p)
       PROVE  Kept
  BY <1>11, <1>18 DEF FailBuilding, LockRegistry, LoadRegistry, Load, WriteRegistry
<1>19. ASSUME NEW p \in Procs, Advance(p) PROVE Kept
  BY <1>6, <1>8, <1>9, <1>10, <1>12, <1>13, <1>14, <1>r, <1>l, <1>18, <1>19 DEF Advance
<1>20. ASSUME Next PROVE Kept
  BY <1>5, <1>15, <1>16, <1>19, <1>20 DEF Next
<1>21. Kept
  BY <1>17, <1>20
<1> QED
  BY <1>21 DEF Kept

----------------------------------------------------------------------------
\* Homes where one process builds.

\* Two processes that build on such a path are one.
LEMMA OneBuilder ==
    ASSUME CallsAreCalls, NEW p \in Procs, NEW q \in Procs,
           pc[p] # "idle", Builds(p), pc[q] # "idle", Builds(q),
           call[p].path \in OwnPaths, call[q].path = call[p].path
    PROVE  p = q
BY DEF CallsAreCalls, Builds, OwnPaths

\* A directory that only grows keeps the parts that are held.
LEMMA HoldsGrows ==
    ASSUME NEW t, NEW parts, Holds(t, parts), dirs'[t] # None, dirs[t] \subseteq dirs'[t]
    PROVE  dirs'[t] # None /\ \A k \in parts : Skeleton[k] \in dirs'[t]
BY DEF Holds

\* When no directory shrinks and nothing is registered, only the call of the one
\* process that takes the step is to be looked at.
LEMMA OwnFrame ==
    ASSUME TypeOK, CallsAreCalls, OwnIsBuilt, RegisteredIsBuilt, NEW p \in Procs,
           \A q \in Procs \ {p} : pc'[q] = pc[q] /\ call'[q] = call[q] /\ step'[q] = step[q],
           homes' = homes,
           \A t \in Paths : dirs[t] # None => dirs'[t] # None /\ dirs[t] \subseteq dirs'[t],
           OwnBuilt(p)'
    PROVE  OwnIsBuilt' /\ RegisteredIsBuilt'
<1>1. RegisteredIsBuilt'
  <2> SUFFICES ASSUME NEW e \in homes, e.kind # "import", e.path \in OwnPaths
               PROVE  /\ dirs'[e.path] # None
                      /\ \A k \in DOMAIN Skeleton : Skeleton[k] \in dirs'[e.path]
    BY DEF RegisteredIsBuilt
  <2>1. /\ dirs[e.path] # None /\ e.path \in Paths
        /\ \A k \in DOMAIN Skeleton : Skeleton[k] \in dirs[e.path]
    BY DEF RegisteredIsBuilt, OwnPaths
  <2> QED
    BY <2>1
<1>2. ASSUME NEW q \in Procs \ {p} PROVE OwnBuilt(q)'
  <2> SUFFICES ASSUME pc[q] # "idle", Builds(q), call[q].path \in OwnPaths
               PROVE  /\ pc[q] = "building" /\ step[q] # 0 => Holds(call[q].path, 1..(step[q] - 1))'
                      /\ pc[q] \in {"copying", "adding", "locked", "loaded", "written"} =>
                            Holds(call[q].path, DOMAIN Skeleton)'
                      /\ pc[q] # "written" => ~\E e \in homes' : BuiltEntry(e, call[q].path)
    BY DEF OwnBuilt, Builds, Holds, BuiltEntry
  <2>1. OwnBuilt(q) /\ call[q].path \in Paths
    BY DEF OwnIsBuilt, OwnPaths
  <2> QED
    BY <2>1 DEF OwnBuilt, Holds
<1> QED
  BY <1>1, <1>2 DEF OwnIsBuilt

\* Every step keeps the Homes of one builder built.
LEMMA OwnStep ==
    ASSUME TypeOK, CallsAreCalls, AddsUnderLock, OwnIsBuilt, RegisteredIsBuilt,
           CallsAreCalls', [Next]_vars
    PROVE  OwnIsBuilt' /\ RegisteredIsBuilt'
<1> USE HomesAssumption
<1> DEFINE Kept == OwnIsBuilt' /\ RegisteredIsBuilt'
           Grows == \A t \in Paths : dirs[t] # None => dirs'[t] # None /\ dirs[t] \subseteq dirs'[t]
\* The call of p is over, or is an import, or goes on: what has been said of it stays.
<1>1. ASSUME NEW p \in Procs, Over(p), homes' = homes, Grows PROVE Kept
  <2>1. /\ pc'[p] = "idle"
        /\ \A q \in Procs \ {p} : pc'[q] = pc[q] /\ call'[q] = call[q] /\ step'[q] = step[q]
    BY <1>1 DEF Over, Goto, TypeOK
  <2> QED
    BY <1>1, <2>1, OwnFrame DEF OwnBuilt
<1>2. ASSUME NEW p \in Procs, NEW place, Goto(p, place), UNCHANGED <<dirs, homes, call, step>>,
             place \in {"adding", "locked", "loaded"} /\ Builds(p) =>
                 pc[p] \in {"copying", "adding", "locked", "loaded"},
             place # "written", place = "building" => step[p] = 0,
             place # "copying", pc[p] \notin {"idle", "written"}
      PROVE  Kept
  <2>1. pc'[p] = place /\ \A q \in Procs \ {p} : pc'[q] = pc[q]
    BY <1>2 DEF Goto, TypeOK
  <2>2. OwnBuilt(p)'
    <3>1. OwnBuilt(p)
      BY DEF OwnIsBuilt
    <3> QED
      BY <1>2, <2>1, <3>1 DEF OwnBuilt, Builds, Holds
  <2> QED
    BY <1>2, <2>1, <2>2, OwnFrame
<1>3. ASSUME NEW p \in Procs, NEW c \in Calls[p], Check(p, c) PROVE Kept
  <2>1. /\ pc'[p] = "checked" /\ call'[p] = c
        /\ \A q \in Procs \ {p} : pc'[q] = pc[q] /\ call'[q] = call[q]
        /\ UNCHANGED <<dirs, homes, step>>
    BY <1>3 DEF Check, Goto, TypeOK, fileVars
  <2>2. OwnBuilt(p)'
    <3> SUFFICES ASSUME c.kind # "import", c.path \in OwnPaths
                 PROVE  ~\E e \in homes : BuiltEntry(e, c.path)
      BY <2>1 DEF OwnBuilt, Builds, BuiltEntry
    <3>1. dirs[c.path] = None
      BY <1>3 DEF Check
    <3> QED
      BY <3>1 DEF RegisteredIsBuilt, BuiltEntry
  <2> QED
    BY <2>1, <2>2, OwnFrame
<1>4. ASSUME NEW p \in Procs, PreviewAdd(p) PROVE Kept
  <2>1. UNCHANGED <<dirs, homes>> /\ pc[p] = "checked" /\ step[p] = 0
    BY <1>4 DEF PreviewAdd, fileVars, CallsAreCalls
  <2>2. CASE Over(p)
    BY <1>1, <2>1, <2>2
  <2>3. CASE Goto(p, IF Builds(p) THEN "building" ELSE "adding") /\ UNCHANGED <<call, step, seen>>
    BY <1>2, <2>1, <2>3
  <2> QED
    BY <1>4, <2>2, <2>3 DEF PreviewAdd
<1>5. ASSUME NEW p \in Procs, NEW content \in SUBSET Parts, call[p].path \in Paths,
             EnsureDirectory(p, content)
      PROVE  Grows /\ dirs'[call[p].path] # None
  <2>1. /\ dirs'[call[p].path] = IF dirs[call[p].path] = None THEN content
                                 ELSE dirs[call[p].path] \cup content
        /\ \A t \in Paths \ {call[p].path} : dirs'[t] = dirs[t]
    BY <1>5 DEF EnsureDirectory, TypeOK
  <2>2. \A t \in Paths : dirs[t] # None => dirs[t] \in SUBSET Parts
    BY DEF TypeOK
  <2>3. dirs[call[p].path] # None => dirs[call[p].path] \cup content \in SUBSET Parts
    BY <1>5, <2>2
  <2> QED
    BY <1>5, <2>1, <2>3, CallsAssumption
<1>6. ASSUME NEW p \in Procs, MakeDirectory(p) PROVE Kept
  <2>1. call[p].path \in Paths
    BY <1>6, CallType DEF MakeDirectory
  <2>2. Grows /\ dirs'[call[p].path] # None
    BY <1>5, <1>6, <2>1 DEF MakeDirectory
  <2>3. /\ step' = [step EXCEPT ![p] = 1] /\ UNCHANGED <<homes, pc, call>>
        /\ pc[p] = "building" /\ step[p] = 0
    BY <1>6 DEF MakeDirectory, fileVars
  <2>4. step'[p] = 1 /\ \A q \in Procs \ {p} : step'[q] = step[q]
    BY <2>3 DEF TypeOK
  <2>5. OwnBuilt(p)'
    <3>1. OwnBuilt(p)
      BY DEF OwnIsBuilt
    <3>2. 1..(step'[p] - 1) = {}
      BY <2>4
    <3> QED
      BY <2>2, <2>3, <3>1, <3>2 DEF OwnBuilt, Builds, Holds
  <2> QED
    BY <2>2, <2>3, <2>4, <2>5, OwnFrame
<1>7. ASSUME NEW p \in Procs, CopyCapabilities(p) PROVE Kept
  <2>1. call[p].path \in Paths /\ {"capabilities"} \in SUBSET Parts
    BY <1>7, CallType DEF CopyCapabilities, Parts
  <2>2. Grows /\ dirs'[call[p].path] # None
    BY <1>5, <1>7, <2>1 DEF CopyCapabilities
  <2>3. /\ UNCHANGED <<homes, call, step>> /\ pc[p] = "copying" /\ pc'[p] = "adding"
        /\ \A q \in Procs \ {p} : pc'[q] = pc[q]
    BY <1>7 DEF CopyCapabilities, Goto, TypeOK, fileVars
  <2>4. OwnBuilt(p)'
    <3>1. OwnBuilt(p)
      BY DEF OwnIsBuilt
    <3> QED
      BY <2>1, <2>2, <2>3, <3>1 DEF OwnBuilt, Builds, Holds
  <2> QED
    BY <2>2, <2>3, <2>4, OwnFrame
<1>8. ASSUME NEW p \in Procs, MakePart(p) PROVE Kept
  <2> DEFINE path == call[p].path
             part == Skeleton[step[p]]
  <2>1. /\ path \in Paths /\ step[p] \in DOMAIN Skeleton /\ part \in Parts
        /\ Len(Skeleton) \in Nat /\ DOMAIN Skeleton = 1..Len(Skeleton)
    BY <1>8, CallType DEF MakePart, TypeOK, Parts
  <2>2. /\ UNCHANGED <<homes, call>> /\ pc[p] = "building" /\ step[p] # 0 /\ OwnBuilt(p)
    BY <1>8 DEF MakePart, fileVars, OwnIsBuilt
  <2>3. CASE Goto(p, "failed") /\ UNCHANGED <<dirs, step>>
    BY <1>2, <2>2, <2>3
  <2>4. CASE /\ dirs[path] # None
             /\ dirs' = [dirs EXCEPT ![path] = @ \cup {part}]
             /\ step' = [step EXCEPT ![p] = IF step[p] = Len(Skeleton) THEN 0 ELSE @ + 1]
             /\ Goto(p, IF step[p] # Len(Skeleton) THEN "building"
                        ELSE IF call[p].kind = "clone" /\ call[p].copy THEN "copying"
                        ELSE "adding")
    <3>1. dirs[path] \in SUBSET Parts /\ dirs[path] \cup {part} \in SUBSET Parts
      <4>1. dirs[path] \in SUBSET Parts
        BY <2>1, <2>4 DEF TypeOK
      <4> QED
        BY <2>1, <4>1
    <3>2. /\ dirs'[path] = dirs[path] \cup {part} /\ dirs'[path] # None
          /\ \A t \in Paths \ {path} : dirs'[t] = dirs[t]
      BY <2>1, <2>4, <3>1, CallsAssumption DEF TypeOK
    <3>3. Grows
      BY <3>2
    <3>4. /\ step'[p] = IF step[p] = Len(Skeleton) THEN 0 ELSE step[p] + 1
          /\ \A q \in Procs \ {p} : step'[q] = step[q] /\ pc'[q] = pc[q]
      BY <2>4 DEF TypeOK, Goto
    <3>5. \/ pc'[p] = "building" /\ step'[p] = step[p] + 1
          \/ pc'[p] \in {"copying", "adding"} /\ step[p] = Len(Skeleton)
      <4>1. CASE step[p] # Len(Skeleton)
        BY <2>4, <3>4, <4>1 DEF TypeOK, Goto
      <4>2. CASE step[p] = Len(Skeleton)
        BY <2>4, <4>2 DEF TypeOK, Goto
      <4> QED
        BY <4>1, <4>2
    <3>6. OwnBuilt(p)'
      <4> SUFFICES ASSUME Builds(p), path \in OwnPaths PROVE OwnBuilt(p)'
        BY <2>2 DEF OwnBuilt, Builds
      <4>1. \A k \in 1..(step[p] - 1) : Skeleton[k] \in dirs[path]
        BY <2>2 DEF OwnBuilt, Holds
      <4>2. \A k \in 1..step[p] : Skeleton[k] \in dirs'[path]
        BY <2>1, <3>2, <4>1
      <4>3. ~\E e \in homes : BuiltEntry(e, path)
        BY <2>2 DEF OwnBuilt
      <4>4. CASE pc'[p] = "building" /\ step'[p] = step[p] + 1
        <5>1. 1..(step'[p] - 1) = 1..step[p]
          BY <2>1, <4>4
        <5> QED
          BY <2>2, <3>2, <4>2, <4>3, <4>4, <5>1 DEF OwnBuilt, Builds, Holds, BuiltEntry
      <4>5. CASE pc'[p] \in {"copying", "adding"} /\ step[p] = Len(Skeleton)
        BY <2>1, <2>2, <3>2, <4>2, <4>3, <4>5 DEF OwnBuilt, Builds, Holds, BuiltEntry
      <4> QED
        BY <3>5, <4>4, <4>5
    <3> QED
      BY <2>2, <3>3, <3>4, <3>6, OwnFrame
  <2> QED
    BY <1>8, <2>3, <2>4 DEF MakePart
<1>9. ASSUME NEW p \in Procs, FailBuilding(p) \/ LockRegistry(p) \/ LoadRegistry(p) PROVE Kept
  <2>1. /\ UNCHANGED <<dirs, homes, call, step>>
        /\ \/ pc[p] \in {"building", "copying"} /\ Goto(p, "failed")
           \/ pc[p] = "adding" /\ Goto(p, "locked")
           \/ pc[p] = "locked" /\ Goto(p, "loaded")
    BY <1>9 DEF FailBuilding, LockRegistry, LoadRegistry, Load, fileVars
  <2> QED
    BY <1>2, <2>1
\* An entry comes only from a call that has built what it registers.
<1>10. ASSUME NEW p \in Procs, WriteRegistry(p) PROVE Kept
  <2> DEFINE new == [alias |-> call[p].alias, path |-> call[p].path, kind |-> call[p].kind]
  <2>1. new.path = call[p].path /\ new.kind = call[p].kind
    OBVIOUS
  <2>2. /\ homes' = homes \cup {new} /\ UNCHANGED <<dirs, call, step>>
        /\ pc[p] = "loaded" /\ pc'[p] = "written" /\ \A q \in Procs \ {p} : pc'[q] = pc[q]
    BY <1>10 DEF WriteRegistry, AddsUnderLock, Goto, TypeOK
  <2> HIDE DEF new
  <2>3. Builds(p) /\ call[p].path \in OwnPaths => Holds(call[p].path, DOMAIN Skeleton)
    BY <2>2 DEF OwnIsBuilt, OwnBuilt
  <2>4. RegisteredIsBuilt'
    BY <2>1, <2>2, <2>3 DEF RegisteredIsBuilt, Builds, Holds
  <2>5. OwnBuilt(p)'
    BY <2>2, <2>3 DEF OwnBuilt, Builds, Holds
  <2>6. ASSUME NEW q \in Procs \ {p} PROVE OwnBuilt(q)'
    <3> SUFFICES ASSUME pc[q] # "idle", Builds(q), call[q].path \in OwnPaths
                 PROVE  /\ pc[q] = "building" /\ step[q] # 0 =>
                              Holds(call[q].path, 1..(step[q] - 1))
                        /\ pc[q] \in {"copying", "adding", "locked", "loaded", "written"} =>
                              Holds(call[q].path, DOMAIN Skeleton)
                        /\ pc[q] # "written" => ~\E e \in homes' : BuiltEntry(e, call[q].path)
      BY <2>2 DEF OwnBuilt, Builds, Holds, BuiltEntry
    <3>1. OwnBuilt(q)
      BY DEF OwnIsBuilt
    <3>2. ~BuiltEntry(new, call[q].path)
      BY <2>1, <2>2, OneBuilder DEF BuiltEntry, Builds
    <3> QED
      BY <2>2, <3>1, <3>2 DEF OwnBuilt
  <2> QED
    BY <2>4, <2>5, <2>6 DEF OwnIsBuilt
<1>11. ASSUME NEW p \in Procs, FailAdd(p) PROVE Kept
  <2>1. UNCHANGED <<dirs, homes>> /\ pc[p] \in {"adding", "locked", "loaded"}
    BY <1>11 DEF FailAdd, MayFailAdd
  <2>2. CASE Goto(p, "failed") /\ UNCHANGED <<call, step, seen>>
    BY <1>2, <2>1, <2>2
  <2> QED
    BY <1>1, <1>11, <2>1, <2>2 DEF FailAdd
<1>12. ASSUME NEW p \in Procs, Return(p) \/ Kill(p) PROVE Kept
  BY <1>1, <1>12 DEF Return, Kill
\* A rollback takes nothing from another builder, and nothing that is registered.
<1>13. ASSUME NEW p \in Procs,
              RollBack(p) \/ LeaveDirectory(p) \/ \E part \in Parts : RemovePart(p, part)
       PROVE  Kept
  <2>1. /\ pc[p] = "failed" /\ Builds(p) /\ homes' = homes
        /\ \/ pc'[p] = "idle"
           \/ pc'[p] = "failed" /\ call'[p] = call[p]
        /\ \A q \in Procs \ {p} : pc'[q] = pc[q] /\ call'[q] = call[q] /\ step'[q] = step[q]
    BY <1>13 DEF RollBack, LeaveDirectory, RemovePart, Over, Goto, TypeOK, CallsAreCalls,
       fileVars, procVars
  <2>2. \A t \in Paths \ {call[p].path} : dirs'[t] = dirs[t]
    BY <1>13 DEF RollBack, LeaveDirectory, RemovePart, TypeOK
  <2>3. RegisteredIsBuilt'
    <3>1. \A e \in homes : e.kind # "import" /\ e.path \in OwnPaths => e.path # call[p].path
      BY <2>1 DEF OwnIsBuilt, OwnBuilt, BuiltEntry
    <3> QED
      BY <2>1, <2>2, <3>1 DEF RegisteredIsBuilt, OwnPaths
  <2>4. ASSUME NEW q \in Procs \ {p}, pc[q] # "idle", Builds(q), call[q].path \in OwnPaths
        PROVE  call[q].path \in Paths \ {call[p].path}
    BY <2>1, <2>4, OneBuilder DEF OwnPaths
  <2>5. ASSUME NEW q \in Procs \ {p} PROVE OwnBuilt(q)'
    <3>1. OwnBuilt(q)
      BY DEF OwnIsBuilt
    <3> QED
      BY <2>1, <2>2, <2>4, <3>1 DEF OwnBuilt, Builds, Holds, BuiltEntry
  <2>6. OwnBuilt(p)'
    <3>1. OwnBuilt(p)
      BY DEF OwnIsBuilt
    <3> QED
      BY <2>1, <3>1 DEF OwnBuilt, Builds, BuiltEntry
  <2> QED
    BY <2>3, <2>5, <2>6 DEF OwnIsBuilt
<1>14. ASSUME NEW u \in UserPaths, UserWrites(u) PROVE Kept
  <2>1. /\ \A t \in Paths \ {u} : dirs'[t] = dirs[t]
        /\ dirs'[u] = IF dirs[u] = None THEN {"user"} ELSE dirs[u] \cup {"user"}
    BY <1>14 DEF UserWrites, TypeOK
  <2>2. dirs[u] # None => dirs[u] \cup {"user"} \in SUBSET Parts
    <3>1. dirs[u] # None => dirs[u] \in SUBSET Parts
      BY DEF TypeOK
    <3>2. "user" \in Parts
      BY DEF Parts
    <3> QED
      BY <3>1, <3>2
  <2>3. Grows
    BY <2>1, <2>2, CallsAssumption
  <2>4. UNCHANGED <<homes, pc, call, step>>
    BY <1>14 DEF UserWrites, fileVars, procVars
  <2>5. ASSUME NEW q \in Procs PROVE OwnBuilt(q)'
    <3>1. OwnBuilt(q)
      BY DEF OwnIsBuilt
    <3>2. \A t \in Paths : \A parts : Holds(t, parts) => Holds(t, parts)'
      BY <2>3 DEF Holds
    <3> QED
      BY <2>4, <3>1, <3>2 DEF OwnBuilt, Builds, BuiltEntry, OwnPaths
  <2>6. RegisteredIsBuilt'
    BY <2>3, <2>4 DEF RegisteredIsBuilt, OwnPaths
  <2> QED
    BY <2>5, <2>6 DEF OwnIsBuilt
<1>15. ASSUME UNCHANGED vars PROVE Kept
  BY <1>15 DEF vars, OwnIsBuilt, OwnBuilt, Builds, Holds, BuiltEntry, RegisteredIsBuilt
<1> HIDE DEF Kept
<1>16. ASSUME NEW p \in Procs, Advance(p) PROVE Kept
  BY <1>4, <1>6, <1>7, <1>8, <1>9, <1>10, <1>11, <1>12, <1>13, <1>16 DEF Advance
<1>17. ASSUME Next PROVE Kept
  BY <1>3, <1>12, <1>14, <1>16, <1>17 DEF Next
<1>18. Kept
  BY <1>15, <1>17
<1> QED
  BY <1>18 DEF Kept

----------------------------------------------------------------------------
\* Directories that no call is building.

\* A process that has not checked the path before stays off it: no step begins to
\* build on a directory that is there, and only builders remove.
LEMMA SettledStep ==
    ASSUME TypeOK, CallsAreCalls, [Next]_vars
    PROVE  SettledStay
<1> USE HomesAssumption
<1> SUFFICES ASSUME NEW t \in Paths, Settled(t)
             PROVE  Settled(t)' /\ dirs[t] \subseteq dirs'[t]
  BY DEF SettledStay
<1> DEFINE Kept == Settled(t)' /\ dirs[t] \subseteq dirs'[t]
<1>a. dirs[t] # None /\ dirs[t] \in SUBSET Parts
  BY DEF Settled, TypeOK
\* What one process does leaves t alone.
<1>1. ASSUME NEW p \in Procs, \A q \in Procs \ {p} : pc'[q] = pc[q] /\ call'[q] = call[q],
             dirs'[t] = dirs[t],
             pc'[p] # "idle" /\ call'[p].kind # "import" => call'[p].path # t
      PROVE  Kept
  BY <1>1 DEF Settled, Builds
<1>2. ASSUME NEW p \in Procs, Over(p), dirs'[t] = dirs[t] PROVE Kept
  <2>1. pc'[p] = "idle" /\ \A q \in Procs \ {p} : pc'[q] = pc[q] /\ call'[q] = call[q]
    BY <1>2 DEF Over, Goto, TypeOK
  <2> QED
    BY <1>1, <1>2, <2>1
<1>3. ASSUME NEW p \in Procs, NEW place, Goto(p, place), call' = call, pc[p] # "idle",
             dirs'[t] = dirs[t]
      PROVE  Kept
  <2>1. pc'[p] = place /\ \A q \in Procs \ {p} : pc'[q] = pc[q]
    BY <1>3 DEF Goto, TypeOK
  <2> QED
    BY <1>1, <1>3, <2>1 DEF Settled, Builds
\* The path of a process that builds is another.
<1>4. \A p \in Procs : pc[p] # "idle" /\ Builds(p) => call[p].path # t
  BY DEF Settled
<1>5. ASSUME NEW p \in Procs, NEW c \in Calls[p], Check(p, c) PROVE Kept
  <2>1. /\ \A q \in Procs \ {p} : pc'[q] = pc[q] /\ call'[q] = call[q]
        /\ call'[p] = c /\ dirs' = dirs
    BY <1>5 DEF Check, Goto, TypeOK
  <2>2. c.kind # "import" => c.path # t
    BY <1>5, <1>a DEF Check
  <2> QED
    BY <1>1, <2>1, <2>2
<1>6. ASSUME NEW p \in Procs, PreviewAdd(p) PROVE Kept
  BY <1>2, <1>3, <1>6 DEF PreviewAdd
<1>7. ASSUME NEW p \in Procs, MakeDirectory(p) \/ CopyCapabilities(p) \/ MakePart(p) PROVE Kept
  <2>1. /\ pc[p] # "idle" /\ Builds(p) /\ call' = call
        /\ \E place : Goto(p, place) \/ pc' = pc
    BY <1>7 DEF MakeDirectory, CopyCapabilities, MakePart, CallsAreCalls
  <2>2. dirs'[t] = dirs[t]
    BY <1>4, <1>7, <2>1 DEF MakeDirectory, CopyCapabilities, MakePart, EnsureDirectory, TypeOK
  <2>3. CASE pc' = pc
    BY <2>1, <2>2, <2>3 DEF Settled, Builds
  <2> QED
    BY <1>3, <2>1, <2>2, <2>3
<1>8. ASSUME NEW p \in Procs, FailBuilding(p) \/ LockRegistry(p) \/ LoadRegistry(p)
                                 \/ WriteRegistry(p)
      PROVE  Kept
  BY <1>3, <1>8 DEF FailBuilding, LockRegistry, LoadRegistry, Load, WriteRegistry
<1>9. ASSUME NEW p \in Procs, FailAdd(p) PROVE Kept
  BY <1>2, <1>3, <1>9 DEF FailAdd, MayFailAdd
<1>10. ASSUME NEW p \in Procs, Return(p) \/ Kill(p) \/ LeaveDirectory(p) PROVE Kept
  BY <1>2, <1>10 DEF Return, Kill, LeaveDirectory
<1>11. ASSUME NEW p \in Procs, RollBack(p) \/ \E part \in Parts : RemovePart(p, part) PROVE Kept
  <2>1. pc[p] = "failed" /\ call[p].path # t
    BY <1>4, <1>11 DEF RollBack, RemovePart, CallsAreCalls
  <2>2. dirs'[t] = dirs[t]
    BY <1>11, <2>1 DEF RollBack, RemovePart, TypeOK
  <2>3. CASE RollBack(p)
    BY <1>2, <2>2, <2>3 DEF RollBack
  <2>4. CASE \E part \in Parts : RemovePart(p, part)
    BY <2>2, <2>4 DEF RemovePart, procVars, Settled, Builds
  <2> QED
    BY <1>11, <2>3, <2>4
<1>12. ASSUME NEW u \in UserPaths, UserWrites(u) PROVE Kept
  <2>1. UNCHANGED <<pc, call>>
    BY <1>12 DEF UserWrites, procVars
  <2>2. dirs'[t] = dirs[t] \/ dirs'[t] = dirs[t] \cup {"user"}
    BY <1>12, <1>a DEF UserWrites, TypeOK
  <2>3. dirs[t] \cup {"user"} \in SUBSET Parts
    BY <1>a DEF Parts
  <2>4. dirs'[t] # None /\ dirs[t] \subseteq dirs'[t]
    BY <1>a, <2>2, <2>3, CallsAssumption
  <2> QED
    BY <2>1, <2>4 DEF Settled, Builds
<1>13. ASSUME UNCHANGED vars PROVE Kept
  BY <1>13 DEF vars, Settled, Builds
<1> HIDE DEF Kept
<1>14. ASSUME NEW p \in Procs, Advance(p) PROVE Kept
  BY <1>6, <1>7, <1>8, <1>9, <1>10, <1>11, <1>14 DEF Advance
<1>15. ASSUME Next PROVE Kept
  BY <1>5, <1>10, <1>12, <1>14, <1>15 DEF Next
<1>16. Kept
  BY <1>13, <1>15
<1> QED
  BY <1>16 DEF Kept

----------------------------------------------------------------------------
\* The theorems.

\* Every step keeps the invariant, adds to the registry only, and leaves alone what
\* no call is building.
LEMMA HomeStep == HomeInv /\ [Next]_vars => HomeInv' /\ EveryAddKept /\ SettledStay
BY HomeType, RegistryStep, ClaimedStep, OwnStep, SettledStep DEF HomeInv, EveryAddKept

\* The invariant holds in every reachable state.
LEMMA HomeInvariant == Spec => []HomeInv
BY HomeInit, HomeStep, PTL DEF Spec

\* Every reachable state is well typed.
THEOREM HomeTypeCorrect == Spec => []TypeOK
<1>1. HomeInv => TypeOK
  BY DEF HomeInv
<1> QED
  BY <1>1, HomeInvariant, PTL

\* However many calls were previewed on the same registry, of the adds that race none
\* is lost and no two entries share an alias or a path.
THEOREM RegistryGrowsHolds == Spec => RegistryGrows
<1>1. HomeInv => RegistryConsistent
  BY DEF HomeInv
<1> QED
  BY <1>1, HomeInvariant, HomeStep, PTL DEF Spec, RegistryGrows

\* Whatever a rollback meets, and however far it gets before it fails or is killed:
\* no directory is left that no call, entry or failure accounts for, where one process
\* builds a registered Home has its whole skeleton, and nothing is removed from a
\* directory that was there before the calls under way checked its path.
THEOREM HomesAreWholeHolds == Spec => HomesAreWhole
<1>1. HomeInv => NoOrphans /\ RegisteredIsBuilt
  BY CallType DEF HomeInv, AllClaimed, Claimed, Begun, NoOrphans
<1>2. HomeInv /\ [Next]_vars => [SettledStay]_vars
  BY HomeStep
<1> QED
  BY <1>1, <1>2, HomeInvariant, PTL DEF Spec, HomesAreWhole

=============================================================================
