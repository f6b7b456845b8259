----------------------- MODULE WorktreePrepareProofs -----------------------
(***************************************************************************)
(* Theorems about WorktreePrepare, for every value of its constants.       *)
(***************************************************************************)
EXTENDS WorktreePrepare, TLAPS

----------------------------------------------------------------------------
\* The inductive invariant.

\* A call that may have made something: git was started for it.
Begun(p) == call[p].at \notin {"idle", "planned", "checked"}

\* Who answers for a branch or a worktree.  A call that has only planned answers
\* for nothing: it may end without taking anything back.
Claimed(r, t) ==
    \/ recorded[r] = t
    \/ \E p \in Preparers : Begun(p) /\ Run(p) = r /\ Path(p) = t
    \/ <<r, t>> \in left

\* A call that goes on is a call for an Attempt, on a path.
CallsAreCalls ==
    \A p \in Preparers : IF At(p, "idle") THEN call[p] = Idle
                         ELSE call[p].attempt \in Attempts /\ Path(p) \in Paths

\* A call that was alone on its path, and has not made the worktree there, has none
\* there to take away.
AloneIsAlone ==
    \A p \in Preparers : call[p].alone =>
        /\ \A q \in Preparers \ {p} : Path(q) # Path(p)
        /\ ~call[p].made => there[Path(p)] \in {None, User}

AllClaimed ==
    /\ \A t \in Paths : there[t] \in Runs => there[t] \in branches /\ Claimed(there[t], t)
    /\ \A r \in branches : \E t \in Paths : Claimed(r, t)

PrepareInv == TypeOK /\ CallsAreCalls /\ AloneIsAlone /\ AllClaimed

----------------------------------------------------------------------------
\* What the steps do to the calls.

CallRecords == [at : Places, attempt : Attempts \cup {None}, path : Paths \cup {None},
                made : BOOLEAN, alone : BOOLEAN]

\* A call that goes on to another place stays what it is otherwise, and no other
\* call changes.
LEMMA GotoCall ==
    ASSUME TypeOK, NEW p \in Preparers, NEW place \in Places, Goto(p, place)
    PROVE  /\ call' \in [Preparers -> CallRecords]
           /\ At(p, place)'
           /\ call'[p].attempt = call[p].attempt /\ call'[p].path = call[p].path
           /\ call'[p].made = call[p].made /\ call'[p].alone = call[p].alone
           /\ \A q \in Preparers \ {p} : call'[q] = call[q]
<1>1. call \in [Preparers -> CallRecords]
  BY DEF TypeOK, CallRecords
<1>2. [call[p] EXCEPT !.at = place] \in CallRecords
  BY <1>1 DEF CallRecords
<1>3. call' = [call EXCEPT ![p] = [call[p] EXCEPT !.at = place]]
  BY DEF Goto
<1>4. call'[p] = [call[p] EXCEPT !.at = place]
  BY <1>1, <1>3
<1>5. /\ call'[p].at = place
      /\ call'[p].attempt = call[p].attempt /\ call'[p].path = call[p].path
      /\ call'[p].made = call[p].made /\ call'[p].alone = call[p].alone
  BY <1>1, <1>4 DEF CallRecords
<1> QED
  BY <1>1, <1>2, <1>3, <1>5 DEF At

\* A call that is over leaves its process idle, and no other call changes.
LEMMA OverCall ==
    ASSUME TypeOK, NEW p \in Preparers, Over(p)
    PROVE  /\ call' \in [Preparers -> CallRecords]
           /\ call'[p] = Idle /\ At(p, "idle")'
           /\ \A q \in Preparers \ {p} : call'[q] = call[q]
<1>1. call \in [Preparers -> CallRecords]
  BY DEF TypeOK, CallRecords
<1>2. Idle \in CallRecords /\ Idle.at = "idle"
  BY DEF Idle, CallRecords, Places
<1> QED
  BY <1>1, <1>2 DEF Over, At

----------------------------------------------------------------------------
\* The invariant is inductive.

\* It holds before any call.
LEMMA PrepareInit == Init => PrepareInv
<1> SUFFICES ASSUME Init PROVE PrepareInv
  OBVIOUS
<1> USE PrepareAssumption
<1>1. \A p \in Preparers : call[p] = Idle /\ call[p].at = "idle" /\ ~call[p].alone
  BY DEF Init, Idle
<1>2. Idle \in CallRecords
  BY DEF Idle, CallRecords, Places
<1>3. TypeOK
  BY <1>1, <1>2 DEF Init, TypeOK, CallRecords, At
<1>4. CallsAreCalls /\ AloneIsAlone
  BY <1>1 DEF CallsAreCalls, AloneIsAlone, At
<1>5. AllClaimed
  BY DEF Init, AllClaimed
<1> QED
  BY <1>3, <1>4, <1>5 DEF PrepareInv

\* Every step keeps the values of their types and the calls calls.
LEMMA PrepareType ==
    ASSUME TypeOK, CallsAreCalls, [Next]_vars
    PROVE  TypeOK' /\ CallsAreCalls'
<1> USE PrepareAssumption
<1> DEFINE Kept == TypeOK' /\ CallsAreCalls'
<1>a. call \in [Preparers -> CallRecords]
  BY DEF TypeOK, CallRecords
<1>b. \A p \in Preparers : ~At(p, "idle") =>
         call[p].attempt \in Attempts /\ Path(p) \in Paths /\ Run(p) \in Runs
  BY DEF CallsAreCalls, Run
<1>1. ASSUME NEW p \in Preparers, NEW place \in Places \ {"idle", "recorded"},
             ~At(p, "idle"), Goto(p, place), UNCHANGED <<gitVars, recorded, active, left>>
      PROVE  Kept
  <2>1. /\ call' \in [Preparers -> CallRecords] /\ At(p, place)'
        /\ call'[p].attempt = call[p].attempt /\ call'[p].path = call[p].path
        /\ \A q \in Preparers \ {p} : call'[q] = call[q]
    BY <1>1, GotoCall
  <2>2. CallsAreCalls'
    BY <1>1, <1>b, <2>1 DEF CallsAreCalls, At, Path
  <2>3. TypeOK'
    BY <1>1, <2>1 DEF TypeOK, CallRecords, At, Run, Path, gitVars
  <2> QED
    BY <2>2, <2>3
<1>2. ASSUME NEW p \in Preparers, Over(p), UNCHANGED <<gitVars, recorded, active>>,
             left' \subseteq Runs \X Paths
      PROVE  Kept
  <2>1. /\ call' \in [Preparers -> CallRecords] /\ call'[p] = Idle /\ At(p, "idle")'
        /\ \A q \in Preparers \ {p} : call'[q] = call[q]
    BY <1>2, OverCall
  <2>2. CallsAreCalls'
    BY <2>1 DEF CallsAreCalls, At, Path
  <2>3. TypeOK'
    BY <1>2, <2>1 DEF TypeOK, CallRecords, At, Run, Path, gitVars
  <2> QED
    BY <2>2, <2>3
<1>3. ASSUME NEW p \in Preparers, NEW a \in Attempts, NEW path \in Paths, Plan(p, a, path)
      PROVE  Kept
  <2> DEFINE beside == {q \in Preparers : Path(q) = path}
             new == [Idle EXCEPT !.at = "planned", !.attempt = a, !.path = path,
                                 !.alone = (beside = {})]
             other(q) == [call[q] EXCEPT !.alone = @ /\ q \notin beside]
  <2>1. new \in CallRecords /\ new.at = "planned" /\ new.attempt = a /\ new.path = path
    BY DEF Idle, CallRecords, Places
  <2>2. \A q \in Preparers : /\ other(q) \in CallRecords /\ other(q).at = call[q].at
                             /\ other(q).attempt = call[q].attempt
                             /\ other(q).path = call[q].path
    BY <1>a DEF CallRecords
  <2>3. call' = [q \in Preparers |-> IF q = p THEN new ELSE other(q)]
    BY <1>3 DEF Plan
  <2> HIDE DEF new, other
  <2>4. /\ call' \in [Preparers -> CallRecords] /\ call'[p] = new
        /\ \A q \in Preparers \ {p} : call'[q] = other(q)
    BY <2>1, <2>2, <2>3
  <2>5. CallsAreCalls'
    <3>1. \A q \in Preparers \ {p} : At(q, "idle") => other(q) = Idle
      <4> SUFFICES ASSUME NEW q \in Preparers \ {p}, At(q, "idle") PROVE other(q) = Idle
        OBVIOUS
      <4>1. call[q] = Idle
        BY DEF CallsAreCalls
      <4>2. (Idle.alone /\ q \notin beside) = FALSE
        BY DEF Idle
      <4>3. other(q) = [Idle EXCEPT !.alone = FALSE]
        BY <4>1, <4>2 DEF other
      <4> QED
        BY <4>3 DEF Idle
    <3> QED
      BY <1>b, <2>1, <2>2, <2>4, <3>1 DEF CallsAreCalls, At, Path
  <2>6. TypeOK'
    <3>1. UNCHANGED <<there, branches, recorded, active, left>>
      BY <1>3 DEF Plan, gitVars
    <3> QED
      BY <2>1, <2>2, <2>4, <3>1 DEF TypeOK, CallRecords, At, Run, Path
  <2> QED
    BY <2>5, <2>6
<1>4. ASSUME NEW p \in Preparers, CheckAgain(p) PROVE Kept
  BY <1>1, <1>2, <1>4 DEF CheckAgain, Places, At, TypeOK
<1>5. ASSUME NEW p \in Preparers, EndEarly(p) PROVE Kept
  BY <1>2, <1>5 DEF EndEarly, TypeOK
<1>6. ASSUME NEW p \in Preparers, AddBranch(p) PROVE Kept
  <2>1. /\ call' \in [Preparers -> CallRecords] /\ At(p, "branched")'
        /\ call'[p].attempt = call[p].attempt /\ call'[p].path = call[p].path
        /\ \A q \in Preparers \ {p} : call'[q] = call[q]
    BY <1>6, GotoCall DEF AddBranch, Places
  <2>2. Run(p) \in Runs
    BY <1>b, <1>6 DEF AddBranch, At
  <2>3. CallsAreCalls'
    BY <1>6, <1>b, <2>1 DEF CallsAreCalls, At, Path, AddBranch
  <2>4. TypeOK'
    BY <1>6, <2>1, <2>2 DEF TypeOK, CallRecords, At, Run, Path, AddBranch
  <2> QED
    BY <2>3, <2>4
<1>7. ASSUME NEW p \in Preparers, AddTree(p) PROVE Kept
  <2> DEFINE new == [call[p] EXCEPT !.at = "added", !.made = TRUE]
  <2>1. /\ new \in CallRecords /\ new.at = "added"
        /\ new.attempt = call[p].attempt /\ new.path = call[p].path
    BY <1>a DEF CallRecords, Places
  <2>2. call' = [call EXCEPT ![p] = new]
    BY <1>7 DEF AddTree
  <2> HIDE DEF new
  <2>3. /\ call' \in [Preparers -> CallRecords] /\ call'[p] = new
        /\ \A q \in Preparers \ {p} : call'[q] = call[q]
    BY <1>a, <2>1, <2>2
  <2>4. Run(p) \in Runs /\ Path(p) \in Paths
    BY <1>b, <1>7 DEF AddTree, At
  <2>5. CallsAreCalls'
    BY <1>7, <1>b, <2>1, <2>3 DEF CallsAreCalls, At, Path, AddTree
  <2>6. \A t, u \in Paths : there'[t] \in Runs /\ there'[t] = there'[u] => t = u
    BY <1>7, <2>4 DEF AddTree, TypeOK, CheckedOut
  <2>7. TypeOK'
    BY <1>7, <2>1, <2>3, <2>4, <2>6 DEF TypeOK, CallRecords, At, Run, Path, AddTree
  <2> QED
    BY <2>5, <2>7
<1>8. ASSUME NEW p \in Preparers, Verify(p) PROVE Kept
  BY <1>1, <1>8 DEF Verify, Places, At
<1>9. ASSUME NEW p \in Preparers, Record(p) PROVE Kept
  <2>1. /\ call' \in [Preparers -> CallRecords] /\ At(p, "recorded")'
        /\ call'[p].attempt = call[p].attempt /\ call'[p].path = call[p].path
        /\ \A q \in Preparers \ {p} : call'[q] = call[q]
    BY <1>9, GotoCall DEF Record, Places
  <2>2. Run(p) \in Runs /\ Path(p) \in Paths
    BY <1>b, <1>9 DEF Record, At
  <2>3. CallsAreCalls'
    BY <1>9, <1>b, <2>1 DEF CallsAreCalls, At, Path, Record
  <2>4. \A q \in Preparers : At(q, "recorded")' => recorded'[Run(q)'] = Path(q)'
    <3>1. CASE Run(p) \in Runs /\ recorded[Run(p)] = None
      BY <1>9, <1>b, <2>1, <2>2, <3>1 DEF TypeOK, Record, At, Run, Path
    <3> QED
      BY <1>9, <2>2, <3>1 DEF Record
  <2>5. TypeOK'
    BY <1>9, <2>1, <2>2, <2>4 DEF TypeOK, CallRecords, Record, At, gitVars
  <2> QED
    BY <2>3, <2>5
<1>10. ASSUME NEW p \in Preparers, ReportRecord(p) PROVE Kept
  BY <1>2, <1>10 DEF ReportRecord, TypeOK
<1>11. ASSUME NEW p \in Preparers, Fail(p) PROVE Kept
  BY <1>1, <1>11 DEF Fail, Places, At
<1>12. ASSUME NEW p \in Preparers, UndoTree(p) PROVE Kept
  <2>1. /\ call' \in [Preparers -> CallRecords] /\ At(p, "undo_branch")'
        /\ call'[p].attempt = call[p].attempt /\ call'[p].path = call[p].path
        /\ \A q \in Preparers \ {p} : call'[q] = call[q]
    BY <1>12, GotoCall DEF UndoTree, Places
  <2>2. CallsAreCalls'
    BY <1>12, <1>b, <2>1 DEF CallsAreCalls, At, Path, UndoTree
  <2>3. /\ there' \in [Paths -> Runs \cup {None, User}]
        /\ \A t, u \in Paths : there'[t] \in Runs /\ there'[t] = there'[u] => t = u
    BY <1>12 DEF UndoTree, TypeOK
  <2>4. TypeOK'
    BY <1>12, <2>1, <2>3 DEF TypeOK, CallRecords, At, Run, Path, UndoTree
  <2> QED
    BY <2>2, <2>4
<1>13. ASSUME NEW p \in Preparers, UndoBranch(p) PROVE Kept
  <2>1. /\ call' \in [Preparers -> CallRecords] /\ call'[p] = Idle /\ At(p, "idle")'
        /\ \A q \in Preparers \ {p} : call'[q] = call[q]
    BY <1>13, OverCall DEF UndoBranch
  <2>2. CallsAreCalls'
    BY <2>1 DEF CallsAreCalls, At, Path
  <2>3. TypeOK'
    BY <1>13, <2>1 DEF TypeOK, CallRecords, At, Run, Path, UndoBranch
  <2> QED
    BY <2>2, <2>3
<1>14. ASSUME NEW p \in Preparers, Stop(p) PROVE Kept
  <2>1. Run(p) \in Runs /\ Path(p) \in Paths
    BY <1>b, <1>14 DEF Stop
  <2>2. left' \subseteq Runs \X Paths
    BY <1>14, <2>1 DEF Stop, TypeOK
  <2> QED
    BY <1>2, <1>14, <2>2 DEF Stop
<1>15. ASSUME NEW a \in Attempts, EndAttempt(a) PROVE Kept
  BY <1>15 DEF EndAttempt, TypeOK, CallsAreCalls, At, Run, Path, gitVars
<1>16. ASSUME NEW path \in UserPaths, UserMakes(path) PROVE Kept
  BY <1>16 DEF UserMakes, TypeOK, CallsAreCalls, At, Run, Path
<1>17. ASSUME UNCHANGED vars PROVE Kept
  BY <1>17 DEF vars, TypeOK, CallsAreCalls, At, Run, Path
<1> HIDE DEF Kept
<1>18. ASSUME NEW p \in Preparers, PrepareStep(p) PROVE Kept
  BY <1>3, <1>4, <1>5, <1>6, <1>7, <1>8, <1>9, <1>10, <1>11, <1>12, <1>13, <1>14, <1>18
     DEF PrepareStep
<1>19. ASSUME Next PROVE Kept
  BY <1>15, <1>16, <1>18, <1>19 DEF Next
<1>20. Kept
  BY <1>17, <1>19
<1> QED
  BY <1>20 DEF Kept

\* When nothing is taken from or put on a path, and every call goes on as it was or
\* is over, who was alone still is.
LEMMA AloneFrame ==
    ASSUME PrepareInv, TypeOK', CallsAreCalls', there' = there,
           \A q \in Preparers :
              \/ call'[q] = Idle
              \/ /\ call'[q].path = call[q].path
                 /\ call'[q].made = call[q].made /\ call'[q].alone = call[q].alone
    PROVE  AloneIsAlone'
<1> SUFFICES ASSUME NEW p \in Preparers, call'[p].alone
             PROVE  /\ \A q \in Preparers \ {p} : Path(q)' # Path(p)'
                    /\ ~call'[p].made => there'[Path(p)'] \in {None, User}
  BY DEF AloneIsAlone
<1>1. call'[p] # Idle /\ Path(p)' \in Paths
  BY DEF CallsAreCalls, Idle
<1>2. /\ call'[p].path = call[p].path
      /\ call'[p].made = call[p].made /\ call[p].alone
  BY <1>1
<1>3. /\ \A q \in Preparers \ {p} : Path(q) # Path(p)
      /\ ~call[p].made => there[Path(p)] \in {None, User}
  BY <1>2 DEF PrepareInv, AloneIsAlone
<1>4. \A q \in Preparers \ {p} : Path(q)' = Path(q) \/ Path(q)' = None
  BY DEF Path, Idle
<1> QED
  BY <1>1, <1>2, <1>3, <1>4, PrepareAssumption DEF Path

\* Who is alone on a path stays alone until another call names the path.
LEMMA AloneStep ==
    ASSUME PrepareInv, [Next]_vars
    PROVE  AloneIsAlone'
<1> USE PrepareAssumption
<1>a. TypeOK /\ CallsAreCalls /\ TypeOK' /\ CallsAreCalls'
  BY PrepareType DEF PrepareInv
<1>b. call \in [Preparers -> CallRecords] /\ call' \in [Preparers -> CallRecords]
  BY <1>a DEF TypeOK, CallRecords
<1>c. \A p \in Preparers : ~At(p, "idle") => Path(p) \in Paths /\ Run(p) \in Runs
  BY <1>a DEF CallsAreCalls, Run
<1> DEFINE Kept == AloneIsAlone'
<1>1. ASSUME NEW p \in Preparers, NEW place \in Places, Goto(p, place) \/ Over(p),
             there' = there
      PROVE  Kept
  BY <1>a, <1>1, GotoCall, OverCall, AloneFrame
<1>2. ASSUME NEW p \in Preparers, NEW a \in Attempts, NEW path \in Paths, Plan(p, a, path)
      PROVE  Kept
  <2> DEFINE beside == {q \in Preparers : Path(q) = path}
             new == [Idle EXCEPT !.at = "planned", !.attempt = a, !.path = path,
                                 !.alone = (beside = {})]
             other(q) == [call[q] EXCEPT !.alone = @ /\ q \notin beside]
  <2>1. new.path = path /\ (new.alone = (beside = {}))
    BY DEF Idle
  <2>2. \A q \in Preparers : /\ other(q).path = call[q].path /\ other(q).made = call[q].made
                             /\ other(q).alone => call[q].alone /\ q \notin beside
    BY ZenonT(40), <1>b DEF CallRecords
  <2>3. call' = [q \in Preparers |-> IF q = p THEN new ELSE other(q)]
    BY <1>2 DEF Plan
  <2>4. UNCHANGED there /\ there[path] = None /\ At(p, "idle")
    BY <1>2 DEF Plan, gitVars, Absent
  <2> HIDE DEF new, other
  <2>5. call'[p] = new /\ \A q \in Preparers \ {p} : call'[q] = other(q)
    BY <2>3
  <2> SUFFICES ASSUME NEW q \in Preparers, call'[q].alone
               PROVE  /\ \A o \in Preparers \ {q} : Path(o)' # Path(q)'
                      /\ ~call'[q].made => there'[Path(q)'] \in {None, User}
    BY DEF AloneIsAlone
  <2>6. CASE q = p
    <3>1. beside = {}
      BY <2>1, <2>5, <2>6
    <3>2. \A o \in Preparers \ {p} : Path(o)' = Path(o) /\ Path(o) # path
      BY <2>2, <2>5, <3>1 DEF Path
    <3>3. Path(p)' = path
      BY <2>1, <2>5 DEF Path
    <3> QED
      BY <2>4, <2>6, <3>2, <3>3
  <2>7. CASE q # p
    <3>1. call[q].alone /\ Path(q) # path /\ Path(q)' = Path(q) /\ call'[q].made = call[q].made
      BY <2>2, <2>5, <2>7 DEF Path
    <3>2. /\ \A o \in Preparers \ {q} : Path(o) # Path(q)
          /\ ~call[q].made => there[Path(q)] \in {None, User}
      BY <3>1 DEF PrepareInv, AloneIsAlone
    <3> QED
      BY <2>1, <2>2, <2>4, <2>5, <2>7, <3>1, <3>2 DEF Path
  <2> QED
    BY <2>6, <2>7
<1>3. ASSUME NEW p \in Preparers, AddTree(p) PROVE Kept
  <2> DEFINE new == [call[p] EXCEPT !.at = "added", !.made = TRUE]
  <2>1. new.path = call[p].path /\ new.made /\ new.alone = call[p].alone
    BY <1>b DEF CallRecords
  <2>2. call' = [call EXCEPT ![p] = new]
    BY <1>3 DEF AddTree
  <2> HIDE DEF new
  <2>3. call'[p] = new /\ \A q \in Preparers \ {p} : call'[q] = call[q]
    BY <1>b, <2>2
  <2>4. \A t \in Paths \ {Path(p)} : there'[t] = there[t]
    BY <1>3, <1>a DEF AddTree, TypeOK
  <2> SUFFICES ASSUME NEW q \in Preparers, call'[q].alone
               PROVE  /\ \A o \in Preparers \ {q} : Path(o)' # Path(q)'
                      /\ ~call'[q].made => there'[Path(q)'] \in {None, User}
    BY DEF AloneIsAlone
  <2>5. /\ call[q].alone
        /\ \A o \in Preparers : Path(o)' = Path(o)
        /\ \A o \in Preparers \ {q} : Path(o) # Path(q)
        /\ ~call[q].made => there[Path(q)] \in {None, User}
    BY <2>1, <2>3 DEF PrepareInv, AloneIsAlone, Path
  <2>6. q # p => Path(q) # Path(p) /\ call'[q] = call[q] /\ Path(q) \in Paths
    BY <1>a, <2>3, <2>5 DEF CallsAreCalls, Idle
  <2> QED
    BY <2>1, <2>3, <2>4, <2>5, <2>6
<1>4. ASSUME NEW p \in Preparers, UndoTree(p) PROVE Kept
  <2>1. /\ \A q \in Preparers : call'[q].path = call[q].path /\ call'[q].made = call[q].made
                                /\ call'[q].alone = call[q].alone
        /\ \A t \in Paths : there'[t] = there[t] \/ there'[t] = None
    BY <1>4, <1>a, GotoCall DEF UndoTree, Places, TypeOK
  <2>2. \A q \in Preparers : call[q].alone => Path(q) \in Paths
    BY <1>a DEF CallsAreCalls, Idle
  <2> QED
    BY <2>1, <2>2 DEF PrepareInv, AloneIsAlone, Path
<1>5. ASSUME NEW path \in UserPaths, UserMakes(path) PROVE Kept
  <2>1. /\ call' = call /\ path \in Paths /\ there[path] = None
        /\ there' = [there EXCEPT ![path] = User] /\ there \in [Paths -> Runs \cup {None, User}]
    BY <1>5, <1>a DEF UserMakes, TypeOK
  <2>2. \A t \in Paths : there'[t] = there[t] \/ there'[t] = User
    BY <2>1
  <2>3. \A q \in Preparers : call[q].alone => Path(q) \in Paths
    BY <1>a DEF CallsAreCalls, Idle
  <2> QED
    BY <2>1, <2>2, <2>3 DEF PrepareInv, AloneIsAlone, Path
<1>6. ASSUME call' = call, there' = there PROVE Kept
  BY <1>6 DEF PrepareInv, AloneIsAlone, Path
<1> HIDE DEF Kept
<1>7. ASSUME NEW p \in Preparers, PrepareStep(p) PROVE Kept
  <2>1. \/ \E a \in Attempts, path \in Paths : Plan(p, a, path)
        \/ AddTree(p) \/ UndoTree(p)
        \/ there' = there /\ (Over(p) \/ \E place \in Places : Goto(p, place))
    BY <1>7 DEF PrepareStep, CheckAgain, EndEarly, AddBranch, Verify, Record, ReportRecord,
                Fail, UndoBranch, Stop, gitVars, Places
  <2>2. "idle" \in Places
    BY DEF Places
  <2> QED
    BY <1>1, <1>2, <1>3, <1>4, <2>1, <2>2
<1>8. ASSUME NEW a \in Attempts, EndAttempt(a) PROVE Kept
  BY <1>6, <1>8 DEF EndAttempt, gitVars
<1>9. ASSUME Next PROVE Kept
  BY <1>5, <1>7, <1>8, <1>9 DEF Next
<1>10. ASSUME UNCHANGED vars PROVE Kept
  BY <1>6, <1>10 DEF vars
<1>11. Kept
  BY <1>9, <1>10
<1> QED
  BY <1>11 DEF Kept

\* A claim stays when what is recorded and what is left over stays, and every call
\* that has begun goes on, or what it claims is claimed without it.
LEMMA ClaimKept ==
    ASSUME NEW r, NEW t, Claimed(r, t),
           recorded[r] = t => recorded'[r] = t,
           left \subseteq left',
           \A q \in Preparers : Begun(q) /\ Run(q) = r /\ Path(q) = t =>
              \/ Claimed(r, t)'
              \/ Begun(q)' /\ call'[q].attempt = call[q].attempt /\ call'[q].path = call[q].path
    PROVE  Claimed(r, t)'
<1>1. CASE recorded[r] = t \/ <<r, t>> \in left
  BY <1>1 DEF Claimed
<1>2. ASSUME NEW q \in Preparers, Begun(q) /\ Run(q) = r /\ Path(q) = t
      PROVE  Claimed(r, t)'
  BY <1>2 DEF Claimed, Run, Path
<1> QED
  BY <1>1, <1>2 DEF Claimed

\* Every branch and every worktree stays claimed.
LEMMA ClaimedStep ==
    ASSUME PrepareInv, [Next]_vars
    PROVE  AllClaimed'
<1> USE PrepareAssumption
<1>a. TypeOK /\ CallsAreCalls /\ AllClaimed /\ TypeOK'
  BY PrepareType DEF PrepareInv
<1>b. \A p \in Preparers : ~At(p, "idle") => Path(p) \in Paths /\ Run(p) \in Runs
  BY <1>a DEF CallsAreCalls, Run
<1>c. /\ there \in [Paths -> Runs \cup {None, User}] /\ branches \subseteq Runs
      /\ recorded \in [Runs -> Paths \cup {None}]
  BY <1>a DEF TypeOK
<1> DEFINE Kept == AllClaimed'
           Stay == \A r \in Runs, t \in Paths : Claimed(r, t) => Claimed(r, t)'
\* Going on changes no claim, wherever the call goes.
<1>1. ASSUME NEW p \in Preparers, NEW place \in Places \ {"idle", "planned", "checked"},
             Goto(p, place), left' = left,
             \A r \in Runs : recorded[r] \in Paths => recorded'[r] = recorded[r]
      PROVE  Stay
  <2>1. /\ At(p, place)' /\ call'[p].attempt = call[p].attempt
        /\ call'[p].path = call[p].path /\ \A q \in Preparers \ {p} : call'[q] = call[q]
    BY <1>1, <1>a, GotoCall
  <2>2. \A q \in Preparers : Begun(q) =>
           Begun(q)' /\ call'[q].attempt = call[q].attempt /\ call'[q].path = call[q].path
    BY <1>1, <2>1 DEF Begun, At
  <2> QED
    BY <1>1, <2>2, ClaimKept
\* A call that ends without having begun had no claim.
<1>2. ASSUME NEW p \in Preparers, ~Begun(p),
             Over(p) \/ \E place \in Places : Goto(p, place),
             UNCHANGED <<there, branches, recorded, left>>
      PROVE  Kept
  <2>1. \A q \in Preparers : Begun(q) => call'[q] = call[q]
    BY <1>2, <1>a, GotoCall, OverCall
  <2>2. Stay
    BY <1>2, <2>1, ClaimKept DEF Begun
  <2> QED
    BY <1>2, <1>a, <1>c, <2>2 DEF AllClaimed
<1>3. ASSUME NEW p \in Preparers, NEW a \in Attempts, NEW path \in Paths, Plan(p, a, path)
      PROVE  Kept
  <2>1. At(p, "idle") /\ UNCHANGED <<there, branches, recorded, left>>
    BY <1>3 DEF Plan, gitVars
  <2>2. \A q \in Preparers \ {p} : /\ call'[q].at = call[q].at
                                   /\ call'[q].attempt = call[q].attempt
                                   /\ call'[q].path = call[q].path
    <3> SUFFICES ASSUME NEW q \in Preparers \ {p}
                 PROVE  /\ call'[q].at = call[q].at
                        /\ call'[q].attempt = call[q].attempt
                        /\ call'[q].path = call[q].path
      OBVIOUS
    <3> DEFINE other == [call[q] EXCEPT !.alone =
                            @ /\ q \notin {o \in Preparers : Path(o) = path}]
    <3>1. call'[q] = other
      BY <1>3 DEF Plan
    <3>2. call[q] \in CallRecords
      BY <1>a DEF TypeOK, CallRecords
    <3>3. /\ other.at = call[q].at /\ other.attempt = call[q].attempt
          /\ other.path = call[q].path
      BY <3>2 DEF CallRecords
    <3> QED
      BY <3>1, <3>3
  <2>3. \A q \in Preparers : Begun(q) =>
           Begun(q)' /\ call'[q].attempt = call[q].attempt /\ call'[q].path = call[q].path
    BY <2>1, <2>2 DEF Begun, At
  <2>4. Stay
    BY <2>1, <2>3, ClaimKept
  <2> QED
    BY <1>a, <1>c, <2>1, <2>4 DEF AllClaimed
<1>4. ASSUME NEW p \in Preparers, AddBranch(p) PROVE Kept
  <2>1. At(p, "checked") /\ Run(p) \in Runs /\ Path(p) \in Paths
    BY <1>4, <1>b DEF AddBranch, At
  <2>2. Stay
    BY <1>1, <1>4 DEF AddBranch, Places
  <2>3. \A r, t : r = Run(p) /\ t = Path(p) => Claimed(r, t)'
    <3>1. /\ At(p, "branched")' /\ call'[p].attempt = call[p].attempt
          /\ call'[p].path = call[p].path
      BY <1>4, <1>a, GotoCall DEF AddBranch, Places
    <3> QED
      BY <3>1 DEF Claimed, Begun, At, Run, Path
  <2> QED
    BY <1>4, <1>a, <1>c, <2>1, <2>2, <2>3 DEF AllClaimed, AddBranch
<1>5. ASSUME NEW p \in Preparers, AddTree(p) PROVE Kept
  <2> DEFINE new == [call[p] EXCEPT !.at = "added", !.made = TRUE]
  <2>1. new.path = call[p].path /\ new.attempt = call[p].attempt /\ new.at = "added"
    BY <1>a DEF TypeOK
  <2>2. call' = [call EXCEPT ![p] = new]
    BY <1>5 DEF AddTree
  <2> HIDE DEF new
  <2>3. call'[p] = new /\ \A q \in Preparers \ {p} : call'[q] = call[q]
    BY <1>a, <2>2 DEF TypeOK
  <2>4. \A q \in Preparers : Begun(q) =>
           Begun(q)' /\ call'[q].attempt = call[q].attempt /\ call'[q].path = call[q].path
    BY <2>1, <2>3 DEF Begun
  <2>5. /\ Run(p) \in branches /\ Path(p) \in Paths /\ Run(p) \in Runs
        /\ UNCHANGED <<branches, recorded, left>>
        /\ there' = [there EXCEPT ![Path(p)] = Run(p)]
    BY <1>5, <1>b DEF AddTree, At
  <2>6. Stay
    BY <2>4, <2>5, ClaimKept
  <2>7. \A r, t : r = Run(p) /\ t = Path(p) => Claimed(r, t)'
    BY <2>1, <2>3 DEF Claimed, Begun, Run, Path
  <2> QED
    BY <1>a, <1>c, <2>5, <2>6, <2>7 DEF AllClaimed
<1>6. ASSUME NEW p \in Preparers, Verify(p) \/ Fail(p), Begun(p) PROVE Kept
  <2>1. Stay /\ UNCHANGED <<there, branches>>
    BY <1>1, <1>6 DEF Verify, Fail, gitVars, Places
  <2> QED
    BY <1>a, <1>c, <2>1 DEF AllClaimed
<1>7. ASSUME NEW p \in Preparers, Fail(p), ~Begun(p) PROVE Kept
  BY <1>2, <1>7 DEF Fail, gitVars, Places
<1>8. ASSUME NEW p \in Preparers, Record(p) PROVE Kept
  <2>1. Run(p) \in Runs
    BY <1>8, <1>b DEF Record, At
  <2>2. \A r \in Runs : recorded[r] \in Paths => recorded'[r] = recorded[r]
    BY <1>8, <1>c, <2>1 DEF Record
  <2>3. Stay /\ UNCHANGED <<there, branches>>
    BY <1>1, <1>8, <2>2 DEF Record, gitVars, Places
  <2> QED
    BY <1>a, <1>c, <2>3 DEF AllClaimed
<1>9. ASSUME NEW p \in Preparers, ReportRecord(p) PROVE Kept
  <2>1. recorded[Run(p)] = Path(p) /\ UNCHANGED <<there, branches, recorded, left>>
    BY <1>9, <1>a DEF ReportRecord, TypeOK, gitVars
  <2>2. \A q \in Preparers \ {p} : call'[q] = call[q]
    BY <1>9, <1>a, OverCall DEF ReportRecord
  <2>3. \A r, t : r = Run(p) /\ t = Path(p) => Claimed(r, t)'
    <3>1. recorded'[Run(p)] = Path(p)
      BY <2>1
    <3> QED
      BY <3>1 DEF Claimed
  <2>4. Stay
    BY <2>1, <2>2, <2>3, ClaimKept DEF Begun
  <2> QED
    BY <1>a, <1>c, <2>1, <2>4 DEF AllClaimed
<1>10. ASSUME NEW p \in Preparers, UndoTree(p) PROVE Kept
  <2>1. Stay /\ UNCHANGED branches
    BY <1>1, <1>10 DEF UndoTree, Places
  <2>2. \A t \in Paths : there'[t] \in Runs => there'[t] = there[t]
    BY <1>10, <1>c DEF UndoTree
  <2> QED
    BY <1>a, <1>c, <2>1, <2>2 DEF AllClaimed
<1>11. ASSUME NEW p \in Preparers, UndoBranch(p) PROVE Kept
  <2>1. /\ UNCHANGED <<there, recorded, left>> /\ ~CheckedOut(Run(p))
        /\ branches' = branches \ {Run(p)}
        /\ \A q \in Preparers \ {p} : call'[q] = call[q]
    BY <1>11, <1>a, OverCall DEF UndoBranch
  <2>2. \A r \in Runs \ {Run(p)}, t \in Paths : Claimed(r, t) => Claimed(r, t)'
    BY <2>1, ClaimKept DEF Begun
  <2>3. \A t \in Paths : there[t] # Run(p)
    BY <2>1 DEF CheckedOut
  <2> QED
    BY <1>a, <1>c, <2>1, <2>2, <2>3 DEF AllClaimed
<1>12. ASSUME NEW p \in Preparers, Stop(p) PROVE Kept
  <2>1. /\ UNCHANGED <<there, branches, recorded>> /\ left' = left \cup {<<Run(p), Path(p)>>}
        /\ \A q \in Preparers \ {p} : call'[q] = call[q]
    BY <1>12, <1>a, OverCall DEF Stop, gitVars
  <2>2. \A r, t : r = Run(p) /\ t = Path(p) => Claimed(r, t)'
    <3>1. <<Run(p), Path(p)>> \in left'
      BY <2>1
    <3> QED
      BY <3>1 DEF Claimed
  <2>3. Stay
    BY <2>1, <2>2, ClaimKept DEF Begun
  <2> QED
    BY <1>a, <1>c, <2>1, <2>3 DEF AllClaimed
<1>13. ASSUME UNCHANGED <<branches, recorded, call, left>>,
              \A t \in Paths : there'[t] \in Runs => there'[t] = there[t]
       PROVE  Kept
  <2>1. Stay
    BY <1>13 DEF Claimed, Begun, Run, Path
  <2> QED
    BY <1>13, <1>a, <1>c, <2>1 DEF AllClaimed
<1>14. ASSUME NEW path \in UserPaths, UserMakes(path) PROVE Kept
  <2>1. \A t \in Paths : there'[t] \in Runs => there'[t] = there[t]
    BY <1>14, <1>c DEF UserMakes
  <2> QED
    BY <1>13, <1>14, <2>1 DEF UserMakes
<1> HIDE DEF Kept
<1>15. ASSUME NEW p \in Preparers, CheckAgain(p) \/ EndEarly(p) PROVE Kept
  BY <1>2, <1>15 DEF CheckAgain, EndEarly, Begun, At, gitVars, Places
<1>16. ASSUME NEW p \in Preparers, PrepareStep(p) PROVE Kept
  <2>1. Verify(p) => Begun(p)
    BY DEF Verify, Begun, At
  <2> QED
    BY <1>3, <1>4, <1>5, <1>6, <1>7, <1>8, <1>9, <1>10, <1>11, <1>12, <1>15, <1>16, <2>1
       DEF PrepareStep
<1>17. ASSUME NEW a \in Attempts, EndAttempt(a) PROVE Kept
  BY <1>13, <1>17 DEF EndAttempt, gitVars
<1>18. ASSUME Next PROVE Kept
  BY <1>14, <1>16, <1>17, <1>18 DEF Next
<1>19. ASSUME UNCHANGED vars PROVE Kept
  BY <1>13, <1>19 DEF vars
<1>20. Kept
  BY <1>18, <1>19
<1> QED
  BY <1>20 DEF Kept

\* The invariant holds in every reachable state.
LEMMA PrepareInvariant == Spec => []PrepareInv
<1>1. PrepareInv /\ [Next]_vars => PrepareInv'
  BY PrepareType, AloneStep, ClaimedStep DEF PrepareInv
<1> QED
  BY <1>1, PrepareInit, PTL DEF Spec

----------------------------------------------------------------------------
\* The theorems.

\* Every reachable state is well typed, and a Run has one worktree at most.
THEOREM PrepareTypeCorrect == Spec => []TypeOK
<1>1. PrepareInv => TypeOK
  BY DEF PrepareInv
<1> QED
  BY <1>1, PrepareInvariant, PTL

\* What is claimed is what the property says: recorded, of a call that goes on, or
\* left over.
LEMMA ClaimedIsNamed == PrepareInv => NoLeftovers
BY DEF PrepareInv, AllClaimed, NoLeftovers, Claimed, Begun, At

\* The rollback of a call takes a recorded worktree away only when that call made
\* it, or was not alone on its path.
LEMMA RecordedStep == PrepareInv /\ [Next]_vars => RecordedStays
<1> USE PrepareAssumption
<1> SUFFICES ASSUME PrepareInv, [Next]_vars, NEW r \in Runs, NEW t, t = recorded[r],
                    t # None, there[t] = r, there'[t] # r
             PROVE  \E p \in Preparers :
                       At(p, "undo") /\ Path(p) = t /\ (call[p].made \/ ~call[p].alone)
  BY DEF RecordedStays
<1>1. t \in Paths /\ r # None /\ r # User /\ there \in [Paths -> Runs \cup {None, User}]
  BY DEF PrepareInv, TypeOK
<1>2. ASSUME NEW p \in Preparers, UndoTree(p)
      PROVE  At(p, "undo") /\ Path(p) = t /\ (call[p].made \/ ~call[p].alone)
  <2>1. At(p, "undo") /\ Path(p) = t
    BY <1>1, <1>2 DEF UndoTree
  <2> QED
    BY <1>1, <2>1 DEF PrepareInv, AloneIsAlone
<1>3. ASSUME NEW p \in Preparers, AddTree(p) PROVE FALSE
  BY <1>1, <1>3 DEF AddTree
<1>4. ASSUME NEW path \in UserPaths, UserMakes(path) PROVE FALSE
  BY <1>1, <1>4 DEF UserMakes
<1>5. there' # there
  BY <1>1
<1>6. ASSUME NEW p \in Preparers, PrepareStep(p) PROVE UndoTree(p)
  BY <1>3, <1>5, <1>6
     DEF PrepareStep, Plan, CheckAgain, EndEarly, AddBranch, Verify, Record, ReportRecord,
         Fail, UndoBranch, Stop, gitVars
<1>7. \E p \in Preparers : UndoTree(p)
  BY <1>4, <1>5, <1>6 DEF Next, EndAttempt, gitVars, vars
<1> QED
  BY <1>2, <1>7

\* However the calls for one Run or on one path run beside each other, and wherever
\* they fail, preparing leaves nothing that is not recorded, and takes away nothing
\* that is but what the call itself has made or was not alone with.
THEOREM PreparingIsCleanHolds == Spec => PreparingIsClean
BY PrepareInvariant, ClaimedIsNamed, RecordedStep, PTL DEF Spec, PreparingIsClean

=============================================================================
