-------------------------- MODULE ProjectionProofs --------------------------
(***************************************************************************)
(* Theorems about Projection, for every set of manifests, calls, parts and *)
(* places, and however many calls run beside each other.                   *)
(***************************************************************************)
EXTENDS Projection, FiniteSetTheorems, TLAPS

----------------------------------------------------------------------------
\* Types.

Entries == [source : Sources, target : Targets, mode : {"symlink", "copy"},
            operation : {"skip", "keep", "replace", "create"}]

Steps == {"plan", "stage", "create", "copy", "undo", "discard", "verify", "clean",
          "remove", "done"}

CallRec == [kind : Kinds, step : Steps, entries : Seq(Entries), at : Nat, todo : SUBSET Parts,
            created : Seq(Targets), outcome : Outcomes \cup {None},
            before : [Targets -> Nodes] \cup {<<>>}, alone : BOOLEAN,
            touched : SUBSET Targets, stuck : SUBSET Targets]

Typed ==
    /\ source \in [Sources -> 0..MaxVersion \cup {None}]
    /\ disk \in [Targets -> Nodes]
    /\ backups \in [DOMAIN backups -> [target : Targets, node : Nodes \ {None}]]
    /\ DOMAIN backups \subseteq Nat \X Nat /\ IsFiniteSet(DOMAIN backups)
    /\ calls \in Seq(CallRec)

\* Where a call is in its plan, and what it has in its backups: only a forced apply
\* has any, and none once it verified or was refused.
Looping == {"stage", "create", "copy"}

Placed(n) ==
    /\ calls[n].step \in Looping =>
            /\ calls[n].at \in DOMAIN calls[n].entries
            /\ Entry(n).operation \in {"create", "replace"}
            /\ calls[n].kind.op = "apply" /\ Permitted(calls[n])
    /\ calls[n].step = "stage" => Entry(n).operation = "replace"
    /\ calls[n].step = "clean" => calls[n].at \in 0..Len(calls[n].entries)
    /\ calls[n].step = "remove" => calls[n].at \in DOMAIN calls[n].entries
    /\ calls[n].step = "discard" => Own(n) # {}
    /\ calls[n].step # "done" => calls[n].outcome = None

Backed(n) ==
    \A b \in Own(n) :
        /\ calls[n].kind.op = "apply" /\ calls[n].kind.force
        /\ calls[n].outcome \notin {"verified", "refused"}
        /\ calls[n].step \in Looping \cup {"undo", "discard", "done"}
        /\ calls[n].step \in Looping => b[2] <= calls[n].at
        /\ calls[n].step = "stage" => b[2] < calls[n].at
        /\ b[2] > 0

TypeInv ==
    /\ Typed
    /\ \A b \in DOMAIN backups : b[1] \in DOMAIN calls
    /\ \A n \in DOMAIN calls : Placed(n) /\ Backed(n)

----------------------------------------------------------------------------
\* Facts about the operators.

\* A non-empty set of numbers has a least one.
LEMMA Least ==
    ASSUME NEW T, T \subseteq Nat, T # {}
    PROVE  \E x \in T : \A y \in T : x <= y
<1>1. \E R : IsWellFoundedOn(R, Nat) /\ \A x, y \in Nat : <<y, x>> \in R <=> y < x
  <2> DEFINE R == OpToRel(<, Nat)
  <2>1. IsWellFoundedOn(R, Nat)
    BY NatLessThanWellFounded
  <2>2. \A x, y \in Nat : <<y, x>> \in R <=> y < x
    BY DEF OpToRel
  <2> HIDE DEF R
  <2> QED
    BY <2>1, <2>2
<1>2. PICK R : IsWellFoundedOn(R, Nat) /\ \A x, y \in Nat : <<y, x>> \in R <=> y < x
  BY <1>1
<1>3. PICK x \in T : \A y \in T : ~ (<<y, x>> \in R)
  BY <1>2, WFMin
<1>4. ASSUME NEW y \in T PROVE x <= y
  <2>1. x \in Nat /\ y \in Nat /\ <<y, x>> \notin R
    BY <1>3
  <2>2. ~ (y < x)
    BY <1>2, <2>1
  <2> QED
    BY <2>1, <2>2
<1> QED
  BY <1>4

\* What the process of a call keeps of its call when another goes on.
LEMMA SetCall ==
    ASSUME calls \in Seq(CallRec), NEW n \in DOMAIN calls, NEW call \in CallRec, Set(n, call)
    PROVE  /\ calls' \in Seq(CallRec) /\ DOMAIN calls' = DOMAIN calls /\ Len(calls') = Len(calls)
           /\ calls'[n] = call /\ \A m \in DOMAIN calls : m # n => calls'[m] = calls[m]
BY DEF Set

\* Every directory of the model is one on the disk.
LEMMA NodeTypes ==
    /\ \A node \in Dirs : IsDir(node) /\ node # None
    /\ \A s \in Sources : Link(s) \in Nodes /\ Link(s) # None /\ ~IsDir(Link(s))
    /\ \A node \in Nodes : IsDir(node) => node \in Dirs
    /\ \A node \in Nodes : ~IsDir(node) /\ node # None => \E s \in Sources : node = Link(s)
    /\ EmptyDir \in Dirs /\ UserDir \in Dirs
<1> USE PlacesAssumption
<1>1. \A node \in Dirs : IsDir(node) /\ node # None
  BY DEF Dirs, IsDir
<1>2. \A s \in Sources : Link(s) \in Links /\ Link(s) # None /\ Link(s).kind = "link"
  BY DEF Link, Links
<1>3. \A node \in Nodes : IsDir(node) => node \in Dirs
  BY <1>2 DEF Nodes, Links, IsDir
<1>4. \A node \in Nodes : ~IsDir(node) /\ node # None => \E s \in Sources : node = Link(s)
  BY <1>1 DEF Nodes, Links
<1>5. EmptyDir \in Dirs /\ UserDir \in Dirs
  <2>1. <<>> \in [{} -> 0..MaxVersion]
    OBVIOUS
  <2>2. <<>> \in UNION {[parts -> 0..MaxVersion] : parts \in SUBSET Parts}
    BY <2>1
  <2> DEFINE files == UNION {[parts -> 0..MaxVersion] : parts \in SUBSET Parts}
             nothing == <<>>
  <2>3. nothing \in files
    BY <2>2
  <2> HIDE DEF files, nothing
  <2>4. [kind |-> "dir", files |-> nothing, marker |-> None, user |-> FALSE,
         copied |-> FALSE, cut |-> FALSE]
           \in [kind : {"dir"}, user : BOOLEAN, marker : Sources \cup {None}, files : files,
                copied : BOOLEAN, cut : BOOLEAN]
    BY <2>3
  <2>5. EmptyDir \in Dirs
    BY <2>4 DEF EmptyDir, Dirs, files, nothing
  <2>6. [EmptyDir EXCEPT !.user = TRUE] \in Dirs
    BY <2>5 DEF Dirs
  <2> QED
    BY <2>5, <2>6 DEF UserDir
<1> QED
  BY <1>1, <1>2, <1>3, <1>4, <1>5 DEF Nodes, IsDir

\* What a removal leaves of a node.
Taken(node, less) ==
    \/ less = None /\ (IsDir(node) => Empty(node))
    \/ /\ IsDir(node) /\ less \in Dirs /\ less.cut /\ less.copied = node.copied
       /\ less.marker \in {node.marker, None} /\ (less.user => node.user)

LEMMA RemovalTypes ==
    ASSUME NEW node \in Nodes, NEW less \in Removals(node)
    PROVE  Taken(node, less) /\ less \in Nodes
<1>1. CASE ~IsDir(node) \/ Empty(node)
  <2>1. less = None
    BY <1>1 DEF Removals
  <2> QED
    BY <1>1, <2>1 DEF Taken, Nodes
<1>2. CASE IsDir(node) /\ ~Empty(node)
  <2> DEFINE files == UNION {[parts -> 0..MaxVersion] : parts \in SUBSET Parts}
             rest(part) == [p \in (DOMAIN node.files) \ {part} |-> node.files[p]]
  <2>1. node \in Dirs
    BY <1>2, NodeTypes
  <2>2. less \in OneLess(node)
    BY <1>2 DEF Removals
  <2>3. \/ \E part \in DOMAIN node.files : less = [node EXCEPT !.files = rest(part), !.cut = TRUE]
        \/ less = [node EXCEPT !.marker = None, !.cut = TRUE]
        \/ less = [node EXCEPT !.user = FALSE, !.cut = TRUE]
    BY <2>1, <2>2 DEF OneLess, Dirs
  <2>4. ASSUME NEW part PROVE rest(part) \in files
    <3>1. PICK parts \in SUBSET Parts : node.files \in [parts -> 0..MaxVersion]
      BY <2>1 DEF Dirs
    <3> DEFINE fewer == parts \ {part}
    <3>2. rest(part) \in [fewer -> 0..MaxVersion]
      BY <3>1
    <3>3. fewer \in SUBSET Parts
      OBVIOUS
    <3> HIDE DEF fewer, rest
    <3> QED
      BY <3>2, <3>3
  <2>6. Dirs = [kind : {"dir"}, user : BOOLEAN, marker : Sources \cup {None}, files : files,
                copied : BOOLEAN, cut : BOOLEAN]
    BY DEF Dirs
  <2> HIDE DEF rest, files
  <2>5. /\ less \in Dirs /\ less.cut /\ less.copied = node.copied
        /\ less.marker \in {node.marker, None} /\ (less.user => node.user)
    <3>1. ASSUME NEW part, NEW few, few = rest(part),
                 less = [node EXCEPT !.files = few, !.cut = TRUE]
          PROVE  /\ less \in Dirs /\ less.cut /\ less.copied = node.copied
                 /\ less.marker = node.marker /\ less.user = node.user
      <4>1. few \in files
        BY <2>4, <3>1
      <4> QED
        BY <2>1, <2>6, <3>1, <4>1
    <3>2. CASE less = [node EXCEPT !.marker = None, !.cut = TRUE]
      BY <2>1, <2>6, <3>2
    <3>3. CASE less = [node EXCEPT !.user = FALSE, !.cut = TRUE]
      BY <2>1, <2>6, <3>3
    <3> QED
      BY <2>3, <3>1, <3>2, <3>3
  <2> QED
    BY <1>2, <2>5 DEF Taken, Nodes
<1> QED
  BY <1>1, <1>2

\* The entry a call wants next.
LEMMA WantedType ==
    ASSUME NEW kind \in Kinds, NEW n \in DOMAIN Wanted[kind]
    PROVE  /\ Wanted[kind][n].source \in Sources /\ Wanted[kind][n].target \in Targets
           /\ Wanted[kind][n].mode \in {"symlink", "copy"}
BY WantedAssumption DEF Sources, Targets

----------------------------------------------------------------------------
\* What a step does to one call.

Others(n) ==
    /\ calls' \in Seq(CallRec)
    /\ DOMAIN calls' = DOMAIN calls /\ Len(calls') = Len(calls)
    /\ \A m \in DOMAIN calls : m # n => calls'[m] = calls[m]
    /\ calls'[n].kind = calls[n].kind /\ calls'[n].alone = calls[n].alone

\* What is only for the properties, but for what a call cannot remove.
Ghosts(call, old) == call.before = old.before /\ call.touched = old.touched

\* The call goes on with the plan it has.
GoesOn(n, step, at) ==
    /\ Others(n) /\ calls'[n].step = step /\ calls'[n].at = at
    /\ calls'[n].entries = calls[n].entries /\ calls'[n].outcome = calls[n].outcome
    /\ Ghosts(calls'[n], calls[n])

Goes(n, step, at) == GoesOn(n, step, at) /\ calls'[n].stuck = calls[n].stuck

\* The loop of apply goes on, with more of its targets created.
Advances(n, created) ==
    /\ calls'[n].created = created
    /\ \/ \E k \in DOMAIN calls[n].entries :
            /\ k > calls[n].at
            /\ \A j \in DOMAIN calls[n].entries :
                    j > calls[n].at /\ j < k =>
                        calls[n].entries[j].operation \notin {"create", "replace"}
            /\ \/ calls[n].entries[k].operation = "replace" /\ Goes(n, "stage", k)
               \/ calls[n].entries[k].operation = "create" /\ Goes(n, "create", k)
       \/ Own(n) = {} /\ Goes(n, "verify", calls[n].at)
       \/ Own(n) # {} /\ Goes(n, "discard", calls[n].at)

Finishes(n, outcome) ==
    /\ Others(n) /\ calls'[n].step = "done" /\ calls'[n].outcome = outcome
    /\ calls'[n].entries = <<>> /\ calls'[n].created = <<>>
    /\ calls[n].step # "done" /\ outcome # None
    /\ outcome \in {"refused", "verified"} => calls[n].step \in {"plan", "clean", "verify"}
    /\ calls[n].step \in {"discard", "verify"} => outcome \in {"verified", "unverified", "undiscarded"}
    /\ outcome = "failed" => calls[n].step = "undo" /\ calls[n].created = <<>>
                              /\ \A b \in Own(n) : ~(b[2] <= calls[n].at)

\* The plan has one entry more.
Planning(n, entry) ==
    /\ calls[n].step = "plan" /\ entry \in Entries
    /\ entry.operation = Operation(entry.source, entry)
    /\ Others(n) /\ calls'[n].step = "plan" /\ calls'[n].entries = Append(calls[n].entries, entry)
    /\ calls'[n].at = calls[n].at /\ calls'[n].created = calls[n].created
    /\ calls'[n].outcome = calls[n].outcome /\ Ghosts(calls'[n], calls[n])
    /\ calls'[n].stuck = calls[n].stuck
    /\ Len(calls[n].entries) + 1 \in DOMAIN Wanted[calls[n].kind]
    /\ entry.target = Wanted[calls[n].kind][Len(calls[n].entries) + 1].target

\* A step that leaves the disk alone.
Decides(n) ==
    /\ UNCHANGED <<source, disk, backups>>
    /\ \/ \E entry \in Entries : Planning(n, entry)
       \/ \E outcome \in Outcomes : Finishes(n, outcome)
       \/ calls'[n].created = calls[n].created /\
            \/ calls[n].step = "plan" /\ Goes(n, "verify", calls[n].at)
            \/ calls[n].step = "plan" /\ Goes(n, "clean", Len(calls[n].entries))
            \/ calls[n].step = "clean" /\ calls[n].at # 0 /\ Goes(n, "clean", calls[n].at - 1)
            \/ calls[n].step = "clean" /\ calls[n].at # 0 /\ MayRemove(n)
               /\ Goes(n, "remove", calls[n].at)
            \/ calls[n].step \in Looping /\ Goes(n, "undo", calls[n].at)
       \/ /\ calls[n].step = "plan" /\ calls[n].kind.op = "apply" /\ Permitted(calls[n])
          /\ Advances(n, calls[n].created)

Stages(n) ==
    /\ calls[n].step = "stage" /\ disk[Entry(n).target] # None
    /\ disk' = [disk EXCEPT ![Entry(n).target] = None]
    /\ backups' = Put(backups, <<n, calls[n].at>>,
                      [target |-> Entry(n).target, node |-> disk[Entry(n).target]])
    /\ Goes(n, "create", calls[n].at) /\ calls'[n].created = calls[n].created
    /\ UNCHANGED source

Grown(n) == Append(calls[n].created, Entry(n).target)

Linking(n) ==
    /\ calls[n].step = "create" /\ disk[Entry(n).target] = None
    /\ disk' = [disk EXCEPT ![Entry(n).target] = Link(Entry(n).source)]
    /\ Advances(n, Grown(n)) /\ UNCHANGED <<source, backups>>

OpensDir(n) ==
    /\ calls[n].step = "create"
    /\ disk' = [disk EXCEPT ![Entry(n).target] = IF @ = None THEN EmptyDir ELSE @]
    /\ Goes(n, "copy", calls[n].at) /\ calls'[n].todo = Parts
    /\ calls'[n].created = calls[n].created
    /\ UNCHANGED <<source, backups>>

\* One file, or the marker, is written to a directory, or else into a source.
Writes(n, node) ==
    \/ /\ IsDir(disk[Entry(n).target]) /\ UNCHANGED source
       /\ disk' = [disk EXCEPT ![Entry(n).target] = node]
    \/ /\ disk[Entry(n).target] # None /\ ~IsDir(disk[Entry(n).target]) /\ UNCHANGED disk
       /\ \E s \in Sources : source' = [source EXCEPT ![s] = 0]

WithPart(n, part) ==
    [disk[Entry(n).target] EXCEPT !.files = Put(@, part, source[Entry(n).source])]
WithMarker(n) == [disk[Entry(n).target] EXCEPT !.marker = Entry(n).source, !.copied = TRUE]

Copies(n) ==
    /\ calls[n].step = "copy" /\ UNCHANGED backups
    /\ \/ \E part \in calls[n].todo :
            /\ source[Entry(n).source] # None
            /\ Writes(n, WithPart(n, part)) /\ Goes(n, "copy", calls[n].at)
            /\ calls'[n].todo = calls[n].todo \ {part} /\ calls'[n].created = calls[n].created
       \/ calls[n].todo = {} /\ Writes(n, WithMarker(n)) /\ Advances(n, Grown(n))

\* What the rollback of a call takes next.
Latest(n) == Last(calls[n].created)

TakesBack(n) ==
    /\ calls[n].step = "undo" /\ calls[n].created # <<>> /\ UNCHANGED <<source, backups>>
    /\ Goes(n, "undo", calls[n].at)
    /\ \E less \in Nodes :
        /\ Taken(disk[Latest(n)], less) /\ disk' = [disk EXCEPT ![Latest(n)] = less]
        /\ calls'[n].created = IF less = None THEN Front(calls[n].created) ELSE calls[n].created

Leaves(n) ==
    /\ calls[n].step = "undo" /\ calls[n].created # <<>> /\ UNCHANGED <<source, disk, backups>>
    /\ GoesOn(n, "undo", calls[n].at) /\ calls'[n].created = Front(calls[n].created)
    /\ calls'[n].stuck = calls[n].stuck \cup {Latest(n)}

Restores(n) ==
    /\ calls[n].step = "undo" /\ calls[n].created = <<>> /\ UNCHANGED source
    /\ \E b \in Own(n) :
        /\ b[2] <= calls[n].at /\ b[2] > 0
        /\ \A c \in Own(n) : c[2] <= calls[n].at => c[2] <= b[2]
        /\ Goes(n, "undo", b[2] - 1) /\ calls'[n].created = <<>>
        /\ \/ /\ MayReplace(backups[b].node, disk[backups[b].target])
              /\ disk' = [disk EXCEPT ![backups[b].target] = backups[b].node]
              /\ backups' = Without(b)
           \/ /\ ~MayReplace(backups[b].node, disk[backups[b].target])
              /\ UNCHANGED <<disk, backups>>

Discards(n) ==
    /\ calls[n].step = "discard" /\ UNCHANGED <<source, disk>>
    /\ \E b \in Own(n) :
        \/ /\ backups' = Without(b)
           /\ \/ Goes(n, "discard", calls[n].at) /\ Own(n)' # {}
              \/ Goes(n, "verify", calls[n].at) /\ Own(n)' = {}
        \/ /\ Goes(n, "discard", calls[n].at)
           /\ \E less \in Nodes \ {None} : /\ Taken(backups[b].node, less)
                                           /\ backups' = [backups EXCEPT ![b].node = less]

Removes(n) ==
    /\ calls[n].step = "remove" /\ calls'[n].created = calls[n].created
    /\ UNCHANGED <<source, backups>>
    /\ \E less \in Nodes :
        /\ Taken(disk[Entry(n).target], less) /\ disk' = [disk EXCEPT ![Entry(n).target] = less]
        /\ \/ less = None /\ Goes(n, "clean", calls[n].at - 1)
           \/ less # None /\ Goes(n, "remove", calls[n].at)

Move(n) ==
    \/ Decides(n) \/ Stages(n) \/ Linking(n) \/ OpensDir(n) \/ Copies(n)
    \/ TakesBack(n) \/ Leaves(n) \/ Restores(n) \/ Discards(n) \/ Removes(n)

LEMMA CallFields ==
    ASSUME Typed, NEW n \in DOMAIN calls
    PROVE  /\ calls[n] \in CallRec /\ calls[n].kind \in Kinds /\ calls[n].entries \in Seq(Entries)
           /\ calls[n].step \in Steps
           /\ calls[n].at \in Nat /\ calls[n].created \in Seq(Targets) /\ calls[n].todo \subseteq Parts
           /\ calls[n].outcome \in Outcomes \cup {None}
           /\ calls[n].before \in [Targets -> Nodes] \cup {<<>>} /\ calls[n].alone \in BOOLEAN
           /\ calls[n].touched \subseteq Targets /\ calls[n].stuck \subseteq Targets
           /\ calls[n].kind.op \in {"plan", "verify", "clean", "apply"}
           /\ calls[n].kind.mode \in {"symlink", "copy"} /\ calls[n].kind.force \in BOOLEAN
<1>1. calls[n] \in CallRec
  BY DEF Typed
<1>2. calls[n].kind \in Kinds
  BY <1>1 DEF CallRec, Ghosts
<1> QED
  BY <1>1, <1>2, CallsAssumption DEF CallRec, Ghosts

LEMMA EntryFields ==
    ASSUME Typed, NEW n \in DOMAIN calls, calls[n].at \in DOMAIN calls[n].entries
    PROVE  /\ Entry(n) \in Entries /\ Entry(n).source \in Sources /\ Entry(n).target \in Targets
           /\ Entry(n).mode \in {"symlink", "copy"}
           /\ disk[Entry(n).target] \in Nodes /\ source[Entry(n).source] \in 0..MaxVersion \cup {None}
<1>1. Entry(n) \in Entries
  BY CallFields DEF Entry
<1> QED
  BY <1>1 DEF Entries, Typed

\* A call that ends.
LEMMA EndsShape ==
    ASSUME Typed, NEW n \in DOMAIN calls, NEW outcome \in Outcomes, Ends(n, outcome)
    PROVE  /\ Others(n) /\ calls'[n].step = "done" /\ calls'[n].outcome = outcome
           /\ calls'[n].entries = <<>> /\ calls'[n].created = <<>>
<1> DEFINE call == [calls[n] EXCEPT !.step = "done", !.outcome = outcome, !.entries = <<>>, !.at = 0,
                                    !.todo = {}, !.created = <<>>, !.before = <<>>,
                                    !.touched = {}, !.stuck = {}]
<1>1. calls[n] \in CallRec /\ calls \in Seq(CallRec)
  BY CallFields DEF Typed
<1> DEFINE nothing == <<>>
           empty   == {}
<1>5. nothing \in Seq(Entries) /\ nothing \in Seq(Targets) /\ empty \in SUBSET Parts
      /\ empty \in SUBSET Targets /\ nothing \in [Targets -> Nodes] \cup {<<>>} /\ 0 \in Nat /\ "done" \in Steps
  BY DEF Steps
<1> HIDE DEF nothing, empty
<1>6. [calls[n] EXCEPT !.step = "done", !.outcome = outcome, !.entries = nothing, !.at = 0,
                       !.todo = empty, !.created = nothing, !.before = nothing,
                       !.touched = empty, !.stuck = empty] \in CallRec
  BY <1>1, <1>5 DEF CallRec, Ghosts
<1>2. call \in CallRec
  BY <1>6 DEF nothing, empty
<1>3. /\ call.kind = calls[n].kind /\ call.alone = calls[n].alone /\ call.step = "done"
      /\ call.outcome = outcome /\ call.entries = <<>> /\ call.created = <<>>
  BY <1>1 DEF CallRec, Ghosts
<1>4. Set(n, call)
  BY DEF Ends
<1> HIDE DEF call
<1> QED
  BY <1>1, <1>2, <1>3, <1>4, SetCall DEF Others

\* A call that goes on with its plan, from a record that differs from it in where it is.
LEMMA GoesShape ==
    ASSUME Typed, NEW n \in DOMAIN calls, NEW call \in CallRec, Set(n, call),
           call.kind = calls[n].kind, call.alone = calls[n].alone,
           call.entries = calls[n].entries, call.outcome = calls[n].outcome,
           Ghosts(call, calls[n]), call.stuck = calls[n].stuck
    PROVE  /\ Goes(n, call.step, call.at)
           /\ calls'[n].created = call.created /\ calls'[n].todo = call.todo
<1>1. calls \in Seq(CallRec)
  BY DEF Typed
<1> QED
  BY <1>1, SetCall DEF Goes, GoesOn, Others

\* The next entry the loop of apply goes to.
LEMMA OnwardShape ==
    ASSUME Typed, NEW n \in DOMAIN calls, NEW call \in CallRec, Set(n, Onward(n, call)),
           call.kind = calls[n].kind, call.alone = calls[n].alone, call.at = calls[n].at,
           call.entries = calls[n].entries, call.outcome = calls[n].outcome,
           Ghosts(call, calls[n]), call.stuck = calls[n].stuck
    PROVE  Advances(n, call.created)
<1> DEFINE left == {k \in DOMAIN call.entries :
                        k > call.at /\ call.entries[k].operation \in {"create", "replace"}}
           k    == Min(left)
           to   == IF call.entries[k].operation = "replace" THEN "stage" ELSE "create"
           next == [call EXCEPT !.at = k, !.step = to]
           last == IF Own(n) = {} THEN "verify" ELSE "discard"
           end  == [call EXCEPT !.step = last]
<1>1. call.entries \in Seq(Entries) /\ call.at \in Nat
  BY DEF CallRec, Ghosts
<1>2. CASE left # {}
  <2>1. left \subseteq Nat
    BY <1>1
  <2>2. \E x \in left : \A y \in left : x <= y
    BY <1>2, <2>1, Least
  <2>3. k \in left
    BY <2>2 DEF Min
  <2> HIDE DEF k
  <2>4. k \in Nat /\ to \in {"stage", "create"}
    BY <2>1, <2>3
  <2> HIDE DEF to
  <2>5. next \in CallRec
    BY <2>4 DEF CallRec, Ghosts, Steps
  <2>6. /\ next.kind = call.kind /\ next.alone = call.alone /\ next.entries = call.entries
        /\ next.outcome = call.outcome /\ next.created = call.created
        /\ Ghosts(next, call) /\ next.stuck = call.stuck
        /\ next.at = k /\ next.step = to
    BY DEF CallRec, Ghosts
  <2>7. Onward(n, call) = next
    BY <1>2 DEF Onward, k, to
  <2> HIDE DEF next
  <2>8. Goes(n, to, k) /\ calls'[n].created = call.created
    BY <2>5, <2>6, <2>7, GoesShape DEF Ghosts
  <2>9. k \in DOMAIN calls[n].entries /\ k > calls[n].at
        /\ calls[n].entries[k].operation \in {"create", "replace"}
    BY <2>3
  <2>11. \A j \in DOMAIN calls[n].entries :
            j > calls[n].at /\ j < k => calls[n].entries[j].operation \notin {"create", "replace"}
    <3>1. \A j \in left : k <= j
      BY <2>2 DEF k, Min
    <3>2. \A j \in DOMAIN calls[n].entries : j \in Nat
      BY <1>1
    <3> QED
      BY <2>4, <3>1, <3>2
  <2>10. to = IF calls[n].entries[k].operation = "replace" THEN "stage" ELSE "create"
    BY DEF to
  <2> QED
    BY <2>8, <2>9, <2>10, <2>11 DEF Advances
<1>3. CASE left = {}
  <2>1. last \in {"verify", "discard"}
    OBVIOUS
  <2> HIDE DEF last
  <2>2. end \in CallRec
    BY <2>1 DEF CallRec, Ghosts, Steps
  <2>3. /\ end.kind = call.kind /\ end.alone = call.alone /\ end.entries = call.entries
        /\ end.outcome = call.outcome /\ end.created = call.created
        /\ Ghosts(end, call) /\ end.stuck = call.stuck
        /\ end.at = call.at /\ end.step = last
    BY DEF CallRec, Ghosts
  <2>4. Onward(n, call) = end
    BY <1>3 DEF Onward, last
  <2> HIDE DEF end
  <2>5. Goes(n, last, calls[n].at) /\ calls'[n].created = call.created
    BY <2>2, <2>3, <2>4, GoesShape DEF Ghosts
  <2> QED
    BY <2>5 DEF Advances, last
<1> QED
  BY <1>2, <1>3

----------------------------------------------------------------------------
\* The invariants.

\* A call that runs and has the disk for itself is the only one that runs.
AloneInv ==
    \A n \in DOMAIN calls : Running(n) /\ calls[n].alone =>
        \A m \in DOMAIN calls : Running(m) => m = n

\* A directory with a marker has every file, or a removal took some.
Whole(node) ==
    IsDir(node) /\ node.marker # None /\ ~MayLack(node) => DOMAIN node.files = Parts

\* A call that can only take away, or look.
Idle == {"undo", "clean", "remove", "verify", "discard", "done"}

\* A copy has in its directory what it need not write any more, or it writes through
\* a link, or the one other call took the directory away and will make none.
CopyInv(n) ==
    calls[n].step = "copy" =>
        LET there == disk[Entry(n).target]
        IN  \/ IsDir(there) /\ (MayLack(there) \/ Parts \ calls[n].todo \subseteq DOMAIN there.files)
            \/ there # None /\ ~IsDir(there)
            \/ /\ there = None /\ Overlapped
               /\ \E m \in DOMAIN calls : m # n
               /\ \A m \in DOMAIN calls : m # n => calls[m].step \in Idle

WholeInv ==
    Undisturbed =>
        /\ \A t \in Targets : Whole(disk[t])
        /\ \A b \in DOMAIN backups : Whole(backups[b].node)
        /\ \A n \in DOMAIN calls : CopyInv(n)

----------------------------------------------------------------------------
\* Every step of a call is one of the moves.

\* The next entry is planned, or the plan is refused.
LEMMA PlanMoves ==
    ASSUME TypeInv, NEW n \in DOMAIN calls, PlanEntry(n)
    PROVE  Decides(n)
<1> DEFINE want  == Wanted[calls[n].kind][Len(calls[n].entries) + 1]
           s     == want.source
           entry == [source |-> s, target |-> want.target, mode |-> want.mode,
                     operation |-> Operation(s, want)]
           call  == [calls[n] EXCEPT !.entries = Append(@, entry)]
<1>1. Typed /\ calls[n] \in CallRec /\ calls \in Seq(CallRec) /\ calls[n].kind \in Kinds
      /\ calls[n].entries \in Seq(Entries)
  BY CallFields DEF TypeInv, Typed
<1>2. calls[n].step = "plan" /\ UNCHANGED <<source, disk, backups>>
  BY DEF PlanEntry, Going
<1>3. Len(calls[n].entries) + 1 \in DOMAIN Wanted[calls[n].kind]
  <2>1. Len(calls[n].entries) < Len(Wanted[calls[n].kind])
    BY DEF PlanEntry, Plans
  <2> QED
    BY <1>1, <2>1, WantedAssumption
<1>4. s \in Sources /\ want.target \in Targets /\ want.mode \in {"symlink", "copy"}
  BY <1>1, <1>3, WantedType
<1>5. Operation(s, want) \in {"skip", "keep", "replace", "create"}
  BY DEF Operation
<1>6. Ends(n, "refused") \/ Set(n, call)
  BY DEF PlanEntry
<1>7. CASE Ends(n, "refused")
  <2>1. "refused" \in Outcomes /\ "refused" # None
    BY PlacesAssumption DEF Outcomes
  <2> QED
    BY <1>1, <1>2, <1>7, <2>1, EndsShape DEF Decides, Finishes
<1>8. CASE Set(n, call)
  <2> HIDE DEF want
  <2>1. entry \in Entries
    BY <1>4, <1>5 DEF Entries
  <2>2. entry.operation = Operation(entry.source, entry) /\ entry.target = want.target
    BY DEF Operation, Matches
  <2> HIDE DEF entry
  <2> DEFINE more == Append(calls[n].entries, entry)
  <2>3. more \in Seq(Entries)
    BY <1>1, <2>1
  <2>4. call = [calls[n] EXCEPT !.entries = more]
    BY <1>1 DEF CallRec, Ghosts
  <2> HIDE DEF more, call
  <2>5. call \in CallRec
    BY <1>1, <2>3, <2>4 DEF CallRec, Ghosts
  <2>6. /\ call.kind = calls[n].kind /\ call.alone = calls[n].alone /\ call.step = calls[n].step
        /\ call.at = calls[n].at /\ call.created = calls[n].created
        /\ call.outcome = calls[n].outcome /\ call.entries = more /\ Ghosts(call, calls[n]) /\ call.stuck = calls[n].stuck
    BY <1>1, <2>4 DEF CallRec, Ghosts
  <2>7. calls'[n] = call /\ Others(n)
    BY <1>1, <1>8, <2>5, <2>6, SetCall DEF Others
  <2>8. Planning(n, entry)
    BY <1>2, <1>3, <2>1, <2>2, <2>6, <2>7 DEF Planning, more, want
  <2> QED
    BY <1>2, <2>1, <2>8 DEF Decides
<1> QED
  BY <1>6, <1>7, <1>8

\* A call that ends without more.
LEMMA EndMoves ==
    ASSUME Typed, NEW n \in DOMAIN calls, NEW outcome \in Outcomes, Ends(n, outcome),
           calls[n].step # "done", UNCHANGED <<source, disk, backups>>,
           outcome \in {"refused", "verified"} => calls[n].step \in {"plan", "clean", "verify"},
           calls[n].step \in {"discard", "verify"} =>
                outcome \in {"verified", "unverified", "undiscarded"},
           outcome = "failed" => /\ calls[n].step = "undo" /\ calls[n].created = <<>>
                                 /\ \A b \in Own(n) : ~(b[2] <= calls[n].at)
    PROVE  Decides(n)
BY EndsShape, PlacesAssumption DEF Decides, Finishes

\* A call that is only somewhere else in its plan.
LEMMA StepShape ==
    ASSUME Typed, NEW n \in DOMAIN calls, NEW step \in Steps, NEW at \in Nat,
           Set(n, [calls[n] EXCEPT !.step = step, !.at = at])
    PROVE  Goes(n, step, at) /\ calls'[n].created = calls[n].created /\ calls'[n].todo = calls[n].todo
<1> DEFINE call == [calls[n] EXCEPT !.step = step, !.at = at]
<1>1. calls[n] \in CallRec
  BY CallFields
<1>2. call \in CallRec
  BY <1>1 DEF CallRec, Ghosts
<1>3. /\ call.kind = calls[n].kind /\ call.alone = calls[n].alone /\ call.step = step /\ call.at = at
      /\ call.entries = calls[n].entries /\ call.outcome = calls[n].outcome
      /\ call.created = calls[n].created /\ call.todo = calls[n].todo /\ Ghosts(call, calls[n]) /\ call.stuck = calls[n].stuck
  BY <1>1 DEF CallRec, Ghosts
<1> HIDE DEF call
<1>4. Set(n, call)
  BY DEF call
<1> QED
  BY <1>2, <1>3, <1>4, GoesShape

\* An EXCEPT that leaves a field as it is.
LEMMA StaysAt ==
    ASSUME NEW call \in CallRec, NEW step
    PROVE  /\ [call EXCEPT !.step = step] = [call EXCEPT !.step = step, !.at = call.at]
           /\ \A at : [call EXCEPT !.at = at] = [call EXCEPT !.step = call.step, !.at = at]
BY DEF CallRec, Ghosts

LEMMA PlannedMoves ==
    ASSUME TypeInv, NEW n \in DOMAIN calls, Planned(n)
    PROVE  Decides(n)
<1>1. Typed /\ calls[n] \in CallRec /\ calls[n].entries \in Seq(Entries) /\ calls[n].at \in Nat
      /\ calls[n].kind.op \in {"plan", "verify", "clean", "apply"} /\ Len(calls[n].entries) \in Nat
  BY CallFields DEF TypeInv
<1>2. calls[n].step = "plan" /\ UNCHANGED <<source, disk, backups>>
  BY DEF Planned, Going
<1>3. \/ Ends(n, "planned") \/ Ends(n, "refused")
      \/ Set(n, [calls[n] EXCEPT !.step = "verify"])
      \/ Set(n, [calls[n] EXCEPT !.step = "clean", !.at = Len(calls[n].entries)])
      \/ Set(n, Onward(n, calls[n])) /\ calls[n].kind.op = "apply" /\ Permitted(calls[n])
  BY <1>1 DEF Planned
<1>4. CASE Ends(n, "planned") \/ Ends(n, "refused")
  BY <1>1, <1>2, <1>4, EndMoves DEF Outcomes
<1>5. CASE Set(n, [calls[n] EXCEPT !.step = "verify"])
  <2>1. Set(n, [calls[n] EXCEPT !.step = "verify", !.at = calls[n].at])
    BY <1>1, <1>5, StaysAt
  <2>2. "verify" \in Steps
    BY DEF Steps
  <2> QED
    BY <1>1, <1>2, <2>1, <2>2, StepShape DEF Decides
<1>6. CASE Set(n, [calls[n] EXCEPT !.step = "clean", !.at = Len(calls[n].entries)])
  <2>1. "clean" \in Steps
    BY DEF Steps
  <2> QED
    BY <1>1, <1>2, <1>6, <2>1, StepShape DEF Decides
<1>7. CASE Set(n, Onward(n, calls[n])) /\ calls[n].kind.op = "apply" /\ Permitted(calls[n])
  BY <1>1, <1>2, <1>7, OnwardShape DEF Decides, Ghosts
<1> QED
  BY <1>3, <1>4, <1>5, <1>6, <1>7

LEMMA StageMoves ==
    ASSUME TypeInv, NEW n \in DOMAIN calls, Stage(n)
    PROVE  Stages(n)
<1>1. Typed /\ calls[n] \in CallRec /\ calls[n].at \in Nat
  BY CallFields DEF TypeInv
<1>2. Set(n, [calls[n] EXCEPT !.step = "create", !.at = calls[n].at])
  BY <1>1, StaysAt DEF Stage
<1>3. "create" \in Steps
  BY DEF Steps
<1>4. Goes(n, "create", calls[n].at) /\ calls'[n].created = calls[n].created
  BY <1>1, <1>2, <1>3, StepShape
<1> QED
  BY <1>4 DEF Stage, Stages, Going

\* One entry is there, and the loop goes on.
LEMMA CreatedShape ==
    ASSUME TypeInv, NEW n \in DOMAIN calls, calls[n].step \in Looping, Created(n)
    PROVE  Advances(n, Grown(n))
<1> DEFINE grown == Grown(n)
           call  == [calls[n] EXCEPT !.created = grown]
<1>1. Typed /\ calls[n] \in CallRec /\ calls[n].created \in Seq(Targets)
      /\ calls[n].at \in DOMAIN calls[n].entries
  BY CallFields DEF TypeInv, Placed
<1>2. Entry(n).target \in Targets
  BY <1>1, EntryFields
<1>3. grown \in Seq(Targets)
  BY <1>1, <1>2 DEF Grown
<1>4. [calls[n] EXCEPT !.created = Append(@, Entry(n).target)] = call
  BY <1>1 DEF CallRec, Ghosts, Grown
<1>5. Set(n, Onward(n, call))
  BY <1>4 DEF Created
<1> HIDE DEF grown
<1>6. call \in CallRec
  BY <1>1, <1>3 DEF CallRec, Ghosts
<1>7. /\ call.kind = calls[n].kind /\ call.alone = calls[n].alone /\ call.at = calls[n].at
      /\ call.entries = calls[n].entries /\ call.outcome = calls[n].outcome /\ call.created = grown
      /\ Ghosts(call, calls[n]) /\ call.stuck = calls[n].stuck
  BY <1>1 DEF CallRec, Ghosts
<1> HIDE DEF call
<1>8. Advances(n, call.created)
  BY <1>1, <1>5, <1>6, <1>7, OnwardShape
<1> QED
  BY <1>7, <1>8 DEF grown

LEMMA CreateMoves ==
    ASSUME TypeInv, NEW n \in DOMAIN calls, CreateLink(n) \/ CreateDir(n)
    PROVE  Linking(n) \/ OpensDir(n)
<1>1. CASE CreateLink(n)
  BY <1>1, CreatedShape DEF CreateLink, Linking, Going, Looping
<1>2. CASE CreateDir(n)
  <2> DEFINE call == [calls[n] EXCEPT !.step = "copy", !.todo = Parts]
  <2>1. Typed /\ calls[n] \in CallRec
    BY CallFields DEF TypeInv
  <2>2. call \in CallRec
    BY <2>1 DEF CallRec, Ghosts, Steps
  <2>3. /\ call.kind = calls[n].kind /\ call.alone = calls[n].alone /\ call.step = "copy"
        /\ call.at = calls[n].at /\ call.entries = calls[n].entries /\ call.todo = Parts
        /\ call.outcome = calls[n].outcome /\ call.created = calls[n].created
        /\ Ghosts(call, calls[n]) /\ call.stuck = calls[n].stuck
    BY <2>1 DEF CallRec, Ghosts
  <2>4. Set(n, call)
    BY <1>2 DEF CreateDir
  <2> HIDE DEF call
  <2>5. Goes(n, "copy", calls[n].at) /\ calls'[n].todo = Parts /\ calls'[n].created = calls[n].created
    BY <2>1, <2>2, <2>3, <2>4, GoesShape
  <2> QED
    BY <1>2, <2>5 DEF CreateDir, OpensDir, Going
<1> QED
  BY <1>1, <1>2

\* What a copy writes.
LEMMA WriteShape ==
    ASSUME TypeInv, NEW n \in DOMAIN calls, calls[n].step = "copy", NEW node, Write(n, node)
    PROVE  Writes(n, node)
<1>1. Typed /\ calls[n].at \in DOMAIN calls[n].entries
  BY DEF TypeInv, Placed, Looping
<1>2. disk[Entry(n).target] \in Nodes
  BY <1>1, EntryFields
<1>3. CASE IsDir(disk[Entry(n).target])
  BY <1>3 DEF Write, Writes
<1>4. CASE ~IsDir(disk[Entry(n).target])
  <2>1. PICK s \in Sources : disk[Entry(n).target] = Link(s)
    BY <1>2, <1>4, NodeTypes DEF Write
  <2>2. disk[Entry(n).target].to = s
    BY <2>1 DEF Link
  <2> QED
    BY <1>4, <2>2 DEF Write, Writes
<1> QED
  BY <1>3, <1>4

LEMMA CopyMoves ==
    ASSUME TypeInv, NEW n \in DOMAIN calls,
           (\E part \in Parts : CopyPart(n, part)) \/ WriteMarker(n)
    PROVE  Copies(n)
<1>1. Typed /\ calls[n] \in CallRec /\ calls[n].todo \subseteq Parts /\ calls[n].step = "copy"
  BY CallFields DEF TypeInv, CopyPart, WriteMarker, Going
<1>2. ASSUME NEW part \in Parts, CopyPart(n, part) PROVE Copies(n)
  <2> DEFINE rest == calls[n].todo \ {part}
             call == [calls[n] EXCEPT !.todo = rest]
  <2>1. rest \subseteq Parts
    BY <1>1
  <2>2. Set(n, call)
    <3>1. [calls[n] EXCEPT !.todo = @ \ {part}] = call
      BY <1>1 DEF CallRec, Ghosts
    <3> QED
      BY <1>2, <3>1 DEF CopyPart
  <2> HIDE DEF rest
  <2>3. call \in CallRec
    BY <1>1, <2>1 DEF CallRec, Ghosts
  <2>4. /\ call.kind = calls[n].kind /\ call.alone = calls[n].alone /\ call.step = "copy"
        /\ call.at = calls[n].at /\ call.entries = calls[n].entries /\ call.todo = rest
        /\ call.outcome = calls[n].outcome /\ call.created = calls[n].created
        /\ Ghosts(call, calls[n]) /\ call.stuck = calls[n].stuck
    BY <1>1 DEF CallRec, Ghosts
  <2> HIDE DEF call
  <2>5. Goes(n, "copy", calls[n].at) /\ calls'[n].todo = rest /\ calls'[n].created = calls[n].created
    BY <1>1, <2>2, <2>3, <2>4, GoesShape
  <2>6. Writes(n, WithPart(n, part))
    <3>1. Write(n, WithPart(n, part))
      BY <1>2 DEF CopyPart, WithPart
    <3> QED
      BY <1>1, <3>1, WriteShape
  <2> QED
    BY <1>1, <1>2, <2>5, <2>6 DEF Copies, CopyPart, rest
<1>3. CASE WriteMarker(n)
  <2>1. Writes(n, WithMarker(n))
    BY <1>1, <1>3, WriteShape DEF WriteMarker, Marked, WithMarker
  <2>2. Advances(n, Grown(n))
    BY <1>1, <1>3, CreatedShape DEF WriteMarker, Looping
  <2> QED
    BY <1>1, <1>3, <2>1, <2>2 DEF Copies, WriteMarker
<1> QED
  BY <1>2, <1>3

\* A non-empty set of numbers with a bound has a greatest one.
LEMMA Greatest ==
    ASSUME NEW T, T \subseteq Nat, T # {}, NEW bound \in Nat, \A x \in T : x <= bound
    PROVE  \E x \in T : \A y \in T : y <= x
<1> DEFINE gaps == {gap \in Nat : \E x \in T : gap = bound - x}
<1>1. gaps # {}
  <2>1. PICK x \in T : TRUE
    OBVIOUS
  <2>2. bound - x \in Nat
    <3>1. x \in Nat /\ x <= bound
      BY <2>1
    <3> QED
      BY <3>1
  <2> QED
    BY <2>1, <2>2
<1>2. PICK gap \in gaps : \A other \in gaps : gap <= other
  BY <1>1, Least
<1>3. PICK x \in T : gap = bound - x
  BY <1>2
<1>4. ASSUME NEW y \in T PROVE y <= x
  <2>1. y \in Nat /\ y <= bound /\ x \in Nat
    BY <1>4
  <2>2. bound - y \in gaps
    BY <1>4, <2>1
  <2>3. gap <= bound - y
    BY <1>2, <2>2
  <2> QED
    BY <1>3, <2>1, <2>3
<1> QED
  BY <1>4

LEMMA FailMoves ==
    ASSUME TypeInv, NEW n \in DOMAIN calls, Fail(n)
    PROVE  Decides(n)
<1>1. Typed /\ calls[n] \in CallRec /\ calls[n].at \in Nat /\ "undo" \in Steps
  BY CallFields DEF TypeInv, Steps
<1>2. Set(n, [calls[n] EXCEPT !.step = "undo", !.at = calls[n].at])
  BY <1>1, StaysAt DEF Fail
<1>3. Goes(n, "undo", calls[n].at) /\ calls'[n].created = calls[n].created
  BY <1>1, <1>2, StepShape
<1> QED
  BY <1>3 DEF Fail, Decides, Looping

\* All but the last of a list.
LEMMA FrontType ==
    ASSUME NEW T, NEW s \in Seq(T), s # <<>>
    PROVE  /\ Last(s) \in T /\ Last(s) = s[Len(s)] /\ Front(s) \in Seq(T) /\ Len(s) \in Nat \ {0}
           /\ DOMAIN Front(s) = 1..(Len(s) - 1) /\ DOMAIN s = 1..Len(s)
           /\ \A k \in 1..(Len(s) - 1) : Front(s)[k] = s[k]
<1>1. Len(s) \in Nat \ {0} /\ DOMAIN s = 1..Len(s)
  OBVIOUS
<1>2. Front(s) = SubSeq(s, 1, Len(s) - 1)
  BY DEF Front
<1>3. Last(s) = s[Len(s)] /\ s[Len(s)] \in T
  BY <1>1 DEF Last
<1> QED
  BY <1>1, <1>2, <1>3

\* A step that leaves the call as it is.
LEMMA StaysShape ==
    ASSUME Typed, NEW n \in DOMAIN calls, UNCHANGED calls
    PROVE  Goes(n, calls[n].step, calls[n].at) /\ calls'[n].created = calls[n].created
BY DEF Typed, Goes, GoesOn, Others, Ghosts

\* The last of what was created is taken off the list.
LEMMA FrontShape ==
    ASSUME Typed, NEW n \in DOMAIN calls, calls[n].created # <<>>, NEW stuck \in SUBSET Targets,
           Set(n, [calls[n] EXCEPT !.created = Front(calls[n].created), !.stuck = stuck])
    PROVE  /\ GoesOn(n, calls[n].step, calls[n].at) /\ calls'[n].created = Front(calls[n].created)
           /\ calls'[n].stuck = stuck
<1> DEFINE front == Front(calls[n].created)
           call  == [calls[n] EXCEPT !.created = front, !.stuck = stuck]
<1>1. calls[n] \in CallRec /\ calls[n].created \in Seq(Targets) /\ calls \in Seq(CallRec)
  BY CallFields DEF Typed
<1>2. front \in Seq(Targets)
  BY <1>1, FrontType
<1> HIDE DEF front
<1>3. call \in CallRec
  BY <1>1, <1>2 DEF CallRec
<1>4. /\ call.kind = calls[n].kind /\ call.alone = calls[n].alone /\ call.step = calls[n].step
      /\ call.at = calls[n].at /\ call.entries = calls[n].entries
      /\ call.outcome = calls[n].outcome /\ call.created = front /\ Ghosts(call, calls[n])
      /\ call.stuck = stuck
  BY <1>1 DEF CallRec, Ghosts
<1>5. Set(n, call)
  BY DEF front
<1> HIDE DEF call
<1> QED
  BY <1>1, <1>3, <1>4, <1>5, SetCall DEF GoesOn, Others, front

LEMMA UndoMoves ==
    ASSUME TypeInv, NEW n \in DOMAIN calls, UndoCreated(n)
    PROVE  TakesBack(n)
<1>1. /\ Typed /\ calls[n] \in CallRec /\ calls[n].created \in Seq(Targets)
      /\ calls[n].stuck \subseteq Targets /\ calls[n].step = "undo" /\ calls[n].created # <<>>
  BY CallFields DEF TypeInv, UndoCreated, Going
<1>2. disk[Latest(n)] \in Nodes
  BY <1>1, FrontType DEF Latest, Typed
<1>3. PICK less \in Removals(disk[Latest(n)]) :
            /\ disk' = [disk EXCEPT ![Latest(n)] = less]
            /\ IF less = None THEN Set(n, [calls[n] EXCEPT !.created = Front(@)])
                              ELSE UNCHANGED calls
  BY DEF UndoCreated, Latest
<1>4. less \in Nodes /\ Taken(disk[Latest(n)], less)
  BY <1>2, RemovalTypes
<1>5. CASE less = None
  <2>1. [calls[n] EXCEPT !.created = Front(@)]
            = [calls[n] EXCEPT !.created = Front(calls[n].created), !.stuck = calls[n].stuck]
    BY <1>1 DEF CallRec
  <2>2. /\ GoesOn(n, "undo", calls[n].at) /\ calls'[n].created = Front(calls[n].created)
        /\ calls'[n].stuck = calls[n].stuck
    <3>1. Set(n, [calls[n] EXCEPT !.created = Front(calls[n].created), !.stuck = calls[n].stuck])
      BY <1>3, <1>5, <2>1
    <3>2. calls[n].stuck \in SUBSET Targets
      BY <1>1
    <3> QED
      BY <1>1, <3>1, <3>2, FrontShape
  <2> QED
    BY <1>1, <1>3, <1>4, <1>5, <2>2 DEF TakesBack, Goes, UndoCreated
<1>6. CASE less # None
  BY <1>1, <1>3, <1>4, <1>6, StaysShape DEF TakesBack, UndoCreated
<1> QED
  BY <1>5, <1>6

LEMMA LeaveMoves ==
    ASSUME TypeInv, NEW n \in DOMAIN calls, LeaveCreated(n)
    PROVE  Leaves(n)
<1>1. /\ Typed /\ calls[n] \in CallRec /\ calls[n].created \in Seq(Targets)
      /\ calls[n].stuck \subseteq Targets /\ calls[n].step = "undo" /\ calls[n].created # <<>>
  BY CallFields DEF TypeInv, LeaveCreated, Going
<1> DEFINE stuck == calls[n].stuck \cup {Latest(n)}
<1>2. stuck \in SUBSET Targets
  BY <1>1, FrontType DEF Latest
<1>3. [calls[n] EXCEPT !.created = Front(@), !.stuck = @ \cup {Last(calls[n].created)}]
        = [calls[n] EXCEPT !.created = Front(calls[n].created), !.stuck = stuck]
  BY <1>1 DEF CallRec, Latest
<1>4. Set(n, [calls[n] EXCEPT !.created = Front(calls[n].created), !.stuck = stuck])
  BY <1>3 DEF LeaveCreated
<1> HIDE DEF stuck
<1>5. /\ GoesOn(n, "undo", calls[n].at) /\ calls'[n].created = Front(calls[n].created)
      /\ calls'[n].stuck = stuck
  BY <1>1, <1>2, <1>4, FrontShape
<1> QED
  BY <1>1, <1>5 DEF Leaves, LeaveCreated, stuck

\* The backups of a call.
LEMMA OwnType ==
    ASSUME TypeInv, NEW n \in DOMAIN calls
    PROVE  /\ IsFiniteSet(Own(n)) /\ Own(n) \subseteq DOMAIN backups
           /\ \A b \in Own(n) : /\ b \in Nat \X Nat /\ b[1] = n /\ b = <<n, b[2]>> /\ b[2] \in Nat
                                /\ backups[b].target \in Targets /\ backups[b].node \in Nodes \ {None}
<1>1. Own(n) \subseteq DOMAIN backups
  BY DEF Own
<1>2. IsFiniteSet(Own(n))
  BY <1>1, FS_Subset DEF TypeInv, Typed
<1>3. ASSUME NEW b \in Own(n) PROVE b \in Nat \X Nat /\ b[1] = n /\ b = <<n, b[2]>> /\ b[2] \in Nat
  BY <1>1 DEF TypeInv, Typed, Own
<1>4. \A b \in DOMAIN backups : backups[b] \in [target : Targets, node : Nodes \ {None}]
  BY DEF TypeInv, Typed
<1> QED
  BY <1>1, <1>2, <1>3, <1>4

LEMMA RestoreMoves ==
    ASSUME TypeInv, NEW n \in DOMAIN calls, RestoreBackup(n)
    PROVE  Restores(n) \/ Decides(n)
<1> DEFINE left == {b \in Own(n) : b[2] <= calls[n].at}
           b    == CHOOSE x \in left : \A c \in left : c[2] <= x[2]
<1>1. Typed /\ calls[n] \in CallRec /\ calls[n].at \in Nat
  BY CallFields DEF TypeInv
<1>2. calls[n].step = "undo" /\ calls[n].created = <<>> /\ UNCHANGED source
  BY DEF RestoreBackup, Going
<1>3. CASE left = {}
  <2>1. Ends(n, "failed") /\ UNCHANGED <<disk, backups>> /\ \A x \in Own(n) : ~(x[2] <= calls[n].at)
    BY <1>3 DEF RestoreBackup
  <2>2. "failed" \in Outcomes
    BY DEF Outcomes
  <2> QED
    BY <1>1, <1>2, <2>1, <2>2, EndMoves
<1>4. CASE left # {}
  <2> DEFINE places == {k \in Nat : \E c \in left : k = c[2]}
  <2>1. \A c \in left : c[2] \in places /\ c[2] \in Nat /\ c[2] <= calls[n].at
    BY OwnType
  <2>2. places # {}
    BY <1>4, <2>1
  <2>3. \E k \in places : \A m \in places : m <= k
    BY <1>1, <2>1, <2>2, Greatest
  <2>4. \E x \in left : \A c \in left : c[2] <= x[2]
    BY <2>1, <2>3
  <2>5. b \in left /\ \A c \in left : c[2] <= b[2]
    BY <2>4
  <2>6. /\ IF MayReplace(backups[b].node, disk[backups[b].target])
           THEN /\ disk'    = [disk EXCEPT ![backups[b].target] = backups[b].node]
                /\ backups' = Without(b)
           ELSE UNCHANGED <<disk, backups>>
        /\ Set(n, [calls[n] EXCEPT !.at = b[2] - 1])
    BY <1>4 DEF RestoreBackup
  <2> HIDE DEF b
  <2>7. b \in Own(n) /\ b[2] <= calls[n].at /\ b[2] \in Nat
    BY <2>1, <2>5
  <2>8. b[2] > 0
    BY <2>7 DEF TypeInv, Backed
  <2>9. b[2] - 1 \in Nat /\ "undo" \in Steps
    BY <2>7, <2>8 DEF Steps
  <2>10. Set(n, [calls[n] EXCEPT !.step = "undo", !.at = b[2] - 1])
    BY <1>1, <1>2, <2>6, StaysAt
  <2>11. Goes(n, "undo", b[2] - 1) /\ calls'[n].created = <<>>
    BY <1>1, <1>2, <2>9, <2>10, StepShape
  <2>12. \A c \in Own(n) : c[2] <= calls[n].at => c[2] <= b[2]
    BY <2>5
  <2> QED
    BY <1>2, <2>6, <2>7, <2>8, <2>11, <2>12 DEF Restores
<1> QED
  BY <1>3, <1>4

LEMMA DiscardMoves ==
    ASSUME TypeInv, NEW n \in DOMAIN calls, Discard(n)
    PROVE  Discards(n) \/ Decides(n)
<1> DEFINE b  == CHOOSE x \in Own(n) : \A c \in Own(n) : x[2] <= c[2]
           to == IF Cardinality(Own(n)) = 1 THEN "verify" ELSE calls[n].step
<1>1. Typed /\ calls[n] \in CallRec /\ calls[n].at \in Nat /\ calls[n].step = "discard"
  BY CallFields DEF TypeInv, Discard, Going
<1>2. Own(n) # {} /\ UNCHANGED <<source, disk>>
  BY <1>1 DEF TypeInv, Placed, Discard
<1>3. CASE Ends(n, "undiscarded") /\ UNCHANGED backups
  <2>1. "undiscarded" \in Outcomes
    BY DEF Outcomes
  <2> QED
    BY <1>1, <1>2, <1>3, <2>1, EndMoves
<1>5. b \in Own(n)
  <2> DEFINE places == {k \in Nat : \E c \in Own(n) : k = c[2]}
  <2>1. \A c \in Own(n) : c[2] \in places
    BY OwnType
  <2>2. places # {}
    BY <1>2, <2>1
  <2>3. \E k \in places : \A m \in places : k <= m
    BY <2>2, Least
  <2>4. \E x \in Own(n) : \A c \in Own(n) : x[2] <= c[2]
    BY <2>1, <2>3
  <2> QED
    BY <2>4
<1>6. \/ Ends(n, "undiscarded") /\ UNCHANGED backups
      \/ \E less \in Removals(backups[b].node) :
            IF less = None THEN backups' = Without(b) /\ Set(n, [calls[n] EXCEPT !.step = to])
                           ELSE backups' = [backups EXCEPT ![b].node = less] /\ UNCHANGED calls
  <2>1. [calls[n] EXCEPT !.step = IF Cardinality(Own(n)) = 1 THEN "verify" ELSE @]
            = [calls[n] EXCEPT !.step = to]
    BY <1>1 DEF CallRec
  <2> QED
    BY <2>1 DEF Discard
<1>7. CASE \E less \in Removals(backups[b].node) :
                less # None /\ backups' = [backups EXCEPT ![b].node = less] /\ UNCHANGED calls
  <2>1. PICK less \in Removals(backups[b].node) :
            less # None /\ backups' = [backups EXCEPT ![b].node = less] /\ UNCHANGED calls
    BY <1>7
  <2>2. less \in Nodes \ {None} /\ Taken(backups[b].node, less)
    BY <1>5, <2>1, OwnType, RemovalTypes
  <2> HIDE DEF b
  <2> QED
    BY <1>1, <1>2, <1>5, <2>1, <2>2, StaysShape DEF Discards
<1>4. CASE /\ backups' = Without(b)
           /\ Set(n, [calls[n] EXCEPT !.step = to])
  <2> HIDE DEF b
  <2>6. Own(n)' = Own(n) \ {b}
    BY <1>4 DEF Own, Without
  <2>7. Cardinality(Own(n)) = 1 <=> Own(n)' = {}
    <3>1. Cardinality(Own(n)) = 1 <=> \E x : Own(n) = {x}
      BY OwnType, FS_Singleton
    <3>2. Own(n) \ {b} = {} <=> \E x : Own(n) = {x}
      BY <1>5
    <3> QED
      BY <2>6, <3>1, <3>2
  <2>8. to = IF Own(n)' = {} THEN "verify" ELSE "discard"
    BY <1>1, <2>7
  <2>9. to \in Steps
    BY <2>8 DEF Steps
  <2> HIDE DEF to
  <2>10. Set(n, [calls[n] EXCEPT !.step = to, !.at = calls[n].at])
    BY <1>1, <1>4, StaysAt
  <2>11. Goes(n, to, calls[n].at)
    BY <1>1, <2>9, <2>10, StepShape
  <2> QED
    BY <1>1, <1>2, <1>4, <1>5, <2>8, <2>11 DEF Discards
<1> QED
  BY <1>3, <1>4, <1>6, <1>7

LEMMA LookMoves ==
    ASSUME TypeInv, NEW n \in DOMAIN calls, Verify(n) \/ FailRemoval(n) \/ Kill(n)
    PROVE  Decides(n)
<1>1. Typed
  BY DEF TypeInv
<1>2. CASE Verify(n)
  <2>1. PICK outcome \in {"verified", "unverified"} : Ends(n, outcome)
    BY <1>2 DEF Verify
  <2>2. outcome \in Outcomes
    BY DEF Outcomes
  <2> QED
    BY <1>1, <1>2, <2>1, <2>2, EndMoves DEF Verify, Going
<1>3. CASE Kill(n)
  <2>1. PICK outcome \in {"killed", "unverified"} :
            /\ Ends(n, outcome)
            /\ calls[n].step \in {"discard", "verify"} => outcome = "unverified"
    BY <1>3 DEF Kill
  <2>2. outcome \in Outcomes
    BY DEF Outcomes
  <2> QED
    BY <1>1, <1>3, <2>1, <2>2, EndMoves DEF Kill, Running
<1>4. CASE FailRemoval(n)
  <2>1. "unremoved" \in Outcomes
    BY DEF Outcomes
  <2> QED
    BY <1>1, <1>4, <2>1, EndMoves DEF FailRemoval, Going
<1> QED
  BY <1>2, <1>3, <1>4

LEMMA CleanMoves ==
    ASSUME TypeInv, NEW n \in DOMAIN calls, CleanEntry(n)
    PROVE  Decides(n)
<1>1. Typed /\ calls[n] \in CallRec /\ calls[n].at \in Nat /\ calls[n].step = "clean"
      /\ UNCHANGED <<source, disk, backups>>
  BY CallFields DEF TypeInv, CleanEntry, Going
<1>2. \/ \E outcome \in {"cleaned", "uncleaned", "refused"} : Ends(n, outcome)
      \/ calls[n].at # 0 /\ Set(n, [calls[n] EXCEPT !.at = @ - 1])
      \/ calls[n].at # 0 /\ MayRemove(n) /\ Set(n, [calls[n] EXCEPT !.step = "remove"])
  BY DEF CleanEntry
<1>3. CASE \E outcome \in {"cleaned", "uncleaned", "refused"} : Ends(n, outcome)
  <2>1. PICK outcome \in {"cleaned", "uncleaned", "refused"} : Ends(n, outcome)
    BY <1>3
  <2>2. outcome \in Outcomes
    BY DEF Outcomes
  <2> QED
    BY <1>1, <2>1, <2>2, EndMoves
<1>4. CASE calls[n].at # 0 /\ Set(n, [calls[n] EXCEPT !.at = @ - 1])
  <2>1. calls[n].at - 1 \in Nat /\ "clean" \in Steps
    BY <1>1, <1>4 DEF Steps
  <2>2. [calls[n] EXCEPT !.at = @ - 1] = [calls[n] EXCEPT !.at = calls[n].at - 1]
    BY <1>1 DEF CallRec, Ghosts
  <2>3. Set(n, [calls[n] EXCEPT !.step = "clean", !.at = calls[n].at - 1])
    BY <1>1, <1>4, <2>2, StaysAt
  <2> QED
    BY <1>1, <1>4, <2>1, <2>3, StepShape DEF Decides
<1>5. CASE calls[n].at # 0 /\ MayRemove(n) /\ Set(n, [calls[n] EXCEPT !.step = "remove"])
  <2>1. Set(n, [calls[n] EXCEPT !.step = "remove", !.at = calls[n].at])
    BY <1>1, <1>5, StaysAt
  <2>2. "remove" \in Steps
    BY DEF Steps
  <2> QED
    BY <1>1, <1>5, <2>1, <2>2, StepShape DEF Decides
<1> QED
  BY <1>2, <1>3, <1>4, <1>5

LEMMA RemoveMoves ==
    ASSUME TypeInv, NEW n \in DOMAIN calls, RemoveEntry(n)
    PROVE  Removes(n)
<1>1. Typed /\ calls[n] \in CallRec /\ calls[n].at \in Nat /\ calls[n].step = "remove"
      /\ calls[n].at \in DOMAIN calls[n].entries /\ calls[n].entries \in Seq(Entries)
  BY CallFields DEF TypeInv, RemoveEntry, Going, Placed
<1>2. calls[n].at - 1 \in Nat /\ "clean" \in Steps
  BY <1>1 DEF Steps
<1>3. PICK less \in Removals(disk[Entry(n).target]) :
            /\ disk' = [disk EXCEPT ![Entry(n).target] = less]
            /\ IF less = None THEN Set(n, [calls[n] EXCEPT !.step = "clean", !.at = @ - 1])
                              ELSE UNCHANGED calls
  BY DEF RemoveEntry
<1>4. less \in Nodes /\ Taken(disk[Entry(n).target], less)
  BY <1>1, EntryFields, RemovalTypes
<1>5. CASE less = None
  <2>1. [calls[n] EXCEPT !.step = "clean", !.at = @ - 1]
            = [calls[n] EXCEPT !.step = "clean", !.at = calls[n].at - 1]
    BY <1>1 DEF CallRec
  <2>2. Set(n, [calls[n] EXCEPT !.step = "clean", !.at = calls[n].at - 1])
    BY <1>3, <1>5, <2>1
  <2> QED
    BY <1>1, <1>2, <1>3, <1>4, <1>5, <2>2, StepShape DEF Removes, RemoveEntry
<1>6. CASE less # None
  BY <1>1, <1>3, <1>4, <1>6, StaysShape DEF Removes, RemoveEntry
<1> QED
  BY <1>5, <1>6

LEMMA StepMoves ==
    ASSUME TypeInv, NEW n \in DOMAIN calls, CallStep(n)
    PROVE  Move(n)
<1> USE DEF Move
<1>1. CASE PlanEntry(n) \/ Planned(n)
  BY <1>1, PlanMoves, PlannedMoves
<1>2. CASE Stage(n)
  BY <1>2, StageMoves
<1>3. CASE CreateLink(n) \/ CreateDir(n)
  BY <1>3, CreateMoves
<1>4. CASE (\E part \in Parts : CopyPart(n, part)) \/ WriteMarker(n)
  BY <1>4, CopyMoves
<1>5. CASE Fail(n)
  BY <1>5, FailMoves
<1>6. CASE UndoCreated(n)
  BY <1>6, UndoMoves
<1>7. CASE RestoreBackup(n)
  BY <1>7, RestoreMoves
<1>8. CASE Discard(n)
  BY <1>8, DiscardMoves
<1>9. CASE Verify(n) \/ FailRemoval(n) \/ Kill(n)
  BY <1>9, LookMoves
<1>10. CASE CleanEntry(n)
  BY <1>10, CleanMoves
<1>11. CASE RemoveEntry(n)
  BY <1>11, RemoveMoves
<1>12. CASE LeaveCreated(n)
  BY <1>12, LeaveMoves
<1> QED
  BY <1>1, <1>2, <1>3, <1>4, <1>5, <1>6, <1>7, <1>8, <1>9, <1>10, <1>11, <1>12 DEF CallStep

----------------------------------------------------------------------------
\* The places a step leaves alone.

\* The directories with one more file, or with the marker.
LEMMA WriteTypes ==
    ASSUME TypeInv, NEW n \in DOMAIN calls, calls[n].step = "copy",
           IsDir(disk[Entry(n).target])
    PROVE  /\ WithMarker(n) \in Dirs /\ WithMarker(n).user = disk[Entry(n).target].user
           /\ WithMarker(n).copied /\ WithMarker(n).cut = disk[Entry(n).target].cut
           /\ WithMarker(n).files = disk[Entry(n).target].files
           /\ WithMarker(n).marker = Entry(n).source
           /\ DOMAIN disk[Entry(n).target].files \subseteq Parts
           /\ \A part \in Parts : source[Entry(n).source] # None =>
                /\ WithPart(n, part) \in Dirs /\ WithPart(n, part).user = disk[Entry(n).target].user
                /\ DOMAIN WithPart(n, part).files = {part} \cup DOMAIN disk[Entry(n).target].files
                /\ WithPart(n, part).marker = disk[Entry(n).target].marker
                /\ WithPart(n, part).copied = disk[Entry(n).target].copied
                /\ WithPart(n, part).cut = disk[Entry(n).target].cut
<1> DEFINE dir   == disk[Entry(n).target]
           files == UNION {[parts -> 0..MaxVersion] : parts \in SUBSET Parts}
<1>1. Typed /\ calls[n].at \in DOMAIN calls[n].entries
  BY DEF TypeInv, Placed, Looping
<1>2. dir \in Dirs /\ Entry(n).source \in Sources
  BY <1>1, EntryFields, NodeTypes
<1>3. PICK parts \in SUBSET Parts : dir.files \in [parts -> 0..MaxVersion]
  BY <1>2 DEF Dirs
<1>4. WithMarker(n) = [dir EXCEPT !.marker = Entry(n).source, !.copied = TRUE]
  BY DEF WithMarker
<1>5. ASSUME NEW part \in Parts, source[Entry(n).source] # None
      PROVE  /\ WithPart(n, part) \in Dirs /\ WithPart(n, part).user = dir.user
             /\ DOMAIN WithPart(n, part).files = {part} \cup DOMAIN dir.files
             /\ WithPart(n, part).marker = dir.marker /\ WithPart(n, part).copied = dir.copied
             /\ WithPart(n, part).cut = dir.cut
  <2> DEFINE version == source[Entry(n).source]
             more    == Put(dir.files, part, version)
             all     == {part} \cup parts
  <2>1. version \in 0..MaxVersion
    BY <1>1, <1>5, EntryFields
  <2>2. DOMAIN dir.files = parts
    BY <1>3
  <2>3. more = [z \in all |-> IF z = part THEN version ELSE dir.files[z]]
    BY <2>2 DEF Put
  <2>4. more \in [all -> 0..MaxVersion]
    BY <1>3, <2>1, <2>3
  <2>5. all \in SUBSET Parts
    BY <1>5
  <2>6. more \in files /\ DOMAIN more = {part} \cup DOMAIN dir.files
    BY <2>2, <2>3, <2>4, <2>5
  <2>7. WithPart(n, part) = [dir EXCEPT !.files = more]
    BY <1>2 DEF WithPart, Dirs
  <2> HIDE DEF more, version
  <2> QED
    BY <1>2, <2>6, <2>7 DEF Dirs
<1>6. DOMAIN dir.files \subseteq Parts
  BY <1>3
<1> QED
  BY <1>2, <1>4, <1>5, <1>6 DEF Dirs

\* What writing does to the disk.
LEMMA WritesDisk ==
    ASSUME Typed, NEW n \in DOMAIN calls, NEW node \in Nodes, Writes(n, node)
    PROVE  /\ disk' \in [Targets -> Nodes] /\ source' \in [Sources -> 0..MaxVersion \cup {None}]
           /\ \A t \in Targets : disk'[t] # disk[t] =>
                t = Entry(n).target /\ IsDir(disk[t]) /\ disk'[t] = node
<1>1. 0 \in 0..MaxVersion
  BY CallsAssumption
<1>2. source \in [Sources -> 0..MaxVersion \cup {None}] /\ disk \in [Targets -> Nodes]
  BY DEF Typed
<1>3. CASE IsDir(disk[Entry(n).target]) /\ UNCHANGED source
           /\ disk' = [disk EXCEPT ![Entry(n).target] = node]
  BY <1>2, <1>3
<1>4. CASE UNCHANGED disk /\ \E s \in Sources : source' = [source EXCEPT ![s] = 0]
  BY <1>1, <1>2, <1>4
<1> QED
  BY <1>3, <1>4 DEF Writes

\* Backups are added and taken by their own call.
LEMMA StageBackups ==
    ASSUME TypeInv, NEW n \in DOMAIN calls, Stages(n)
    PROVE  /\ DOMAIN backups' = DOMAIN backups \cup {<<n, calls[n].at>>}
           /\ <<n, calls[n].at>> \notin DOMAIN backups
           /\ backups'[<<n, calls[n].at>>].target = Entry(n).target
           /\ backups'[<<n, calls[n].at>>].node = disk[Entry(n).target]
           /\ \A b \in DOMAIN backups : backups'[b] = backups[b]
           /\ Own(n)' = Own(n) \cup {<<n, calls[n].at>>}
           /\ \A m \in DOMAIN calls : m # n => Own(m)' = Own(m)
           /\ backups' \in [DOMAIN backups' -> [target : Targets, node : Nodes \ {None}]]
           /\ DOMAIN backups' \subseteq Nat \X Nat /\ IsFiniteSet(DOMAIN backups')
<1> DEFINE new == <<n, calls[n].at>>
           rec == [target |-> Entry(n).target, node |-> disk[Entry(n).target]]
<1>1. Typed /\ calls[n].at \in DOMAIN calls[n].entries /\ calls[n].at \in Nat /\ n \in Nat
      /\ calls[n].step = "stage"
  BY CallFields, SMTT(20) DEF TypeInv, Placed, Looping, Stages, Typed
<1>2. rec \in [target : Targets, node : Nodes \ {None}] /\ rec.target = Entry(n).target
      /\ rec.node = disk[Entry(n).target]
  BY <1>1, EntryFields DEF Stages
<1>3. new \notin DOMAIN backups
  <2>1. SUFFICES ASSUME new \in DOMAIN backups PROVE FALSE
    OBVIOUS
  <2>2. new \in Own(n) /\ new[2] = calls[n].at
    BY <2>1 DEF Own
  <2>3. new[2] < calls[n].at
    BY <1>1, <2>2 DEF TypeInv, Backed
  <2> QED
    BY <1>1, <2>2, <2>3
<1>4. backups' = Put(backups, new, rec)
  BY DEF Stages
<1>6. new[1] = n /\ new \in Nat \X Nat
  BY <1>1
<1> HIDE DEF rec, new
<1>5. DOMAIN backups' = DOMAIN backups \cup {new} /\ backups'[new] = rec
      /\ \A b \in DOMAIN backups : backups'[b] = backups[b]
  <2>1. /\ DOMAIN Put(backups, new, rec) = {new} \cup DOMAIN backups
        /\ Put(backups, new, rec)[new] = rec
        /\ \A b \in DOMAIN backups : b # new => Put(backups, new, rec)[b] = backups[b]
    BY DEF Put
  <2> QED
    BY <1>3, <1>4, <2>1
<1>7. Own(n)' = Own(n) \cup {new} /\ \A m \in DOMAIN calls : m # n => Own(m)' = Own(m)
  BY <1>5, <1>6 DEF Own
<1>8. DOMAIN backups' \subseteq Nat \X Nat /\ IsFiniteSet(DOMAIN backups')
  <2>1. IsFiniteSet(DOMAIN backups \cup {new})
    BY <1>1, FS_AddElement DEF Typed
  <2> QED
    BY <1>1, <1>5, <1>6, <2>1 DEF Typed
<1>9. backups' \in [DOMAIN backups' -> [target : Targets, node : Nodes \ {None}]]
  <2>1. backups' = [b \in DOMAIN backups' |-> backups'[b]]
    BY <1>4 DEF Put
  <2>2. \A b \in DOMAIN backups' : backups'[b] \in [target : Targets, node : Nodes \ {None}]
    BY <1>1, <1>2, <1>5 DEF Typed
  <2> QED
    BY <2>1, <2>2
<1> QED
  BY <1>2, <1>3, <1>5, <1>7, <1>8, <1>9 DEF new

LEMMA WithoutBackup ==
    ASSUME TypeInv, NEW n \in DOMAIN calls, NEW b \in Own(n), backups' = Without(b)
    PROVE  /\ DOMAIN backups' = (DOMAIN backups) \ {b}
           /\ \A c \in DOMAIN backups' : backups'[c] = backups[c]
           /\ Own(n)' = Own(n) \ {b}
           /\ \A m \in DOMAIN calls : m # n => Own(m)' = Own(m)
           /\ backups' \in [DOMAIN backups' -> [target : Targets, node : Nodes \ {None}]]
           /\ DOMAIN backups' \subseteq Nat \X Nat /\ IsFiniteSet(DOMAIN backups')
<1>1. DOMAIN backups' = (DOMAIN backups) \ {b} /\ \A c \in DOMAIN backups' : backups'[c] = backups[c]
  BY DEF Without
<1>2. Own(n)' = Own(n) \ {b} /\ \A m \in DOMAIN calls : m # n => Own(m)' = Own(m)
  BY <1>1 DEF Own
<1>3. DOMAIN backups' \subseteq Nat \X Nat /\ IsFiniteSet(DOMAIN backups')
  BY <1>1, FS_Subset DEF TypeInv, Typed
<1>4. backups' \in [DOMAIN backups' -> [target : Targets, node : Nodes \ {None}]]
  <2>1. backups' = [c \in DOMAIN backups' |-> backups'[c]]
    BY DEF Without
  <2>2. \A c \in DOMAIN backups' : backups'[c] \in [target : Targets, node : Nodes \ {None}]
    BY <1>1 DEF TypeInv, Typed
  <2> QED
    BY <2>1, <2>2
<1> QED
  BY <1>1, <1>2, <1>3, <1>4

LEMMA LessBackup ==
    ASSUME TypeInv, NEW n \in DOMAIN calls, NEW b \in Own(n), NEW less \in Nodes \ {None},
           backups' = [backups EXCEPT ![b].node = less]
    PROVE  /\ DOMAIN backups' = DOMAIN backups
           /\ \A c \in DOMAIN backups : c # b => backups'[c] = backups[c]
           /\ backups'[b].target = backups[b].target /\ backups'[b].node = less
           /\ \A m \in DOMAIN calls : Own(m)' = Own(m)
           /\ backups' \in [DOMAIN backups' -> [target : Targets, node : Nodes \ {None}]]
<1>1. /\ b \in DOMAIN backups
      /\ backups \in [DOMAIN backups -> [target : Targets, node : Nodes \ {None}]]
  BY DEF Own, TypeInv, Typed
<1> HIDE DEF Nodes, Targets
<1>2. DOMAIN backups' = DOMAIN backups
  BY <1>1
<1>3. backups' \in [DOMAIN backups -> [target : Targets, node : Nodes \ {None}]]
  BY <1>1
<1> QED
  BY <1>1, <1>2, <1>3 DEF Own

\* Another call is where it was, with the backups it had.
LEMMA OthersPlaced ==
    ASSUME TypeInv, NEW n \in DOMAIN calls, Others(n), NEW m \in DOMAIN calls, m # n,
           Own(m)' = Own(m)
    PROVE  (Placed(m) /\ Backed(m))'
<1>1. calls'[m] = calls[m] /\ Placed(m) /\ Backed(m)
  BY DEF Others, TypeInv
<1>2. Entry(m)' = Entry(m)
  BY <1>1 DEF Entry
<1>3. Permitted(calls[m])' = Permitted(calls[m])
  BY <1>1 DEF Permitted
<1> QED
  BY <1>1, <1>2, <1>3 DEF Placed, Backed

----------------------------------------------------------------------------
\* Every step keeps the types.

LEMMA TypesStep ==
    ASSUME TypeInv, NEW n \in DOMAIN calls, Move(n)
    PROVE  Typed' /\ Others(n) /\ DOMAIN backups' \subseteq DOMAIN backups \cup {<<n, calls[n].at>>}
           /\ \A m \in DOMAIN calls : m # n => Own(m)' = Own(m)
<1>1. Typed
  BY DEF TypeInv
<1> DEFINE Kept == /\ Typed' /\ Others(n)
                   /\ DOMAIN backups' \subseteq DOMAIN backups \cup {<<n, calls[n].at>>}
                   /\ \A m \in DOMAIN calls : m # n => Own(m)' = Own(m)
<1>2. ASSUME UNCHANGED backups, Others(n), disk' \in [Targets -> Nodes],
             source' \in [Sources -> 0..MaxVersion \cup {None}]
      PROVE  Kept
  BY <1>1, <1>2 DEF Typed, Others, Own
<1>3. None \in Nodes
  BY DEF Nodes
<1>4. ASSUME Decides(n) PROVE Kept
  <2>1. Others(n)
    BY <1>4 DEF Decides, Planning, Finishes, Goes, GoesOn, Advances
  <2> QED
    BY <1>1, <1>2, <1>4, <2>1 DEF Decides, Typed
<1>5. ASSUME Stages(n) PROVE Kept
  BY <1>1, <1>3, <1>5, StageBackups DEF Stages, Goes, GoesOn, Others, Typed
<1>6. ASSUME Linking(n) PROVE Kept
  <2>1. calls[n].at \in DOMAIN calls[n].entries
    BY <1>6 DEF Linking, TypeInv, Placed, Looping
  <2>2. Link(Entry(n).source) \in Nodes
    BY <1>1, <2>1, EntryFields, NodeTypes
  <2>3. Others(n)
    BY <1>6 DEF Linking, Advances, Goes, GoesOn
  <2> QED
    BY <1>1, <1>2, <1>6, <2>2, <2>3 DEF Linking, Typed
<1>7. ASSUME OpensDir(n) PROVE Kept
  <2>1. EmptyDir \in Nodes
    BY NodeTypes DEF Nodes
  <2> QED
    BY <1>1, <1>2, <1>7, <2>1 DEF OpensDir, Goes, GoesOn, Typed
<1>8. ASSUME Copies(n) PROVE Kept
  <2>1. Others(n) /\ UNCHANGED backups
    BY <1>8 DEF Copies, Advances, Goes, GoesOn
  <2>2. PICK node : /\ Writes(n, node)
                    /\ \/ node = WithMarker(n)
                       \/ \E part \in Parts : node = WithPart(n, part) /\ source[Entry(n).source] # None
    BY <1>1, <1>8, CallFields DEF Copies
  <2>3. CASE IsDir(disk[Entry(n).target])
    <3>1. node \in Nodes
      BY <1>8, <2>2, <2>3, WriteTypes DEF Copies, Nodes
    <3> QED
      BY <1>1, <1>2, <2>1, <2>2, <3>1, WritesDisk
  <2>4. CASE ~IsDir(disk[Entry(n).target])
    <3>1. Writes(n, None)
      BY <2>2, <2>4 DEF Writes
    <3> QED
      BY <1>1, <1>2, <1>3, <2>1, <3>1, WritesDisk
  <2> QED
    BY <2>3, <2>4
<1>9. ASSUME TakesBack(n) \/ Leaves(n) PROVE Kept
  BY <1>1, <1>2, <1>9 DEF TakesBack, Leaves, Goes, GoesOn, Typed
<1>10. ASSUME Restores(n) PROVE Kept
  <2>1. PICK b \in Own(n) :
            \/ disk' = [disk EXCEPT ![backups[b].target] = backups[b].node] /\ backups' = Without(b)
            \/ UNCHANGED <<disk, backups>>
    BY <1>10 DEF Restores
  <2>2. Others(n) /\ UNCHANGED source
    BY <1>10 DEF Restores, Goes, GoesOn
  <2>3. CASE UNCHANGED <<disk, backups>>
    BY <1>1, <1>2, <2>2, <2>3 DEF Typed
  <2>4. CASE disk' = [disk EXCEPT ![backups[b].target] = backups[b].node] /\ backups' = Without(b)
    <3>1. backups[b].node \in Nodes
      BY OwnType
    <3>2. disk' \in [Targets -> Nodes]
      BY <1>1, <2>4, <3>1 DEF Typed
    <3> QED
      BY <1>1, <2>2, <2>4, <3>2, WithoutBackup DEF Typed, Others
  <2> QED
    BY <2>1, <2>3, <2>4
<1>11. ASSUME Discards(n) PROVE Kept
  <2>1. PICK b \in Own(n) : \/ backups' = Without(b)
                            \/ \E less \in Nodes \ {None} : backups' = [backups EXCEPT ![b].node = less]
    BY <1>11 DEF Discards
  <2>2. Others(n) /\ UNCHANGED <<source, disk>>
    BY <1>11 DEF Discards, Goes, GoesOn
  <2>3. CASE backups' = Without(b)
    BY <1>1, <2>2, <2>3, WithoutBackup DEF Typed, Others
  <2>4. CASE \E less \in Nodes \ {None} : backups' = [backups EXCEPT ![b].node = less]
    BY <1>1, <2>2, <2>4, LessBackup DEF Typed, Others
  <2> QED
    BY <2>1, <2>3, <2>4
<1>12. ASSUME Removes(n) PROVE Kept
  <2>1. Others(n) /\ UNCHANGED <<source, backups>>
    BY <1>12 DEF Removes, Goes, GoesOn
  <2>2. disk' \in [Targets -> Nodes]
    BY <1>1, <1>12 DEF Removes, Typed
  <2> QED
    BY <1>1, <1>2, <2>1, <2>2 DEF Typed
<1> HIDE DEF Kept
<1>13. Kept
  BY <1>4, <1>5, <1>6, <1>7, <1>8, <1>9, <1>10, <1>11, <1>12 DEF Move
<1> QED
  BY <1>13 DEF Kept

\* The loop of apply goes on with the backups it has.
LEMMA AdvancesPlaced ==
    ASSUME TypeInv, NEW n \in DOMAIN calls, NEW created, Advances(n, created),
           UNCHANGED backups, calls[n].step \in {"plan"} \cup Looping,
           calls[n].kind.op = "apply", Permitted(calls[n])
    PROVE  (Placed(n) /\ Backed(n))'
<1>1. Own(n)' = Own(n) /\ Placed(n) /\ Backed(n) /\ calls[n].outcome = None
  BY DEF Own, TypeInv, Placed, Looping
<1>2. /\ calls'[n].kind = calls[n].kind /\ calls'[n].entries = calls[n].entries
      /\ calls'[n].outcome = calls[n].outcome
  BY DEF Advances, Goes, GoesOn, Others
<1>3. Permitted(calls[n])'
  BY <1>2 DEF Permitted
<1>4. calls[n].step = "plan" => Own(n) = {}
  BY <1>1 DEF Backed, Looping
<1>5. \A b \in Own(n) : b[2] <= calls[n].at /\ b[2] \in Nat
  BY <1>1, <1>4, OwnType DEF Backed
<1>6. calls[n].at \in Nat /\ calls[n].entries \in Seq(Entries)
  BY CallFields DEF TypeInv
<1>7. ASSUME NEW k \in DOMAIN calls[n].entries, k > calls[n].at,
             \/ calls[n].entries[k].operation = "replace" /\ Goes(n, "stage", k)
             \/ calls[n].entries[k].operation = "create" /\ Goes(n, "create", k)
      PROVE  (Placed(n) /\ Backed(n))'
  <2>1. calls'[n].at = k /\ Entry(n)' = calls[n].entries[k] /\ k \in Nat
    BY <1>2, <1>6, <1>7 DEF Goes, GoesOn, Entry
  <2>2. \/ calls'[n].step = "stage" /\ Entry(n)'.operation = "replace"
        \/ calls'[n].step = "create" /\ Entry(n)'.operation = "create"
    BY <1>7, <2>1 DEF Goes, GoesOn
  <2>3. Placed(n)'
    BY <1>1, <1>2, <1>3, <1>7, <2>1, <2>2 DEF Placed, Looping
  <2>4. \A b \in Own(n) : b[2] < k /\ b[2] <= k
    BY <1>5, <1>6, <1>7, <2>1
  <2>5. Backed(n)'
    BY <1>1, <1>2, <2>1, <2>2, <2>4 DEF Backed, Looping
  <2> QED
    BY <2>3, <2>5
<1>8. CASE Own(n) = {} /\ Goes(n, "verify", calls[n].at)
  BY <1>1, <1>2, <1>8 DEF Placed, Backed, Goes, GoesOn, Looping
<1>9. CASE Own(n) # {} /\ Goes(n, "discard", calls[n].at)
  BY <1>1, <1>2, <1>9 DEF Placed, Backed, Goes, GoesOn, Looping
<1> QED
  BY <1>7, <1>8, <1>9 DEF Advances

LEMMA PlacedStep ==
    ASSUME TypeInv, NEW n \in DOMAIN calls, Move(n)
    PROVE  (Placed(n) /\ Backed(n))'
<1> DEFINE Kept == (Placed(n) /\ Backed(n))'
<1>1. /\ Placed(n) /\ Backed(n) /\ Typed /\ calls[n].at \in Nat /\ calls[n].entries \in Seq(Entries)
      /\ Len(calls[n].entries) \in Nat /\ DOMAIN calls[n].entries = 1..Len(calls[n].entries)
  BY CallFields DEF TypeInv
<1>2. ASSUME Decides(n) PROVE Kept
  <2>1. Own(n)' = Own(n) /\ UNCHANGED backups
    BY <1>2 DEF Decides, Own
  <2>2. ASSUME NEW entry \in Entries, Planning(n, entry) PROVE Kept
    <3>1. Own(n) = {}
      BY <1>1, <2>2 DEF Planning, Backed, Looping
    <3> QED
      BY <1>1, <2>1, <2>2, <3>1 DEF Planning, Placed, Backed, Looping
  <2>3. ASSUME NEW outcome \in Outcomes, Finishes(n, outcome) PROVE Kept
    <3>1. outcome \in {"refused", "verified"} => Own(n) = {}
      BY <1>1, <2>3 DEF Finishes, Backed, Looping
    <3> QED
      BY <1>1, <2>1, <2>3, <3>1 DEF Finishes, Placed, Backed, Others, Looping
  <2>4. ASSUME calls[n].step \in {"plan", "clean"}, NEW step \in {"verify", "clean", "remove"},
               NEW at \in Nat, Goes(n, step, at),
               step = "clean" => at <= Len(calls[n].entries),
               step = "remove" => at \in DOMAIN calls[n].entries
        PROVE  Kept
    <3>1. Own(n) = {}
      BY <1>1, <2>4 DEF Backed, Looping
    <3> QED
      BY <1>1, <2>1, <2>4, <3>1 DEF Goes, GoesOn, Placed, Backed, Looping
  <2>5. CASE calls[n].step = "plan" /\ Goes(n, "verify", calls[n].at)
    BY <1>1, <2>4, <2>5
  <2>6. CASE calls[n].step = "plan" /\ Goes(n, "clean", Len(calls[n].entries))
    BY <1>1, <2>4, <2>6
  <2>7. CASE calls[n].step = "clean" /\ calls[n].at # 0 /\ Goes(n, "clean", calls[n].at - 1)
    <3>1. calls[n].at - 1 \in Nat /\ calls[n].at - 1 <= Len(calls[n].entries)
      BY <1>1, <2>7 DEF Placed
    <3> QED
      BY <2>4, <2>7, <3>1
  <2>8. CASE calls[n].step = "clean" /\ calls[n].at # 0 /\ Goes(n, "remove", calls[n].at)
    <3>1. calls[n].at \in DOMAIN calls[n].entries
      BY <1>1, <2>8 DEF Placed
    <3> QED
      BY <1>1, <2>4, <2>8, <3>1
  <2>9. CASE calls[n].step \in Looping /\ Goes(n, "undo", calls[n].at)
    BY <1>1, <2>1, <2>9 DEF Goes, GoesOn, Placed, Backed, Others, Looping
  <2>10. ASSUME calls[n].step = "plan", calls[n].kind.op = "apply", Permitted(calls[n]),
                Advances(n, calls[n].created)
         PROVE  Kept
    BY <2>1, <2>10, AdvancesPlaced
  <2> HIDE DEF Kept
  <2> QED
    BY <1>2, <2>2, <2>3, <2>5, <2>6, <2>7, <2>8, <2>9, <2>10 DEF Decides
<1>3. ASSUME Stages(n) PROVE Kept
  <2>1. Goes(n, "create", calls[n].at) /\ Others(n) /\ calls[n].step = "stage"
    BY <1>3 DEF Stages, Goes, GoesOn
  <2>2. /\ calls[n].at \in DOMAIN calls[n].entries /\ Entry(n).operation = "replace"
        /\ calls[n].kind.op = "apply" /\ Permitted(calls[n]) /\ calls[n].outcome = None
        /\ calls[n].kind.force
    BY <1>1, <2>1 DEF Placed, Looping, Permitted, Entry
  <2>3. Entry(n)' = Entry(n) /\ Permitted(calls[n])'
    BY <2>1, <2>2 DEF Entry, Permitted, Goes, GoesOn, Others
  <2>4. Placed(n)'
    BY <1>1, <2>1, <2>2, <2>3 DEF Placed, Goes, GoesOn, Others, Looping
  <2>5. None \notin {"verified", "refused"}
    BY PlacesAssumption DEF Outcomes
  <2>6. \A b \in Own(n)' : b[2] <= calls[n].at /\ b[2] > 0
    <3>1. Own(n)' = Own(n) \cup {<<n, calls[n].at>>}
      BY <1>3, StageBackups
    <3>2. \A b \in Own(n) : b[2] <= calls[n].at /\ b[2] > 0
      BY <1>1, <2>1 DEF Backed, Looping
    <3>3. calls[n].at <= calls[n].at /\ calls[n].at > 0
      BY <1>1, <2>2
    <3> QED
      BY <3>1, <3>2, <3>3
  <2>7. Backed(n)'
    BY <2>1, <2>2, <2>5, <2>6 DEF Backed, Goes, GoesOn, Others, Looping
  <2> QED
    BY <2>4, <2>7
<1>4. ASSUME Linking(n) PROVE Kept
  BY <1>1, <1>4, AdvancesPlaced DEF Linking, Placed, Looping
<1>5. ASSUME OpensDir(n) PROVE Kept
  <2>1. Entry(n)' = Entry(n) /\ Permitted(calls[n])' = Permitted(calls[n]) /\ Own(n)' = Own(n)
    BY <1>5 DEF OpensDir, Entry, Permitted, Own, Goes, GoesOn, Others
  <2> QED
    BY <1>1, <1>5, <2>1 DEF OpensDir, Placed, Backed, Goes, GoesOn, Others, Looping
<1>6. ASSUME Copies(n) PROVE Kept
  <2>1. CASE Goes(n, "copy", calls[n].at)
    <3>1. Entry(n)' = Entry(n) /\ Permitted(calls[n])' = Permitted(calls[n]) /\ Own(n)' = Own(n)
      BY <1>6, <2>1 DEF Copies, Entry, Permitted, Own, Goes, GoesOn, Others
    <3> QED
      BY <1>1, <1>6, <2>1, <3>1 DEF Copies, Placed, Backed, Goes, GoesOn, Others, Looping
  <2>2. CASE Advances(n, Grown(n))
    BY <1>1, <1>6, <2>2, AdvancesPlaced DEF Copies, Placed, Looping
  <2> QED
    BY <1>6, <2>1, <2>2 DEF Copies
<1>7. ASSUME TakesBack(n) \/ Leaves(n) PROVE Kept
  <2>1. Own(n)' = Own(n)
    BY <1>7 DEF TakesBack, Leaves, Own
  <2> QED
    BY <1>1, <1>7, <2>1 DEF TakesBack, Leaves, Placed, Backed, Goes, GoesOn, Others, Looping
<1>8. ASSUME Restores(n) PROVE Kept
  <2>1. Own(n)' \subseteq Own(n)
    <3>1. PICK b \in Own(n) : backups' = Without(b) \/ UNCHANGED backups
      BY <1>8 DEF Restores
    <3>2. CASE backups' = Without(b)
      BY <3>2, WithoutBackup
    <3>3. CASE UNCHANGED backups
      BY <3>3 DEF Own
    <3> QED
      BY <3>1, <3>2, <3>3
  <2>2. \E at : Goes(n, "undo", at)
    BY <1>8 DEF Restores
  <2>3. calls[n].step = "undo"
    BY <1>8 DEF Restores
  <2> QED
    BY <1>1, <2>1, <2>2, <2>3 DEF Placed, Backed, Goes, GoesOn, Others, Looping
<1>9. ASSUME Discards(n) PROVE Kept
  <2>1. Own(n)' \subseteq Own(n)
    BY <1>9, WithoutBackup, LessBackup DEF Discards
  <2>2. /\ calls[n].step = "discard"
        /\ \/ Goes(n, "discard", calls[n].at) /\ Own(n)' # {}
           \/ Goes(n, "verify", calls[n].at) /\ Own(n)' = {}
    BY <1>1, <1>9, LessBackup DEF Discards, Placed
  <2> QED
    BY <1>1, <2>1, <2>2 DEF Placed, Backed, Goes, GoesOn, Others, Looping
<1>10. ASSUME Removes(n) PROVE Kept
  <2>1. Own(n)' = Own(n) /\ Own(n) = {}
    BY <1>1, <1>10 DEF Removes, Own, Backed, Looping
  <2>2. calls[n].at - 1 \in 0..Len(calls[n].entries) /\ calls[n].at \in DOMAIN calls[n].entries
    BY <1>1, <1>10 DEF Removes, Placed
  <2> QED
    BY <1>1, <1>10, <2>1, <2>2 DEF Removes, Placed, Backed, Goes, GoesOn, Others, Looping
<1> HIDE DEF Kept
<1>11. Kept
  BY <1>2, <1>3, <1>4, <1>5, <1>6, <1>7, <1>8, <1>9, <1>10 DEF Move
<1> QED
  BY <1>11 DEF Kept

LEMMA TypeInvStep ==
    ASSUME TypeInv, NEW n \in DOMAIN calls, Move(n)
    PROVE  TypeInv'
<1>1. /\ Typed' /\ Others(n) /\ DOMAIN backups' \subseteq DOMAIN backups \cup {<<n, calls[n].at>>}
      /\ \A m \in DOMAIN calls : m # n => Own(m)' = Own(m)
  BY TypesStep
<1>2. DOMAIN calls' = DOMAIN calls
  BY <1>1 DEF Others
<1>3. \A b \in DOMAIN backups' : b[1] \in DOMAIN calls'
  <2>1. <<n, calls[n].at>>[1] = n
    OBVIOUS
  <2> QED
    BY <1>1, <1>2, <2>1 DEF TypeInv
<1>4. ASSUME NEW m \in DOMAIN calls' PROVE (Placed(m) /\ Backed(m))'
  BY <1>1, <1>2, OthersPlaced, PlacedStep
<1> QED
  BY <1>1, <1>3, <1>4 DEF TypeInv

\* A new call, and what it does to those that run.
LEMMA BeginShape ==
    ASSUME TypeInv, NEW kind \in Kinds, Begin(kind)
    PROVE  /\ UNCHANGED <<source, disk, backups>> /\ calls' \in Seq(CallRec)
           /\ Len(calls') = Len(calls) + 1 /\ DOMAIN calls' = DOMAIN calls \cup {Len(calls) + 1}
           /\ Len(calls) + 1 \notin DOMAIN calls
           /\ LET new == calls'[Len(calls) + 1]
              IN  /\ new.kind = kind /\ new.step = "plan" /\ new.entries = <<>> /\ new.created = <<>>
                  /\ new.outcome = None /\ new.at = 0 /\ new.touched = {} /\ new.stuck = {}
                  /\ new.alone => new.before = disk
                  /\ new.alone <=> \A m \in DOMAIN calls : ~Running(m)
           /\ \A m \in DOMAIN calls :
                /\ calls'[m].alone <=> calls[m].alone /\ ~Running(m)
                /\ calls'[m].kind = calls[m].kind /\ calls'[m].step = calls[m].step
                /\ calls'[m].entries = calls[m].entries /\ calls'[m].at = calls[m].at
                /\ calls'[m].todo = calls[m].todo /\ calls'[m].created = calls[m].created
                /\ calls'[m].outcome = calls[m].outcome
<1> DEFINE running == {n \in DOMAIN calls : Running(n)}
           alone == (running = {})
           nothing == <<>>
           empty == {}
           was == IF alone THEN disk ELSE nothing
           new == [kind |-> kind, step |-> "plan", entries |-> nothing, at |-> 0, todo |-> empty,
                   created |-> nothing, outcome |-> None, alone |-> alone,
                   before |-> was, touched |-> empty, stuck |-> empty]
           old == [n \in DOMAIN calls |-> IF Running(n) THEN Accompanied(calls[n]) ELSE calls[n]]
           N == Len(calls) + 1
<1>1. Typed /\ calls \in Seq(CallRec) /\ DOMAIN calls = 1..Len(calls) /\ Len(calls) \in Nat
  BY DEF TypeInv, Typed
<1>2. nothing \in Seq(Entries) /\ nothing \in Seq(Targets) /\ empty \in SUBSET Parts
      /\ empty \in SUBSET Targets /\ was \in [Targets -> Nodes] \cup {<<>>} /\ 0 \in Nat /\ "plan" \in Steps /\ alone \in BOOLEAN
  BY <1>1 DEF Steps, Typed
<1>3. NewCall(kind, running = {}) = new
  BY DEF NewCall
<1>11. alone => was = disk
  OBVIOUS
<1> HIDE DEF nothing, empty, was, alone
<1>4. new \in CallRec
  BY <1>2 DEF CallRec, Ghosts
<1>5. /\ new.kind = kind /\ new.step = "plan" /\ new.entries = nothing /\ new.created = nothing
      /\ new.outcome = None /\ new.at = 0 /\ new.before = was /\ new.alone = alone
      /\ new.touched = empty /\ new.stuck = empty
  OBVIOUS
<1>6. \A m \in DOMAIN calls :
        /\ old[m] \in CallRec /\ (old[m].alone <=> calls[m].alone /\ ~Running(m))
        /\ old[m].kind = calls[m].kind /\ old[m].step = calls[m].step
        /\ old[m].entries = calls[m].entries /\ old[m].at = calls[m].at
        /\ old[m].todo = calls[m].todo /\ old[m].created = calls[m].created
        /\ old[m].outcome = calls[m].outcome
  <2> TAKE m \in DOMAIN calls
  <2>1. calls[m] \in CallRec /\ calls[m].alone \in BOOLEAN
    BY <1>1, CallFields
  <2>2. Accompanied(calls[m]) = [calls[m] EXCEPT !.alone = FALSE, !.before = nothing,
                                              !.touched = empty, !.stuck = empty]
    BY DEF Accompanied, nothing, empty
  <2>3. nothing \in [Targets -> Nodes] \cup {<<>>}
    BY DEF nothing
  <2>6. Accompanied(calls[m]) \in CallRec
    <3>1. FALSE \in BOOLEAN
      OBVIOUS
    <3> QED
      BY <1>2, <2>1, <2>2, <2>3, <3>1 DEF CallRec
  <2>4. /\ ~Accompanied(calls[m]).alone
        /\ Accompanied(calls[m]).kind = calls[m].kind /\ Accompanied(calls[m]).step = calls[m].step
        /\ Accompanied(calls[m]).entries = calls[m].entries
        /\ Accompanied(calls[m]).at = calls[m].at
        /\ Accompanied(calls[m]).todo = calls[m].todo
        /\ Accompanied(calls[m]).created = calls[m].created
        /\ Accompanied(calls[m]).outcome = calls[m].outcome
    BY <2>1, <2>2 DEF CallRec
  <2>5. old[m] = IF Running(m) THEN Accompanied(calls[m]) ELSE calls[m]
    OBVIOUS
  <2> HIDE DEF old
  <2> QED
    BY <2>1, <2>4, <2>5, <2>6
<1>7. old \in Seq(CallRec) /\ Len(old) = Len(calls) /\ DOMAIN old = DOMAIN calls
  <2>1. old = [m \in 1..Len(calls) |-> old[m]]
    BY <1>1
  <2>2. \A m \in 1..Len(calls) : old[m] \in CallRec
    BY <1>1, <1>6
  <2> HIDE DEF old
  <2>3. old \in [1..Len(calls) -> CallRec]
    BY <2>1, <2>2
  <2> QED
    BY <1>1, <2>3
<1>8. calls' = Append(old, new) /\ UNCHANGED <<source, disk, backups>>
  <2>1. old = [n \in DOMAIN calls |-> IF n \in running THEN Accompanied(calls[n]) ELSE calls[n]]
    OBVIOUS
  <2> QED
    BY <1>3, <2>1 DEF Begin
<1> HIDE DEF old, new
<1>9. /\ calls' \in Seq(CallRec) /\ Len(calls') = N /\ DOMAIN calls' = DOMAIN calls \cup {N}
      /\ N \notin DOMAIN calls /\ calls'[N] = new
      /\ \A m \in DOMAIN calls : calls'[m] = old[m]
  BY <1>1, <1>4, <1>7, <1>8
<1>10. alone <=> \A m \in DOMAIN calls : ~Running(m)
  BY DEF alone
<1> QED
  BY <1>5, <1>6, <1>8, <1>9, <1>10, <1>11 DEF nothing, empty

LEMMA TypeInvBegin ==
    ASSUME TypeInv, NEW kind \in Kinds, Begin(kind)
    PROVE  TypeInv'
<1>1. Typed'
  BY BeginShape DEF TypeInv, Typed
<1>2. \A b \in DOMAIN backups' : b[1] \in DOMAIN calls /\ b[1] \in DOMAIN calls'
  BY BeginShape DEF TypeInv
<1>3. \A m \in DOMAIN calls : Own(m)' = Own(m)
  BY <1>2, BeginShape DEF Own
<1>4. ASSUME NEW m, m = Len(calls) + 1 PROVE (Placed(m) /\ Backed(m))'
  <2>1. Own(m)' = {}
    BY <1>2, <1>4, BeginShape DEF Own
  <2> QED
    BY <1>4, <2>1, BeginShape DEF Placed, Backed, Looping
<1>5. ASSUME NEW m \in DOMAIN calls PROVE (Placed(m) /\ Backed(m))'
  <2>1. Entry(m)' = Entry(m) /\ Permitted(calls[m])' = Permitted(calls[m])
    BY <1>5, BeginShape DEF Entry, Permitted
  <2> QED
    BY <1>3, <1>5, <2>1, BeginShape DEF TypeInv, Placed, Backed
<1>6. DOMAIN calls' = DOMAIN calls \cup {Len(calls) + 1}
  BY BeginShape
<1>7. ASSUME NEW m \in DOMAIN calls' PROVE (Placed(m) /\ Backed(m))'
  <2>1. CASE m \in DOMAIN calls
    BY <1>5, <2>1
  <2>2. CASE m = Len(calls) + 1
    BY <1>4, <2>2
  <2> QED
    BY <1>6, <2>1, <2>2
<1> QED
  BY <1>1, <1>2, <1>7 DEF TypeInv

\* A step of the owner of a source.
LEMMA EditShape ==
    ASSUME TypeInv, NEW s \in Sources, EditSource(s)
    PROVE  source' \in [Sources -> 0..MaxVersion \cup {None}] /\ UNCHANGED <<disk, backups, calls>>
<1>1. source \in [Sources -> 0..MaxVersion \cup {None}] /\ MaxVersion \in Nat
  BY CallsAssumption DEF TypeInv, Typed
<1>2. CASE source' = [source EXCEPT ![s] = None]
  BY <1>1, <1>2 DEF EditSource
<1>3. CASE source[s] < MaxVersion /\ source' = [source EXCEPT ![s] = @ + 1]
  <2>1. source[s] + 1 \in 0..MaxVersion
    BY <1>1, <1>3 DEF EditSource
  <2> QED
    BY <1>1, <1>3, <2>1 DEF EditSource
<1> QED
  BY <1>2, <1>3 DEF EditSource

\* A step of the user.
UserMove(t) ==
    /\ t \in UserTargets /\ t \in Targets /\ UNCHANGED <<source, backups>>
    /\ calls' \in Seq(CallRec) /\ DOMAIN calls' = DOMAIN calls /\ Len(calls') = Len(calls)
    /\ \/ disk[t] = None /\ disk' = [disk EXCEPT ![t] = UserDir]
       \/ IsDir(disk[t]) /\ disk' = [disk EXCEPT ![t] = [disk[t] EXCEPT !.user = TRUE]]
    /\ \A n \in DOMAIN calls :
        /\ calls'[n].kind = calls[n].kind /\ calls'[n].alone = calls[n].alone
        /\ calls'[n].step = calls[n].step /\ calls'[n].entries = calls[n].entries
        /\ calls'[n].at = calls[n].at /\ calls'[n].todo = calls[n].todo
        /\ calls'[n].created = calls[n].created /\ calls'[n].outcome = calls[n].outcome
        /\ calls'[n].before = calls[n].before /\ calls'[n].stuck = calls[n].stuck
        /\ calls[n].touched \subseteq calls'[n].touched
        /\ Running(n) /\ calls[n].alone => t \in calls'[n].touched

LEMMA UserShape ==
    ASSUME TypeInv, NEW t \in UserTargets, UserMakes(t) \/ UserWorks(t)
    PROVE  UserMove(t)
<1>1. Typed /\ calls \in Seq(CallRec) /\ DOMAIN calls = 1..Len(calls) /\ Len(calls) \in Nat
      /\ t \in Targets
  BY PlacesAssumption DEF TypeInv, Typed
<1> DEFINE told(n) == [calls[n] EXCEPT !.touched = @ \cup {t}]
           new     == [n \in DOMAIN calls |-> IF Running(n) /\ calls[n].alone THEN told(n) ELSE calls[n]]
<1>2. calls' = new /\ UNCHANGED <<source, backups>>
  BY DEF UserMakes, UserWorks, UserActs
<1>3. \/ disk[t] = None /\ disk' = [disk EXCEPT ![t] = UserDir]
      \/ IsDir(disk[t]) /\ disk' = [disk EXCEPT ![t] = [disk[t] EXCEPT !.user = TRUE]]
  BY DEF UserMakes, UserWorks, UserActs
<1>4. \A n \in DOMAIN calls :
        /\ told(n) \in CallRec /\ calls[n] \in CallRec
        /\ told(n).kind = calls[n].kind /\ told(n).alone = calls[n].alone
        /\ told(n).step = calls[n].step /\ told(n).entries = calls[n].entries
        /\ told(n).at = calls[n].at /\ told(n).todo = calls[n].todo
        /\ told(n).created = calls[n].created /\ told(n).outcome = calls[n].outcome
        /\ told(n).before = calls[n].before /\ told(n).stuck = calls[n].stuck
        /\ told(n).touched = calls[n].touched \cup {t}
  <2> TAKE n \in DOMAIN calls
  <2>1. calls[n] \in CallRec /\ calls[n].touched \subseteq Targets
    BY <1>1, CallFields
  <2> DEFINE touched == calls[n].touched \cup {t}
  <2>2. touched \in SUBSET Targets
    BY <1>1, <2>1
  <2>3. told(n) = [calls[n] EXCEPT !.touched = touched]
    BY <2>1 DEF CallRec
  <2> HIDE DEF touched
  <2> QED
    BY <2>1, <2>2, <2>3 DEF CallRec, touched
<1>5. new \in Seq(CallRec) /\ Len(new) = Len(calls) /\ DOMAIN new = DOMAIN calls
  <2> HIDE DEF told
  <2>1. new = [m \in 1..Len(calls) |-> new[m]]
    BY <1>1
  <2>2. \A m \in 1..Len(calls) : new[m] \in CallRec
    BY <1>1, <1>4
  <2> HIDE DEF new
  <2>3. new \in [1..Len(calls) -> CallRec]
    BY <2>1, <2>2
  <2> QED
    BY <1>1, <2>3
<1>6. \A n \in DOMAIN calls :
        new[n] = IF Running(n) /\ calls[n].alone THEN told(n) ELSE calls[n]
  OBVIOUS
<1> HIDE DEF new, told
<1> QED
  BY <1>1, <1>2, <1>3, <1>4, <1>5, <1>6 DEF UserMove

\* What the user leaves.
LEMMA UserNodes ==
    ASSUME TypeInv, NEW t \in UserTargets, UserMove(t)
    PROVE  /\ disk' \in [Targets -> Nodes] /\ disk'[t] \in Dirs /\ disk'[t].user
           /\ \A u \in Targets : u # t => disk'[u] = disk[u]
           /\ \/ disk[t] = None /\ disk'[t] = UserDir
              \/ /\ IsDir(disk[t]) /\ disk'[t].marker = disk[t].marker
                 /\ disk'[t].files = disk[t].files /\ disk'[t].copied = disk[t].copied
                 /\ disk'[t].cut = disk[t].cut
<1>1. disk \in [Targets -> Nodes] /\ t \in Targets
  BY DEF TypeInv, Typed, UserMove
<1>2. CASE disk[t] = None /\ disk' = [disk EXCEPT ![t] = UserDir]
  <2>1. UserDir \in Dirs /\ UserDir \in Nodes /\ UserDir.user
    BY NodeTypes DEF Nodes, UserDir, EmptyDir
  <2> QED
    BY <1>1, <1>2, <2>1
<1>3. CASE IsDir(disk[t]) /\ disk' = [disk EXCEPT ![t] = [disk[t] EXCEPT !.user = TRUE]]
  <2> DEFINE dir == [disk[t] EXCEPT !.user = TRUE]
  <2>1. disk[t] \in Dirs
    BY <1>1, <1>3, NodeTypes
  <2>2. /\ dir \in Dirs /\ dir.user /\ dir.marker = disk[t].marker /\ dir.files = disk[t].files
        /\ dir.copied = disk[t].copied /\ dir.cut = disk[t].cut
    BY <2>1 DEF Dirs
  <2>3. dir \in Nodes
    BY <2>2 DEF Nodes
  <2> HIDE DEF dir
  <2>4. disk' = [disk EXCEPT ![t] = dir]
    BY <1>3 DEF dir
  <2> QED
    BY <1>1, <1>3, <2>2, <2>3, <2>4
<1> QED
  BY <1>2, <1>3 DEF UserMove

LEMMA TypeInvUser ==
    ASSUME TypeInv, NEW t \in UserTargets, UserMove(t)
    PROVE  TypeInv'
<1>1. Typed'
  BY UserNodes DEF TypeInv, Typed, UserMove
<1>2. ASSUME NEW m \in DOMAIN calls' PROVE (Placed(m) /\ Backed(m))'
  <2>1. m \in DOMAIN calls /\ Entry(m)' = Entry(m) /\ Own(m)' = Own(m)
        /\ Permitted(calls[m])' = Permitted(calls[m])
    BY <1>2 DEF UserMove, Entry, Own, Permitted
  <2> QED
    BY <2>1 DEF TypeInv, UserMove, Placed, Backed
<1> QED
  BY <1>1, <1>2 DEF TypeInv, UserMove

\* What does not change with the source alone.
LEMMA TypeInvStays ==
    ASSUME TypeInv, UNCHANGED <<disk, backups, calls>>,
           source' \in [Sources -> 0..MaxVersion \cup {None}]
    PROVE  TypeInv'
<1>1. Typed'
  BY DEF TypeInv, Typed
<1>2. ASSUME NEW m \in DOMAIN calls' PROVE (Placed(m) /\ Backed(m))'
  <2>1. m \in DOMAIN calls /\ Entry(m)' = Entry(m) /\ Own(m)' = Own(m)
        /\ Permitted(calls[m])' = Permitted(calls[m])
    BY <1>2 DEF Entry, Own, Permitted
  <2> QED
    BY <2>1 DEF TypeInv, Placed, Backed
<1> QED
  BY <1>1, <1>2 DEF TypeInv

LEMMA TypeInvInit ==
    ASSUME Init
    PROVE  TypeInv
<1>1. source \in [Sources -> 0..MaxVersion \cup {None}]
  BY CallsAssumption DEF Init
<1>2. disk \in [Targets -> Nodes]
  BY NodeTypes DEF Init, Nodes
<1> DEFINE nothing == <<>>
<1>3. backups = nothing /\ calls = nothing
  BY DEF Init
<1>4. DOMAIN nothing = {} /\ nothing \in Seq(CallRec)
      /\ nothing \in [{} -> [target : Targets, node : Nodes \ {None}]]
  OBVIOUS
<1> HIDE DEF nothing
<1>5. Typed
  BY <1>1, <1>2, <1>3, <1>4, FS_EmptySet DEF Typed
<1> QED
  BY <1>3, <1>4, <1>5 DEF TypeInv

LEMMA NextMoves ==
    ASSUME TypeInv, [Next]_vars
    PROVE  \/ \E kind \in Kinds : Begin(kind)
           \/ \E n \in DOMAIN calls : Move(n)
           \/ /\ source' \in [Sources -> 0..MaxVersion \cup {None}]
              /\ UNCHANGED <<disk, backups, calls>>
           \/ \E t \in UserTargets : UserMove(t)
<1>1. ASSUME NEW n \in 1..MaxCalls, CallStep(n) PROVE n \in DOMAIN calls
  BY <1>1 DEF CallStep, PlanEntry, Planned, Stage, CreateLink, CreateDir, CopyPart, WriteMarker,
              Fail, UndoCreated, LeaveCreated, RestoreBackup, Discard, Verify, CleanEntry, RemoveEntry,
              FailRemoval, Kill, Going
<1>2. source \in [Sources -> 0..MaxVersion \cup {None}]
  BY DEF TypeInv, Typed
<1> QED
  BY <1>1, <1>2, StepMoves, EditShape, UserShape DEF Next, vars

LEMMA TypeInvNext ==
    ASSUME TypeInv, [Next]_vars
    PROVE  TypeInv'
BY NextMoves, TypeInvBegin, TypeInvStep, TypeInvStays, TypeInvUser

LEMMA TypeInvAlways == Spec => []TypeInv
<1>1. Init => TypeInv
  BY TypeInvInit
<1>2. TypeInv /\ [Next]_vars => TypeInv'
  BY TypeInvNext
<1> QED
  BY <1>1, <1>2, PTL DEF Spec

\* What is at a target a call or the user can have put there, and every backup
\* belongs to a forced apply that has staged it and not thrown it away.
THEOREM ProjectionTypeCorrect == Spec => []TypeOK
<1>1. TypeInv => TypeOK
  BY DEF TypeInv, TypeOK, Typed, Backed, Own
<1> QED
  BY <1>1, TypeInvAlways, PTL

----------------------------------------------------------------------------
\* Who is alone.

\* Only a call that runs makes a step.
LEMMA MoveRuns ==
    ASSUME TypeInv, NEW n \in DOMAIN calls, Move(n)
    PROVE  Running(n) /\ Others(n)
BY TypesStep DEF Move, Decides, Planning, Finishes, Stages, Linking, OpensDir, Copies, TakesBack,
                 Leaves, Restores, Discards, Removes, Running, Looping

LEMMA AloneStep ==
    ASSUME TypeInv, AloneInv, NEW n \in DOMAIN calls, Move(n)
    PROVE  AloneInv'
BY MoveRuns DEF AloneInv, Others, Running

LEMMA AloneBegin ==
    ASSUME TypeInv, AloneInv, NEW kind \in Kinds, Begin(kind)
    PROVE  AloneInv'
<1>1. \A m \in DOMAIN calls : /\ calls'[m].alone => calls[m].alone /\ ~Running(m)
                              /\ calls'[m].step = calls[m].step
  BY BeginShape
<1>2. ASSUME NEW m \in DOMAIN calls PROVE Running(m)' <=> Running(m)
  BY <1>1 DEF Running
<1>3. ASSUME NEW new, new = Len(calls) + 1, NEW m \in DOMAIN calls, calls'[new].alone
      PROVE  ~Running(m)
  BY <1>3, BeginShape
<1>4. DOMAIN calls' = DOMAIN calls \cup {Len(calls) + 1}
  BY BeginShape
<1>5. ASSUME NEW n \in DOMAIN calls', Running(n)', calls'[n].alone,
             NEW m \in DOMAIN calls', Running(m)'
      PROVE  m = n
  <2>1. n \notin DOMAIN calls
    BY <1>1, <1>2, <1>5
  <2>2. n = Len(calls) + 1
    BY <1>4, <2>1
  <2>3. m \notin DOMAIN calls
    BY <1>2, <1>3, <1>5, <2>2
  <2> QED
    BY <1>4, <2>2, <2>3
<1> QED
  BY <1>5 DEF AloneInv

LEMMA AloneNext ==
    ASSUME TypeInv, AloneInv, [Next]_vars
    PROVE  AloneInv'
<1>1. ASSUME UNCHANGED calls PROVE AloneInv'
  BY <1>1 DEF AloneInv, Running
<1>2. ASSUME NEW t \in UserTargets, UserMove(t) PROVE AloneInv'
  BY <1>2 DEF UserMove, AloneInv, Running
<1> QED
  BY <1>1, <1>2, NextMoves, AloneStep, AloneBegin

\* Two calls run beside each other: neither has the disk for itself.
LEMMA Beside ==
    ASSUME TypeInv, AloneInv, NEW n \in DOMAIN calls, NEW m \in DOMAIN calls, m # n,
           Running(n), Running(m)
    PROVE  ~calls[n].alone /\ ~calls[m].alone
BY DEF AloneInv

----------------------------------------------------------------------------
\* A directory with a marker is whole.

LEMMA UndisturbedStays ==
    ASSUME TypeInv, NEW n \in DOMAIN calls, Others(n)
    PROVE  (Undisturbed' <=> Undisturbed) /\ (Overlapped' <=> Overlapped)
BY DEF Others, Undisturbed, Overlapped

\* What a removal leaves needs no files.
LEMMA TakenWhole ==
    ASSUME NEW node, NEW less, Taken(node, less)
    PROVE  /\ Whole(less)
           /\ less = None \/ (IsDir(node) /\ IsDir(less) /\ less.cut)
BY NodeTypes DEF Taken, Whole, MayLack, IsDir

LEMMA WholeNodes ==
    /\ Whole(None) /\ Whole(EmptyDir) /\ IsDir(EmptyDir) /\ ~IsDir(None)
    /\ \A s \in Sources : Whole(Link(s))
BY NodeTypes DEF Whole, EmptyDir, IsDir

\* The nodes, on the disk and in the backups.
LEMMA WholeStep ==
    ASSUME TypeInv, AloneInv, WholeInv, Undisturbed, NEW n \in DOMAIN calls, Move(n)
    PROVE  /\ \A t \in Targets : Whole(disk'[t])
           /\ \A b \in DOMAIN backups' : Whole(backups'[b].node)
<1> DEFINE Kept == /\ \A t \in Targets : Whole(disk'[t])
                   /\ \A b \in DOMAIN backups' : Whole(backups'[b].node)
<1>1. /\ \A t \in Targets : Whole(disk[t])
      /\ \A b \in DOMAIN backups : Whole(backups[b].node)
      /\ CopyInv(n)
  BY DEF WholeInv
<1>2. ASSUME NEW node, Whole(node), NEW t \in Targets, disk' = [disk EXCEPT ![t] = node],
             UNCHANGED backups
      PROVE  Kept
  BY <1>1, <1>2 DEF TypeInv, Typed
<1>3. ASSUME UNCHANGED <<disk, backups>> PROVE Kept
  BY <1>1, <1>3
<1>4. ASSUME calls[n].at \in DOMAIN calls[n].entries
      PROVE  Entry(n).target \in Targets /\ Entry(n).source \in Sources
  BY <1>4, EntryFields DEF TypeInv
<1>5. ASSUME Stages(n) PROVE Kept
  <2>1. Entry(n).target \in Targets
    BY <1>4, <1>5 DEF Stages, TypeInv, Placed, Looping
  <2>2. \A t \in Targets : Whole(disk'[t])
    BY <1>1, <1>5, <2>1, WholeNodes DEF Stages, TypeInv, Typed
  <2>3. Whole(disk[Entry(n).target])
    BY <1>1, <2>1
  <2> DEFINE new == <<n, calls[n].at>>
  <2>4. /\ DOMAIN backups' = DOMAIN backups \cup {new} /\ backups'[new].node = disk[Entry(n).target]
        /\ \A b \in DOMAIN backups : backups'[b] = backups[b]
    BY <1>5, StageBackups
  <2> HIDE DEF new
  <2>5. \A b \in DOMAIN backups' : Whole(backups'[b].node)
    BY <1>1, <2>3, <2>4
  <2> QED
    BY <2>2, <2>5
<1>6. ASSUME Linking(n) PROVE Kept
  <2>1. Entry(n).target \in Targets /\ Entry(n).source \in Sources
    BY <1>4, <1>6 DEF Linking, TypeInv, Placed, Looping
  <2> QED
    BY <1>2, <1>6, <2>1, WholeNodes DEF Linking
<1>7. ASSUME OpensDir(n) PROVE Kept
  <2>1. Entry(n).target \in Targets
    BY <1>4, <1>7 DEF OpensDir, TypeInv, Placed, Looping
  <2> QED
    BY <1>1, <1>2, <1>7, <2>1, WholeNodes DEF OpensDir
<1>8. ASSUME Copies(n) PROVE Kept
  <2>1. Entry(n).target \in Targets /\ calls[n].step = "copy" /\ UNCHANGED backups
    BY <1>4, <1>8 DEF Copies, TypeInv, Placed, Looping
  <2>2. CASE ~IsDir(disk[Entry(n).target])
    BY <1>3, <1>8, <2>1, <2>2 DEF Copies, Writes
  <2>3. ASSUME IsDir(disk[Entry(n).target]), NEW part \in calls[n].todo,
               source[Entry(n).source] # None, Writes(n, WithPart(n, part))
        PROVE  Kept
    <3>1. part \in Parts
      BY <2>3, CallFields DEF TypeInv
    <3>2. /\ DOMAIN WithPart(n, part).files = {part} \cup DOMAIN disk[Entry(n).target].files
          /\ WithPart(n, part).marker = disk[Entry(n).target].marker
          /\ WithPart(n, part).user = disk[Entry(n).target].user
          /\ WithPart(n, part).cut = disk[Entry(n).target].cut
      BY <2>1, <2>3, <3>1, WriteTypes
    <3>3. Whole(WithPart(n, part))
      BY <1>1, <2>1, <2>3, <3>1, <3>2 DEF Whole, MayLack
    <3> QED
      BY <1>2, <2>1, <2>3, <3>3 DEF Writes
  <2>4. ASSUME IsDir(disk[Entry(n).target]), calls[n].todo = {}, Writes(n, WithMarker(n))
        PROVE  Kept
    <3>1. /\ WithMarker(n).files = disk[Entry(n).target].files
          /\ WithMarker(n).user = disk[Entry(n).target].user
          /\ WithMarker(n).cut = disk[Entry(n).target].cut
          /\ DOMAIN disk[Entry(n).target].files \subseteq Parts
      BY <2>1, <2>4, WriteTypes
    <3>2. MayLack(disk[Entry(n).target]) \/ Parts \subseteq DOMAIN disk[Entry(n).target].files
      BY <1>1, <2>1, <2>4, WholeNodes DEF CopyInv
    <3>3. Whole(WithMarker(n))
      BY <3>1, <3>2 DEF Whole, MayLack
    <3> QED
      BY <1>2, <2>1, <2>4, <3>3 DEF Writes
  <2> HIDE DEF Kept
  <2> QED
    BY <1>8, <2>2, <2>3, <2>4 DEF Copies
<1>9. ASSUME TakesBack(n) \/ Leaves(n) PROVE Kept
  <2>1. Latest(n) \in Targets
    BY <1>9, CallFields, FrontType DEF TakesBack, Leaves, Latest, TypeInv
  <2>2. CASE TakesBack(n)
    BY <1>2, <2>1, <2>2, TakenWhole DEF TakesBack
  <2> QED
    BY <1>3, <1>9, <2>2 DEF Leaves
<1>10. ASSUME Restores(n) PROVE Kept
  <2>1. PICK b \in Own(n) :
            \/ disk' = [disk EXCEPT ![backups[b].target] = backups[b].node] /\ backups' = Without(b)
            \/ UNCHANGED <<disk, backups>>
    BY <1>10 DEF Restores
  <2>2. b \in DOMAIN backups /\ backups[b].target \in Targets /\ Whole(backups[b].node)
    BY <1>1, OwnType
  <2>3. CASE disk' = [disk EXCEPT ![backups[b].target] = backups[b].node] /\ backups' = Without(b)
    BY <1>1, <2>2, <2>3, WithoutBackup DEF TypeInv, Typed
  <2> QED
    BY <1>3, <2>1, <2>3
<1>11. ASSUME Discards(n) PROVE Kept
  <2>1. PICK b \in Own(n) :
            \/ backups' = Without(b)
            \/ \E less \in Nodes \ {None} : /\ Taken(backups[b].node, less)
                                            /\ backups' = [backups EXCEPT ![b].node = less]
    BY <1>11 DEF Discards
  <2>2. UNCHANGED disk
    BY <1>11 DEF Discards
  <2>3. CASE backups' = Without(b)
    BY <1>1, <2>2, <2>3, WithoutBackup
  <2>4. ASSUME NEW less \in Nodes \ {None}, Taken(backups[b].node, less),
               backups' = [backups EXCEPT ![b].node = less]
        PROVE  Kept
    <3>1. Whole(less)
      BY <2>4, TakenWhole
    <3> QED
      BY <1>1, <2>2, <2>4, <3>1, LessBackup
  <2> HIDE DEF Kept
  <2> QED
    BY <2>1, <2>3, <2>4
<1>12. ASSUME Removes(n) PROVE Kept
  <2>1. Entry(n).target \in Targets
    BY <1>4, <1>12 DEF Removes, TypeInv, Placed
  <2> QED
    BY <1>2, <1>12, <2>1, TakenWhole DEF Removes
<1>13. ASSUME Decides(n) PROVE Kept
  BY <1>3, <1>13 DEF Decides
<1> HIDE DEF Kept
<1>14. Kept
  BY <1>5, <1>6, <1>7, <1>8, <1>9, <1>10, <1>11, <1>12, <1>13 DEF Move
<1> QED
  BY <1>14 DEF Kept

\* A copy of the call that makes the step.
LEMMA CopyStep ==
    ASSUME TypeInv, WholeInv, Undisturbed, NEW n \in DOMAIN calls, Move(n)
    PROVE  CopyInv(n)'
<1> SUFFICES ASSUME calls'[n].step = "copy" PROVE CopyInv(n)'
  BY DEF CopyInv
<1>1. OpensDir(n) \/ (Copies(n) /\ Goes(n, "copy", calls[n].at))
  BY DEF Move, Decides, Planning, Finishes, Stages, Linking, OpensDir, Copies, TakesBack,
         Leaves, Restores, Discards, Removes, Goes, GoesOn, Advances
<1>2. /\ calls[n].at \in DOMAIN calls[n].entries /\ Entry(n)' = Entry(n) /\ Others(n)
      /\ CopyInv(n)
  BY <1>1 DEF TypeInv, Placed, Looping, OpensDir, Copies, Goes, GoesOn, Others, Entry, WholeInv
<1>3. Entry(n).target \in Targets /\ disk \in [Targets -> Nodes] /\ (Overlapped' <=> Overlapped)
  BY <1>2, EntryFields, UndisturbedStays DEF TypeInv, Typed
<1>4. CASE OpensDir(n)
  <2>1. calls'[n].todo = Parts
    BY <1>4 DEF OpensDir
  <2>2. disk'[Entry(n).target] # None
    BY <1>3, <1>4, NodeTypes DEF OpensDir
  <2> QED
    BY <1>2, <2>1, <2>2 DEF CopyInv
<1>5. CASE Copies(n) /\ Goes(n, "copy", calls[n].at)
  <2>1. PICK part \in calls[n].todo : /\ source[Entry(n).source] # None
                                      /\ Writes(n, WithPart(n, part))
                                      /\ calls'[n].todo = calls[n].todo \ {part}
    <3>1. ~Advances(n, Grown(n))
      BY DEF Advances, Goes, GoesOn
    <3> QED
      BY <1>5, <3>1 DEF Copies
  <2>2. calls[n].step = "copy" /\ part \in Parts
    BY <1>5, CallFields DEF Copies, TypeInv
  <2>3. CASE IsDir(disk[Entry(n).target])
    <3>1. DOMAIN WithPart(n, part).files = {part} \cup DOMAIN disk[Entry(n).target].files
          /\ IsDir(WithPart(n, part))
          /\ WithPart(n, part).user = disk[Entry(n).target].user
          /\ WithPart(n, part).cut = disk[Entry(n).target].cut
      BY <2>1, <2>2, <2>3, WriteTypes, NodeTypes
    <3>2. \/ MayLack(disk[Entry(n).target])
          \/ Parts \ calls[n].todo \subseteq DOMAIN disk[Entry(n).target].files
      BY <1>2, <2>2, <2>3, WholeNodes DEF CopyInv
    <3>3. disk'[Entry(n).target] = WithPart(n, part)
      BY <1>3, <2>1, <2>3 DEF Writes
    <3> QED
      BY <1>2, <1>3, <2>1, <3>1, <3>2, <3>3 DEF CopyInv, MayLack
  <2>4. CASE ~IsDir(disk[Entry(n).target])
    <3>1. UNCHANGED disk
      BY <2>1, <2>4 DEF Writes
    <3> QED
      BY <1>2, <1>3, <2>2, <2>4, <3>1 DEF CopyInv, Others
  <2> QED
    BY <2>3, <2>4
<1> QED
  BY <1>1, <1>4, <1>5

\* A copy beside the call that makes the step: there are only the two, and nothing
\* is replaced.
LEMMA CopyBeside ==
    ASSUME TypeInv, AloneInv, WholeInv, Undisturbed, NEW n \in DOMAIN calls, Move(n),
           NEW m \in DOMAIN calls, m # n
    PROVE  CopyInv(m)'
<1> SUFFICES ASSUME calls[m].step = "copy" PROVE CopyInv(m)'
  BY MoveRuns DEF CopyInv, Others
<1> DEFINE t == Entry(m).target
<1>1. /\ calls[m].at \in DOMAIN calls[m].entries /\ CopyInv(m) /\ Others(n) /\ Running(n)
      /\ calls'[m] = calls[m]
  BY MoveRuns DEF TypeInv, Placed, Looping, WholeInv, Others
<1>2. t \in Targets /\ disk \in [Targets -> Nodes] /\ Entry(m)' = Entry(m)
  BY <1>1, EntryFields DEF TypeInv, Typed, Entry
<1>3. /\ Overlapped /\ Overlapped' /\ Len(calls) <= 2 /\ \A k \in DOMAIN calls : ~calls[k].kind.force
  <2>1. Running(m)
    BY DEF Running
  <2> QED
    BY <1>1, <2>1, Beside, UndisturbedStays DEF Overlapped, Undisturbed
<1>4. \A k \in DOMAIN calls : k # m => k = n
  <2>1. DOMAIN calls = 1..Len(calls) /\ Len(calls) \in Nat
    BY DEF TypeInv, Typed
  <2> QED
    BY <1>3, <2>1
<1>5. Own(n) = {}
  BY <1>3 DEF TypeInv, Backed
<1>6. ~Stages(n)
  <2>1. calls[n].step # "stage"
    <3>1. SUFFICES ASSUME calls[n].step = "stage" PROVE FALSE
      OBVIOUS
    <3> QED
      BY <1>3, <3>1 DEF TypeInv, Placed, Permitted, Looping, Entry
  <2> QED
    BY <2>1 DEF Stages
<1>7. ~Restores(n) /\ ~Discards(n)
  BY <1>5 DEF Restores, Discards
<1>8. ASSUME disk'[t] = None, calls'[n].step \in Idle PROVE CopyInv(m)'
  BY <1>1, <1>2, <1>3, <1>4, <1>8 DEF CopyInv, Others
<1>9. ASSUME disk'[t] = disk[t], disk[t] # None PROVE CopyInv(m)'
  BY <1>1, <1>2, <1>3, <1>9 DEF CopyInv, MayLack
<1>13. ASSUME IsDir(disk'[t]), disk'[t].cut PROVE CopyInv(m)'
  BY <1>1, <1>2, <1>13 DEF CopyInv, MayLack
<1> DEFINE n_at == Entry(n).target
<1>10. ASSUME calls[n].step \in Looping \cup {"remove"} PROVE n_at \in Targets
  BY <1>10, EntryFields DEF TypeInv, Placed
<1>11. CASE disk[t] = None
  <2>1. calls[n].step \in Idle
    BY <1>1, <1>2, <1>11, WholeNodes DEF CopyInv
  <2>2. Decides(n) \/ TakesBack(n) \/ Leaves(n) \/ Removes(n)
    BY <1>6, <1>7, <2>1 DEF Move, Linking, OpensDir, Copies, Idle
  <2>3. calls'[n].step \in Idle
    BY <2>1, <2>2 DEF Idle, Looping, Decides, Planning, Finishes, Goes, GoesOn, TakesBack, Leaves, Removes
  <2>4. disk'[t] = None
    BY <1>2, <1>11, <2>2, TakenWhole, WholeNodes DEF Decides, TakesBack, Leaves, Removes
  <2> QED
    BY <1>8, <2>3, <2>4
<1>12. CASE disk[t] # None
  <2>1. CASE Decides(n)
    BY <1>9, <1>12, <2>1 DEF Decides
  <2>2. CASE Linking(n)
    BY <1>2, <1>9, <1>12, <2>2 DEF Linking
  <2>3. CASE OpensDir(n)
    BY <1>2, <1>9, <1>12, <2>3 DEF OpensDir
  <2>4. CASE Copies(n)
    <3>1. calls[n].step = "copy" /\ n_at \in Targets
      BY <1>10, <2>4 DEF Copies, Looping
    <3>2. CASE disk'[t] = disk[t]
      BY <1>9, <1>12, <3>2
    <3>3. CASE disk'[t] # disk[t]
      <4>1. IsDir(disk[n_at]) /\ t = n_at
        BY <1>2, <2>4, <3>1, <3>3 DEF Copies, Writes
      <4>2. \/ disk'[t] = WithMarker(n)
            \/ \E part \in Parts : source[Entry(n).source] # None /\ disk'[t] = WithPart(n, part)
        BY <1>2, <2>4, <3>1, <4>1, CallFields DEF Copies, Writes, TypeInv
      <4>3. /\ IsDir(disk'[t]) /\ DOMAIN disk[t].files \subseteq DOMAIN disk'[t].files
            /\ disk'[t].user = disk[t].user /\ disk'[t].cut = disk[t].cut
        <5>1. CASE disk'[t] = WithMarker(n)
          BY <3>1, <4>1, <5>1, WriteTypes, NodeTypes
        <5>2. ASSUME NEW part \in Parts, source[Entry(n).source] # None,
                     disk'[t] = WithPart(n, part)
              PROVE  /\ IsDir(disk'[t]) /\ DOMAIN disk[t].files \subseteq DOMAIN disk'[t].files
                     /\ disk'[t].user = disk[t].user /\ disk'[t].cut = disk[t].cut
          <6>1. /\ WithPart(n, part) \in Dirs
                /\ DOMAIN WithPart(n, part).files = {part} \cup DOMAIN disk[n_at].files
                /\ WithPart(n, part).user = disk[n_at].user /\ WithPart(n, part).cut = disk[n_at].cut
            BY <3>1, <4>1, <5>2, WriteTypes
          <6> QED
            BY <4>1, <5>2, <6>1, NodeTypes
        <5> QED
          BY <4>2, <5>1, <5>2
      <4>4. MayLack(disk[t]) \/ Parts \ calls[m].todo \subseteq DOMAIN disk[t].files
        BY <1>1, <1>12, <4>1 DEF CopyInv
      <4> QED
        BY <1>1, <1>2, <1>3, <4>3, <4>4 DEF CopyInv, MayLack
    <3> QED
      BY <3>2, <3>3
  <2>5. CASE TakesBack(n)
    <3>1. calls'[n].step \in Idle
      BY <2>5 DEF TakesBack, Goes, GoesOn, Idle
    <3>2. \/ disk'[t] = None \/ disk'[t] = disk[t]
          \/ IsDir(disk'[t]) /\ disk'[t].cut
      BY <1>2, <2>5, TakenWhole DEF TakesBack
    <3> QED
      BY <1>8, <1>9, <1>12, <1>13, <3>1, <3>2
  <2>6. CASE Removes(n)
    <3>1. calls'[n].step \in Idle
      BY <2>6 DEF Removes, Goes, GoesOn, Idle
    <3>2. \/ disk'[t] = None \/ disk'[t] = disk[t]
          \/ IsDir(disk'[t]) /\ disk'[t].cut
      BY <1>2, <2>6, TakenWhole DEF Removes
    <3> QED
      BY <1>8, <1>9, <1>12, <1>13, <3>1, <3>2
  <2>7. CASE Leaves(n)
    BY <1>9, <1>12, <2>7 DEF Leaves
  <2> QED
    BY <1>6, <1>7, <2>1, <2>2, <2>3, <2>4, <2>5, <2>6, <2>7 DEF Move
<1> QED
  BY <1>11, <1>12

LEMMA WholeBegin ==
    ASSUME TypeInv, AloneInv, WholeInv, NEW kind \in Kinds, Begin(kind)
    PROVE  WholeInv'
<1> SUFFICES ASSUME Undisturbed' PROVE WholeInv'
  BY DEF WholeInv
<1>1. DOMAIN calls = 1..Len(calls) /\ Len(calls) \in Nat
  BY DEF TypeInv, Typed
<1>2. Undisturbed /\ (Overlapped => Overlapped')
  BY <1>1, BeginShape DEF Undisturbed, Overlapped
<1>3. ASSUME NEW m \in DOMAIN calls PROVE CopyInv(m)'
  <2>1. Entry(m)' = Entry(m) /\ UNCHANGED disk /\ CopyInv(m) /\ calls'[m].todo = calls[m].todo
        /\ calls'[m].step = calls[m].step
    BY <1>2, <1>3, BeginShape DEF Entry, WholeInv
  <2>2. ASSUME calls[m].step = "copy" PROVE Len(calls) <= 1
    <3>1. ~calls'[m].alone /\ m \in DOMAIN calls'
      BY <1>3, <2>2, BeginShape DEF Running
    <3>2. Len(calls') <= 2
      BY <3>1 DEF Undisturbed, Overlapped
    <3> QED
      BY <1>1, <3>2, BeginShape
  <2>3. calls[m].step = "copy" => \A k \in DOMAIN calls : k = m
    BY <1>1, <1>3, <2>2
  <2> QED
    BY <1>2, <2>1, <2>3 DEF CopyInv, MayLack
<1>4. ASSUME NEW m, m = Len(calls) + 1 PROVE CopyInv(m)'
  BY <1>4, BeginShape DEF CopyInv
<1>5. DOMAIN calls' = DOMAIN calls \cup {Len(calls) + 1} /\ UNCHANGED <<disk, backups>>
  BY BeginShape
<1>6. \A m \in DOMAIN calls' : CopyInv(m)'
  BY <1>3, <1>4, <1>5
<1>7. /\ \A t \in Targets : Whole(disk[t])'
      /\ \A b \in DOMAIN backups' : Whole(backups[b].node)'
  BY <1>2, <1>5 DEF WholeInv, Whole, MayLack
<1> QED
  BY <1>6, <1>7 DEF WholeInv

LEMMA WholeUser ==
    ASSUME TypeInv, WholeInv, NEW t \in UserTargets, UserMove(t)
    PROVE  WholeInv'
<1> SUFFICES ASSUME Undisturbed' PROVE WholeInv'
  BY DEF WholeInv
<1>1. Undisturbed /\ (Overlapped' <=> Overlapped)
  BY DEF Undisturbed, Overlapped, UserMove
<1>2. t \in Targets /\ UNCHANGED backups /\ DOMAIN calls' = DOMAIN calls
  BY DEF UserMove
<1>3. disk[t] # None => /\ IsDir(disk[t]) /\ IsDir(disk'[t]) /\ disk'[t].marker = disk[t].marker
                        /\ disk'[t].files = disk[t].files /\ disk'[t].cut = disk[t].cut
  BY UserNodes, NodeTypes
<1>4. \A u \in Targets : Whole(disk[u])'
  <2>1. UserDir.marker = None
    BY DEF UserDir, EmptyDir
  <2>2. Whole(disk[t])'
    BY <1>1, <1>2, <1>3, <2>1, UserNodes DEF WholeInv, Whole, MayLack
  <2> QED
    BY <1>1, <1>2, <2>2, UserNodes DEF WholeInv, Whole, MayLack
<1>5. \A b \in DOMAIN backups' : Whole(backups[b].node)'
  BY <1>1, <1>2 DEF WholeInv, Whole, MayLack
<1>6. ASSUME NEW n \in DOMAIN calls PROVE CopyInv(n)'
  <2> SUFFICES ASSUME calls[n].step = "copy" PROVE CopyInv(n)'
    BY DEF CopyInv, UserMove
  <2>1. /\ CopyInv(n) /\ Entry(n)' = Entry(n) /\ Entry(n).target \in Targets
        /\ calls'[n].todo = calls[n].todo /\ calls'[n].step = "copy"
        /\ \A m \in DOMAIN calls : calls'[m].step = calls[m].step
    BY <1>1, EntryFields DEF WholeInv, UserMove, Entry, TypeInv, Placed, Looping
  <2>2. CASE Entry(n).target # t
    <3>1. disk'[Entry(n).target] = disk[Entry(n).target]
      BY <2>1, <2>2, UserNodes
    <3> QED
      BY <1>1, <1>2, <2>1, <3>1 DEF CopyInv, MayLack
  <2>3. CASE Entry(n).target = t
    <3>1. IsDir(disk'[t]) /\ disk'[t].user
      BY UserNodes, NodeTypes
    <3>2. CASE disk[t] = None
      BY <1>1, <2>1, <2>3, <3>1, <3>2, WholeNodes DEF CopyInv, MayLack
    <3>3. CASE disk[t] # None
      BY <1>1, <1>3, <2>1, <2>3, <3>1, <3>3 DEF CopyInv, MayLack
    <3> QED
      BY <3>2, <3>3
  <2> QED
    BY <2>2, <2>3
<1> QED
  BY <1>2, <1>4, <1>5, <1>6 DEF WholeInv

LEMMA WholeNext ==
    ASSUME TypeInv, AloneInv, WholeInv, [Next]_vars
    PROVE  WholeInv'
<1>1. ASSUME NEW n \in DOMAIN calls, Move(n) PROVE WholeInv'
  <2>1. SUFFICES ASSUME Undisturbed' PROVE WholeInv'
    BY DEF WholeInv
  <2>2. Undisturbed /\ DOMAIN calls' = DOMAIN calls /\ (Overlapped' <=> Overlapped)
    BY <1>1, <2>1, MoveRuns, UndisturbedStays DEF Others
  <2>3. ASSUME NEW m \in DOMAIN calls' PROVE CopyInv(m)'
    BY <1>1, <2>2, CopyStep, CopyBeside
  <2>4. /\ \A t \in Targets : Whole(disk'[t])
        /\ \A b \in DOMAIN backups' : Whole(backups'[b].node)
    BY <1>1, <2>2, WholeStep
  <2>5. /\ \A t \in Targets : Whole(disk[t])'
        /\ \A b \in DOMAIN backups' : Whole(backups[b].node)'
    BY <2>2, <2>4 DEF Whole, MayLack
  <2> QED
    BY <2>3, <2>5 DEF WholeInv
<1>2. ASSUME UNCHANGED <<disk, backups, calls>> PROVE WholeInv'
  <2>1. (Undisturbed' <=> Undisturbed) /\ (Overlapped' <=> Overlapped)
    BY <1>2 DEF Undisturbed, Overlapped
  <2>2. ASSUME NEW m \in DOMAIN calls, CopyInv(m) PROVE CopyInv(m)'
    <3>1. Entry(m)' = Entry(m)
      BY <1>2 DEF Entry
    <3> QED
      BY <1>2, <2>1, <2>2, <3>1 DEF CopyInv, MayLack
  <2> QED
    BY <1>2, <2>1, <2>2 DEF WholeInv, Whole, MayLack
<1> QED
  BY <1>1, <1>2, NextMoves, WholeBegin, WholeUser

\* A directory that carries the marker of a copy has every file of its source,
\* however the copy was interrupted, when no call disturbed another.
THEOREM MarkedIsWholeHolds == Spec => []MarkedIsWhole
<1>1. Init => AloneInv /\ WholeInv
  <2>1. SUFFICES ASSUME Init PROVE AloneInv /\ WholeInv
    OBVIOUS
  <2>2. DOMAIN calls = {} /\ DOMAIN backups = {}
    BY <2>1 DEF Init
  <2>3. \A t \in Targets : Whole(disk[t])
    BY <2>1, WholeNodes DEF Init
  <2> QED
    BY <2>2, <2>3 DEF AloneInv, WholeInv
<1>2. TypeInv /\ AloneInv /\ WholeInv /\ [Next]_vars => AloneInv' /\ WholeInv'
  BY AloneNext, WholeNext
<1>3. WholeInv => MarkedIsWhole
  BY DEF WholeInv, MarkedIsWhole, Whole
<1> QED
  BY <1>1, <1>2, <1>3, TypeInvAlways, PTL DEF Spec

----------------------------------------------------------------------------
\* A call that had the disk for itself can be undone.

\* The place that a failure leaves half copied.
Half(node) == IsDir(node) /\ node.marker = None /\ ~node.user

Acts(n, k) == calls[n].entries[k].operation \in {"create", "replace"}

Made(n, t) == \E j \in DOMAIN calls[n].created : calls[n].created[j] = t

Saved(n, t) == \E b \in Own(n) : backups[b].target = t

\* The user worked there since the call began.
Worked(n, t) == t \in calls[n].touched

\* What the rollback still has to rename back.
Pending(n, t) == \E b \in Own(n) : backups[b].target = t /\ b[2] <= calls[n].at

\* The plan was made for what was there, and the backups hold it.
PlanInv(n) ==
    LET call == calls[n]
    IN  /\ \A k \in DOMAIN call.entries :
            /\ k \in DOMAIN Wanted[call.kind] /\ call.entries[k].target = Wanted[call.kind][k].target
            /\ \/ Worked(n, call.entries[k].target)
               \/ /\ call.entries[k].operation = "create"  => call.before[call.entries[k].target] = None
                  /\ call.entries[k].operation = "replace" => call.before[call.entries[k].target] # None
        /\ \A b \in Own(n) :
            /\ b[2] \in DOMAIN call.entries /\ call.entries[b[2]].operation = "replace"
            /\ backups[b].target = call.entries[b[2]].target
            /\ Worked(n, backups[b].target) \/ backups[b].node = call.before[backups[b].target]

\* The loop has done what is before its place, and nothing else.
LoopInv(n) ==
    LET call == calls[n]
    IN  /\ \A j \in DOMAIN call.created :
            \E k \in DOMAIN call.entries :
                k < call.at /\ Acts(n, k) /\ call.created[j] = call.entries[k].target
        /\ \A k \in DOMAIN call.entries :
            Acts(n, k) /\ k < call.at => Made(n, call.entries[k].target)
        /\ \A k \in DOMAIN call.entries :
            /\ call.entries[k].operation = "replace"
            /\ k < call.at \/ (k = call.at /\ call.step # "stage")
            => <<n, k>> \in Own(n)
        /\ \A t \in Targets :
            t = Entry(n).target \/ Made(n, t) \/ Worked(n, t) \/ disk[t] = call.before[t]
        /\ \/ Worked(n, Entry(n).target)
           \/ /\ call.step = "stage"  => disk[Entry(n).target] = call.before[Entry(n).target]
              /\ call.step = "create" => disk[Entry(n).target] = None
              /\ call.step = "copy"   => Half(disk[Entry(n).target])

\* The rollback: a target is as it was, or will be removed or renamed back; one that
\* cannot be removed stays, and one may be left half copied.
Undone(n, t, p) ==
    \/ Worked(n, t) \/ Made(n, t)
    \/ disk[t] = calls[n].before[t]
    \/ disk[t] = None /\ Pending(n, t)
    \/ /\ t \in calls[n].stuck \/ (t = p /\ Half(disk[t]))
       /\ calls[n].before[t] # None => Saved(n, t)

UndoInv(n) ==
    /\ \A t \in Targets :
        Made(n, t) /\ calls[n].before[t] # None => Worked(n, t) \/ Pending(n, t)
    /\ \E p \in Targets : \A t \in Targets : Undone(n, t, p)

Undoable(n) ==
    Running(n) /\ calls[n].alone /\ OwnTargets(calls[n].kind) =>
        /\ calls[n].before \in [Targets -> Nodes]
        /\ calls[n].step = "plan" =>
                /\ \A t \in Targets : Worked(n, t) \/ disk[t] = calls[n].before[t]
                /\ calls[n].created = <<>> /\ calls[n].at = 0
        /\ calls[n].step \in {"plan", "undo"} \cup Looping => PlanInv(n)
        /\ calls[n].step \in Looping => LoopInv(n)
        /\ calls[n].step = "undo" => UndoInv(n)

UndoableInv == \A n \in DOMAIN calls : Undoable(n)

\* What the plan was made for does not change while the entries and the backups stay.
LEMMA PlanInvStays ==
    ASSUME NEW n \in DOMAIN calls, PlanInv(n), Others(n), calls'[n].entries = calls[n].entries,
           Ghosts(calls'[n], calls[n]), Own(n)' \subseteq Own(n),
           \A b \in Own(n)' : backups'[b] = backups[b]
    PROVE  PlanInv(n)'
<1>1. \A t : Worked(n, t)' <=> Worked(n, t)
  BY DEF Worked, Ghosts
<1> QED
  BY <1>1 DEF PlanInv, Others, Ghosts

\* The loop goes on from a place up to which all is done.
LEMMA AdvancesLoop ==
    ASSUME TypeInv, NEW n \in DOMAIN calls, NEW created, Advances(n, created), UNCHANGED backups,
           PlanInv(n), OwnTargets(calls[n].kind),
           \A j \in DOMAIN created :
                \E k \in DOMAIN calls[n].entries :
                    k <= calls[n].at /\ Acts(n, k) /\ created[j] = calls[n].entries[k].target,
           \A k \in DOMAIN calls[n].entries :
                Acts(n, k) /\ k <= calls[n].at =>
                    \E j \in DOMAIN created : created[j] = calls[n].entries[k].target,
           \A k \in DOMAIN calls[n].entries :
                calls[n].entries[k].operation = "replace" /\ k <= calls[n].at => <<n, k>> \in Own(n),
           \A t \in Targets :
                \/ \E j \in DOMAIN created : created[j] = t
                \/ Worked(n, t) \/ disk'[t] = calls[n].before[t]
    PROVE  PlanInv(n)' /\ (calls'[n].step \in Looping => LoopInv(n)')
<1>1. /\ calls'[n].created = created /\ calls'[n].entries = calls[n].entries
      /\ calls'[n].before = calls[n].before /\ Others(n) /\ Own(n)' = Own(n)
      /\ Ghosts(calls'[n], calls[n]) /\ \A t : Worked(n, t)' <=> Worked(n, t)
  BY DEF Advances, Goes, GoesOn, Own, Ghosts, Worked
<1>2. PlanInv(n)'
  BY <1>1, PlanInvStays
<1>3. /\ calls[n].entries \in Seq(Entries) /\ calls[n].at \in Nat
      /\ \A k \in DOMAIN calls[n].entries : k \in Nat /\ calls[n].entries[k] \in Entries
  BY CallFields DEF TypeInv
<1>4. \A t \in Targets : Made(n, t)' <=> \E j \in DOMAIN created : created[j] = t
  BY <1>1 DEF Made
<1>5. ASSUME calls'[n].step \in Looping PROVE LoopInv(n)'
  <2>1. PICK k \in DOMAIN calls[n].entries :
            /\ k > calls[n].at
            /\ \A j \in DOMAIN calls[n].entries :
                    j > calls[n].at /\ j < k =>
                        calls[n].entries[j].operation \notin {"create", "replace"}
            /\ \/ calls[n].entries[k].operation = "replace" /\ Goes(n, "stage", k)
               \/ calls[n].entries[k].operation = "create" /\ Goes(n, "create", k)
    BY <1>5 DEF Advances, Goes, GoesOn, Looping
  <2>2. calls'[n].at = k /\ Entry(n)' = calls[n].entries[k] /\ k \in Nat
        /\ calls[n].entries[k].target \in Targets
    BY <1>1, <1>3, <2>1 DEF Goes, GoesOn, Entry, Entries
  <2>3. ASSUME NEW j \in DOMAIN calls[n].entries, Acts(n, j), j < k PROVE j <= calls[n].at
    BY <1>3, <2>1, <2>2, <2>3 DEF Acts
  <2>4. \A j \in DOMAIN calls[n].entries : Acts(n, j)' <=> Acts(n, j)
    BY <1>1 DEF Acts
  <2>5. \A j \in DOMAIN created :
            \E m \in DOMAIN calls[n].entries :
                m < k /\ Acts(n, m) /\ created[j] = calls[n].entries[m].target
    BY <1>3, <2>1, <2>2
  <2>6. \A m \in DOMAIN calls[n].entries : Acts(n, m) /\ m < k => Made(n, calls[n].entries[m].target)'
    BY <1>1, <2>3 DEF Made
  <2>7. calls[n].entries[k].operation = "replace" => calls'[n].step = "stage"
    BY <2>1 DEF Goes, GoesOn
  <2>8. \A m \in DOMAIN calls[n].entries :
            /\ calls[n].entries[m].operation = "replace"
            /\ m < k \/ (m = k /\ calls'[n].step # "stage")
            => <<n, m>> \in Own(n)
    BY <2>3, <2>7 DEF Acts
  <2>9. \A t \in Targets : Made(n, t)' \/ Worked(n, t) \/ disk'[t] = calls[n].before[t]
    BY <1>4
  <2>10. \/ Worked(n, calls[n].entries[k].target)
         \/ disk'[calls[n].entries[k].target] = calls[n].before[calls[n].entries[k].target]
    <3>1. SUFFICES ASSUME NEW j \in DOMAIN created, created[j] = calls[n].entries[k].target
                   PROVE  FALSE
      BY <2>2
    <3>2. PICK m \in DOMAIN calls[n].entries :
                m < k /\ created[j] = calls[n].entries[m].target
      BY <2>5
    <3>3. Wanted[calls[n].kind][m].target = Wanted[calls[n].kind][k].target
          /\ m \in DOMAIN Wanted[calls[n].kind] /\ k \in DOMAIN Wanted[calls[n].kind]
      BY <3>1, <3>2 DEF PlanInv
    <3>4. m = k
      BY <3>3 DEF OwnTargets
    <3> QED
      BY <2>2, <3>2, <3>4
  <2>11. \/ Worked(n, calls[n].entries[k].target)
         \/ calls'[n].step = "create" => calls[n].before[calls[n].entries[k].target] = None
    BY <2>1 DEF Goes, GoesOn, PlanInv
  <2>12. calls'[n].step \in {"stage", "create"}
    BY <2>1 DEF Goes, GoesOn
  <2> QED
    BY <1>1, <2>2, <2>4, <2>5, <2>6, <2>8, <2>9, <2>10, <2>11, <2>12 DEF LoopInv
<1> QED
  BY <1>2, <1>5

\* A failure in the loop leaves what the rollback can undo.
LEMMA FailedUndo ==
    ASSUME TypeInv, NEW n \in DOMAIN calls, calls[n].step \in Looping, PlanInv(n), LoopInv(n)
    PROVE  UndoInv(n)
<1> DEFINE B == calls[n].before
           p == Entry(n).target
<1>1. calls[n].at \in DOMAIN calls[n].entries /\ calls[n].at \in Nat
      /\ Entry(n) = calls[n].entries[calls[n].at] /\ Entry(n).operation \in {"create", "replace"}
      /\ \A k \in DOMAIN calls[n].entries : k \in Nat
  BY CallFields DEF TypeInv, Placed, Entry
<1>2. p \in Targets
  BY <1>1, EntryFields DEF TypeInv
<1>3. ASSUME NEW k \in DOMAIN calls[n].entries, <<n, k>> \in Own(n)
      PROVE  /\ Saved(n, calls[n].entries[k].target)
             /\ k <= calls[n].at => Pending(n, calls[n].entries[k].target)
  <2> DEFINE b == <<n, k>>
  <2>1. b[2] = k
    OBVIOUS
  <2>2. b \in Own(n)
    BY <1>3
  <2> HIDE DEF b
  <2>3. backups[b].target = calls[n].entries[k].target
    BY <2>1, <2>2 DEF PlanInv
  <2> QED
    BY <2>1, <2>2, <2>3 DEF Saved, Pending
<1>4. ASSUME NEW t \in Targets, Made(n, t), B[t] # None, ~Worked(n, t) PROVE Pending(n, t)
  <2>1. PICK k \in DOMAIN calls[n].entries :
            k < calls[n].at /\ Acts(n, k) /\ t = calls[n].entries[k].target
    BY <1>4 DEF Made, LoopInv
  <2>2. calls[n].entries[k].operation = "replace"
    BY <1>4, <2>1 DEF Acts, PlanInv
  <2>3. <<n, k>> \in Own(n)
    BY <2>1, <2>2 DEF LoopInv
  <2>4. k <= calls[n].at
    BY <1>1, <2>1
  <2> QED
    BY <1>3, <2>1, <2>3, <2>4
<1>5. calls[n].step # "stage" /\ B[p] # None /\ ~Worked(n, p) => Saved(n, p) /\ Pending(n, p)
  <2>1. SUFFICES ASSUME calls[n].step # "stage", B[p] # None, ~Worked(n, p) PROVE Saved(n, p) /\ Pending(n, p)
    OBVIOUS
  <2>2. Entry(n).operation = "replace"
    BY <1>1, <2>1 DEF PlanInv
  <2>3. <<n, calls[n].at>> \in Own(n)
    BY <1>1, <2>1, <2>2 DEF LoopInv
  <2>4. calls[n].at <= calls[n].at
    BY <1>1
  <2> QED
    BY <1>1, <1>3, <2>3, <2>4
<1>6. \/ Worked(n, p)
      \/ disk[p] = B[p]
      \/ disk[p] = None /\ Pending(n, p)
      \/ Half(disk[p]) /\ (B[p] # None => Saved(n, p))
  BY <1>5 DEF LoopInv, Looping
<1>7. \A t \in Targets : t = p \/ Made(n, t) \/ Worked(n, t) \/ disk[t] = B[t]
  BY DEF LoopInv
<1>8. \A t \in Targets : Undone(n, t, p)
  BY <1>6, <1>7 DEF Undone
<1> QED
  BY <1>2, <1>4, <1>8 DEF UndoInv

\* What was created without the last.
LEMMA MadeFront ==
    ASSUME TypeInv, NEW n \in DOMAIN calls, calls[n].created # <<>>,
           calls'[n].created = Front(calls[n].created)
    PROVE  /\ Latest(n) \in Targets /\ Made(n, Latest(n))
           /\ \A t \in Targets : /\ Made(n, t)' => Made(n, t)
                                 /\ Made(n, t) => Made(n, t)' \/ t = Latest(n)
<1>1. calls[n].created \in Seq(Targets)
  BY CallFields DEF TypeInv
<1>2. /\ DOMAIN Front(calls[n].created) = 1..(Len(calls[n].created) - 1)
      /\ DOMAIN calls[n].created = 1..Len(calls[n].created) /\ Len(calls[n].created) \in Nat \ {0}
      /\ Latest(n) = calls[n].created[Len(calls[n].created)] /\ Latest(n) \in Targets
      /\ \A k \in 1..(Len(calls[n].created) - 1) : Front(calls[n].created)[k] = calls[n].created[k]
  BY <1>1, FrontType DEF Latest
<1>3. \A t \in Targets : Made(n, t)' => Made(n, t)
  BY <1>2 DEF Made
<1>4. ASSUME NEW j \in DOMAIN calls[n].created, calls[n].created[j] # Latest(n)
      PROVE  j \in 1..(Len(calls[n].created) - 1)
  BY <1>2, <1>4
<1>5. \A t \in Targets : Made(n, t) => Made(n, t)' \/ t = Latest(n)
  BY <1>2, <1>4 DEF Made
<1>6. Made(n, Latest(n))
  BY <1>2 DEF Made
<1> QED
  BY <1>2, <1>3, <1>5, <1>6

\* The rollback removes what was made, or leaves it, and renames back what was there.
LEMMA UndoStep ==
    ASSUME TypeInv, NEW n \in DOMAIN calls, TakesBack(n) \/ Leaves(n) \/ Restores(n),
           PlanInv(n), UndoInv(n), calls[n].before \in [Targets -> Nodes]
    PROVE  PlanInv(n)' /\ UndoInv(n)'
<1> DEFINE B == calls[n].before
<1>1. PICK p \in Targets : \A t \in Targets : Undone(n, t, p)
  BY DEF UndoInv
<1>2. disk \in [Targets -> Nodes]
  BY DEF TypeInv, Typed
<1>3. ASSUME TakesBack(n) \/ Leaves(n) PROVE PlanInv(n)' /\ UndoInv(n)'
  <2> DEFINE last == Latest(n)
  <2>1. /\ Others(n) /\ calls'[n].entries = calls[n].entries /\ Ghosts(calls'[n], calls[n])
        /\ calls'[n].at = calls[n].at /\ Own(n)' = Own(n) /\ UNCHANGED backups
        /\ calls[n].created # <<>>
    BY <1>3 DEF TakesBack, Leaves, Goes, GoesOn, Own
  <2>2. PlanInv(n)'
    BY <2>1, PlanInvStays
  <2>3. /\ \A t \in Targets : (Pending(n, t)' <=> Pending(n, t)) /\ (Saved(n, t)' <=> Saved(n, t))
        /\ \A t \in Targets : Worked(n, t)' <=> Worked(n, t)
        /\ calls'[n].before = B
    BY <2>1 DEF Pending, Saved, Worked, Ghosts
  <2>4. \A t \in Targets : Pending(n, t) => Saved(n, t)
    BY DEF Pending, Saved
  <2>5. last \in Targets /\ Made(n, last)
    <3>1. calls[n].created \in Seq(Targets)
      BY CallFields DEF TypeInv
    <3> QED
      BY <2>1, <3>1, FrontType DEF Made, Latest
  <2>6. B[last] # None => Worked(n, last) \/ Pending(n, last)
    BY <2>5 DEF UndoInv
  <2>7. CASE TakesBack(n) /\ calls'[n].created = calls[n].created
    <3>1. /\ \A t \in Targets : Made(n, t)' <=> Made(n, t)
          /\ \A t \in Targets : t # last => disk'[t] = disk[t]
          /\ calls'[n].stuck = calls[n].stuck
      BY <1>2, <2>7 DEF TakesBack, Goes, Made
    <3>2. \A t \in Targets : Undone(n, t, p)'
      <4> TAKE t \in Targets
      <4>1. Undone(n, t, p)
        BY <1>1
      <4> HIDE DEF last
      <4> QED
        BY <2>3, <2>5, <3>1, <4>1 DEF Undone
    <3> QED
      BY <2>2, <2>3, <3>1, <3>2 DEF UndoInv
  <2>8. CASE TakesBack(n) /\ calls'[n].created = Front(calls[n].created) /\ disk'[last] = None
    <3>1. /\ \A t \in Targets : /\ Made(n, t)' => Made(n, t)
                                /\ Made(n, t) => Made(n, t)' \/ t = last
          /\ \A t \in Targets : t # last => disk'[t] = disk[t]
          /\ calls'[n].stuck = calls[n].stuck
      <4>0. calls[n].created # <<>> /\ calls'[n].created = Front(calls[n].created)
        BY <2>1, <2>8
      <4>1. \A t \in Targets : /\ Made(n, t)' => Made(n, t)
                               /\ Made(n, t) => Made(n, t)' \/ t = Latest(n)
        BY <4>0, MadeFront
      <4>2. \A t \in Targets : t # last => disk'[t] = disk[t]
        BY <1>2, <2>8 DEF TakesBack
      <4>3. calls'[n].stuck = calls[n].stuck
        BY <2>8 DEF TakesBack, Goes
      <4> QED
        BY <4>1, <4>2, <4>3
    <3>2. \A t \in Targets : Undone(n, t, p)'
      <4> TAKE t \in Targets
      <4>1. Undone(n, t, p)
        BY <1>1
      <4> HIDE DEF last
      <4>2. CASE t = last
        BY <2>3, <2>6, <2>8, <4>2 DEF Undone
      <4>3. CASE t # last
        BY <2>3, <3>1, <4>1, <4>3 DEF Undone
      <4> QED
        BY <4>2, <4>3
    <3> QED
      BY <2>2, <2>3, <3>1, <3>2 DEF UndoInv
  <2>9. CASE Leaves(n)
    <3>1. /\ \A t \in Targets : /\ Made(n, t)' => Made(n, t)
                                /\ Made(n, t) => Made(n, t)' \/ t = last
          /\ UNCHANGED disk /\ calls'[n].stuck = calls[n].stuck \cup {last}
      <4>1. /\ calls'[n].created = Front(calls[n].created) /\ UNCHANGED disk
            /\ calls'[n].stuck = calls[n].stuck \cup {last}
        BY <2>9 DEF Leaves
      <4>0. calls[n].created # <<>> /\ calls'[n].created = Front(calls[n].created)
        BY <2>1, <4>1
      <4>2. \A t \in Targets : /\ Made(n, t)' => Made(n, t)
                               /\ Made(n, t) => Made(n, t)' \/ t = Latest(n)
        BY <4>0, MadeFront
      <4> QED
        BY <4>1, <4>2
    <3>2. \A t \in Targets : Undone(n, t, p)'
      <4> TAKE t \in Targets
      <4>1. Undone(n, t, p)
        BY <1>1
      <4> HIDE DEF last
      <4>2. CASE t = last
        BY <2>3, <2>4, <2>6, <3>1, <4>2 DEF Undone
      <4>3. CASE t # last
        BY <2>3, <3>1, <4>1, <4>3 DEF Undone
      <4> QED
        BY <4>2, <4>3
    <3> QED
      BY <2>2, <2>3, <3>1, <3>2 DEF UndoInv
  <2>10. TakesBack(n) => \/ calls'[n].created = calls[n].created
                         \/ calls'[n].created = Front(calls[n].created) /\ disk'[last] = None
    BY <1>2, <2>5 DEF TakesBack
  <2> QED
    BY <1>3, <2>7, <2>8, <2>9, <2>10
<1>4. ASSUME Restores(n) PROVE PlanInv(n)' /\ UndoInv(n)'
  <2>1. /\ calls[n].created = <<>> /\ calls'[n].created = <<>>
        /\ \A t \in Targets : ~Made(n, t) /\ ~Made(n, t)'
    BY <1>4 DEF Restores, Made
  <2>2. PICK b \in Own(n) :
            /\ b[2] <= calls[n].at
            /\ \A c \in Own(n) : c[2] <= calls[n].at => c[2] <= b[2]
            /\ Goes(n, "undo", b[2] - 1)
            /\ \/ /\ disk' = [disk EXCEPT ![backups[b].target] = backups[b].node]
                  /\ backups' = Without(b)
               \/ /\ ~MayReplace(backups[b].node, disk[backups[b].target])
                  /\ UNCHANGED <<disk, backups>>
    BY <1>4 DEF Restores
  <2> DEFINE at == backups[b].target
  <2>3. /\ Others(n) /\ calls'[n].entries = calls[n].entries /\ calls'[n].before = B
        /\ calls'[n].at = b[2] - 1 /\ Ghosts(calls'[n], calls[n]) /\ calls'[n].stuck = calls[n].stuck
        /\ \A t \in Targets : Worked(n, t)' <=> Worked(n, t)
    BY <2>2 DEF Goes, GoesOn, Ghosts, Worked
  <2>4. /\ \A c \in Own(n) : c = <<n, c[2]>> /\ c[2] \in Nat
        /\ b[2] \in Nat /\ at \in Targets /\ (Worked(n, at) \/ backups[b].node = B[at])
    BY OwnType DEF PlanInv
  <2>5. ASSUME NEW c \in Own(n), c # b, c[2] <= calls[n].at PROVE c[2] <= b[2] - 1
    <3>1. c[2] # b[2]
      BY <2>4, <2>5
    <3> QED
      BY <2>2, <2>4, <2>5, <3>1
  <2>6. Own(n)' \subseteq Own(n) /\ (\A c \in Own(n) : c # b => c \in Own(n)')
        /\ \A c \in Own(n)' : backups'[c] = backups[c]
    <3>1. CASE backups' = Without(b)
      <4>1. Own(n)' = Own(n) \ {b} /\ DOMAIN backups' = (DOMAIN backups) \ {b}
            /\ \A c \in DOMAIN backups' : backups'[c] = backups[c]
        BY <3>1, WithoutBackup
      <4>2. Own(n)' \subseteq DOMAIN backups'
        BY DEF Own
      <4> QED
        BY <4>1, <4>2
    <3>2. CASE UNCHANGED backups
      BY <3>2 DEF Own
    <3> QED
      BY <2>2, <3>1, <3>2
  <2>7. PlanInv(n)'
    BY <2>3, <2>6, PlanInvStays
  <2>8. \A t \in Targets : t # at =>
            (Pending(n, t) => Pending(n, t)') /\ (Saved(n, t) => Saved(n, t)')
    <3>1. ASSUME NEW t \in Targets, t # at, NEW c \in Own(n), backups[c].target = t
          PROVE  /\ c \in Own(n)' /\ backups'[c].target = t
                 /\ c[2] <= calls[n].at => c[2] <= calls'[n].at
      BY <2>3, <2>5, <2>6, <3>1
    <3> QED
      BY <3>1 DEF Pending, Saved
  <2>9. CASE disk' = [disk EXCEPT ![at] = backups[b].node]
    <3>1. disk'[at] = backups[b].node /\ \A t \in Targets : t # at => disk'[t] = disk[t]
      BY <1>2, <2>4, <2>9
    <3>2. ASSUME NEW t \in Targets PROVE Undone(n, t, p)'
      <4>1. Undone(n, t, p)
        BY <1>1
      <4> HIDE DEF at
      <4>2. CASE t = at
        BY <2>3, <2>4, <3>1, <4>2 DEF Undone
      <4>3. CASE t # at
        BY <2>1, <2>3, <2>8, <3>1, <4>1, <4>3 DEF Undone
      <4> QED
        BY <4>2, <4>3
    <3> QED
      BY <2>1, <2>7, <3>2 DEF UndoInv
  <2>10. CASE ~MayReplace(backups[b].node, disk[at]) /\ UNCHANGED <<disk, backups>>
    <3>1. disk[at] # None
      BY <2>10 DEF MayReplace
    <3>2. Own(n)' = Own(n) /\ \A t \in Targets : Saved(n, t)' <=> Saved(n, t)
      BY <2>10 DEF Own, Saved
    <3>3. ASSUME NEW t \in Targets PROVE Undone(n, t, p)'
      <4>1. Undone(n, t, p)
        BY <1>1
      <4> HIDE DEF at
      <4> QED
        BY <2>1, <2>3, <2>8, <2>10, <3>1, <3>2, <4>1 DEF Undone
    <3> QED
      BY <2>1, <2>7, <3>3 DEF UndoInv
  <2> QED
    BY <2>2, <2>9, <2>10
<1> QED
  BY <1>3, <1>4

\* The loop of apply.
LEMMA LoopStep ==
    ASSUME TypeInv, NEW n \in DOMAIN calls, PlanInv(n), LoopInv(n), calls[n].step \in Looping,
           OwnTargets(calls[n].kind), calls[n].before \in [Targets -> Nodes],
           Stages(n) \/ Linking(n) \/ OpensDir(n) \/ Copies(n)
    PROVE  PlanInv(n)' /\ (calls'[n].step \in Looping => LoopInv(n)')
<1> DEFINE B == calls[n].before
           p == Entry(n).target
           Goal == PlanInv(n)' /\ (calls'[n].step \in Looping => LoopInv(n)')
<1>1. /\ calls[n].at \in DOMAIN calls[n].entries /\ calls[n].at \in Nat
      /\ Entry(n) = calls[n].entries[calls[n].at] /\ Entry(n).operation \in {"create", "replace"}
      /\ \A k \in DOMAIN calls[n].entries : k \in Nat
      /\ calls[n].created \in Seq(Targets) /\ disk \in [Targets -> Nodes] /\ p \in Targets
  <2>1. /\ calls[n].at \in DOMAIN calls[n].entries /\ calls[n].at \in Nat
        /\ Entry(n).operation \in {"create", "replace"} /\ calls[n].created \in Seq(Targets)
        /\ \A k \in DOMAIN calls[n].entries : k \in Nat
    BY CallFields DEF TypeInv, Placed
  <2>2. p \in Targets /\ disk \in [Targets -> Nodes]
    BY <2>1, EntryFields DEF TypeInv, Typed
  <2>3. Entry(n) = calls[n].entries[calls[n].at]
    BY DEF Entry
  <2> QED
    BY <2>1, <2>2, <2>3
<1>2. ASSUME Advances(n, Grown(n)), UNCHANGED backups, calls[n].step # "stage",
             \A t \in Targets : t # p => disk'[t] = disk[t]
      PROVE  Goal
  <2> DEFINE grown == Grown(n)
  <2>1. /\ \A j \in DOMAIN grown : (j \in DOMAIN calls[n].created /\ grown[j] = calls[n].created[j])
                                   \/ grown[j] = p
        /\ \A j \in DOMAIN calls[n].created : j \in DOMAIN grown /\ grown[j] = calls[n].created[j]
        /\ \E j \in DOMAIN grown : grown[j] = p
    <3>1. /\ Len(calls[n].created) \in Nat /\ DOMAIN calls[n].created = 1..Len(calls[n].created)
          /\ DOMAIN grown = 1..(Len(calls[n].created) + 1)
          /\ grown[Len(calls[n].created) + 1] = p
          /\ \A j \in 1..Len(calls[n].created) : grown[j] = calls[n].created[j]
      BY <1>1 DEF Grown
    <3> QED
      BY <3>1
  <2> HIDE DEF grown
  <2>2. \A j \in DOMAIN grown :
            \E k \in DOMAIN calls[n].entries :
                k <= calls[n].at /\ Acts(n, k) /\ grown[j] = calls[n].entries[k].target
    <3>1. Acts(n, calls[n].at) /\ calls[n].at <= calls[n].at
      BY <1>1 DEF Acts
    <3>2. \A j \in DOMAIN calls[n].created :
            \E k \in DOMAIN calls[n].entries :
                k <= calls[n].at /\ Acts(n, k) /\ calls[n].created[j] = calls[n].entries[k].target
      BY <1>1, SMTT(20) DEF LoopInv
    <3> QED
      BY <1>1, <2>1, <3>1, <3>2
  <2>3. \A k \in DOMAIN calls[n].entries :
            Acts(n, k) /\ k <= calls[n].at => \E j \in DOMAIN grown : grown[j] = calls[n].entries[k].target
    <3>1. ASSUME NEW k \in DOMAIN calls[n].entries, Acts(n, k), k < calls[n].at
          PROVE  \E j \in DOMAIN grown : grown[j] = calls[n].entries[k].target
      BY <2>1, <3>1 DEF LoopInv, Made
    <3> QED
      BY <1>1, <2>1, <3>1
  <2>4. \A k \in DOMAIN calls[n].entries :
            calls[n].entries[k].operation = "replace" /\ k <= calls[n].at => <<n, k>> \in Own(n)
    <3>1. \A k \in DOMAIN calls[n].entries : k <= calls[n].at => k < calls[n].at \/ k = calls[n].at
      BY <1>1
    <3> QED
      BY <1>2, <3>1 DEF LoopInv
  <2>5. \A t \in Targets :
            (\E j \in DOMAIN grown : grown[j] = t) \/ Worked(n, t) \/ disk'[t] = B[t]
    <3>1. \A t \in Targets : t = p \/ Made(n, t) \/ Worked(n, t) \/ disk[t] = B[t]
      BY DEF LoopInv
    <3> QED
      BY <1>2, <2>1, <3>1 DEF Made
  <2> HIDE DEF Goal
  <2>6. Advances(n, grown)
    BY <1>2 DEF grown
  <2>7. Goal
    BY <1>2, <2>2, <2>3, <2>4, <2>5, <2>6, AdvancesLoop DEF Goal
  <2> QED
    BY <2>7
<1>3. ASSUME NEW step \in {"create", "copy"}, Goes(n, step, calls[n].at),
             calls'[n].created = calls[n].created, UNCHANGED backups, calls[n].step # "stage",
             \A t \in Targets : t # p => disk'[t] = disk[t],
             \/ Worked(n, p)
             \/ (step = "create" => disk'[p] = None) /\ (step = "copy" => Half(disk'[p]))
      PROVE  Goal
  <2>1. /\ Others(n) /\ calls'[n].entries = calls[n].entries /\ calls'[n].before = B
        /\ calls'[n].at = calls[n].at /\ Own(n)' = Own(n) /\ Entry(n)' = Entry(n)
        /\ calls'[n].step = step /\ Ghosts(calls'[n], calls[n])
        /\ \A t : Worked(n, t)' <=> Worked(n, t)
    BY <1>3 DEF Goes, GoesOn, Own, Entry, Ghosts, Worked
  <2>2. PlanInv(n)'
    BY <1>3, <2>1, PlanInvStays
  <2>3. /\ \A k \in DOMAIN calls[n].entries : Acts(n, k)' <=> Acts(n, k)
        /\ \A t : Made(n, t)' <=> Made(n, t)
    BY <1>3, <2>1 DEF Acts, Made
  <2>4. \A t \in Targets : t = p \/ Made(n, t) \/ Worked(n, t) \/ disk'[t] = B[t]
    BY <1>3 DEF LoopInv
  <2>5. LoopInv(n)'
    BY <1>3, <2>1, <2>3, <2>4 DEF LoopInv
  <2> QED
    BY <2>2, <2>5
<1>4. ASSUME Stages(n) PROVE Goal
  <2> DEFINE new == <<n, calls[n].at>>
  <2>1. /\ Others(n) /\ calls'[n].entries = calls[n].entries /\ calls'[n].before = B
        /\ calls'[n].at = calls[n].at /\ Entry(n)' = Entry(n) /\ calls'[n].step = "create"
        /\ calls'[n].created = calls[n].created /\ calls[n].step = "stage"
        /\ Entry(n).operation = "replace" /\ \A t : Worked(n, t)' <=> Worked(n, t)
    BY <1>4 DEF Stages, Goes, GoesOn, Entry, TypeInv, Placed, Ghosts, Worked
  <2>2. /\ Own(n)' = Own(n) \cup {new} /\ backups'[new].target = p /\ backups'[new].node = disk[p]
        /\ \A b \in DOMAIN backups : backups'[b] = backups[b]
    BY <1>4, StageBackups
  <2>3. new[2] = calls[n].at
    OBVIOUS
  <2>4. (Worked(n, p) \/ disk[p] = B[p]) /\ \A b \in Own(n) : b \in DOMAIN backups
    BY <2>1 DEF LoopInv, Own
  <2>5. PlanInv(n)'
    <3>1. \A b \in Own(n)' :
            /\ b[2] \in DOMAIN calls[n].entries /\ calls[n].entries[b[2]].operation = "replace"
            /\ backups'[b].target = calls[n].entries[b[2]].target
            /\ Worked(n, backups'[b].target) \/ backups'[b].node = B[backups'[b].target]
      <4>1. ASSUME NEW b \in Own(n)
            PROVE  /\ b[2] \in DOMAIN calls[n].entries /\ calls[n].entries[b[2]].operation = "replace"
                   /\ backups'[b].target = calls[n].entries[b[2]].target
                   /\ Worked(n, backups'[b].target) \/ backups'[b].node = B[backups'[b].target]
        BY <2>2, <2>4 DEF PlanInv
      <4> HIDE DEF new
      <4> QED
        BY <1>1, <2>1, <2>2, <2>3, <2>4, <4>1
    <3> QED
      BY <2>1, <3>1 DEF PlanInv, Others
  <2>6. /\ \A k \in DOMAIN calls[n].entries : Acts(n, k)' <=> Acts(n, k)
        /\ \A t : Made(n, t)' <=> Made(n, t)
    BY <2>1 DEF Acts, Made
  <2>7. disk'[p] = None /\ \A t \in Targets : t = p \/ disk'[t] = disk[t]
    BY <1>1, <1>4 DEF Stages
  <2>8. \A k \in DOMAIN calls[n].entries :
            /\ calls[n].entries[k].operation = "replace"
            /\ k < calls[n].at \/ (k = calls[n].at /\ calls'[n].step # "stage")
            => <<n, k>> \in Own(n)'
    BY <2>2 DEF LoopInv
  <2>9. \A t \in Targets : t = p \/ Made(n, t) \/ Worked(n, t) \/ disk'[t] = B[t]
    BY <2>7 DEF LoopInv
  <2> HIDE DEF new
  <2>10. LoopInv(n)'
    BY <2>1, <2>6, <2>7, <2>8, <2>9 DEF LoopInv
  <2> QED
    BY <2>5, <2>10
<1>5. ASSUME Linking(n) PROVE Goal
  <2>1. \A t \in Targets : t # p => disk'[t] = disk[t]
    BY <1>1, <1>5 DEF Linking
  <2> QED
    BY <1>2, <1>5, <2>1 DEF Linking
<1>6. ASSUME OpensDir(n) PROVE Goal
  <2>1. Worked(n, p) \/ disk[p] = None
    BY <1>6 DEF OpensDir, LoopInv
  <2>2. (Worked(n, p) \/ disk'[p] = EmptyDir) /\ \A t \in Targets : t # p => disk'[t] = disk[t]
    BY <1>1, <1>6, <2>1 DEF OpensDir
  <2>3. Half(EmptyDir)
    BY WholeNodes DEF Half, EmptyDir
  <2> HIDE DEF Goal
  <2> QED
    BY <1>3, <1>6, <2>2, <2>3 DEF OpensDir
<1>7. ASSUME Copies(n) PROVE Goal
  <2>1. calls[n].step = "copy" /\ (Worked(n, p) \/ Half(disk[p])) /\ UNCHANGED backups
    BY <1>7 DEF Copies, LoopInv
  <2>2. ASSUME NEW node, Writes(n, node)
        PROVE  (Worked(n, p) \/ disk'[p] = node) /\ \A t \in Targets : t # p => disk'[t] = disk[t]
    BY <1>1, <2>1, <2>2 DEF Writes, Half
  <2>3. ASSUME NEW part \in calls[n].todo, source[Entry(n).source] # None,
               Writes(n, WithPart(n, part)), Goes(n, "copy", calls[n].at),
               calls'[n].created = calls[n].created
        PROVE  Goal
    <3>1. part \in Parts
      BY <2>3, CallFields DEF TypeInv
    <3>2. Worked(n, p) \/ Half(WithPart(n, part))
      BY <2>1, <2>3, <3>1, WriteTypes, NodeTypes DEF Half
    <3> HIDE DEF Goal
    <3> QED
      BY <1>3, <2>1, <2>2, <2>3, <3>2
  <2>4. ASSUME Writes(n, WithMarker(n)), Advances(n, Grown(n)) PROVE Goal
    <3> HIDE DEF Goal
    <3> QED
      BY <1>2, <2>1, <2>2, <2>4
  <2> HIDE DEF Goal
  <2> QED
    BY <1>7, <2>3, <2>4 DEF Copies
<1> HIDE DEF Goal
<1>8. Goal
  BY <1>4, <1>5, <1>6, <1>7
<1> QED
  BY <1>8 DEF Goal

\* A step of a call that can be undone leaves it so.
LEMMA UndoableStep ==
    ASSUME TypeInv, NEW n \in DOMAIN calls, Undoable(n), Move(n)
    PROVE  Undoable(n)'
<1> DEFINE B == calls[n].before
           Alone == Running(n) /\ calls[n].alone /\ OwnTargets(calls[n].kind)
<1>1. Others(n) /\ Running(n)
  BY MoveRuns
<1>2. SUFFICES ASSUME Running(n)', calls[n].alone, OwnTargets(calls[n].kind) PROVE Undoable(n)'
  BY <1>1 DEF Undoable, Others
<1>3. /\ B \in [Targets -> Nodes]
      /\ calls[n].step = "plan" =>
            /\ \A t \in Targets : Worked(n, t) \/ disk[t] = B[t]
            /\ calls[n].created = <<>> /\ calls[n].at = 0
      /\ calls[n].step \in {"plan", "undo"} \cup Looping => PlanInv(n)
      /\ calls[n].step \in Looping => LoopInv(n)
      /\ calls[n].step = "undo" => UndoInv(n)
  BY <1>1, <1>2 DEF Undoable
<1> DEFINE Kept == /\ calls'[n].before = B
                   /\ calls'[n].step = "plan" =>
                           /\ \A t \in Targets : Worked(n, t)' \/ disk'[t] = B[t]
                           /\ calls'[n].created = <<>> /\ calls'[n].at = 0
                   /\ calls'[n].step \in {"plan", "undo"} \cup Looping => PlanInv(n)'
                   /\ calls'[n].step \in Looping => LoopInv(n)'
                   /\ calls'[n].step = "undo" => UndoInv(n)'
<1>4. Kept => Undoable(n)'
  BY <1>3 DEF Undoable
<1>5. ASSUME NEW created, Advances(n, created)
      PROVE  calls'[n].before = B /\ calls'[n].step \notin {"plan", "undo"}
  BY <1>5 DEF Advances, Goes, GoesOn, Ghosts
<1>6. ASSUME NEW entry \in Entries, Planning(n, entry), UNCHANGED <<source, disk, backups>>
      PROVE  Kept
  <2>1. /\ calls'[n].before = B /\ calls'[n].step = "plan" /\ calls[n].step = "plan"
        /\ \A t \in Targets : Worked(n, t) \/ disk[t] = B[t]
        /\ calls'[n].created = <<>> /\ calls'[n].at = 0 /\ UNCHANGED <<disk, backups>>
        /\ \A t : Worked(n, t)' <=> Worked(n, t)
    BY <1>3, <1>6 DEF Planning, Ghosts, Worked
  <2>2. Own(n) = {} /\ Own(n)' = Own(n)
    BY <1>6 DEF Planning, TypeInv, Backed, Looping, Own
  <2> DEFINE K == Len(calls[n].entries) + 1
  <2>3. /\ calls[n].entries \in Seq(Entries) /\ calls'[n].entries = Append(calls[n].entries, entry)
        /\ calls'[n].kind = calls[n].kind /\ K \in DOMAIN Wanted[calls[n].kind]
        /\ entry.target = Wanted[calls[n].kind][K].target
    BY <1>6, CallFields DEF Planning, TypeInv, Others
  <2>4. /\ DOMAIN calls'[n].entries = DOMAIN calls[n].entries \cup {K}
        /\ calls'[n].entries[K] = entry
        /\ \A k \in DOMAIN calls[n].entries : calls'[n].entries[k] = calls[n].entries[k]
    BY <2>3
  <2>5. \/ Worked(n, entry.target)
        \/ /\ entry.operation = "create"  => B[entry.target] = None
           /\ entry.operation = "replace" => B[entry.target] # None
    <3>1. entry.target \in Targets
      BY <1>6 DEF Entries
    <3> QED
      BY <1>6, <2>1, <3>1 DEF Planning, Operation
  <2>6. \A k \in DOMAIN calls[n].entries :
            /\ k \in DOMAIN Wanted[calls[n].kind]
            /\ calls[n].entries[k].target = Wanted[calls[n].kind][k].target
            /\ \/ Worked(n, calls[n].entries[k].target)
               \/ /\ calls[n].entries[k].operation = "create"  => B[calls[n].entries[k].target] = None
                  /\ calls[n].entries[k].operation = "replace" => B[calls[n].entries[k].target] # None
    BY <1>3, <1>6 DEF Planning, PlanInv
  <2> HIDE DEF K
  <2>7. PlanInv(n)'
    BY <2>1, <2>2, <2>3, <2>4, <2>5, <2>6 DEF PlanInv
  <2> QED
    BY <2>1, <2>7 DEF Looping
<1>7. ASSUME calls'[n].created = calls[n].created, calls[n].step \in Looping,
             Goes(n, "undo", calls[n].at), UNCHANGED <<source, disk, backups>>
      PROVE  Kept
  <2>1. Own(n)' = Own(n) /\ calls'[n].before = B /\ calls'[n].step = "undo"
        /\ calls'[n].entries = calls[n].entries /\ calls'[n].at = calls[n].at
        /\ Ghosts(calls'[n], calls[n]) /\ calls'[n].stuck = calls[n].stuck
    BY <1>7 DEF Own, Goes, GoesOn, Ghosts
  <2>2. PlanInv(n)'
    BY <1>1, <1>3, <1>7, <2>1, PlanInvStays
  <2>3. UndoInv(n)
    BY <1>3, <1>7, FailedUndo
  <2>4. \A t \in Targets : /\ Made(n, t)' <=> Made(n, t)
                           /\ Saved(n, t)' <=> Saved(n, t)
                           /\ Pending(n, t)' <=> Pending(n, t)
                           /\ Worked(n, t)' <=> Worked(n, t)
    BY <1>7, <2>1 DEF Made, Saved, Pending, Worked, Ghosts
  <2>6. \A t, p \in Targets : Undone(n, t, p) => Undone(n, t, p)'
    BY <1>7, <2>1, <2>4 DEF Undone
  <2>5. UndoInv(n)'
    BY <1>7, <2>1, <2>3, <2>4, <2>6 DEF UndoInv
  <2> QED
    BY <2>1, <2>2, <2>5 DEF Looping
<1>8. ASSUME calls[n].step = "plan", Advances(n, calls[n].created), UNCHANGED <<source, disk, backups>>
      PROVE  Kept
  <2> DEFINE created == calls[n].created
  <2>1. /\ \A t \in Targets : Worked(n, t) \/ disk'[t] = B[t]
        /\ created = <<>> /\ calls[n].at = 0 /\ PlanInv(n)
    BY <1>3, <1>8
  <2>2. DOMAIN created = {}
    BY <2>1
  <2>3. \A k \in DOMAIN calls[n].entries : ~(k <= calls[n].at)
    <3>1. calls[n].entries \in Seq(Entries)
      BY CallFields DEF TypeInv
    <3> QED
      BY <2>1, <3>1
  <2>4. Advances(n, created)
    BY <1>8
  <2> HIDE DEF created
  <2>5. PlanInv(n)' /\ (calls'[n].step \in Looping => LoopInv(n)')
    BY <1>2, <1>8, <2>1, <2>2, <2>3, <2>4, AdvancesLoop
  <2> QED
    BY <1>5, <2>4, <2>5
<1>9. ASSUME Stages(n) \/ Linking(n) \/ OpensDir(n) \/ Copies(n) PROVE Kept
  <2>1. calls[n].step \in Looping
    BY <1>9 DEF Stages, Linking, OpensDir, Copies, Looping
  <2>2. PlanInv(n)' /\ (calls'[n].step \in Looping => LoopInv(n)')
    BY <1>2, <1>3, <1>9, <2>1, LoopStep
  <2>3. calls'[n].before = B /\ calls'[n].step \notin {"plan", "undo"}
    BY <1>5, <1>9 DEF Stages, Linking, OpensDir, Copies, Goes, GoesOn, Ghosts
  <2> QED
    BY <2>2, <2>3
<1>10. ASSUME TakesBack(n) \/ Leaves(n) \/ Restores(n) PROVE Kept
  <2>1. calls[n].step = "undo" /\ calls'[n].before = B /\ calls'[n].step = "undo"
    BY <1>10 DEF TakesBack, Leaves, Restores, Goes, GoesOn, Ghosts
  <2>2. PlanInv(n)' /\ UndoInv(n)'
    BY <1>3, <1>10, <2>1, UndoStep
  <2> QED
    BY <2>1, <2>2 DEF Looping
<1>11. ASSUME NEW step \in {"verify", "clean", "remove", "discard"}, NEW at, Goes(n, step, at) PROVE Kept
  BY <1>11 DEF Goes, GoesOn, Looping, Ghosts
<1>12. ASSUME NEW outcome, Finishes(n, outcome) PROVE FALSE
  BY <1>2, <1>12 DEF Finishes, Running
<1> HIDE DEF Kept
<1>13. CASE Decides(n)
  BY <1>4, <1>6, <1>7, <1>8, <1>11, <1>12, <1>13 DEF Decides
<1>14. CASE Discards(n) \/ Removes(n)
  BY <1>4, <1>11, <1>14 DEF Discards, Removes
<1> QED
  BY <1>4, <1>9, <1>10, <1>13, <1>14 DEF Move

\* What the user does at a target is not for the call to undo.
LEMMA UndoableUser ==
    ASSUME TypeInv, UndoableInv, NEW t \in UserTargets, UserMove(t)
    PROVE  UndoableInv'
<1>1. /\ DOMAIN calls' = DOMAIN calls /\ UNCHANGED backups /\ t \in Targets
      /\ \A u \in Targets : u # t => disk'[u] = disk[u]
  BY UserNodes DEF UserMove
<1>2. ASSUME NEW n \in DOMAIN calls PROVE Undoable(n)'
  <2>1. /\ calls'[n].kind = calls[n].kind /\ calls'[n].alone = calls[n].alone
        /\ calls'[n].step = calls[n].step /\ calls'[n].entries = calls[n].entries
        /\ calls'[n].at = calls[n].at /\ calls'[n].created = calls[n].created
        /\ calls'[n].before = calls[n].before /\ calls'[n].stuck = calls[n].stuck
    BY DEF UserMove
  <2>2. SUFFICES ASSUME Running(n), calls[n].alone, OwnTargets(calls[n].kind) PROVE Undoable(n)'
    BY <2>1 DEF Undoable, Running
  <2>3. /\ \A u : Worked(n, u) => Worked(n, u)'
        /\ Worked(n, t)'
    BY <2>2 DEF UserMove, Worked
  <2>4. /\ Own(n)' = Own(n) /\ Entry(n)' = Entry(n)
        /\ \A k : Acts(n, k)' <=> Acts(n, k)
        /\ \A u : /\ Made(n, u)' <=> Made(n, u)
                  /\ Saved(n, u)' <=> Saved(n, u)
                  /\ Pending(n, u)' <=> Pending(n, u)
    BY <1>1, <2>1 DEF Own, Entry, Acts, Made, Saved, Pending
  <2>5. PlanInv(n) => PlanInv(n)'
    BY <1>1, <2>1, <2>3, <2>4 DEF PlanInv
  <2>6. ASSUME LoopInv(n), calls[n].step \in Looping PROVE LoopInv(n)'
    <3>1. Entry(n).target \in Targets
      BY <2>6, EntryFields DEF TypeInv, Placed
    <3>2. \A u \in Targets :
            u = Entry(n).target \/ Made(n, u) \/ Worked(n, u)' \/ disk'[u] = calls[n].before[u]
      BY <1>1, <2>3, <2>6 DEF LoopInv
    <3>3. \/ Worked(n, Entry(n).target)'
          \/ /\ calls[n].step = "stage" => disk'[Entry(n).target] = calls[n].before[Entry(n).target]
             /\ calls[n].step = "create" => disk'[Entry(n).target] = None
             /\ calls[n].step = "copy" => Half(disk'[Entry(n).target])
      <4>1. SUFFICES ASSUME ~Worked(n, Entry(n).target)'
                     PROVE  /\ ~Worked(n, Entry(n).target)
                            /\ disk'[Entry(n).target] = disk[Entry(n).target]
        BY <2>6 DEF LoopInv
      <4>2. Entry(n).target # t
        BY <2>3, <2>4, <4>1
      <4> QED
        BY <1>1, <2>3, <2>4, <3>1, <4>1, <4>2
    <3> QED
      BY <2>1, <2>4, <2>6, <3>2, <3>3 DEF LoopInv
  <2>7. ASSUME NEW u \in Targets, NEW p \in Targets, Undone(n, u, p) PROVE Undone(n, u, p)'
    BY <1>1, <2>1, <2>3, <2>4, <2>7 DEF Undone
  <2>8. UndoInv(n) => UndoInv(n)'
    BY <2>1, <2>3, <2>4, <2>7 DEF UndoInv
  <2>9. Undoable(n)
    BY DEF UndoableInv
  <2>10. calls[n].step = "plan" =>
            \A u \in Targets : Worked(n, u)' \/ disk'[u] = calls[n].before[u]
    BY <1>1, <2>2, <2>3, <2>9 DEF Undoable
  <2> QED
    BY <2>1, <2>2, <2>5, <2>6, <2>8, <2>9, <2>10 DEF Undoable, Running
<1> QED
  BY <1>1, <1>2 DEF UndoableInv

LEMMA UndoableNext ==
    ASSUME TypeInv, AloneInv, UndoableInv, [Next]_vars
    PROVE  UndoableInv'
<1>1. ASSUME NEW n \in DOMAIN calls, Move(n) PROVE UndoableInv'
  <2>1. Others(n) /\ Running(n)
    BY <1>1, MoveRuns
  <2>2. ASSUME NEW m \in DOMAIN calls, m # n PROVE Undoable(m)'
    <3>1. calls'[m] = calls[m]
      BY <2>1, <2>2 DEF Others
    <3>2. Running(m) => ~calls[m].alone
      BY <2>1, <2>2, Beside
    <3> QED
      BY <3>1, <3>2 DEF Undoable, Running
  <2>3. Undoable(n)'
    BY <1>1, UndoableStep DEF UndoableInv
  <2> QED
    BY <2>1, <2>2, <2>3 DEF UndoableInv, Others
<1>2. ASSUME NEW kind \in Kinds, Begin(kind) PROVE UndoableInv'
  <2>1. ASSUME NEW m \in DOMAIN calls PROVE Undoable(m)'
    <3>1. calls'[m].alone => ~Running(m)'
      BY <1>2, <2>1, BeginShape DEF Running
    <3> QED
      BY <3>1 DEF Undoable
  <2>2. ASSUME NEW m, m = Len(calls) + 1 PROVE Undoable(m)'
    <3>1. /\ calls'[m].step = "plan" /\ calls'[m].entries = <<>> /\ calls'[m].created = <<>>
          /\ calls'[m].at = 0 /\ UNCHANGED <<disk, backups>>
          /\ calls'[m].alone => calls'[m].before = disk
          /\ m \notin DOMAIN calls
      BY <1>2, <2>2, BeginShape
    <3>2. disk \in [Targets -> Nodes] /\ Own(m)' = {} /\ DOMAIN calls'[m].entries = {}
      BY <3>1 DEF TypeInv, Typed, Own
    <3>3. PlanInv(m)'
      BY <3>1, <3>2 DEF PlanInv
    <3> QED
      BY <3>1, <3>2, <3>3 DEF Undoable, Looping
  <2>3. DOMAIN calls' = DOMAIN calls \cup {Len(calls) + 1}
    BY <1>2, BeginShape
  <2> QED
    BY <2>1, <2>2, <2>3 DEF UndoableInv
<1>3. ASSUME UNCHANGED <<disk, backups, calls>> PROVE UndoableInv'
  <2>1. ASSUME NEW n \in DOMAIN calls, Undoable(n) PROVE Undoable(n)'
    <3>1. /\ Own(n)' = Own(n) /\ Entry(n)' = Entry(n) /\ (Running(n)' <=> Running(n))
          /\ \A k : Acts(n, k)' <=> Acts(n, k)
          /\ \A t : /\ Made(n, t)' <=> Made(n, t)
                    /\ Saved(n, t)' <=> Saved(n, t)
                    /\ Pending(n, t)' <=> Pending(n, t)
                    /\ Worked(n, t)' <=> Worked(n, t)
                    /\ \A p : Undone(n, t, p)' <=> Undone(n, t, p)
      BY <1>3 DEF Own, Entry, Running, Acts, Made, Saved, Pending, Worked, Undone
    <3>2. PlanInv(n) => PlanInv(n)'
      BY <1>3, <3>1 DEF PlanInv
    <3>3. LoopInv(n) => LoopInv(n)'
      BY <1>3, <3>1 DEF LoopInv
    <3>4. UndoInv(n) => UndoInv(n)'
      BY <1>3, <3>1 DEF UndoInv
    <3> QED
      BY <1>3, <2>1, <3>1, <3>2, <3>3, <3>4 DEF Undoable
  <2> QED
    BY <1>3, <2>1 DEF UndoableInv
<1>4. ASSUME NEW t \in UserTargets, UserMove(t) PROVE UndoableInv'
  BY <1>4, UndoableUser
<1> QED
  BY <1>1, <1>2, <1>3, <1>4, NextMoves

\* Only a rollback that has nothing left to take back makes a call a failed one.
LEMMA FailedStep ==
    ASSUME TypeInv, NEW n \in DOMAIN calls, [Next]_vars,
           calls'[n].outcome = "failed", calls[n].outcome = None
    PROVE  /\ calls[n].step = "undo" /\ calls[n].created = <<>> /\ UNCHANGED <<disk, backups>>
           /\ \A b \in Own(n) : ~(b[2] <= calls[n].at)
<1>1. None # "failed"
  BY PlacesAssumption DEF Outcomes
<1>2. ASSUME NEW m \in DOMAIN calls, Move(m)
      PROVE  /\ m = n /\ Finishes(n, "failed") /\ UNCHANGED <<disk, backups>>
  <2>1. m = n
    BY <1>1, <1>2, MoveRuns DEF Others
  <2>7. ASSUME NEW step, NEW at, GoesOn(n, step, at) PROVE FALSE
    BY <1>1, <2>7 DEF GoesOn
  <2>2. ASSUME NEW step, NEW at, Goes(n, step, at) PROVE FALSE
    BY <2>2, <2>7 DEF Goes
  <2>3. ASSUME NEW created, Advances(n, created) PROVE FALSE
    BY <2>2, <2>3 DEF Advances
  <2>4. ASSUME NEW entry, Planning(n, entry) PROVE FALSE
    BY <1>1, <2>4 DEF Planning
  <2>5. Decides(n)
    BY <1>2, <2>1, <2>2, <2>3, <2>7 DEF Move, Stages, Linking, OpensDir, Copies, TakesBack, Leaves,
                                       Restores, Discards, Removes
  <2>6. \E outcome \in Outcomes : Finishes(n, outcome)
    BY <2>2, <2>3, <2>4, <2>5 DEF Decides
  <2> QED
    BY <2>1, <2>5, <2>6 DEF Finishes, Decides
<1>3. ASSUME NEW kind \in Kinds, Begin(kind) PROVE FALSE
  BY <1>1, <1>3, BeginShape
<1>4. ASSUME UNCHANGED calls PROVE FALSE
  BY <1>1, <1>4
<1>5. ASSUME NEW t \in UserTargets, UserMove(t) PROVE FALSE
  BY <1>1, <1>5 DEF UserMove
<1> QED
  BY <1>2, <1>3, <1>4, <1>5, NextMoves DEF Finishes

\* When an apply that had the disk for itself has failed, every target at which the
\* user did nothing is what it was when the call began, except one that the failure
\* left half copied and those that could not be removed, and what was there is then
\* in its backup (apply and rollback).
THEOREM FailedApplyRestoresHolds == Spec => FailedApplyRestores
<1> DEFINE Restored(n) == \A t \in Targets \ calls[n].touched :
            \/ disk'[t] = calls[n].before[t]
            \/ t \in calls[n].stuck /\ InBackup(n, t)
            \/ /\ IsDir(disk'[t]) /\ disk'[t].marker = None /\ ~disk'[t].user
               /\ \A u \in Targets : Changed(n, u) => u = t
               /\ InBackup(n, t)
           Claim == \A n \in DOMAIN calls :
                        /\ calls'[n].outcome = "failed" /\ calls[n].outcome = None /\ calls[n].alone
                        /\ OwnTargets(calls[n].kind)
                        => Restored(n)
<1>1. Init => AloneInv /\ UndoableInv
  BY DEF Init, AloneInv, UndoableInv
<1>2. TypeInv /\ AloneInv /\ UndoableInv /\ [Next]_vars => AloneInv' /\ UndoableInv'
  BY AloneNext, UndoableNext
<1>3. ASSUME TypeInv, UndoableInv, [Next]_vars PROVE Claim
  <2>1. SUFFICES ASSUME NEW n \in DOMAIN calls, calls'[n].outcome = "failed",
                        calls[n].outcome = None, calls[n].alone, OwnTargets(calls[n].kind)
                 PROVE  Restored(n)
    OBVIOUS
  <2> DEFINE B == calls[n].before
  <2>2. /\ calls[n].step = "undo" /\ calls[n].created = <<>> /\ UNCHANGED <<disk, backups>>
        /\ \A b \in Own(n) : ~(b[2] <= calls[n].at)
    BY <1>3, <2>1, FailedStep
  <2>3. PlanInv(n) /\ UndoInv(n)
    BY <1>3, <2>1, <2>2 DEF UndoableInv, Undoable, Running
  <2>4. \A t \in Targets : ~Made(n, t) /\ ~Pending(n, t)
    BY <2>2 DEF Made, Pending
  <2>5. PICK p \in Targets : \A t \in Targets :
            \/ Worked(n, t) \/ disk[t] = B[t]
            \/ /\ t \in calls[n].stuck \/ (t = p /\ Half(disk[t]))
               /\ B[t] # None => Saved(n, t)
    BY <2>3, <2>4 DEF UndoInv, Undone
  <2>6. ASSUME NEW t \in Targets, ~Worked(n, t), B[t] # None => Saved(n, t)
        PROVE  InBackup(n, t)
    <3>1. SUFFICES ASSUME B[t] # None
                   PROVE  \E b \in DOMAIN backups' : b[1] = n /\ backups'[b] = [target |-> t, node |-> B[t]]
      BY DEF InBackup
    <3>2. PICK b \in Own(n) : backups[b].target = t
      BY <2>6, <3>1 DEF Saved
    <3>3. b \in DOMAIN backups /\ b[1] = n /\ backups[b].node = B[t]
      BY <2>3, <2>6, <3>2 DEF PlanInv, Own
    <3>4. backups[b] \in [target : Targets, node : Nodes \ {None}]
      BY <1>3, <3>3 DEF TypeInv, Typed
    <3>5. backups[b] = [target |-> t, node |-> B[t]]
      BY <3>2, <3>3, <3>4
    <3> QED
      BY <2>2, <3>3, <3>5
  <2>7. \A u \in Targets : Changed(n, u) => u = p
    BY <2>2, <2>5 DEF Changed, Worked
  <2> QED
    BY <2>2, <2>5, <2>6, <2>7 DEF Half, Worked
<1>4. TypeInv /\ UndoableInv /\ [Next]_vars => [Claim]_vars
  BY <1>3
<1> QED
  BY <1>1, <1>2, <1>4, TypeInvAlways, PTL DEF Spec, FailedApplyRestores

----------------------------------------------------------------------------
\* What the user has is kept.

\* A directory with a marker is one that a copy was finished in.
MarkedCopied(node) == IsDir(node) /\ node.marker # None => node.copied

\* There is a link, or a directory that a copy was finished in.
Finished(node) == node # None /\ (IsDir(node) => node.copied)

\* What a call that has the disk for itself will remove, it has finished; each once.
Removable(n) ==
    Running(n) /\ calls[n].alone /\ OwnTargets(calls[n].kind) =>
        /\ calls[n].step \in Looping \cup {"undo"} =>
            /\ \A i, j \in DOMAIN calls[n].created : calls[n].created[i] = calls[n].created[j] => i = j
            /\ \A i \in DOMAIN calls[n].created : Finished(disk[calls[n].created[i]])
        /\ calls[n].step \in {"clean", "remove"} => calls[n].created = <<>>
        /\ calls[n].step = "remove" => Finished(disk[Entry(n).target])

RemovableInv ==
    /\ \A t \in Targets : MarkedCopied(disk[t])
    /\ \A b \in DOMAIN backups : MarkedCopied(backups[b].node)
    /\ \A n \in DOMAIN calls : Removable(n)

\* What the loop works at was not created before.
LEMMA NotYetMade ==
    ASSUME TypeInv, NEW n \in DOMAIN calls, calls[n].step \in Looping, PlanInv(n), LoopInv(n),
           OwnTargets(calls[n].kind)
    PROVE  ~Made(n, Entry(n).target)
<1>1. SUFFICES ASSUME NEW j \in DOMAIN calls[n].created,
                      calls[n].created[j] = calls[n].entries[calls[n].at].target
               PROVE  FALSE
  BY DEF Made, Entry
<1>2. PICK m \in DOMAIN calls[n].entries :
            m < calls[n].at /\ calls[n].created[j] = calls[n].entries[m].target
  BY DEF LoopInv
<1>3. calls[n].at \in DOMAIN calls[n].entries /\ calls[n].at \in Nat
  BY CallFields DEF TypeInv, Placed
<1>4. /\ m \in DOMAIN Wanted[calls[n].kind] /\ calls[n].at \in DOMAIN Wanted[calls[n].kind]
      /\ Wanted[calls[n].kind][m].target = Wanted[calls[n].kind][calls[n].at].target
  BY <1>1, <1>2, <1>3 DEF PlanInv
<1>5. m = calls[n].at
  BY <1>4 DEF OwnTargets
<1> QED
  BY <1>2, <1>3, <1>5

\* What a step of a call makes of what is at a target.
Becomes(n, t) ==
    \/ disk'[t] = disk[t]
    \/ /\ calls[n].step \in Looping /\ t = Entry(n).target
       /\ \/ Stages(n) /\ disk'[t] = None
          \/ ~HasWork(disk[t]) /\ disk'[t] \in Links \cup {EmptyDir}
          \/ /\ IsDir(disk[t]) /\ IsDir(disk'[t]) /\ disk'[t].user = disk[t].user
             /\ \/ disk'[t].copied
                \/ disk'[t].copied = disk[t].copied /\ disk'[t].marker = disk[t].marker
    \/ Restores(n) /\ ~HasWork(disk[t]) /\ \E b \in Own(n) : disk'[t] = backups[b].node
    \/ TakesBack(n) /\ t = Latest(n) /\ Taken(disk[t], disk'[t])
    \/ Removes(n) /\ t = Entry(n).target /\ Taken(disk[t], disk'[t])

LEMMA MoveBecomes ==
    ASSUME TypeInv, NEW n \in DOMAIN calls, Move(n), NEW t \in Targets
    PROVE  Becomes(n, t)
<1> DEFINE p == Entry(n).target
<1>1. disk \in [Targets -> Nodes]
  BY DEF TypeInv, Typed
<1>2. calls[n].step \in Looping \cup {"remove"} =>
            p \in Targets /\ Entry(n).source \in Sources
  BY EntryFields DEF TypeInv, Placed, Looping
<1>3. CASE Decides(n) \/ Leaves(n) \/ Discards(n)
  BY <1>3 DEF Decides, Leaves, Discards, Becomes
<1>4. CASE Stages(n)
  BY <1>1, <1>2, <1>4 DEF Stages, Becomes, Looping
<1>5. CASE Linking(n)
  <2>1. calls[n].step \in Looping /\ disk[p] = None /\ disk' = [disk EXCEPT ![p] = Link(Entry(n).source)]
    BY <1>5 DEF Linking, Looping
  <2>2. Link(Entry(n).source) \in Links /\ ~HasWork(disk[p])
    BY <1>2, <2>1 DEF Links, HasWork, IsDir
  <2> QED
    BY <1>1, <1>2, <2>1, <2>2 DEF Becomes
<1>6. CASE OpensDir(n)
  <2>1. calls[n].step \in Looping /\ disk' = [disk EXCEPT ![p] = IF @ = None THEN EmptyDir ELSE @]
    BY <1>6 DEF OpensDir, Looping
  <2>2. disk[p] = None => ~HasWork(disk[p])
    BY DEF HasWork, IsDir
  <2> QED
    BY <1>1, <1>2, <2>1, <2>2 DEF Becomes
<1>7. CASE Copies(n)
  <2>1. calls[n].step = "copy" /\ calls[n].step \in Looping
    BY <1>7 DEF Copies, Looping
  <2>2. CASE UNCHANGED disk
    BY <2>2 DEF Becomes
  <2>3. ASSUME IsDir(disk[p]), NEW node \in Dirs, disk' = [disk EXCEPT ![p] = node],
               node.user = disk[p].user,
               node.copied \/ (node.copied = disk[p].copied /\ node.marker = disk[p].marker)
        PROVE  Becomes(n, t)
    <3>1. IsDir(node)
      BY NodeTypes
    <3> QED
      BY <1>1, <1>2, <2>1, <2>3, <3>1 DEF Becomes
  <2>4. ASSUME NEW part \in calls[n].todo, source[Entry(n).source] # None, Writes(n, WithPart(n, part)),
               IsDir(disk[p])
        PROVE  Becomes(n, t)
    <3>1. part \in Parts
      BY <2>4, CallFields DEF TypeInv
    <3>2. WithPart(n, part) \in Dirs /\ WithPart(n, part).user = disk[p].user
          /\ WithPart(n, part).copied = disk[p].copied /\ WithPart(n, part).marker = disk[p].marker
      BY <2>1, <2>4, <3>1, WriteTypes
    <3>3. disk' = [disk EXCEPT ![p] = WithPart(n, part)]
      BY <2>4 DEF Writes
    <3> QED
      BY <2>3, <2>4, <3>2, <3>3
  <2>5. ASSUME Writes(n, WithMarker(n)), IsDir(disk[p]) PROVE Becomes(n, t)
    <3>1. WithMarker(n) \in Dirs /\ WithMarker(n).user = disk[p].user /\ WithMarker(n).copied
      BY <2>1, <2>5, WriteTypes
    <3>2. disk' = [disk EXCEPT ![p] = WithMarker(n)]
      BY <2>5 DEF Writes
    <3> QED
      BY <2>3, <2>5, <3>1, <3>2
  <2>6. \/ UNCHANGED disk
        \/ /\ IsDir(disk[p])
           /\ \/ \E part \in calls[n].todo :
                    source[Entry(n).source] # None /\ Writes(n, WithPart(n, part))
              \/ Writes(n, WithMarker(n))
    BY <1>7 DEF Copies, Writes
  <2> QED
    BY <2>2, <2>4, <2>5, <2>6
<1>8. CASE TakesBack(n)
  <2>1. Latest(n) \in Targets
    BY <1>8, CallFields, FrontType DEF TakesBack, Latest, TypeInv
  <2> QED
    BY <1>1, <1>8, <2>1 DEF TakesBack, Becomes
<1>9. CASE Restores(n)
  <2>1. PICK b \in Own(n) :
            \/ /\ MayReplace(backups[b].node, disk[backups[b].target])
               /\ disk' = [disk EXCEPT ![backups[b].target] = backups[b].node]
            \/ UNCHANGED disk
    BY <1>9 DEF Restores
  <2>2. backups[b].target \in Targets
    BY OwnType
  <2>3. ASSUME NEW there \in Nodes, MayReplace(backups[b].node, there) PROVE ~HasWork(there)
    <3>1. CASE there = None
      BY <3>1 DEF HasWork, IsDir
    <3>2. CASE there.kind = "link"
      BY <3>2 DEF HasWork, IsDir
    <3>3. CASE Empty(there)
      BY <3>3 DEF HasWork, Empty
    <3> QED
      BY <2>3, <3>1, <3>2, <3>3 DEF MayReplace
  <2> QED
    BY <1>1, <1>9, <2>1, <2>2, <2>3 DEF Becomes
<1>10. CASE Removes(n)
  <2>1. p \in Targets
    BY <1>2, <1>10 DEF Removes
  <2> QED
    BY <1>1, <1>10, <2>1 DEF Removes, Becomes
<1> QED
  BY <1>3, <1>4, <1>5, <1>6, <1>7, <1>8, <1>9, <1>10 DEF Move

\* What a removal leaves of a finished copy.
LEMMA TakenFinished ==
    ASSUME NEW node, NEW less, Taken(node, less)
    PROVE  /\ MarkedCopied(node) => MarkedCopied(less)
           /\ Finished(node) => less = None \/ Finished(less)
           /\ HasWork(node) => IsDir(node) /\ (Finished(node) => node.copied)
<1>1. less \in Dirs => less # None /\ IsDir(less)
  BY NodeTypes
<1> QED
  BY <1>1 DEF Taken, MarkedCopied, Finished, HasWork, IsDir

\* A marker is in no link, and in no directory that was just made.
LEMMA PlainNodes ==
    /\ \A node \in Links \cup {EmptyDir} : MarkedCopied(node)
    /\ \A node \in Links : Finished(node)
    /\ MarkedCopied(None) /\ MarkedCopied(UserDir)
<1>1. \A node \in Links : ~IsDir(node) /\ node # None
  BY NodeTypes DEF Links
<1> QED
  BY <1>1 DEF MarkedCopied, Finished, EmptyDir, UserDir, IsDir

LEMMA MarkedStep ==
    ASSUME TypeInv, RemovableInv, NEW n \in DOMAIN calls, Move(n)
    PROVE  /\ \A t \in Targets : MarkedCopied(disk'[t])
           /\ \A b \in DOMAIN backups' : MarkedCopied(backups'[b].node)
<1>1. /\ \A t \in Targets : MarkedCopied(disk[t])
      /\ \A b \in DOMAIN backups : MarkedCopied(backups[b].node)
  BY DEF RemovableInv
<1>2. ASSUME NEW t \in Targets PROVE MarkedCopied(disk'[t])
  <2>1. Becomes(n, t) /\ MarkedCopied(disk[t])
    BY <1>1, MoveBecomes
  <2>2. ASSUME NEW b \in Own(n) PROVE MarkedCopied(backups[b].node)
    BY <1>1, <2>2, OwnType
  <2>3. CASE Taken(disk[t], disk'[t])
    BY <2>1, <2>3, TakenFinished
  <2>4. CASE disk'[t] \in Links \cup {EmptyDir, None}
    BY <2>4, PlainNodes
  <2>5. CASE /\ IsDir(disk[t]) /\ IsDir(disk'[t])
             /\ \/ disk'[t].copied
                \/ disk'[t].copied = disk[t].copied /\ disk'[t].marker = disk[t].marker
    BY <2>1, <2>5 DEF MarkedCopied
  <2> QED
    BY <2>1, <2>2, <2>3, <2>4, <2>5 DEF Becomes
<1>3. ASSUME NEW b \in DOMAIN backups' PROVE MarkedCopied(backups'[b].node)
  <2>1. CASE UNCHANGED backups
    BY <1>1, <2>1
  <2>2. CASE Stages(n)
    <3> DEFINE fresh == <<n, calls[n].at>>
    <3>1. /\ DOMAIN backups' = DOMAIN backups \cup {fresh}
          /\ backups'[fresh].node = disk[Entry(n).target]
          /\ \A c \in DOMAIN backups : backups'[c] = backups[c]
      BY <2>2, StageBackups
    <3>2. Entry(n).target \in Targets
      BY <2>2, EntryFields DEF Stages, TypeInv, Placed, Looping
    <3> HIDE DEF fresh
    <3> QED
      BY <1>1, <3>1, <3>2
  <2>3. ASSUME NEW c \in Own(n), backups' = Without(c) PROVE MarkedCopied(backups'[b].node)
    BY <1>1, <2>3, WithoutBackup
  <2>4. ASSUME NEW c \in Own(n), NEW less \in Nodes \ {None}, Taken(backups[c].node, less),
               backups' = [backups EXCEPT ![c].node = less]
        PROVE  MarkedCopied(backups'[b].node)
    <3>1. MarkedCopied(less)
      BY <1>1, <2>4, OwnType, TakenFinished
    <3> QED
      BY <1>1, <2>4, <3>1, LessBackup
  <2>5. \/ UNCHANGED backups \/ Stages(n)
        \/ \E c \in Own(n) :
            \/ backups' = Without(c)
            \/ \E less \in Nodes \ {None} : /\ Taken(backups[c].node, less)
                                            /\ backups' = [backups EXCEPT ![c].node = less]
    BY DEF Move, Decides, Linking, OpensDir, Copies, TakesBack, Leaves, Restores, Discards, Removes
  <2> QED
    BY <2>1, <2>2, <2>3, <2>4, <2>5
<1> QED
  BY <1>2, <1>3

\* How a call comes to remove, or goes on to.
LEMMA RemoverShape ==
    ASSUME TypeInv, NEW n \in DOMAIN calls, Move(n), calls'[n].step \in {"clean", "remove"}
    PROVE  /\ calls'[n].created = calls[n].created
           /\ calls[n].step \in {"plan", "clean", "remove"}
           /\ calls'[n].step = "remove" =>
                /\ Entry(n)' = Entry(n) /\ calls[n].at \in DOMAIN calls[n].entries
                /\ \/ MayRemove(n) /\ UNCHANGED disk
                   \/ /\ calls[n].step = "remove" /\ disk'[Entry(n).target] # None
                      /\ Taken(disk[Entry(n).target], disk'[Entry(n).target])
<1>1. ASSUME NEW step, NEW at, GoesOn(n, step, at), step \notin {"clean", "remove"} PROVE FALSE
  BY <1>1 DEF GoesOn
<1>2. ASSUME NEW created, Advances(n, created) PROVE FALSE
  BY <1>1, <1>2 DEF Advances, Goes
<1>3. CASE Decides(n)
  <2>1. \/ calls[n].step = "plan" /\ Goes(n, "clean", Len(calls[n].entries))
        \/ calls[n].step = "clean" /\ calls[n].at # 0 /\ Goes(n, "clean", calls[n].at - 1)
        \/ calls[n].step = "clean" /\ calls[n].at # 0 /\ MayRemove(n) /\ Goes(n, "remove", calls[n].at)
    BY <1>1, <1>2, <1>3 DEF Decides, Planning, Finishes, Goes
  <2>2. calls'[n].created = calls[n].created /\ UNCHANGED disk
    BY <1>1, <1>2, <1>3 DEF Decides, Planning, Finishes, Goes
  <2>3. calls[n].step = "clean" /\ calls[n].at # 0 => calls[n].at \in DOMAIN calls[n].entries
    BY CallFields DEF TypeInv, Placed
  <2>4. calls'[n].step = "remove" => Entry(n)' = Entry(n)
    BY <2>1 DEF Goes, GoesOn, Entry
  <2> QED
    BY <2>1, <2>2, <2>3, <2>4 DEF Goes, GoesOn
<1>4. CASE Removes(n)
  <2>1. PICK less \in Nodes :
            /\ Taken(disk[Entry(n).target], less) /\ disk' = [disk EXCEPT ![Entry(n).target] = less]
            /\ \/ less = None /\ Goes(n, "clean", calls[n].at - 1)
               \/ less # None /\ Goes(n, "remove", calls[n].at)
    BY <1>4 DEF Removes
  <2>2. /\ calls[n].step = "remove" /\ calls[n].at \in DOMAIN calls[n].entries
        /\ calls'[n].created = calls[n].created
    BY <1>4 DEF Removes, TypeInv, Placed
  <2>3. Entry(n).target \in Targets /\ disk \in [Targets -> Nodes]
    BY <2>2, EntryFields DEF TypeInv, Typed
  <2>4. disk'[Entry(n).target] = less
    BY <2>1, <2>3
  <2>5. calls'[n].step = "remove" => less # None /\ Entry(n)' = Entry(n)
    BY <2>1 DEF Goes, GoesOn, Entry
  <2> QED
    BY <2>1, <2>2, <2>4, <2>5
<1>5. CASE Stages(n) \/ Linking(n) \/ OpensDir(n) \/ Copies(n) \/ TakesBack(n) \/ Leaves(n)
           \/ Restores(n) \/ Discards(n)
  BY <1>1, <1>2, <1>5 DEF Stages, Linking, OpensDir, Copies, TakesBack, Leaves, Restores, Discards,
                          Goes
<1> QED
  BY <1>3, <1>4, <1>5 DEF Move

\* What a call that has the disk for itself has created stays finished.
LEMMA CreatedStep ==
    ASSUME TypeInv, NEW n \in DOMAIN calls, Move(n), Removable(n), Undoable(n), Running(n),
           calls'[n].step \in Looping \cup {"undo"}, calls[n].alone, OwnTargets(calls[n].kind)
    PROVE  /\ \A i, j \in DOMAIN calls'[n].created :
                    calls'[n].created[i] = calls'[n].created[j] => i = j
           /\ \A i \in DOMAIN calls'[n].created : Finished(disk'[calls'[n].created[i]])
<1> DEFINE old == calls[n].created
           new == calls'[n].created
           p   == Entry(n).target
           Goal == /\ \A i, j \in DOMAIN new : new[i] = new[j] => i = j
                   /\ \A i \in DOMAIN new : Finished(disk'[new[i]])
<1>0. calls[n].step \in {"plan", "undo"} \cup Looping
  <2>1. ASSUME NEW step, NEW at, GoesOn(n, step, at), step \notin Looping \cup {"undo"} PROVE FALSE
    BY <2>1 DEF GoesOn
  <2> QED
    BY <2>1, SMTT(20) DEF Move, Decides, Stages, Linking, OpensDir, Copies, TakesBack, Leaves, Restores,
                Discards, Removes, Planning, Finishes, Goes, Looping
<1>1. /\ \A i, j \in DOMAIN old : old[i] = old[j] => i = j
      /\ \A i \in DOMAIN old : Finished(disk[old[i]]) /\ old[i] \in Targets
      /\ old \in Seq(Targets)
  <2>1. old \in Seq(Targets)
    BY CallFields DEF TypeInv
  <2>2. CASE calls[n].step = "plan"
    BY <2>1, <2>2 DEF Undoable
  <2>3. CASE calls[n].step # "plan"
    BY <1>0, <2>1, <2>3 DEF Removable
  <2> QED
    BY <2>2, <2>3
<1>2. calls[n].step \in Looping => ~Made(n, p)
  BY NotYetMade DEF Undoable
<1>3. ASSUME NEW i \in DOMAIN old, ~(TakesBack(n) /\ old[i] = Latest(n))
      PROVE  Finished(disk'[old[i]])
  <2>1. old[i] \in Targets /\ Finished(disk[old[i]])
    BY <1>1, <1>3
  <2>2. Becomes(n, old[i])
    BY <2>1, MoveBecomes
  <2>3. calls[n].step \in Looping => old[i] # p
    BY <1>2, <1>3 DEF Made
  <2>4. old # <<>>
    BY <1>3
  <2>5. ~Restores(n) /\ ~Removes(n)
    BY <1>0, <2>4 DEF Restores, Removes, Looping
  <2> QED
    BY <1>3, <2>1, <2>2, <2>3, <2>5 DEF Becomes
<1>4. ASSUME new = old, ~TakesBack(n) PROVE Goal
  BY <1>1, <1>3, <1>4
<1>5. ASSUME new = <<>> PROVE Goal
  BY <1>5
<1>6. ASSUME new = Grown(n), calls[n].step \in Looping, Finished(disk'[p]), ~TakesBack(n)
      PROVE  Goal
  <2>1. /\ Len(old) \in Nat /\ DOMAIN old = 1..Len(old) /\ DOMAIN new = 1..(Len(old) + 1)
        /\ new[Len(old) + 1] = p /\ \A i \in 1..Len(old) : new[i] = old[i]
    BY <1>1, <1>6 DEF Grown
  <2>2. \A i \in DOMAIN old : old[i] # p
    BY <1>2, <1>6 DEF Made
  <2>3. \A i \in DOMAIN new : i \in DOMAIN old \/ i = Len(old) + 1
    BY <2>1
  <2>6. \A i \in DOMAIN old : Finished(disk'[old[i]])
    BY <1>3, <1>6
  <2> HIDE DEF new, old, p
  <2>4. ASSUME NEW i \in DOMAIN new, NEW j \in DOMAIN new, new[i] = new[j] PROVE i = j
    BY <1>1, <2>1, <2>2, <2>3, <2>4
  <2>5. ASSUME NEW i \in DOMAIN new PROVE Finished(disk'[new[i]])
    BY <1>6, <2>1, <2>3, <2>5, <2>6
  <2> QED
    BY <2>4, <2>5
<1>7. ASSUME new = Front(old), old # <<>> PROVE Goal
  <2>1. /\ Len(old) \in Nat \ {0} /\ DOMAIN new = 1..(Len(old) - 1) /\ DOMAIN old = 1..Len(old)
        /\ Latest(n) = old[Len(old)]
        /\ \A k \in 1..(Len(old) - 1) : new[k] = old[k]
    <3>1. old \in Seq(Targets) /\ new = Front(old) /\ old # <<>> /\ Latest(n) = Last(old)
      BY <1>1, <1>7 DEF Latest
    <3> HIDE DEF old, new
    <3> QED
      BY <3>1, FrontType
  <2>2. \A i \in DOMAIN new : i \in DOMAIN old /\ Len(old) \in DOMAIN old /\ i # Len(old) /\ new[i] = old[i]
    BY <2>1
  <2>3. \A i \in DOMAIN new : old[i] # Latest(n)
    BY <1>1, <2>1, <2>2
  <2>4. \A i \in DOMAIN new : Finished(disk'[old[i]])
    BY <1>3, <2>2, <2>3
  <2> HIDE DEF new, old
  <2> QED
    BY <1>1, <2>2, <2>4
<1>8. ASSUME calls[n].step = "undo", TakesBack(n), new = old PROVE Goal
  <2>1. PICK less \in Nodes :
            /\ Taken(disk[Latest(n)], less) /\ disk' = [disk EXCEPT ![Latest(n)] = less]
            /\ new = IF less = None THEN Front(old) ELSE old
    BY <1>8 DEF TakesBack
  <2>2. Len(Front(old)) # Len(old) /\ Latest(n) \in Targets /\ old # <<>>
        /\ Latest(n) = old[Len(old)] /\ Len(old) \in DOMAIN old
    <3>1. old # <<>>
      BY <1>8 DEF TakesBack
    <3>2. /\ Front(old) \in Seq(Targets) /\ DOMAIN Front(old) = 1..(Len(old) - 1)
          /\ DOMAIN old = 1..Len(old) /\ Len(old) \in Nat \ {0} /\ Last(old) = old[Len(old)]
          /\ Last(old) \in Targets
      BY <1>1, <3>1, FrontType
    <3> QED
      BY <3>1, <3>2 DEF Latest
  <2>3. less # None
    BY <1>8, <2>1, <2>2
  <2>4. Finished(less)
    BY <1>1, <2>1, <2>2, <2>3, TakenFinished
  <2>5. disk'[Latest(n)] = less
    BY <2>1, <2>2 DEF TypeInv, Typed
  <2>6. \A i \in DOMAIN old : Finished(disk'[old[i]])
    <3> TAKE i \in DOMAIN old
    <3>1. CASE old[i] = Latest(n)
      BY <2>4, <2>5, <3>1
    <3>2. CASE old[i] # Latest(n)
      BY <1>3, <3>2
    <3> QED
      BY <3>1, <3>2
  <2> QED
    BY <1>1, <1>8, <2>6
<1>9. calls[n].step # "undo" => ~TakesBack(n)
  BY DEF TakesBack
<1>10. ASSUME calls[n].step \in Looping
       PROVE  \/ new = old
              \/ new = Grown(n) /\ Linking(n)
              \/ /\ new = Grown(n) /\ calls[n].step = "copy"
                 /\ \/ IsDir(disk[p]) /\ disk'[p] = WithMarker(n)
                    \/ UNCHANGED disk /\ disk[p] # None /\ ~IsDir(disk[p])
  <2>1. p \in Targets /\ disk \in [Targets -> Nodes]
    BY <1>10, EntryFields DEF TypeInv, Typed, Placed
  <2>2. calls[n].step \notin {"plan", "undo", "discard", "remove", "clean"}
    BY <1>10 DEF Looping
  <2>3. CASE Decides(n)
    BY <2>2, <2>3 DEF Decides, Planning, Finishes, Looping
  <2>4. CASE Copies(n)
    <3>1. \/ new = old
          \/ calls[n].step = "copy" /\ Writes(n, WithMarker(n)) /\ Advances(n, Grown(n))
      BY <2>4 DEF Copies
    <3> QED
      BY <2>1, <3>1 DEF Writes, Advances
  <2> QED
    BY <2>2, <2>3, <2>4 DEF Move, Stages, Linking, OpensDir, TakesBack, Leaves, Restores, Discards,
                            Removes, Advances
<1>11. CASE calls[n].step \in Looping
  <2>1. ~TakesBack(n) /\ p \in Targets /\ Entry(n).source \in Sources /\ disk \in [Targets -> Nodes]
    BY <1>9, <1>11, EntryFields DEF TypeInv, Typed, Placed, Looping
  <2>2. Linking(n) => Finished(disk'[p])
    <3>1. Link(Entry(n).source) \in Links
      BY <2>1 DEF Links
    <3> QED
      BY <2>1, <3>1, PlainNodes DEF Linking
  <2>3. calls[n].step = "copy" /\ IsDir(disk[p]) /\ disk'[p] = WithMarker(n) => Finished(disk'[p])
    BY WriteTypes, NodeTypes DEF Finished
  <2>4. UNCHANGED disk /\ disk[p] # None /\ ~IsDir(disk[p]) => Finished(disk'[p])
    BY DEF Finished
  <2> QED
    BY <1>4, <1>6, <1>10, <1>11, <2>1, <2>2, <2>3, <2>4
<1>12. CASE calls[n].step = "undo"
  <2>1. Decides(n) \/ TakesBack(n) \/ Leaves(n) \/ Restores(n)
    BY <1>12 DEF Move, Stages, Linking, OpensDir, Copies, Discards, Removes
  <2>2. ~Decides(n)
    BY <1>12 DEF Decides, Planning, Finishes, Looping
  <2>3. TakesBack(n) => new = old \/ (new = Front(old) /\ old # <<>>)
    BY DEF TakesBack
  <2>4. Leaves(n) => new = Front(old) /\ old # <<>>
    BY DEF Leaves
  <2>5. Restores(n) => new = <<>>
    BY DEF Restores
  <2> QED
    BY <1>5, <1>7, <1>8, <1>12, <2>1, <2>2, <2>3, <2>4, <2>5
<1>13. CASE calls[n].step = "plan"
  <2>1. Decides(n) /\ old = <<>>
    BY <1>13 DEF Move, Stages, Linking, OpensDir, Copies, TakesBack, Leaves, Restores, Discards,
                 Removes, Undoable
  <2>2. new = old
    BY <1>13, <2>1 DEF Decides, Planning, Finishes, Looping, Advances
  <2> QED
    BY <1>5, <2>1, <2>2
<1> QED
  BY <1>0, <1>11, <1>12, <1>13

LEMMA RemovableStep ==
    ASSUME TypeInv, RemovableInv, NEW n \in DOMAIN calls, Move(n), Undoable(n)
    PROVE  Removable(n)'
<1>1. Others(n) /\ Running(n) /\ Removable(n)
  BY MoveRuns DEF RemovableInv
<1>2. SUFFICES ASSUME calls[n].alone, OwnTargets(calls[n].kind) PROVE Removable(n)'
  BY <1>1 DEF Removable, Others
<1>3. calls'[n].step \in Looping \cup {"undo"} =>
        /\ \A i, j \in DOMAIN calls'[n].created :
                calls'[n].created[i] = calls'[n].created[j] => i = j
        /\ \A i \in DOMAIN calls'[n].created : Finished(disk'[calls'[n].created[i]])
  BY <1>1, <1>2, CreatedStep
<1>4. calls'[n].step \in {"clean", "remove"} => calls'[n].created = <<>>
  BY <1>1, <1>2, RemoverShape DEF Removable, Undoable
<1>5. ASSUME calls'[n].step = "remove" PROVE Finished(disk'[Entry(n).target])
  <2>1. calls[n].at \in DOMAIN calls[n].entries
    BY <1>5, RemoverShape
  <2>2. /\ Entry(n).target \in Targets /\ Entry(n).source \in Sources
        /\ Entry(n).mode \in {"symlink", "copy"} /\ disk[Entry(n).target] \in Nodes
    BY <2>1, EntryFields DEF TypeInv
  <2>3. CASE MayRemove(n) /\ UNCHANGED disk
    <3>1. Matches(Entry(n).source, disk[Entry(n).target], Entry(n).mode)
      BY <2>3 DEF MayRemove
    <3>2. CASE disk[Entry(n).target] = Link(Entry(n).source)
      BY <2>2, <2>3, <3>2, PlainNodes DEF Links
    <3>3. CASE IsDir(disk[Entry(n).target]) /\ disk[Entry(n).target].marker = Entry(n).source
      <4>1. Entry(n).source # None
        BY <2>2, PlacesAssumption
      <4>2. MarkedCopied(disk[Entry(n).target])
        BY <2>2 DEF RemovableInv
      <4> QED
        BY <2>3, <3>3, <4>1, <4>2 DEF MarkedCopied, Finished, IsDir
    <3> QED
      BY <2>2, <3>1, <3>2, <3>3 DEF Matches
  <2>4. CASE /\ calls[n].step = "remove" /\ disk'[Entry(n).target] # None
             /\ Taken(disk[Entry(n).target], disk'[Entry(n).target])
    <3>1. Finished(disk[Entry(n).target])
      BY <1>1, <1>2, <2>4 DEF Removable
    <3> QED
      BY <2>4, <3>1, TakenFinished
  <2> QED
    BY <1>5, <2>3, <2>4, RemoverShape
<1>6. calls'[n].step = "remove" => Entry(n)' = Entry(n)
  BY RemoverShape
<1> QED
  BY <1>3, <1>4, <1>5, <1>6 DEF Removable

LEMMA RemovableUser ==
    ASSUME TypeInv, RemovableInv, NEW t \in UserTargets, UserMove(t)
    PROVE  RemovableInv'
<1>1. /\ DOMAIN calls' = DOMAIN calls /\ UNCHANGED backups /\ t \in Targets
      /\ \A u \in Targets : u # t => disk'[u] = disk[u]
  BY UserNodes DEF UserMove
<1>2. /\ MarkedCopied(disk[t]) => MarkedCopied(disk'[t])
      /\ Finished(disk[t]) => Finished(disk'[t])
  <2>1. CASE disk[t] = None /\ disk'[t] = UserDir
    BY <2>1, PlainNodes DEF Finished
  <2>2. CASE /\ IsDir(disk[t]) /\ disk'[t].marker = disk[t].marker
             /\ disk'[t].copied = disk[t].copied
    BY <2>2, UserNodes, NodeTypes DEF MarkedCopied, Finished
  <2> QED
    BY <2>1, <2>2, UserNodes
<1>3. ASSUME NEW u \in Targets
      PROVE  /\ MarkedCopied(disk[u]) => MarkedCopied(disk'[u])
             /\ Finished(disk[u]) => Finished(disk'[u])
  BY <1>1, <1>2
<1>4. ASSUME NEW n \in DOMAIN calls PROVE Removable(n)'
  <2>1. /\ calls'[n].kind = calls[n].kind /\ calls'[n].alone = calls[n].alone
        /\ calls'[n].step = calls[n].step /\ calls'[n].created = calls[n].created
        /\ Entry(n)' = Entry(n)
    BY DEF UserMove, Entry
  <2>2. \A i \in DOMAIN calls[n].created : calls[n].created[i] \in Targets
    BY CallFields DEF TypeInv
  <2>3. calls[n].step = "remove" => Entry(n).target \in Targets
    BY EntryFields DEF TypeInv, Placed
  <2>4. Removable(n)
    BY DEF RemovableInv
  <2> QED
    BY <1>3, <2>1, <2>2, <2>3, <2>4 DEF Removable, Running
<1> QED
  BY <1>1, <1>3, <1>4 DEF RemovableInv

LEMMA RemovableNext ==
    ASSUME TypeInv, AloneInv, UndoableInv, RemovableInv, [Next]_vars
    PROVE  RemovableInv'
<1>1. ASSUME NEW n \in DOMAIN calls, Move(n) PROVE RemovableInv'
  <2>1. Others(n) /\ Running(n)
    BY <1>1, MoveRuns
  <2>2. ASSUME NEW m \in DOMAIN calls, m # n PROVE Removable(m)'
    <3>1. calls'[m] = calls[m]
      BY <2>1, <2>2 DEF Others
    <3>2. Running(m) => ~calls[m].alone
      BY <2>1, <2>2, Beside
    <3> QED
      BY <3>1, <3>2 DEF Removable, Running
  <2>3. Removable(n)'
    BY <1>1, RemovableStep DEF UndoableInv
  <2>4. /\ \A t \in Targets : MarkedCopied(disk'[t])
        /\ \A b \in DOMAIN backups' : MarkedCopied(backups'[b].node)
    BY <1>1, MarkedStep
  <2> QED
    BY <2>1, <2>2, <2>3, <2>4 DEF RemovableInv, Others
<1>2. ASSUME NEW kind \in Kinds, Begin(kind) PROVE RemovableInv'
  <2>1. ASSUME NEW m \in DOMAIN calls PROVE Removable(m)'
    <3>1. calls'[m].alone => ~Running(m)'
      BY <1>2, <2>1, BeginShape DEF Running
    <3> QED
      BY <3>1 DEF Removable
  <2>2. ASSUME NEW m, m = Len(calls) + 1 PROVE Removable(m)'
    <3>1. calls'[m].step = "plan"
      BY <1>2, <2>2, BeginShape
    <3> QED
      BY <3>1 DEF Removable, Looping
  <2>3. DOMAIN calls' = DOMAIN calls \cup {Len(calls) + 1} /\ UNCHANGED <<disk, backups>>
    BY <1>2, BeginShape
  <2> QED
    BY <2>1, <2>2, <2>3 DEF RemovableInv
<1>3. ASSUME UNCHANGED <<disk, backups, calls>> PROVE RemovableInv'
  BY <1>3 DEF RemovableInv, Removable, Running, Entry
<1>4. ASSUME NEW t \in UserTargets, UserMove(t) PROVE RemovableInv'
  BY <1>4, RemovableUser
<1> QED
  BY <1>1, <1>2, <1>3, <1>4, NextMoves

\* The user's work stays at its target in a step of a call, or goes into a backup.
LEMMA WorkStep ==
    ASSUME TypeInv, RemovableInv, NEW n \in DOMAIN calls, Move(n)
    PROVE  WorkStays
<1>1. SUFFICES ASSUME NEW t \in Targets, HasWork(disk[t]), ~HasWork(disk'[t]), ~disk[t].copied,
                      ~Contested
               PROVE  \E b \in (DOMAIN backups') \ DOMAIN backups :
                        calls[b[1]].kind.force /\ backups'[b] = [target |-> t, node |-> disk[t]]
  BY DEF WorkStays
<1>2. Running(n) /\ Becomes(n, t)
  BY MoveRuns, MoveBecomes
<1>3. calls[n].alone /\ OwnTargets(calls[n].kind) /\ Removable(n)
  BY <1>1, <1>2 DEF Contested, RemovableInv
<1>4. IsDir(disk[t]) /\ ~Finished(disk[t])
  BY <1>1 DEF HasWork, Finished
<1>5. ~(TakesBack(n) /\ t = Latest(n))
  <2>1. SUFFICES ASSUME TakesBack(n) PROVE Finished(disk[Latest(n)])
    BY <1>4
  <2>2. calls[n].step = "undo" /\ calls[n].created \in Seq(Targets) /\ calls[n].created # <<>>
    BY <2>1, CallFields DEF TakesBack, TypeInv
  <2> DEFINE created == calls[n].created
  <2>4. /\ Last(created) = created[Len(created)] /\ Len(created) \in Nat \ {0}
        /\ DOMAIN created = 1..Len(created)
    BY <2>2, FrontType
  <2>3. Latest(n) = created[Len(created)] /\ Len(created) \in DOMAIN created
    BY <2>4 DEF Latest
  <2> QED
    BY <1>2, <1>3, <2>2, <2>3 DEF Removable
<1>6. ~(Removes(n) /\ t = Entry(n).target)
  BY <1>2, <1>3, <1>4 DEF Removes, Removable
<1>7. Stages(n) /\ t = Entry(n).target
  BY <1>1, <1>2, <1>4, <1>5, <1>6 DEF Becomes, HasWork
<1> DEFINE fresh == <<n, calls[n].at>>
<1>8. /\ fresh \in DOMAIN backups' /\ fresh \notin DOMAIN backups
      /\ backups'[fresh].target = t /\ backups'[fresh].node = disk[t]
      /\ backups' \in [DOMAIN backups' -> [target : Targets, node : Nodes \ {None}]]
  BY <1>7, StageBackups
<1>9. fresh[1] = n
  OBVIOUS
<1> HIDE DEF fresh
<1>10. backups'[fresh] = [target |-> t, node |-> disk[t]]
  BY <1>8
<1>11. calls[n].kind.force
  <2>1. /\ calls[n].step = "stage" /\ calls[n].at \in DOMAIN calls[n].entries
        /\ Permitted(calls[n]) /\ calls[n].entries[calls[n].at].operation = "replace"
    BY <1>7 DEF Stages, TypeInv, Placed, Looping, Entry
  <2> QED
    BY <2>1 DEF Permitted
<1> QED
  BY <1>8, <1>9, <1>10, <1>11

\* A backup stays until it is renamed back, or until all is created.
LEMMA BackupStep ==
    ASSUME TypeInv, NEW n \in DOMAIN calls, Move(n)
    PROVE  BackupStays
<1>1. SUFFICES ASSUME NEW b \in DOMAIN backups
               PROVE  \/ b \in DOMAIN backups' /\ backups'[b] = backups[b]
                      \/ disk'[backups[b].target] = backups[b].node
                      \/ calls[b[1]].step = "discard"
  BY DEF BackupStays
<1>2. CASE UNCHANGED backups
  BY <1>2
<1>3. CASE Stages(n)
  BY <1>3, StageBackups
<1>4. CASE Restores(n)
  <2>1. PICK c \in Own(n) :
            \/ disk' = [disk EXCEPT ![backups[c].target] = backups[c].node] /\ backups' = Without(c)
            \/ UNCHANGED backups
    BY <1>4 DEF Restores
  <2>2. disk \in [Targets -> Nodes] /\ backups[c].target \in Targets
    BY OwnType DEF TypeInv, Typed
  <2>3. CASE disk' = [disk EXCEPT ![backups[c].target] = backups[c].node] /\ backups' = Without(c)
    <3>1. b # c => b \in DOMAIN backups' /\ backups'[b] = backups[b]
      BY <2>3, WithoutBackup
    <3>2. disk'[backups[c].target] = backups[c].node
      BY <2>2, <2>3
    <3> QED
      BY <3>1, <3>2
  <2> QED
    BY <1>2, <2>1, <2>3
<1>5. CASE Discards(n)
  <2>1. calls[n].step = "discard"
    BY <1>5 DEF Discards
  <2>2. PICK c \in Own(n) :
            \/ backups' = Without(c)
            \/ \E less \in Nodes \ {None} : backups' = [backups EXCEPT ![c].node = less]
    BY <1>5 DEF Discards
  <2>3. CASE b = c
    BY <2>1, <2>3, OwnType
  <2>4. CASE b # c
    <3>1. CASE backups' = Without(c)
      BY <2>4, <3>1, WithoutBackup
    <3>2. ASSUME NEW less \in Nodes \ {None}, backups' = [backups EXCEPT ![c].node = less]
          PROVE  b \in DOMAIN backups' /\ backups'[b] = backups[b]
      BY <2>4, <3>2, LessBackup
    <3> QED
      BY <2>2, <3>1, <3>2
  <2> QED
    BY <2>3, <2>4
<1> QED
  BY <1>2, <1>3, <1>4, <1>5 DEF Move, Decides, Linking, OpensDir, Copies, TakesBack, Leaves, Removes

\* What the user has at a target stays, at the target or in a backup, until a forced
\* call has created all it had to; it is lost only where a copy was finished in the
\* directory, or where calls were beside each other (apply, clean and the rollback).
THEOREM UserWorkKeptHolds == Spec => UserWorkKept
<1>1. Init => AloneInv /\ UndoableInv /\ RemovableInv
  BY PlainNodes DEF Init, AloneInv, UndoableInv, RemovableInv
<1>2. TypeInv /\ AloneInv /\ UndoableInv /\ RemovableInv /\ [Next]_vars
        => AloneInv' /\ UndoableInv' /\ RemovableInv'
  BY AloneNext, UndoableNext, RemovableNext
<1>3. ASSUME TypeInv, RemovableInv, [Next]_vars PROVE WorkStays /\ BackupStays
  <2>1. ASSUME UNCHANGED <<disk, backups>> PROVE WorkStays /\ BackupStays
    BY <2>1 DEF WorkStays, BackupStays
  <2>2. ASSUME NEW t \in UserTargets, UserMove(t) PROVE WorkStays /\ BackupStays
    <3>1. \A u \in Targets : HasWork(disk[u]) => HasWork(disk'[u])
      <4>1. disk'[t] \in Dirs /\ disk'[t].user /\ \A u \in Targets : u # t => disk'[u] = disk[u]
        BY <1>3, <2>2, UserNodes
      <4>2. HasWork(disk'[t])
        BY <4>1, NodeTypes DEF HasWork
      <4> QED
        BY <4>1, <4>2
    <3> QED
      BY <2>2, <3>1 DEF WorkStays, BackupStays, UserMove
  <2>3. ASSUME NEW kind \in Kinds, Begin(kind) PROVE WorkStays /\ BackupStays
    BY <2>1, <2>3 DEF Begin
  <2> QED
    BY <1>3, <2>1, <2>2, <2>3, NextMoves, WorkStep, BackupStep
<1>4. TypeInv /\ RemovableInv /\ [Next]_vars => [WorkStays /\ BackupStays]_vars
  BY <1>3
<1> QED
  BY <1>1, <1>2, <1>4, TypeInvAlways, PTL DEF Spec, UserWorkKept

----------------------------------------------------------------------------
\* What a call plans.

\* The ids of a map are all walked.
LEMMA SortedHas ==
    ASSUME NEW ids, ids \subseteq Int, IsFiniteSet(ids), NEW id \in ids
    PROVE  /\ DOMAIN Sorted(ids) = 1..Cardinality(ids) /\ Cardinality(ids) \in Nat
           /\ \E n \in 1..Cardinality(ids) : Sorted(ids)[n] = id
<1> DEFINE Below(x) == {other \in ids : other < x}
<1>1. Cardinality(ids) \in Nat
  BY FS_CardinalityType
<1>2. \A x : IsFiniteSet(Below(x)) /\ Cardinality(Below(x)) \in Nat
  <2>1. \A x : Below(x) \in SUBSET ids
    OBVIOUS
  <2> HIDE DEF Below
  <2> QED
    BY <2>1, FS_Subset, FS_CardinalityType
<1>3. ASSUME NEW x \in ids, NEW y \in ids, x < y PROVE Cardinality(Below(x)) # Cardinality(Below(y))
  <2>1. Below(x) \in SUBSET Below(y)
    <3>1. \A z \in ids : z \in Int
      OBVIOUS
    <3>2. \A z \in ids : z < x => z < y
      BY <1>3, <3>1
    <3> QED
      BY <3>2
  <2>2. x \in Below(y) /\ x \notin Below(x)
    BY <1>3
  <2> HIDE DEF Below
  <2> QED
    BY <1>2, <2>1, <2>2, FS_Subset
<1>4. \A x, y \in ids : Cardinality(Below(x)) = Cardinality(Below(y)) => x = y
  <2>1. \A x, y \in ids : x < y \/ y < x \/ x = y
    OBVIOUS
  <2> HIDE DEF Below
  <2> QED
    BY <1>3, <2>1
<1>5. Cardinality(Below(id)) < Cardinality(ids)
  <2>1. Below(id) \in SUBSET ids /\ id \notin Below(id)
    OBVIOUS
  <2> HIDE DEF Below
  <2> QED
    BY <1>1, <1>2, <2>1, FS_Subset
<1> DEFINE n == Cardinality(Below(id)) + 1
<1>6. n \in 1..Cardinality(ids) /\ n - 1 = Cardinality(Below(id))
  <2> HIDE DEF Below
  <2> QED
    BY <1>1, <1>2, <1>5
<1>7. Sorted(ids) = [m \in 1..Cardinality(ids) |->
                        CHOOSE x \in ids : Cardinality(Below(x)) = m - 1]
  BY DEF Sorted
<1> HIDE DEF Below, n
<1>8. Sorted(ids)[n] = id
  BY <1>4, <1>6, <1>7
<1> QED
  BY <1>1, <1>6, <1>7, <1>8

\* What a list of two lists has.
LEMMA Joined ==
    ASSUME NEW S, NEW s \in Seq(S), NEW t \in Seq(S)
    PROVE  /\ \A n \in DOMAIN s : n \in DOMAIN (s \o t) /\ (s \o t)[n] = s[n]
           /\ \A n \in DOMAIN t : Len(s) + n \in DOMAIN (s \o t) /\ (s \o t)[Len(s) + n] = t[n]
OBVIOUS

\* The list of a manifest's Skills, and what follows it in the plan.
Listed(m, mode) ==
    [n \in DOMAIN m.skills |-> [source   |-> m.skills[n].source,
                                target   |-> m.skills[n].target,
                                required |-> m.skills[n].required,
                                digest   |-> m.skills[n].digest,
                                mode     |-> mode]]

LEMMA PlanShape ==
    ASSUME NEW m, NEW mode, NEW length \in Nat, DOMAIN m.skills = 1..length
    PROVE  /\ EntriesOf(m, mode) = Listed(m, mode) \o AccountEntries(m)
           /\ DOMAIN Listed(m, mode) = 1..length
           /\ \A n \in 1..length : /\ n \in DOMAIN EntriesOf(m, mode)
                                   /\ EntriesOf(m, mode)[n] = Listed(m, mode)[n]
           /\ \A n \in DOMAIN AccountEntries(m) :
                    /\ length + n \in DOMAIN EntriesOf(m, mode)
                    /\ EntriesOf(m, mode)[length + n] = AccountEntries(m)[n]
<1> DEFINE first == Listed(m, mode)
           rest  == AccountEntries(m)
           config == AccountEntry(m, "config.toml", m.account.config, m.account.hasConfig)
           auth   == AccountEntry(m, "auth.json", m.account.auth, m.account.hasAuth)
           S     == {first[j] : j \in 1..length} \cup {config, auth}
<1>1. first = [j \in 1..length |-> first[j]]
  BY DEF Listed
<1>2. EntriesOf(m, mode) = first \o rest
  BY DEF EntriesOf, Listed
<1>3. rest = <<>> \/ rest = <<config, auth>>
  BY DEF AccountEntries
<1> HIDE DEF first, rest, config, auth
<1>4. rest \in Seq(S)
  <2>1. config \in S /\ auth \in S
    OBVIOUS
  <2> HIDE DEF S
  <2>2. <<>> \in Seq(S)
    OBVIOUS
  <2>3. <<config, auth>> \in Seq(S)
    BY <2>1
  <2> QED
    BY <1>3, <2>2, <2>3
<1>5. first \in Seq(S) /\ Len(first) = length /\ DOMAIN first = 1..length
  <2>1. \A j \in 1..length : first[j] \in S
    OBVIOUS
  <2> HIDE DEF S
  <2> QED
    BY <1>1, <2>1
<1> HIDE DEF S
<1>6. /\ \A n \in DOMAIN first : n \in DOMAIN (first \o rest) /\ (first \o rest)[n] = first[n]
      /\ \A n \in DOMAIN rest :
            Len(first) + n \in DOMAIN (first \o rest) /\ (first \o rest)[Len(first) + n] = rest[n]
  BY <1>4, <1>5, Joined
<1> QED
  BY <1>2, <1>5, <1>6 DEF first, rest

\* A Skill that is required by a layer is found in the registry, and planned.
LEMMA RequiredFound ==
    ASSUME NEW i \in DOMAIN Inputs, NEW l \in DOMAIN Layers(Inputs[i]),
           NEW k \in DOMAIN Layers(Inputs[i])[l].skills,
           Layers(Inputs[i])[l].skills[k].required
    PROVE  LET id == Layers(Inputs[i])[l].skills[k].skill
           IN  /\ Registered(Inputs[i].registry, id) # None
               /\ id \in Found(Inputs[i]) /\ Requested(Inputs[i])[id]
<1> DEFINE inputs == Inputs[i]
           asked  == Layers(inputs)[l].skills[k]
<1>1. asked \in Requirements(inputs)
  BY DEF Requirements, ToSet
<1>2. asked.skill \in DOMAIN Requested(inputs) /\ Requested(inputs)[asked.skill]
  BY <1>1 DEF Requested
<1>3. \A id \in DOMAIN Requested(inputs) \ Found(inputs) : ~Requested(inputs)[id]
  BY InputsAssumption DEF Resolvable
<1>4. asked.skill \in Found(inputs)
  BY <1>2, <1>3
<1> QED
  BY <1>2, <1>4 DEF Found

\* The Skills of a manifest come first in the plan.
LEMMA SkillPlanned ==
    ASSUME NEW kind \in Kinds, NEW id \in Found(Inputs[kind.inputs])
    PROVE  LET inputs == Inputs[kind.inputs]
               skill  == Registered(inputs.registry, id)
           IN  \E n \in DOMAIN Wanted[kind] :
                    /\ Wanted[kind][n].source = skill.source
                    /\ Wanted[kind][n].target = <<ManagedRoot(inputs), "skills", skill.id>>
                    /\ Wanted[kind][n].required = Requested(inputs)[id]
                    /\ Wanted[kind][n].mode = kind.mode
<1> DEFINE inputs == Inputs[kind.inputs]
           m      == Manifest[kind.inputs]
           ids    == Found(inputs)
<1>1. kind.inputs \in DOMAIN Inputs
  BY CallsAssumption
<1>2. ids \subseteq Int /\ IsFiniteSet(ids)
  <2>1. ids \in SUBSET DOMAIN Requested(inputs)
    BY DEF Found
  <2> QED
    BY <1>1, <2>1, IdsAssumption, FS_Subset
<1>3. PICK n \in 1..Cardinality(ids) : Sorted(ids)[n] = id
  BY <1>2, SortedHas
<1>4. DOMAIN Sorted(ids) = 1..Cardinality(ids) /\ Cardinality(ids) \in Nat
  BY <1>2, SortedHas
<1>5. /\ DOMAIN m.skills = 1..Cardinality(ids)
      /\ m.skills[n].source = Registered(inputs.registry, id).source
      /\ m.skills[n].target = <<ManagedRoot(inputs), "skills", Registered(inputs.registry, id).id>>
      /\ m.skills[n].required = Requested(inputs)[id]
  BY <1>1, <1>3, <1>4 DEF Manifest, Resolve
<1>6. Wanted[kind] = EntriesOf(m, kind.mode)
  BY DEF Wanted
<1>7. n \in DOMAIN Wanted[kind] /\ Wanted[kind][n] = Listed(m, kind.mode)[n]
  <2> HIDE DEF m
  <2> QED
    BY <1>4, <1>5, <1>6, PlanShape
<1>8. /\ Listed(m, kind.mode)[n].source = m.skills[n].source
      /\ Listed(m, kind.mode)[n].target = m.skills[n].target
      /\ Listed(m, kind.mode)[n].required = m.skills[n].required
      /\ Listed(m, kind.mode)[n].mode = kind.mode
  <2> HIDE DEF m
  <2> QED
    BY <1>5 DEF Listed
<1> QED
  BY <1>5, <1>7, <1>8

\* Then the config and the auth of the account, when the runtime is isolated.
LEMMA AccountPlanned ==
    ASSUME NEW kind \in Kinds, Isolation(Inputs[kind.inputs]) = "hard"
    PROVE  LET inputs == Inputs[kind.inputs]
               account == AccountOf(inputs)
           IN  \E n, o \in DOMAIN Wanted[kind] :
                    /\ Wanted[kind][n].source = account.config
                    /\ Wanted[kind][n].target = <<ManagedRoot(inputs), "config.toml", 0>>
                    /\ Wanted[kind][n].required = account.hasConfig
                    /\ Wanted[kind][n].mode = "symlink"
                    /\ Wanted[kind][o].source = account.auth
                    /\ Wanted[kind][o].target = <<ManagedRoot(inputs), "auth.json", 0>>
                    /\ Wanted[kind][o].required = account.hasAuth
                    /\ Wanted[kind][o].mode = "symlink"
<1> DEFINE inputs == Inputs[kind.inputs]
           m      == Manifest[kind.inputs]
           ids    == Found(inputs)
           rest   == AccountEntries(m)
           length == Cardinality(ids)
<1>1. kind.inputs \in DOMAIN Inputs
  BY CallsAssumption
<1>2. length \in Nat
  <2>1. ids \in SUBSET DOMAIN Requested(inputs)
    BY DEF Found
  <2> QED
    BY <1>1, <2>1, IdsAssumption, FS_Subset, FS_CardinalityType
<1>3. /\ DOMAIN m.skills = 1..length /\ m.isolation = "hard"
      /\ m.account = AccountOf(inputs) /\ m.root = ManagedRoot(inputs)
  BY <1>1 DEF Manifest, Resolve, Sorted
<1>4. Wanted[kind] = EntriesOf(m, kind.mode)
  BY DEF Wanted
<1> HIDE DEF m, length
<1>5. rest = <<AccountEntry(m, "config.toml", m.account.config, m.account.hasConfig),
               AccountEntry(m, "auth.json", m.account.auth, m.account.hasAuth)>>
  BY <1>3 DEF AccountEntries
<1>6. /\ 1 \in DOMAIN rest /\ 2 \in DOMAIN rest
      /\ rest[1] = AccountEntry(m, "config.toml", m.account.config, m.account.hasConfig)
      /\ rest[2] = AccountEntry(m, "auth.json", m.account.auth, m.account.hasAuth)
  BY <1>5
<1> HIDE DEF rest
<1>7. /\ length + 1 \in DOMAIN Wanted[kind] /\ Wanted[kind][length + 1] = rest[1]
      /\ length + 2 \in DOMAIN Wanted[kind] /\ Wanted[kind][length + 2] = rest[2]
  <2>1. \A n \in DOMAIN rest : /\ length + n \in DOMAIN Wanted[kind]
                               /\ Wanted[kind][length + n] = rest[n]
    <3>1. DOMAIN m.skills = 1..length
      BY <1>3
    <3>2. \A n \in DOMAIN AccountEntries(m) :
                /\ length + n \in DOMAIN EntriesOf(m, kind.mode)
                /\ EntriesOf(m, kind.mode)[length + n] = AccountEntries(m)[n]
      BY <1>2, <3>1, PlanShape
    <3> QED
      BY <1>4, <3>2 DEF rest
  <2> QED
    BY <1>6, <2>1
<1> QED
  BY <1>3, <1>6, <1>7 DEF AccountEntry

----------------------------------------------------------------------------
\* Every entry of a plan is the one that is wanted there, and nothing that is required
\* is skipped; a call that has left its plan has planned all of it.
Ready(n) ==
    Running(n) =>
        LET call   == calls[n]
            wanted == Wanted[call.kind]
        IN  /\ DOMAIN call.entries \subseteq DOMAIN wanted
            /\ \A k \in DOMAIN call.entries :
                    /\ call.entries[k].source = wanted[k].source
                    /\ call.entries[k].target = wanted[k].target
                    /\ call.entries[k].mode = wanted[k].mode
                    /\ wanted[k].required => call.entries[k].operation # "skip"
            /\ call.step # "plan" => DOMAIN call.entries = DOMAIN wanted

ReadyInv == \A n \in DOMAIN calls : Ready(n)

\* A call that is past its plan keeps it until it ends.
LEMMA PlanKept ==
    ASSUME TypeInv, NEW n \in DOMAIN calls, Move(n), calls[n].step # "plan"
    PROVE  \/ calls'[n].step = "done"
           \/ /\ calls'[n].entries = calls[n].entries /\ calls'[n].kind = calls[n].kind
              /\ calls'[n].step # "plan"
<1>1. ASSUME NEW created, Advances(n, created)
      PROVE  /\ calls'[n].entries = calls[n].entries /\ calls'[n].kind = calls[n].kind
             /\ calls'[n].step # "plan"
  BY <1>1 DEF Advances, Goes, GoesOn, Others
<1>2. CASE Decides(n)
  BY <1>1, <1>2 DEF Decides, Planning, Finishes, Goes, GoesOn, Others
<1>3. CASE Stages(n) \/ OpensDir(n) \/ TakesBack(n) \/ Leaves(n) \/ Removes(n)
  BY <1>3 DEF Stages, OpensDir, TakesBack, Leaves, Removes, Goes, GoesOn, Others
<1>4. CASE Linking(n) \/ Copies(n)
  BY <1>1, <1>4 DEF Linking, Copies, Goes, GoesOn, Others
<1>5. CASE Restores(n) \/ Discards(n)
  BY <1>5 DEF Restores, Discards, Goes, GoesOn, Others
<1> QED
  BY <1>2, <1>3, <1>4, <1>5 DEF Move

\* A call leaves its plan when there is nothing more to plan.
LEMMA PlanLeft ==
    ASSUME TypeInv, NEW n \in DOMAIN calls, CallStep(n), Move(n), calls[n].step = "plan"
    PROVE  \/ calls'[n].step = "done"
           \/ PlanEntry(n)
           \/ /\ ~Plans(n) /\ calls'[n].entries = calls[n].entries
              /\ calls'[n].kind = calls[n].kind /\ calls'[n].step # "plan"
<1>1. PlanEntry(n) \/ Planned(n) \/ Kill(n)
  BY DEF CallStep, Stage, CreateLink, CreateDir, CopyPart, WriteMarker, Fail, UndoCreated,
         LeaveCreated, RestoreBackup, Discard, Verify, CleanEntry, RemoveEntry, FailRemoval, Going
<1>2. CASE Kill(n)
  <2>1. Typed
    BY DEF TypeInv
  <2>2. "unverified" \in Outcomes /\ "killed" \in Outcomes
    BY DEF Outcomes
  <2> QED
    BY <1>2, <2>1, <2>2, EndsShape DEF Kill
<1>3. CASE Planned(n)
  <2>1. ~Plans(n) /\ Decides(n)
    BY <1>3, PlannedMoves DEF Planned
  <2>2. ASSUME NEW entry \in Entries, Planning(n, entry) PROVE FALSE
    <3>1. calls[n].kind \in Kinds /\ Len(calls[n].entries) \in Nat
      BY CallFields DEF TypeInv
    <3>2. Len(calls[n].entries) + 1 \in 1..Len(Wanted[calls[n].kind])
          /\ Len(Wanted[calls[n].kind]) \in Nat
      BY <2>2, <3>1, WantedAssumption DEF Planning
    <3> QED
      BY <2>1, <3>1, <3>2 DEF Plans
  <2>3. ASSUME NEW created, Advances(n, created)
        PROVE  /\ calls'[n].entries = calls[n].entries /\ calls'[n].kind = calls[n].kind
               /\ calls'[n].step # "plan"
    BY <2>3 DEF Advances, Goes, GoesOn, Others
  <2> QED
    BY <2>1, <2>2, <2>3 DEF Decides, Finishes, Goes, GoesOn, Others, Looping
<1> QED
  BY <1>1, <1>2, <1>3

\* The entry that is planned is the next one that is wanted.
LEMMA EntryPlanned ==
    ASSUME TypeInv, NEW n \in DOMAIN calls, PlanEntry(n), calls'[n].step # "done", Ready(n)
    PROVE  Ready(n)'
<1> DEFINE length == Len(calls[n].entries)
           wanted == Wanted[calls[n].kind]
           want   == wanted[length + 1]
           entry  == [source |-> want.source, target |-> want.target, mode |-> want.mode,
                      operation |-> Operation(want.source, want)]
           more   == Append(calls[n].entries, entry)
           call   == [calls[n] EXCEPT !.entries = more]
<1>1. /\ Typed /\ calls[n] \in CallRec /\ calls \in Seq(CallRec) /\ calls[n].kind \in Kinds
      /\ calls[n].entries \in Seq(Entries) /\ length \in Nat
  BY CallFields DEF TypeInv, Typed
<1>2. calls[n].step = "plan" /\ Plans(n)
  BY DEF PlanEntry, Going
<1>3. length + 1 \in DOMAIN wanted /\ DOMAIN wanted = 1..Len(wanted) /\ Len(wanted) \in Nat
  BY <1>1, <1>2, WantedAssumption DEF Plans
<1>4. "refused" \in Outcomes
  BY DEF Outcomes
<1>5. ~Ends(n, "refused")
  BY <1>1, <1>4, EndsShape
<1>6. Set(n, call) /\ ~(source[want.source] = None /\ want.required)
  <2>1. [calls[n] EXCEPT !.entries = Append(@, entry)] = call
    BY <1>1 DEF CallRec, Ghosts
  <2> QED
    BY <1>5, <2>1 DEF PlanEntry
<1>7. want.required => entry.operation # "skip"
  BY <1>6 DEF Operation
<1>8. /\ entry.source = want.source /\ entry.target = want.target /\ entry.mode = want.mode
  OBVIOUS
<1>9. calls'[n] = call
  BY <1>1, <1>6 DEF Set
<1> HIDE DEF entry
<1>10. call.entries = more /\ call.kind = calls[n].kind /\ call.step = "plan"
  BY <1>1, <1>2 DEF CallRec, Ghosts
<1>11. /\ DOMAIN more = 1..(length + 1) /\ more[length + 1] = entry
       /\ \A k \in 1..length : more[k] = calls[n].entries[k]
       /\ DOMAIN calls[n].entries = 1..length
  BY <1>1
<1>12. DOMAIN more \subseteq DOMAIN wanted
  BY <1>1, <1>3, <1>11
<1>13. ASSUME NEW k \in DOMAIN more
       PROVE  /\ more[k].source = wanted[k].source /\ more[k].target = wanted[k].target
              /\ more[k].mode = wanted[k].mode
              /\ wanted[k].required => more[k].operation # "skip"
  <2>1. k \in 1..length \/ k = length + 1
    BY <1>1, <1>11
  <2>2. CASE k \in 1..length
    BY <1>2, <1>11, <2>2 DEF Ready, Running
  <2>3. CASE k = length + 1
    BY <1>7, <1>8, <1>11, <2>3
  <2> QED
    BY <2>1, <2>2, <2>3
<1>14. /\ calls'[n].entries = more /\ calls'[n].kind = calls[n].kind
       /\ calls'[n].step = "plan"
  BY <1>9, <1>10
<1> HIDE DEF more, call, entry
<1>15. DOMAIN calls'[n].entries \subseteq DOMAIN Wanted[calls'[n].kind]
  BY <1>12, <1>14
<1>16. \A k \in DOMAIN calls'[n].entries :
            LET w == Wanted[calls'[n].kind][k]
                e == calls'[n].entries[k]
            IN  /\ e.source = w.source /\ e.target = w.target /\ e.mode = w.mode
                /\ w.required => e.operation # "skip"
  <2> SUFFICES ASSUME NEW k \in DOMAIN more
               PROVE  /\ more[k].source = wanted[k].source /\ more[k].target = wanted[k].target
                      /\ more[k].mode = wanted[k].mode
                      /\ wanted[k].required => more[k].operation # "skip"
    BY <1>14
  <2> HIDE DEF wanted
  <2> QED
    BY <1>13
<1> QED
  BY <1>14, <1>15, <1>16 DEF Ready

LEMMA ReadyStep ==
    ASSUME TypeInv, NEW n \in DOMAIN calls, Ready(n), CallStep(n), Move(n)
    PROVE  Ready(n)'
<1>1. CASE calls'[n].step = "done"
  BY <1>1 DEF Ready, Running
<1>2. CASE calls'[n].step # "done" /\ PlanEntry(n)
  BY <1>2, EntryPlanned
<1>3. CASE /\ calls'[n].entries = calls[n].entries /\ calls'[n].kind = calls[n].kind
           /\ calls'[n].step # "plan"
           /\ calls[n].step = "plan" => ~Plans(n)
  <2>1. /\ calls[n].kind \in Kinds /\ calls[n].entries \in Seq(Entries)
        /\ DOMAIN Wanted[calls[n].kind] = 1..Len(Wanted[calls[n].kind])
        /\ Len(Wanted[calls[n].kind]) \in Nat /\ Len(calls[n].entries) \in Nat
        /\ DOMAIN calls[n].entries = 1..Len(calls[n].entries)
    BY CallFields, WantedAssumption DEF TypeInv
  <2>2. Running(n)
    BY MoveRuns
  <2>3. DOMAIN calls[n].entries = DOMAIN Wanted[calls[n].kind]
    <3>1. CASE calls[n].step # "plan"
      BY <2>2, <3>1 DEF Ready
    <3>2. CASE calls[n].step = "plan"
      <4>1. 1..Len(calls[n].entries) \subseteq 1..Len(Wanted[calls[n].kind])
        BY <2>1, <2>2 DEF Ready
      <4>2. ~(Len(calls[n].entries) < Len(Wanted[calls[n].kind]))
        BY <1>3, <3>2 DEF Plans
      <4>3. Len(calls[n].entries) = Len(Wanted[calls[n].kind])
        <5> DEFINE a == Len(calls[n].entries)
                   b == Len(Wanted[calls[n].kind])
        <5>1. a \in Nat /\ b \in Nat /\ 1..a \subseteq 1..b /\ ~(a < b)
          BY <2>1, <4>1, <4>2
        <5> HIDE DEF a, b
        <5>2. a = b
          <6>1. CASE a = 0
            BY <5>1, <6>1
          <6>2. CASE a # 0
            <7>1. a \in 1..a
              BY <5>1, <6>2
            <7> QED
              BY <5>1, <7>1
          <6> QED
            BY <6>1, <6>2
        <5> QED
          BY <5>2 DEF a, b
      <4> QED
        BY <2>1, <4>3
    <3> QED
      BY <3>1, <3>2
  <2> QED
    BY <1>3, <2>2, <2>3 DEF Ready
<1> QED
  BY <1>1, <1>2, <1>3, PlanKept, PlanLeft

LEMMA ReadyNext ==
    ASSUME TypeInv, ReadyInv, [Next]_vars
    PROVE  ReadyInv'
<1>1. ASSUME NEW kind \in Kinds, Begin(kind) PROVE ReadyInv'
  <2>1. SUFFICES ASSUME NEW n \in DOMAIN calls' PROVE Ready(n)'
    BY DEF ReadyInv
  <2>2. DOMAIN calls' = DOMAIN calls \cup {Len(calls) + 1}
    BY <1>1, BeginShape
  <2>3. CASE n = Len(calls) + 1
    BY <1>1, <2>3, BeginShape DEF Ready
  <2>4. CASE n \in DOMAIN calls
    <3>1. calls'[n].kind = calls[n].kind /\ calls'[n].step = calls[n].step
          /\ calls'[n].entries = calls[n].entries
      BY <1>1, <2>4, BeginShape
    <3> QED
      BY <2>4, <3>1 DEF ReadyInv, Ready, Running
  <2> QED
    BY <2>2, <2>3, <2>4
<1>2. ASSUME NEW n \in 1..MaxCalls, CallStep(n) PROVE ReadyInv'
  <2>1. n \in DOMAIN calls
    BY <1>2 DEF CallStep, PlanEntry, Planned, Stage, CreateLink, CreateDir, CopyPart, WriteMarker,
              Fail, UndoCreated, LeaveCreated, RestoreBackup, Discard, Verify, CleanEntry, RemoveEntry,
              FailRemoval, Kill, Going
  <2>2. Move(n) /\ Others(n)
    BY <1>2, <2>1, StepMoves, MoveRuns
  <2>3. Ready(n)'
    BY <1>2, <2>1, <2>2, ReadyStep DEF ReadyInv
  <2>4. ASSUME NEW m \in DOMAIN calls, m # n PROVE Ready(m)'
    <3>1. calls'[m] = calls[m]
      BY <2>2, <2>4 DEF Others
    <3> QED
      BY <2>4, <3>1 DEF ReadyInv, Ready, Running
  <2> QED
    BY <2>2, <2>3, <2>4 DEF ReadyInv, Others
<1>3. ASSUME UNCHANGED calls PROVE ReadyInv'
  BY <1>3 DEF ReadyInv, Ready, Running
<1>4. ASSUME NEW s \in Sources, EditSource(s) PROVE UNCHANGED calls
  BY <1>4 DEF EditSource
<1>5. ASSUME NEW t \in UserTargets, UserMakes(t) \/ UserWorks(t) PROVE ReadyInv'
  <2>1. UserMove(t)
    BY <1>5, UserShape
  <2> QED
    BY <2>1 DEF UserMove, ReadyInv, Ready, Running
<1> QED
  BY <1>1, <1>2, <1>3, <1>4, <1>5 DEF Next, vars

\* Only a verification that finds every entry in its place makes a call a verified one.
LEMMA VerifiedStep ==
    ASSUME TypeInv, NEW n \in DOMAIN calls, [Next]_vars,
           calls'[n].outcome = "verified", calls[n].outcome = None
    PROVE  calls[n].step = "verify" /\ Projects(calls[n].entries)
<1>1. None # "verified"
  BY PlacesAssumption DEF Outcomes
<1>2. ASSUME NEW m \in 1..MaxCalls, CallStep(m)
      PROVE  m = n /\ calls[n].step = "verify" /\ Projects(calls[n].entries)
  <2>1. m \in DOMAIN calls
    BY <1>2 DEF CallStep, PlanEntry, Planned, Stage, CreateLink, CreateDir, CopyPart, WriteMarker,
              Fail, UndoCreated, LeaveCreated, RestoreBackup, Discard, Verify, CleanEntry, RemoveEntry,
              FailRemoval, Kill, Going
  <2>2. Move(m) /\ Others(m)
    BY <1>2, <2>1, StepMoves, MoveRuns
  <2>3. m = n
    BY <1>1, <2>2 DEF Others
  <2>14. ASSUME NEW step, NEW at, GoesOn(n, step, at) PROVE FALSE
    BY <1>1, <2>14 DEF GoesOn
  <2>4. ASSUME NEW step, NEW at, Goes(n, step, at) PROVE FALSE
    BY <2>4, <2>14 DEF Goes
  <2>5. ASSUME NEW created, Advances(n, created) PROVE FALSE
    BY <2>4, <2>5 DEF Advances
  <2>6. ASSUME NEW entry, Planning(n, entry) PROVE FALSE
    BY <1>1, <2>6 DEF Planning
  <2>7. Decides(n)
    BY <2>2, <2>3, <2>4, <2>5, <2>14 DEF Move, Stages, Linking, OpensDir, Copies, TakesBack,
                                         Leaves, Restores, Discards, Removes
  <2>8. PICK outcome \in Outcomes : Finishes(n, outcome)
    BY <2>4, <2>5, <2>6, <2>7 DEF Decides
  <2>9. ASSUME NEW other \in Outcomes, other # "verified", Ends(n, other) PROVE FALSE
    <3>1. Typed
      BY DEF TypeInv
    <3> QED
      BY <2>9, <3>1, EndsShape
  <2>10. calls[n].step \in {"plan", "clean", "verify"}
    BY <2>8 DEF Finishes
  <2>11. CASE calls[n].step = "verify"
    <3>1. Verify(n) \/ Kill(n)
      BY <1>2, <2>3, <2>11 DEF CallStep, PlanEntry, Planned, Stage, CreateLink, CreateDir, CopyPart,
             WriteMarker, Fail, UndoCreated, LeaveCreated, RestoreBackup, Discard, CleanEntry,
             RemoveEntry, FailRemoval, Going
    <3>2. {"unverified", "killed"} \subseteq Outcomes
      BY DEF Outcomes
    <3> QED
      BY <2>3, <2>9, <2>11, <3>1, <3>2 DEF Verify, Kill
  <2>12. CASE calls[n].step = "clean"
    <3>1. CleanEntry(n) \/ Kill(n)
      BY <1>2, <2>3, <2>12 DEF CallStep, PlanEntry, Planned, Stage, CreateLink, CreateDir, CopyPart,
             WriteMarker, Fail, UndoCreated, LeaveCreated, RestoreBackup, Discard, Verify,
             RemoveEntry, FailRemoval, Going
    <3>2. {"unverified", "killed", "cleaned", "uncleaned", "refused"} \subseteq Outcomes
      BY DEF Outcomes
    <3>3. CASE Kill(n)
      BY <2>9, <2>12, <3>2, <3>3 DEF Kill
    <3>4. CASE CleanEntry(n)
      <4>1. calls[n].at # 0
        BY <2>9, <3>2, <3>4 DEF CleanEntry
      <4>2. calls'[n].step # "done"
        <5>1. Typed /\ calls[n].at \in Nat /\ {"clean", "remove"} \subseteq Steps
          BY CallFields DEF TypeInv, Steps
        <5>2. \/ Set(n, [calls[n] EXCEPT !.at = @ - 1])
              \/ Set(n, [calls[n] EXCEPT !.step = "remove"])
          BY <2>9, <3>2, <3>4, <4>1 DEF CleanEntry
        <5>3. calls[n] \in CallRec /\ calls \in Seq(CallRec)
          BY CallFields DEF TypeInv, Typed
        <5> QED
          BY <2>12, <5>2, <5>3 DEF Set, CallRec, Ghosts
      <4> QED
        BY <2>8, <4>2 DEF Finishes
    <3> QED
      BY <3>1, <3>3, <3>4
  <2>13. CASE calls[n].step = "plan"
    <3>1. PlanEntry(n) \/ Planned(n) \/ Kill(n)
      BY <1>2, <2>3, <2>13 DEF CallStep, Stage, CreateLink, CreateDir, CopyPart, WriteMarker, Fail,
             UndoCreated, LeaveCreated, RestoreBackup, Discard, Verify, CleanEntry, RemoveEntry,
             FailRemoval, Going
    <3>2. {"planned", "killed", "refused"} \subseteq Outcomes
      BY DEF Outcomes
    <3>3. calls[n] \in CallRec /\ calls \in Seq(CallRec)
          /\ calls[n].kind.op \in {"plan", "verify", "clean", "apply"}
      BY CallFields DEF TypeInv, Typed
    <3>4. calls'[n].step = "done"
      BY <2>8 DEF Finishes
    <3>5. CASE PlanEntry(n)
      <4>1. PICK more : Set(n, [calls[n] EXCEPT !.entries = more])
        <5>1. \A entry : [calls[n] EXCEPT !.entries = Append(@, entry)]
                            = [calls[n] EXCEPT !.entries = Append(calls[n].entries, entry)]
          BY <3>3 DEF CallRec, Ghosts
        <5> QED
          BY <2>9, <3>2, <3>5, <5>1 DEF PlanEntry
      <4>2. calls'[n] = [calls[n] EXCEPT !.entries = more]
        BY <3>3, <4>1 DEF Set
      <4> QED
        BY <2>13, <3>3, <3>4, <4>2 DEF CallRec, Ghosts
    <3>6. CASE Planned(n)
      <4>1. \/ Set(n, [calls[n] EXCEPT !.step = "verify"])
            \/ Set(n, [calls[n] EXCEPT !.step = "clean", !.at = Len(calls[n].entries)])
            \/ Set(n, Onward(n, calls[n]))
        BY <2>9, <3>2, <3>3, <3>6 DEF Planned
      <4>2. Onward(n, calls[n]).step \in {"stage", "create", "verify", "discard"}
        BY <3>3 DEF Onward, CallRec, Ghosts
      <4>3. calls'[n].step \in {"stage", "create", "verify", "discard", "clean"}
        BY <3>3, <4>1, <4>2, ZenonT(40) DEF Set, CallRec, Ghosts
      <4> QED
        BY <3>4, <4>3
    <3>7. CASE Kill(n)
      BY <2>9, <2>13, <3>2, <3>7 DEF Kill
    <3> QED
      BY <3>1, <3>5, <3>6, <3>7
  <2> QED
    BY <2>3, <2>10, <2>11, <2>12, <2>13
<1>3. ASSUME NEW kind \in Kinds, Begin(kind) PROVE FALSE
  BY <1>1, <1>3, BeginShape
<1>4. ASSUME UNCHANGED calls PROVE FALSE
  BY <1>1, <1>4
<1>5. ASSUME NEW t \in UserTargets, UserMakes(t) \/ UserWorks(t) PROVE FALSE
  <2>1. calls'[n].outcome = calls[n].outcome
    BY <1>5, UserShape DEF UserMove
  <2> QED
    BY <1>1, <2>1
<1> QED
  BY <1>2, <1>3, <1>4, <1>5 DEF Next, vars, EditSource

\* What a verification finds at the place of an entry that is required.
LEMMA EntryThere ==
    ASSUME TypeInv, WholeInv, NEW n \in DOMAIN calls, Ready(n), calls[n].step = "verify",
           Projects(calls[n].entries), NEW k \in DOMAIN Wanted[calls[n].kind],
           Wanted[calls[n].kind][k].required
    PROVE  LET entry == Wanted[calls[n].kind][k]
           IN  /\ entry.mode = "symlink" => disk[entry.target] = Link(entry.source)
               /\ InPlace(entry.source, entry.target)
<1> DEFINE entry == Wanted[calls[n].kind][k]
<1>1. calls[n].kind \in Kinds
  BY CallFields DEF TypeInv
<1>2. entry.source \in Sources /\ entry.target \in Targets /\ entry.mode \in {"symlink", "copy"}
  BY <1>1, WantedType
<1>3. /\ k \in DOMAIN calls[n].entries
      /\ calls[n].entries[k].source = entry.source /\ calls[n].entries[k].target = entry.target
      /\ calls[n].entries[k].mode = entry.mode /\ calls[n].entries[k].operation # "skip"
  BY DEF Ready, Running
<1>4. Matches(entry.source, disk[entry.target], entry.mode)
  BY <1>3 DEF Projects
<1> HIDE DEF entry
<1>5. CASE entry.mode = "symlink"
  BY <1>4, <1>5 DEF Matches, InPlace, entry
<1>6. CASE entry.mode = "copy"
  <2>1. IsDir(disk[entry.target]) /\ disk[entry.target].marker = entry.source
    BY <1>4, <1>6 DEF Matches
  <2>2. entry.source # None
    BY <1>2, PlacesAssumption
  <2>3. Undisturbed /\ ~MayLack(disk[entry.target]) => DOMAIN disk[entry.target].files = Parts
    BY <1>2, <2>1, <2>2 DEF WholeInv, Whole
  <2> QED
    BY <1>6, <2>1, <2>3 DEF InPlace, entry
<1> QED
  BY <1>2, <1>5, <1>6

\* When apply reports that it verified, every Skill that any layer of the binding
\* requires is in its place, and an isolated runtime has the files of its account
\* (EnvironmentResolver::resolve, plan, apply and verify_entries).
THEOREM AppliedIsProjectedHolds == Spec => AppliedIsProjected
<1> DEFINE Claim == \A n \in DOMAIN calls :
                        /\ calls'[n].outcome = "verified" /\ calls[n].outcome = None /\ calls[n].alone
                        => /\ RequiredInPlace(Inputs[calls[n].kind.inputs])
                           /\ AccountInPlace(Inputs[calls[n].kind.inputs])
<1>1. Init => AloneInv /\ WholeInv /\ ReadyInv
  <2>1. SUFFICES ASSUME Init PROVE AloneInv /\ WholeInv /\ ReadyInv
    OBVIOUS
  <2>2. DOMAIN calls = {} /\ DOMAIN backups = {}
    BY <2>1 DEF Init
  <2>3. \A t \in Targets : Whole(disk[t])
    BY <2>1, WholeNodes DEF Init
  <2> QED
    BY <2>2, <2>3 DEF AloneInv, WholeInv, ReadyInv
<1>2. TypeInv /\ AloneInv /\ WholeInv /\ ReadyInv /\ [Next]_vars
      => AloneInv' /\ WholeInv' /\ ReadyInv'
  BY AloneNext, WholeNext, ReadyNext
<1>3. ASSUME TypeInv, WholeInv, ReadyInv, [Next]_vars PROVE Claim
  <2>1. SUFFICES ASSUME NEW n \in DOMAIN calls, calls'[n].outcome = "verified",
                        calls[n].outcome = None
                 PROVE  /\ RequiredInPlace(Inputs[calls[n].kind.inputs])
                        /\ AccountInPlace(Inputs[calls[n].kind.inputs])
    OBVIOUS
  <2> DEFINE kind   == calls[n].kind
             inputs == Inputs[kind.inputs]
  <2>2. calls[n].step = "verify" /\ Projects(calls[n].entries) /\ Ready(n)
    BY <1>3, <2>1, VerifiedStep DEF ReadyInv
  <2>3. kind \in Kinds /\ kind.inputs \in DOMAIN Inputs
    BY <1>3, CallFields, CallsAssumption DEF TypeInv
  <2>4. \A k \in DOMAIN Wanted[kind] :
            Wanted[kind][k].required =>
                /\ Wanted[kind][k].mode = "symlink" =>
                        disk[Wanted[kind][k].target] = Link(Wanted[kind][k].source)
                /\ InPlace(Wanted[kind][k].source, Wanted[kind][k].target)
    BY <1>3, <2>2, EntryThere
  <2> HIDE DEF kind
  <2>5. RequiredInPlace(inputs)
    <3>1. SUFFICES ASSUME NEW l \in DOMAIN Layers(inputs), NEW k \in DOMAIN Layers(inputs)[l].skills,
                          Layers(inputs)[l].skills[k].required
                   PROVE  LET found == Registered(inputs.registry, Layers(inputs)[l].skills[k].skill)
                          IN  /\ found # None
                              /\ InPlace(found.source, <<ManagedRoot(inputs), "skills", found.id>>)
      BY DEF RequiredInPlace
    <3> DEFINE id    == Layers(inputs)[l].skills[k].skill
               found == Registered(inputs.registry, id)
    <3>2. found # None /\ id \in Found(inputs) /\ Requested(inputs)[id]
      BY <2>3, <3>1, RequiredFound
    <3>3. PICK m \in DOMAIN Wanted[kind] :
                    /\ Wanted[kind][m].source = found.source
                    /\ Wanted[kind][m].target = <<ManagedRoot(inputs), "skills", found.id>>
                    /\ Wanted[kind][m].required = Requested(inputs)[id]
      BY <2>3, <3>2, SkillPlanned
    <3> QED
      BY <2>4, <3>2, <3>3
  <2>6. AccountInPlace(inputs)
    <3>1. CASE Isolation(inputs) # "hard"
      BY <3>1 DEF AccountInPlace
    <3>2. CASE Isolation(inputs) = "hard"
      <4> DEFINE account == AccountOf(inputs)
      <4>1. PICK m, o \in DOMAIN Wanted[kind] :
                    /\ Wanted[kind][m].source = account.config
                    /\ Wanted[kind][m].target = <<ManagedRoot(inputs), "config.toml", 0>>
                    /\ Wanted[kind][m].required = account.hasConfig
                    /\ Wanted[kind][m].mode = "symlink"
                    /\ Wanted[kind][o].source = account.auth
                    /\ Wanted[kind][o].target = <<ManagedRoot(inputs), "auth.json", 0>>
                    /\ Wanted[kind][o].required = account.hasAuth
                    /\ Wanted[kind][o].mode = "symlink"
        BY <2>3, <3>2, AccountPlanned
      <4> QED
        BY <2>4, <4>1 DEF AccountInPlace
    <3> QED
      BY <3>1, <3>2
  <2> QED
    BY <2>5, <2>6 DEF kind
<1>4. TypeInv /\ WholeInv /\ ReadyInv /\ [Next]_vars => [Claim]_vars
  BY <1>3
<1> QED
  BY <1>1, <1>2, <1>4, TypeInvAlways, PTL DEF Spec, AppliedIsProjected

=============================================================================
