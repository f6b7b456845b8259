-------------------------- MODULE EventStoreProofs --------------------------
(***************************************************************************)
(* Theorems about EventStore, for every value of its constants.            *)
(***************************************************************************)
EXTENDS EventStore, SequenceTheorems, TLAPS

----------------------------------------------------------------------------
\* The inductive invariant.

\* The lock excludes, and where a process is in its call says how it holds it.
Excluding == \A p, q \in Procs : holds[p] = "exclusive" /\ q # p => holds[q] = "none"

HoldsAsPlaced(p) ==
    /\ pc[p] \in Inside <=> holds[p] = "exclusive"
    /\ pc[p] = "loading" <=> holds[p] = "shared"

\* A log as appends make it.
Good(l) ==
    /\ Whole(l) /\ DecidedInPlace(l)
    /\ \A k \in DOMAIN l : l[k].nth \in 1..l[k].size

Begins(l, m) == Len(l) <= Len(m) /\ \A k \in 1..Len(l) : l[k] = m[k]

\* A loss of power may take the log back, to one that has every acknowledged event.
Surviving ==
    /\ file \in survivors
    /\ \A l \in survivors : Good(l) /\ Begins(l, file) /\ acked <= Len(l)

IsBatch(p) ==
    \E n \in 1..MaxBatch : /\ batch[p] = Batch(p, Len(seen[p]), n)
                           /\ Len(seen[p]) + n <= MaxEvents

\* Between the lock and its release a process knows the log.
KnowsLog(p) ==
    /\ Good(seen[p])
    /\ pc[p] \in {"read", "written", "synced"} => seen[p] = file
    /\ pc[p] \in {"written", "synced", "replaced", "durable"} => IsBatch(p)
    /\ pc[p] \in {"replaced", "durable"} => file = seen[p] \o batch[p]
    /\ pc[p] = "durable" => survivors = {file}

\* The events a process is to report are acknowledged, and its own.
OwnsEvents(p) ==
    wrote[p] # 0 =>
        /\ wrote[p] <= acked /\ file[wrote[p]].by = p
        /\ pc[p] = "shown" => wrote[p] <= Len(seen[p]) /\ seen[p][wrote[p]].by = p

IsSound(p) == HoldsAsPlaced(p) /\ KnowsLog(p) /\ OwnsEvents(p)

StoreInv == Typed /\ Excluding /\ Surviving /\ \A p \in Procs : IsSound(p)

----------------------------------------------------------------------------
\* Logs that begin others, and logs that are extended.

\* Begins is an order, and a log is determined by its length and any that it begins.
LEMMA BeginsOrder ==
    ASSUME NEW a \in Seq(Event), NEW b \in Seq(Event), NEW c \in Seq(Event)
    PROVE  /\ Begins(a, a)
           /\ Begins(a, b) /\ Begins(b, c) => Begins(a, c)
           /\ Begins(a, c) /\ Begins(b, c) /\ Len(a) <= Len(b) => Begins(a, b)
           /\ Begins(a, b) /\ Len(a) = Len(b) => a = b
<1>1. Len(a) \in Nat /\ Len(b) \in Nat /\ Len(c) \in Nat
  OBVIOUS
<1>2. Begins(a, a)
  BY <1>1 DEF Begins
<1>3. Begins(a, b) /\ Begins(b, c) => Begins(a, c)
  BY <1>1 DEF Begins
<1>4. Begins(a, c) /\ Begins(b, c) /\ Len(a) <= Len(b) => Begins(a, b)
  BY <1>1 DEF Begins
<1>5. Begins(a, b) /\ Len(a) = Len(b) => a = b
  BY SeqEqual DEF Begins
<1> QED
  BY <1>2, <1>3, <1>4, <1>5

\* A log that begins another is what SubSeq takes from its front.
LEMMA BeginsIsFront ==
    ASSUME NEW a \in Seq(Event), NEW b \in Seq(Event), Begins(a, b)
    PROVE  /\ a = SubSeq(b, 1, Len(a)) /\ Len(a) \in 0..Len(b)
           /\ \A n \in 0..Len(a) : SubSeq(a, 1, n) = SubSeq(b, 1, n)
<1>1. Len(a) \in Nat /\ Len(b) \in Nat /\ Len(a) <= Len(b)
  BY DEF Begins
<1>2. ASSUME NEW n \in 0..Len(a)
      PROVE  /\ SubSeq(a, 1, n) \in Seq(Event) /\ SubSeq(b, 1, n) \in Seq(Event)
             /\ Len(SubSeq(a, 1, n)) = n /\ Len(SubSeq(b, 1, n)) = n
             /\ \A i \in 1..n : SubSeq(a, 1, n)[i] = a[i] /\ SubSeq(b, 1, n)[i] = b[i]
                                /\ a[i] = b[i]
  <2>1. \A i \in 1..n : a[i] \in Event /\ b[i] \in Event /\ a[i] = b[i]
    BY <1>1 DEF Begins
  <2>2. /\ SubSeq(a, 1, n) \in Seq(Event)
        /\ Len(SubSeq(a, 1, n)) = n
        /\ \A i \in 1..n : SubSeq(a, 1, n)[i] = a[i]
    BY <1>1, <2>1
  <2>3. /\ SubSeq(b, 1, n) \in Seq(Event)
        /\ Len(SubSeq(b, 1, n)) = n
        /\ \A i \in 1..n : SubSeq(b, 1, n)[i] = b[i]
    BY <1>1, <2>1
  <2> QED
    BY <2>1, <2>2, <2>3
<1>3. \A n \in 0..Len(a) : SubSeq(a, 1, n) = SubSeq(b, 1, n)
  BY <1>2, SeqEqual
<1>4. SubSeq(a, 1, Len(a)) = a
  BY SubSeqFull
<1>5. Len(a) \in 0..Len(a)
  BY <1>1
<1> QED
  BY <1>1, <1>3, <1>4, <1>5

\* A batch as its process builds it.
LEMMA BatchType ==
    ASSUME NEW p \in Procs, NEW base \in Nat, NEW n \in Nat
    PROVE  /\ Batch(p, base, n) \in Seq(Event) /\ Len(Batch(p, base, n)) = n
           /\ \A k \in 1..n : /\ Batch(p, base, n)[k].by = p
                              /\ Batch(p, base, n)[k].base = base
                              /\ Batch(p, base, n)[k].nth = k
                              /\ Batch(p, base, n)[k].size = n
<1>1. \A k \in 1..n : [by |-> p, base |-> base, nth |-> k, size |-> n] \in Event
  BY DEF Event
<1> QED
  BY <1>1 DEF Batch

\* A good log that grows by a batch decided on it is good, and begins the new one.
LEMMA GoodGrows ==
    ASSUME NEW s \in Seq(Event), Good(s), NEW p \in Procs, NEW n \in Nat \ {0}
    PROVE  LET l == s \o Batch(p, Len(s), n)
           IN  /\ l \in Seq(Event) /\ Len(l) = Len(s) + n
               /\ Good(l) /\ Begins(s, l) /\ l[Len(l)].by = p
<1> DEFINE b == Batch(p, Len(s), n)
           l == s \o b
<1>1. Len(s) \in Nat /\ DOMAIN s = 1..Len(s)
  OBVIOUS
<1>2. /\ b \in Seq(Event) /\ Len(b) = n
      /\ \A k \in 1..n : b[k].by = p /\ b[k].base = Len(s) /\ b[k].nth = k /\ b[k].size = n
  <2>1. ASSUME NEW base \in Nat
        PROVE  LET c == Batch(p, base, n)
               IN  /\ c \in Seq(Event) /\ Len(c) = n
                   /\ \A k \in 1..n : c[k].by = p /\ c[k].base = base /\ c[k].nth = k
                                      /\ c[k].size = n
    BY BatchType
  <2> QED
    BY <1>1, <2>1
<1> HIDE DEF b
<1>3. /\ l \in Seq(Event) /\ Len(l) = Len(s) + n /\ DOMAIN l = 1..Len(s) + n
      /\ \A k \in 1..Len(s) : l[k] = s[k]
      /\ \A k \in Len(s) + 1..Len(s) + n : k - Len(s) \in 1..n /\ l[k] = b[k - Len(s)]
  BY <1>1, <1>2
<1> HIDE DEF l
<1>4. \A k \in 1..Len(s) :
        /\ l[k].nth \in 1..l[k].size /\ l[k].base + l[k].nth = k
        /\ l[k].base + l[k].size <= Len(s) /\ l[k].base < Len(s)
  <2> TAKE k \in 1..Len(s)
  <2>1. /\ s[k] \in Event /\ s[k].nth \in 1..s[k].size /\ s[k].base + s[k].nth = k
        /\ s[k].base + s[k].size <= Len(s)
    BY <1>1 DEF Good, Whole, DecidedInPlace
  <2>2. s[k].base \in Nat /\ s[k].nth \in Nat /\ s[k].size \in Nat
    BY <2>1 DEF Event
  <2>3. s[k].base < Len(s)
    BY <1>1, <2>1, <2>2
  <2> QED
    BY <1>3, <2>1, <2>3
<1>5. \A k \in Len(s) + 1..Len(s) + n :
        /\ l[k].by = p /\ l[k].base = Len(s) /\ l[k].nth = k - Len(s) /\ l[k].size = n
  BY <1>2, <1>3
<1>6. \A k \in DOMAIN l : k \in 1..Len(s) \/ k \in Len(s) + 1..Len(s) + n
  BY <1>1, <1>3
<1>7. \A k \in DOMAIN l : l[k].nth \in 1..l[k].size /\ l[k].base + l[k].nth = k
  <2>1. \A k \in Len(s) + 1..Len(s) + n : l[k].nth \in 1..l[k].size /\ l[k].base + l[k].nth = k
    BY <1>1, <1>5
  <2> QED
    BY <1>4, <1>6, <2>1
<1>8. \A k \in DOMAIN l : l[k].base + l[k].size <= Len(l)
  <2>1. \A k \in 1..Len(s) : l[k] \in Event
    BY <1>1, <1>3
  <2>2. \A k \in 1..Len(s) : l[k].base + l[k].size \in Nat
    BY SMTT(20), <2>1 DEF Event
  <2> QED
    BY <1>1, <1>3, <1>4, <1>5, <1>6, <2>2
<1>9. \A k, m \in DOMAIN l : l[m].base = l[k].base => l[m].by = l[k].by /\ l[m].size = l[k].size
  <2>1. \A k \in 1..Len(s) : l[k].base # Len(s)
    <3>1. \A k \in 1..Len(s) : l[k] \in Event
      BY <1>1, <1>3
    <3>2. \A k \in 1..Len(s) : l[k].base \in Nat
      BY <3>1 DEF Event
    <3> QED
      BY <1>1, <1>4, <3>2
  <2>2. \A k, m \in 1..Len(s) :
          l[m].base = l[k].base => l[m].by = l[k].by /\ l[m].size = l[k].size
    BY SMTT(20), <1>1, <1>3 DEF Good, Whole
  <2> QED
    BY <1>5, <1>6, <2>1, <2>2
<1>10. Good(l)
  BY <1>7, <1>8, <1>9 DEF Good, Whole, DecidedInPlace
<1>11. Begins(s, l)
  BY <1>1, <1>3 DEF Begins
<1>12. l[Len(l)].by = p
  BY <1>1, <1>3, <1>5
<1> QED
  BY <1>3, <1>10, <1>11, <1>12 DEF l, b

\* A good log ends with a whole batch.
LEMMA GoodEndsWhole ==
    ASSUME NEW l \in Seq(Event), Good(l), l # <<>>
    PROVE  l[Len(l)].nth = l[Len(l)].size
<1>1. Len(l) \in Nat \ {0} /\ DOMAIN l = 1..Len(l)
  OBVIOUS
<1>2. Len(l) \in DOMAIN l /\ l[Len(l)] \in Event
  BY <1>1
<1>3. /\ l[Len(l)].base \in Nat /\ l[Len(l)].nth \in Nat /\ l[Len(l)].size \in Nat
      /\ l[Len(l)].nth \in 1..l[Len(l)].size
      /\ l[Len(l)].base + l[Len(l)].nth = Len(l)
      /\ l[Len(l)].base + l[Len(l)].size <= Len(l)
  BY <1>2 DEF Event, Good, Whole, DecidedInPlace
<1> QED
  BY <1>1, <1>3

----------------------------------------------------------------------------
\* The invariant is inductive.

\* It holds before any call.
LEMMA StoreInit == Init => StoreInv
<1> SUFFICES ASSUME Init PROVE StoreInv
  OBVIOUS
<1>1. Good(<<>>)
  BY DEF Good, Whole, DecidedInPlace
<1>2. Typed
  BY DEF Init, Typed, Places
<1>3. Excluding
  BY DEF Init, Excluding
<1>4. Surviving
  BY <1>1 DEF Init, Surviving, Begins
<1>5. ASSUME NEW p \in Procs PROVE IsSound(p)
  <2>1. pc[p] = "idle" /\ holds[p] = "none" /\ seen[p] = <<>> /\ wrote[p] = 0
    BY DEF Init
  <2> QED
    BY <1>1, <2>1 DEF IsSound, HoldsAsPlaced, KnowsLog, OwnsEvents, Inside
<1> QED
  BY <1>2, <1>3, <1>4, <1>5 DEF StoreInv

\* Every step keeps the values of their types.
LEMMA StoreType == Typed /\ [Next]_vars => Typed'
<1> DEFINE Kept == Typed'
<1> USE StoreAssumption DEF Typed, Goto, Hold, diskVars, Places, Appending, Loading
<1>1. ASSUME Typed, NEW p \in Procs, OpenForAppend(p) PROVE Kept
  BY <1>1 DEF OpenForAppend
<1>2. ASSUME Typed, NEW p \in Procs, LockExclusive(p) PROVE Kept
  BY <1>2 DEF LockExclusive
<1>3. ASSUME Typed, NEW p \in Procs, ReadExisting(p) PROVE Kept
  BY <1>3 DEF ReadExisting
<1>4. ASSUME Typed, NEW p \in Procs, NEW n \in 0..MaxBatch, BuildEvents(p, n) PROVE Kept
  <2>1. Len(seen[p]) \in Nat /\ n \in Nat
    BY <1>4
  <2>2. Batch(p, Len(seen[p]), n) \in Seq(Event)
    BY <2>1, BatchType
  <2> QED
    BY <1>4, <2>2 DEF BuildEvents
<1>5. ASSUME Typed, NEW p \in Procs, SyncTemp(p) PROVE Kept
  BY <1>5 DEF SyncTemp
<1>6. ASSUME Typed, NEW p \in Procs, Persist(p) PROVE Kept
  <2>1. seen[p] \o batch[p] \in Seq(Event)
    BY <1>6
  <2> QED
    BY <1>6, <2>1 DEF Persist
<1>7. ASSUME Typed, NEW p \in Procs, SyncDirectory(p) PROVE Kept
  BY <1>7 DEF SyncDirectory
<1>8. ASSUME Typed, NEW p \in Procs, FinishAppend(p) PROVE Kept
  <2>1. Len(seen[p]) + Len(batch[p]) \in Nat
    BY <1>8
  <2> QED
    BY <1>8, <2>1 DEF FinishAppend
<1>9. ASSUME Typed, NEW p \in Procs, OpenForLoad(p) PROVE Kept
  BY <1>9 DEF OpenForLoad
<1>10. ASSUME Typed, NEW p \in Procs, LockShared(p) PROVE Kept
  BY <1>10 DEF LockShared
<1>11. ASSUME Typed, NEW p \in Procs, Load(p) PROVE Kept
  BY <1>11 DEF Load
<1>12. ASSUME Typed, NEW p \in Procs, Return(p) PROVE Kept
  BY <1>12 DEF Return
<1>13. ASSUME Typed, NEW P \in SUBSET Procs, Gone(P), file' \in Seq(Event),
              survivors' \subseteq Seq(Event)
       PROVE  Kept
  BY <1>13 DEF Gone
<1>14. ASSUME Typed, NEW p \in Procs, Fail(p) \/ Kill(p) PROVE Kept
  BY <1>14, <1>13 DEF Fail, Kill
<1>15. ASSUME Typed, LosePower PROVE Kept
  <2>1. file' \in Seq(Event) /\ survivors' \subseteq Seq(Event)
    BY <1>15 DEF LosePower
  <2> QED
    BY <1>15, <1>13, <2>1 DEF LosePower
<1>16. ASSUME Typed, UNCHANGED vars PROVE Kept
  BY <1>16 DEF vars
<1> HIDE DEF Kept
<1>17. ASSUME Typed, Next PROVE Kept
  BY <1>17, <1>1, <1>2, <1>3, <1>4, <1>5, <1>6, <1>7, <1>8, <1>9, <1>10, <1>11, <1>12,
     <1>14, <1>15 DEF Next, Advance
<1>18. Typed /\ [Next]_vars => Kept
  BY <1>16, <1>17
<1> QED
  BY <1>18 DEF Kept

\* A process that holds the lock exclusively is alone.
LEMMA Alone ==
    ASSUME StoreInv, NEW p \in Procs, pc[p] \in Inside
    PROVE  \A q \in Procs \ {p} :
              holds[q] = "none" /\ pc[q] \notin Inside /\ pc[q] # "loading"
<1>1. holds[p] = "exclusive"
  BY DEF StoreInv, IsSound, HoldsAsPlaced
<1>2. ASSUME NEW q \in Procs \ {p}
      PROVE  holds[q] = "none" /\ HoldsAsPlaced(q)
  BY <1>1 DEF StoreInv, IsSound, Excluding
<1> QED
  BY <1>2 DEF HoldsAsPlaced

\* What the other processes hold and know is not touched by a process that leaves the
\* disk alone.
LEMMA OwnStep ==
    ASSUME StoreInv, Typed', NEW p \in Procs, UNCHANGED diskVars, UNCHANGED acked,
           \A q \in Procs \ {p} : /\ holds'[q] = holds[q] /\ pc'[q] = pc[q]
                                  /\ seen'[q] = seen[q] /\ batch'[q] = batch[q]
                                  /\ wrote'[q] = wrote[q],
           IsSound(p)',
           holds'[p] = "exclusive" => \A q \in Procs \ {p} : holds[q] = "none",
           holds'[p] # "none" => \A q \in Procs \ {p} : holds[q] # "exclusive"
    PROVE  StoreInv'
<1>1. Surviving'
  BY DEF StoreInv, Surviving, diskVars
<1>2. Excluding'
  BY DEF StoreInv, Excluding
<1>3. ASSUME NEW q \in Procs \ {p} PROVE IsSound(q)'
  <2>1. /\ holds'[q] = holds[q] /\ pc'[q] = pc[q] /\ seen'[q] = seen[q]
        /\ batch'[q] = batch[q] /\ wrote'[q] = wrote[q]
        /\ file' = file /\ survivors' = survivors /\ acked' = acked
    BY <1>3 DEF diskVars
  <2>2. IsSound(q)
    BY DEF StoreInv
  <2>3. HoldsAsPlaced(q)'
    BY <2>1, <2>2 DEF IsSound, HoldsAsPlaced
  <2>4. IsBatch(q) => IsBatch(q)'
    BY <2>1 DEF IsBatch
  <2>5. KnowsLog(q)'
    BY <2>1, <2>2, <2>4 DEF IsSound, KnowsLog
  <2>6. OwnsEvents(q)'
    BY <2>1, <2>2 DEF IsSound, OwnsEvents
  <2> QED
    BY <2>3, <2>5, <2>6 DEF IsSound
<1> QED
  BY <1>1, <1>2, <1>3 DEF StoreInv

\* Steps of one process that leave the disk alone.
LEMMA OwnSteps ==
    ASSUME StoreInv, Typed', NEW p \in Procs,
           \/ OpenForAppend(p) \/ LockExclusive(p) \/ ReadExisting(p) \/ SyncTemp(p)
           \/ OpenForLoad(p) \/ LockShared(p) \/ Load(p) \/ Return(p)
    PROVE  StoreInv'
<1> DEFINE Kept == StoreInv'
<1>a. Typed /\ Excluding /\ Surviving /\ IsSound(p)
  BY DEF StoreInv
<1>b. Good(<<>>) /\ Good(file)
  BY <1>a DEF Good, Whole, DecidedInPlace, Surviving
<1>1. ASSUME OpenForAppend(p) PROVE Kept
  <2>1. /\ pc[p] = "idle" /\ pc'[p] = "wants_exclusive"
        /\ holds'[p] = holds[p] /\ seen'[p] = seen[p]
        /\ batch'[p] = batch[p] /\ wrote'[p] = wrote[p]
        /\ UNCHANGED <<file, survivors, acked>>
    BY <1>a, <1>1 DEF OpenForAppend, Goto, Hold, Typed, diskVars
  <2>2. \A q \in Procs \ {p} : /\ holds'[q] = holds[q] /\ pc'[q] = pc[q] /\ seen'[q] = seen[q]
                                 /\ batch'[q] = batch[q] /\ wrote'[q] = wrote[q]
    BY <1>a, <1>1 DEF OpenForAppend, Goto, Hold, Typed
  <2>3. IsSound(p)'
    BY <1>a, <1>b, <2>1 DEF IsSound, HoldsAsPlaced, KnowsLog, OwnsEvents, IsBatch, Inside
  <2> QED
    BY <1>a, <2>1, <2>2, <2>3, OwnStep DEF Excluding, diskVars
<1>2. ASSUME LockExclusive(p) PROVE Kept
  <2>1. /\ pc[p] = "wants_exclusive" /\ pc'[p] = "locked"
        /\ holds'[p] = "exclusive" /\ seen'[p] = seen[p]
        /\ batch'[p] = batch[p] /\ wrote'[p] = wrote[p]
        /\ UNCHANGED <<file, survivors, acked>>
    BY <1>a, <1>2 DEF LockExclusive, Goto, Hold, Typed, diskVars
  <2>2. \A q \in Procs \ {p} : /\ holds'[q] = holds[q] /\ pc'[q] = pc[q] /\ seen'[q] = seen[q]
                                 /\ batch'[q] = batch[q] /\ wrote'[q] = wrote[q]
    BY <1>a, <1>2 DEF LockExclusive, Goto, Hold, Typed
  <2>3. IsSound(p)'
    BY <1>a, <1>b, <2>1 DEF IsSound, HoldsAsPlaced, KnowsLog, OwnsEvents, IsBatch, Inside
  <2>4. \A q \in Procs \ {p} : holds[q] # "exclusive" /\ holds[q] = "none"
    BY <1>2 DEF LockExclusive
  <2> QED
    BY <2>1, <2>2, <2>3, <2>4, OwnStep DEF diskVars
<1>3. ASSUME ReadExisting(p) PROVE Kept
  <2>1. /\ pc[p] = "locked" /\ pc'[p] = "read"
        /\ holds'[p] = holds[p] /\ seen'[p] = file
        /\ batch'[p] = batch[p] /\ wrote'[p] = wrote[p]
        /\ UNCHANGED <<file, survivors, acked>>
    BY <1>a, <1>3 DEF ReadExisting, Goto, Hold, Typed, diskVars
  <2>2. \A q \in Procs \ {p} : /\ holds'[q] = holds[q] /\ pc'[q] = pc[q] /\ seen'[q] = seen[q]
                                 /\ batch'[q] = batch[q] /\ wrote'[q] = wrote[q]
    BY <1>a, <1>3 DEF ReadExisting, Goto, Hold, Typed
  <2>3. IsSound(p)'
    BY <1>a, <1>b, <2>1 DEF IsSound, HoldsAsPlaced, KnowsLog, OwnsEvents, IsBatch, Inside
  <2> QED
    BY <1>a, <2>1, <2>2, <2>3, OwnStep DEF Excluding, diskVars
<1>4. ASSUME SyncTemp(p) PROVE Kept
  <2>1. /\ pc[p] = "written" /\ pc'[p] = "synced"
        /\ holds'[p] = holds[p] /\ seen'[p] = seen[p]
        /\ batch'[p] = batch[p] /\ wrote'[p] = wrote[p]
        /\ UNCHANGED <<file, survivors, acked>>
    BY <1>a, <1>4 DEF SyncTemp, Goto, Hold, Typed, diskVars
  <2>2. \A q \in Procs \ {p} : /\ holds'[q] = holds[q] /\ pc'[q] = pc[q] /\ seen'[q] = seen[q]
                                 /\ batch'[q] = batch[q] /\ wrote'[q] = wrote[q]
    BY <1>a, <1>4 DEF SyncTemp, Goto, Hold, Typed
  <2>3. IsSound(p)'
    BY <1>a, <1>b, <2>1 DEF IsSound, HoldsAsPlaced, KnowsLog, OwnsEvents, IsBatch, Inside
  <2> QED
    BY <1>a, <2>1, <2>2, <2>3, OwnStep DEF Excluding, diskVars
<1>5. ASSUME OpenForLoad(p) PROVE Kept
  <2>1. /\ pc[p] = "idle" /\ pc'[p] = "wants_shared"
        /\ holds'[p] = holds[p] /\ seen'[p] = seen[p]
        /\ batch'[p] = batch[p] /\ wrote'[p] = 0
        /\ UNCHANGED <<file, survivors, acked>>
    BY <1>a, <1>5 DEF OpenForLoad, Goto, Hold, Typed, diskVars
  <2>2. \A q \in Procs \ {p} : /\ holds'[q] = holds[q] /\ pc'[q] = pc[q] /\ seen'[q] = seen[q]
                                 /\ batch'[q] = batch[q] /\ wrote'[q] = wrote[q]
    BY <1>a, <1>5 DEF OpenForLoad, Goto, Hold, Typed
  <2>3. IsSound(p)'
    BY <1>a, <1>b, <2>1 DEF IsSound, HoldsAsPlaced, KnowsLog, OwnsEvents, IsBatch, Inside
  <2> QED
    BY <1>a, <2>1, <2>2, <2>3, OwnStep DEF Excluding, diskVars
<1>6. ASSUME LockShared(p) PROVE Kept
  <2>1. /\ pc[p] = "wants_shared" /\ pc'[p] = "loading"
        /\ holds'[p] = "shared" /\ seen'[p] = seen[p]
        /\ batch'[p] = batch[p] /\ wrote'[p] = wrote[p]
        /\ UNCHANGED <<file, survivors, acked>>
    BY <1>a, <1>6 DEF LockShared, Goto, Hold, Typed, diskVars
  <2>2. \A q \in Procs \ {p} : /\ holds'[q] = holds[q] /\ pc'[q] = pc[q] /\ seen'[q] = seen[q]
                                 /\ batch'[q] = batch[q] /\ wrote'[q] = wrote[q]
    BY <1>a, <1>6 DEF LockShared, Goto, Hold, Typed
  <2>3. IsSound(p)'
    BY <1>a, <1>b, <2>1 DEF IsSound, HoldsAsPlaced, KnowsLog, OwnsEvents, IsBatch, Inside
  <2>4. \A q \in Procs \ {p} : holds[q] # "exclusive" 
    BY <1>6 DEF LockShared
  <2> QED
    BY <2>1, <2>2, <2>3, <2>4, OwnStep DEF diskVars
<1>7. ASSUME Load(p) PROVE Kept
  <2>1. /\ pc[p] = "loading" /\ pc'[p] = "shown"
        /\ holds'[p] = "none" /\ seen'[p] = file
        /\ batch'[p] = batch[p] /\ wrote'[p] = wrote[p]
        /\ UNCHANGED <<file, survivors, acked>>
    BY <1>a, <1>7 DEF Load, Goto, Hold, Typed, diskVars
  <2>2. \A q \in Procs \ {p} : /\ holds'[q] = holds[q] /\ pc'[q] = pc[q] /\ seen'[q] = seen[q]
                                 /\ batch'[q] = batch[q] /\ wrote'[q] = wrote[q]
    BY <1>a, <1>7 DEF Load, Goto, Hold, Typed
  <2>3. IsSound(p)'
    <3>1. wrote[p] \in Nat /\ acked \in Nat /\ Len(file) \in Nat /\ acked <= Len(file)
      BY <1>a DEF Typed, Surviving
    <3>2. OwnsEvents(p)'
      BY <1>a, <2>1, <3>1 DEF IsSound, OwnsEvents
    <3>3. HoldsAsPlaced(p)' /\ KnowsLog(p)'
      BY <1>b, <2>1 DEF HoldsAsPlaced, KnowsLog, Inside
    <3> QED
      BY <3>2, <3>3 DEF IsSound
  <2> QED
    BY <1>a, <2>1, <2>2, <2>3, OwnStep DEF Excluding, diskVars
<1>8. ASSUME Return(p) PROVE Kept
  <2>1. /\ pc[p] = "shown" /\ pc'[p] = "idle"
        /\ holds'[p] = holds[p] /\ seen'[p] = <<>>
        /\ batch'[p] = <<>> /\ wrote'[p] = 0
        /\ UNCHANGED <<file, survivors, acked>>
    BY <1>a, <1>8 DEF Return, Goto, Hold, Typed, diskVars
  <2>2. \A q \in Procs \ {p} : /\ holds'[q] = holds[q] /\ pc'[q] = pc[q] /\ seen'[q] = seen[q]
                                 /\ batch'[q] = batch[q] /\ wrote'[q] = wrote[q]
    BY <1>a, <1>8 DEF Return, Goto, Hold, Typed
  <2>3. IsSound(p)'
    BY <1>a, <1>b, <2>1 DEF IsSound, HoldsAsPlaced, KnowsLog, OwnsEvents, IsBatch, Inside
  <2> QED
    BY <1>a, <2>1, <2>2, <2>3, OwnStep DEF Excluding, diskVars
<1> QED
  BY <1>1, <1>2, <1>3, <1>4, <1>5, <1>6, <1>7, <1>8

\* Building the events: a batch decided on the log, or nothing and the lock released.
LEMMA BuildStep ==
    ASSUME StoreInv, Typed', NEW p \in Procs, NEW n \in 0..MaxBatch, BuildEvents(p, n)
    PROVE  StoreInv'
<1> USE StoreAssumption
<1>1. Typed /\ Excluding /\ IsSound(p) /\ n \in Nat /\ n <= MaxBatch
  BY DEF StoreInv
<1>2. \A q \in Procs \ {p} : /\ holds'[q] = holds[q] /\ pc'[q] = pc[q] /\ seen'[q] = seen[q]
                             /\ batch'[q] = batch[q] /\ wrote'[q] = wrote[q]
  BY <1>1 DEF BuildEvents, Goto, Hold, Typed
<1>3. /\ pc[p] = "read" /\ seen'[p] = seen[p] /\ wrote'[p] = wrote[p]
      /\ UNCHANGED <<file, survivors, acked>> /\ Len(seen[p]) + n <= MaxEvents
  BY DEF BuildEvents, diskVars
<1>4. CASE n = 0
  <2>1. pc'[p] = "wants_shared" /\ holds'[p] = "none"
    BY <1>1, <1>4 DEF BuildEvents, Goto, Hold, Typed
  <2>2. IsSound(p)'
    BY <1>1, <1>3, <2>1 DEF IsSound, HoldsAsPlaced, KnowsLog, OwnsEvents, Inside
  <2> QED
    BY <1>1, <1>2, <1>3, <2>1, <2>2, OwnStep DEF diskVars
<1>5. CASE n # 0
  <2>1. /\ pc'[p] = "written" /\ holds'[p] = holds[p]
        /\ batch'[p] = Batch(p, Len(seen[p]), n)
    BY <1>1, <1>5 DEF BuildEvents, Goto, Typed
  <2>2. n \in 1..MaxBatch
    BY <1>1, <1>5
  <2>3. IsBatch(p)'
    BY <1>3, <2>1, <2>2 DEF IsBatch
  <2>4. IsSound(p)'
    BY <1>1, <1>3, <2>1, <2>3 DEF IsSound, HoldsAsPlaced, KnowsLog, OwnsEvents, Inside
  <2>5. \A q \in Procs \ {p} : holds[q] = "none"
    BY <1>3, Alone DEF Inside
  <2> QED
    BY <1>2, <1>3, <2>1, <2>4, <2>5, OwnStep DEF diskVars
<1> QED
  BY <1>4, <1>5

\* The rename extends the log by the batch that was decided on it.
LEMMA Persists ==
    ASSUME StoreInv, NEW p \in Procs, Persist(p)
    PROVE  \E n \in 1..MaxBatch :
              /\ Len(file) + n <= MaxEvents
              /\ file' = file \o Batch(p, Len(file), n)
              /\ file' \in Seq(Event) /\ Len(file') = Len(file) + n
              /\ Good(file') /\ Begins(file, file') /\ file'[Len(file')].by = p
<1> USE StoreAssumption
<1>1. Typed /\ Surviving /\ IsSound(p) /\ pc[p] = "synced"
  BY DEF StoreInv, Persist
<1>2. seen[p] = file /\ IsBatch(p)
  BY <1>1 DEF IsSound, KnowsLog
<1>3. PICK n \in 1..MaxBatch : /\ batch[p] = Batch(p, Len(file), n)
                               /\ Len(file) + n <= MaxEvents
  BY <1>2 DEF IsBatch
<1>4. file' = file \o Batch(p, Len(file), n)
  BY <1>2, <1>3 DEF Persist
<1>5. file \in Seq(Event) /\ Good(file) /\ n \in Nat \ {0}
  BY <1>1 DEF Typed, Surviving
<1> QED
  BY ZenonT(40), <1>3, <1>4, <1>5, GoodGrows

LEMMA PersistStep ==
    ASSUME StoreInv, Typed', NEW p \in Procs, Persist(p)
    PROVE  StoreInv'
<1>1. Typed /\ Excluding /\ Surviving /\ IsSound(p) /\ pc[p] = "synced"
  BY DEF StoreInv, Persist
<1>2. /\ file' \in Seq(Event) /\ Good(file') /\ Begins(file, file')
      /\ file \in Seq(Event) /\ Len(file) \in Nat /\ Len(file') \in Nat /\ Len(file) <= Len(file')
      /\ acked \in Nat /\ acked <= Len(file)
  BY <1>1, Persists DEF Typed, Surviving, Begins
<1>3. /\ survivors' = survivors \cup {file'} /\ file' = seen[p] \o batch[p]
      /\ pc' = [pc EXCEPT ![p] = "replaced"] /\ UNCHANGED <<holds, seen, batch, wrote, acked>>
  BY DEF Persist, Goto
<1>4. Surviving'
  <2>1. ASSUME NEW l \in survivors PROVE Good(l) /\ Begins(l, file') /\ acked <= Len(l)
    <3>1. l \in Seq(Event) /\ Good(l) /\ Begins(l, file) /\ acked <= Len(l)
      BY <1>1 DEF Typed, Surviving
    <3> QED
      BY <1>2, <3>1, BeginsOrder
  <2>2. Begins(file', file') /\ acked <= Len(file')
    BY <1>2, BeginsOrder
  <2> QED
    BY <1>2, <1>3, <2>1, <2>2 DEF Surviving
<1>5. Excluding'
  BY <1>1, <1>3 DEF Excluding
<1>6. ASSUME NEW q \in Procs PROVE OwnsEvents(q)'
  <2>1. OwnsEvents(q) /\ wrote[q] \in Nat
    BY <1>1 DEF StoreInv, IsSound, Typed
  <2>2. pc'[q] = "shown" => pc[q] = "shown"
    BY <1>1, <1>3 DEF Typed
  <2>3. ASSUME wrote[q] # 0, wrote[q] <= acked PROVE file'[wrote[q]] = file[wrote[q]]
    <3>1. wrote[q] \in 1..Len(file)
      BY <1>2, <2>1, <2>3
    <3> QED
      BY <1>2, <3>1 DEF Begins
  <2> QED
    BY <1>3, <2>1, <2>2, <2>3 DEF OwnsEvents
<1>7. IsSound(p)'
  <2>1. pc'[p] = "replaced"
    BY <1>1, <1>3 DEF Typed
  <2>2. IsBatch(p)'
    BY <1>1, <1>3 DEF IsSound, KnowsLog, IsBatch
  <2>3. HoldsAsPlaced(p)' /\ KnowsLog(p)'
    BY <1>1, <1>3, <2>1, <2>2 DEF IsSound, HoldsAsPlaced, KnowsLog, Inside
  <2> QED
    BY <1>6, <2>3 DEF IsSound
<1>8. ASSUME NEW q \in Procs \ {p} PROVE IsSound(q)'
  <2>1. IsSound(q) /\ pc[q] \notin Inside /\ pc'[q] = pc[q]
    BY <1>1, <1>3, Alone DEF StoreInv, Typed, Inside
  <2>2. HoldsAsPlaced(q)' /\ KnowsLog(q)'
    BY <1>3, <2>1 DEF IsSound, HoldsAsPlaced, KnowsLog, Inside
  <2> QED
    BY <1>6, <2>2 DEF IsSound
<1> QED
  BY <1>4, <1>5, <1>7, <1>8 DEF StoreInv

\* Syncing the directory leaves the log the only thing a loss of power can find.
LEMMA SyncStep ==
    ASSUME StoreInv, Typed', NEW p \in Procs, SyncDirectory(p)
    PROVE  StoreInv'
<1>1. Typed /\ Excluding /\ Surviving /\ IsSound(p) /\ pc[p] = "replaced"
  BY DEF StoreInv, SyncDirectory
<1>2. /\ survivors' = {file} /\ pc' = [pc EXCEPT ![p] = "durable"]
      /\ UNCHANGED <<file, holds, seen, batch, wrote, acked>>
  BY DEF SyncDirectory, Goto
<1>3. Surviving' /\ Excluding'
  BY <1>1, <1>2 DEF Surviving, Excluding
<1>4. ASSUME NEW q \in Procs PROVE OwnsEvents(q)' /\ IsBatch(q) = IsBatch(q)'
  <2>1. OwnsEvents(q) /\ (pc'[q] = "shown" => pc[q] = "shown")
    BY <1>1, <1>2 DEF StoreInv, IsSound, Typed
  <2> QED
    BY <1>2, <2>1 DEF OwnsEvents, IsBatch
<1>5. IsSound(p)'
  <2>1. pc'[p] = "durable"
    BY <1>1, <1>2 DEF Typed
  <2>2. IsBatch(p)'
    BY <1>1, <1>4 DEF IsSound, KnowsLog
  <2>3. HoldsAsPlaced(p)' /\ KnowsLog(p)'
    BY <1>1, <1>2, <2>1, <2>2 DEF IsSound, HoldsAsPlaced, KnowsLog, Inside
  <2> QED
    BY <1>4, <2>3 DEF IsSound
<1>6. ASSUME NEW q \in Procs \ {p} PROVE IsSound(q)'
  <2>1. IsSound(q) /\ pc[q] \notin Inside /\ pc'[q] = pc[q]
    BY <1>1, <1>2, Alone DEF StoreInv, Typed, Inside
  <2>2. HoldsAsPlaced(q)' /\ KnowsLog(q)'
    BY <1>2, <2>1 DEF IsSound, HoldsAsPlaced, KnowsLog, Inside
  <2> QED
    BY <1>4, <2>2 DEF IsSound
<1> QED
  BY <1>3, <1>5, <1>6 DEF StoreInv

\* What is acknowledged is the log as it is, and the last batch of it is one's own.
LEMMA Finishes ==
    ASSUME StoreInv, NEW p \in Procs, FinishAppend(p)
    PROVE  /\ survivors = {file} /\ acked' = Len(file) /\ Len(file) \in Nat \ {0}
           /\ file[Len(file)].by = p /\ acked <= Len(file)
<1> USE StoreAssumption
<1>1. Typed /\ Surviving /\ IsSound(p) /\ pc[p] = "durable"
  BY DEF StoreInv, FinishAppend
<1>2. survivors = {file} /\ file = seen[p] \o batch[p] /\ IsBatch(p) /\ Good(seen[p])
  BY <1>1 DEF IsSound, KnowsLog
<1>3. PICK n \in 1..MaxBatch : batch[p] = Batch(p, Len(seen[p]), n)
  BY <1>2 DEF IsBatch
<1>4. n \in Nat \ {0} /\ seen[p] \in Seq(Event) /\ batch[p] \in Seq(Event)
  BY <1>1 DEF Typed
<1>5. file = seen[p] \o Batch(p, Len(seen[p]), n)
  BY <1>2, <1>3
<1>6. Len(file) = Len(seen[p]) + n /\ file[Len(file)].by = p
  <2>1. LET l == seen[p] \o Batch(p, Len(seen[p]), n)
        IN  Len(l) = Len(seen[p]) + n /\ l[Len(l)].by = p
    BY <1>2, <1>4, GoodGrows
  <2> QED
    BY <1>5, <2>1
<1>7. Len(file) = Len(seen[p]) + Len(batch[p]) /\ Len(seen[p]) \in Nat
  BY <1>2, <1>4
<1>8. acked' = Len(file)
  BY <1>7 DEF FinishAppend
<1>9. acked <= Len(file)
  BY <1>1 DEF Surviving
<1>10. Len(file) \in Nat \ {0}
  BY <1>4, <1>6, <1>7
<1> QED
  BY <1>2, <1>6, <1>8, <1>9, <1>10

LEMMA FinishStep ==
    ASSUME StoreInv, Typed', NEW p \in Procs, FinishAppend(p)
    PROVE  StoreInv'
<1>1. Typed /\ Excluding /\ Surviving /\ IsSound(p) /\ pc[p] = "durable"
  BY DEF StoreInv, FinishAppend
<1>2. /\ survivors = {file} /\ acked' = Len(file) /\ Len(file) \in Nat \ {0}
      /\ file[Len(file)].by = p /\ acked <= Len(file) /\ acked \in Nat
  BY <1>1, Finishes DEF Typed
<1>3. /\ pc' = [pc EXCEPT ![p] = "wants_shared"] /\ holds' = [holds EXCEPT ![p] = "none"]
      /\ wrote' = [wrote EXCEPT ![p] = acked']
      /\ UNCHANGED <<file, survivors, seen, batch>>
  BY DEF FinishAppend, Goto, Hold, diskVars
<1>4. Surviving' /\ Excluding'
  BY <1>1, <1>2, <1>3 DEF Surviving, Excluding, Typed
<1>5. IsSound(p)'
  <2>1. pc'[p] = "wants_shared" /\ holds'[p] = "none" /\ wrote'[p] = Len(file)
    BY <1>1, <1>2, <1>3 DEF Typed
  <2>2. HoldsAsPlaced(p)' /\ KnowsLog(p)'
    BY <1>1, <1>3, <2>1 DEF IsSound, HoldsAsPlaced, KnowsLog, Inside
  <2>3. wrote'[p] <= acked' /\ file'[wrote'[p]].by = p
    BY <1>2, <1>3, <2>1
  <2>4. OwnsEvents(p)'
    BY <2>1, <2>3 DEF OwnsEvents
  <2> QED
    BY <2>2, <2>4 DEF IsSound
<1>6. ASSUME NEW q \in Procs \ {p} PROVE IsSound(q)'
  <2>1. /\ IsSound(q) /\ pc[q] \notin Inside /\ pc'[q] = pc[q] /\ holds'[q] = holds[q]
        /\ wrote'[q] = wrote[q] /\ wrote[q] \in Nat
    BY <1>1, <1>3, Alone DEF StoreInv, Typed, Inside
  <2>2. HoldsAsPlaced(q)' /\ KnowsLog(q)'
    BY <1>3, <2>1 DEF IsSound, HoldsAsPlaced, KnowsLog, Inside
  <2>3. OwnsEvents(q)'
    BY <1>2, <1>3, <2>1 DEF IsSound, OwnsEvents
  <2> QED
    BY <2>2, <2>3 DEF IsSound
<1> QED
  BY <1>4, <1>5, <1>6 DEF StoreInv

\* A process that is gone knows nothing and holds nothing.
LEMMA GoneIsSound ==
    ASSUME NEW P \in SUBSET Procs, Gone(P), NEW p \in P
    PROVE  /\ pc'[p] = "idle" /\ holds'[p] = "none" /\ IsSound(p)'
<1>1. pc'[p] = "idle" /\ holds'[p] = "none" /\ seen'[p] = <<>> /\ wrote'[p] = 0
  BY DEF Gone
<1>2. Good(<<>>)
  BY DEF Good, Whole, DecidedInPlace
<1> QED
  BY <1>1, <1>2 DEF IsSound, HoldsAsPlaced, KnowsLog, OwnsEvents, Inside

\* A failed call and a killed process leave the log to the others.
LEMMA GoneStep ==
    ASSUME StoreInv, Typed', NEW p \in Procs, Gone({p}), UNCHANGED diskVars
    PROVE  StoreInv'
<1>1. holds'[p] = "none" /\ IsSound(p)'
  BY GoneIsSound
<1>2. \A q \in Procs \ {p} : /\ holds'[q] = holds[q] /\ pc'[q] = pc[q] /\ seen'[q] = seen[q]
                             /\ batch'[q] = batch[q] /\ wrote'[q] = wrote[q]
  BY DEF Gone
<1>3. UNCHANGED acked
  BY DEF Gone
<1> QED
  BY <1>1, <1>2, <1>3, OwnStep

\* A loss of power leaves one of the logs it may leave, and no process.
LEMMA PowerStep ==
    ASSUME StoreInv, Typed', LosePower
    PROVE  StoreInv'
<1>1. PICK content \in survivors : file' = content /\ survivors' = {content}
  BY DEF LosePower
<1>2. Gone(Procs) /\ acked' = acked
  BY DEF LosePower, Gone
<1>3. content \in Seq(Event) /\ Good(content) /\ acked <= Len(content)
  BY DEF StoreInv, Typed, Surviving
<1>4. Surviving'
  BY <1>1, <1>2, <1>3, BeginsOrder DEF Surviving
<1>5. \A p \in Procs : holds'[p] = "none" /\ IsSound(p)'
  BY <1>2, GoneIsSound
<1>6. Excluding'
  BY <1>5 DEF Excluding
<1> QED
  BY <1>4, <1>5, <1>6 DEF StoreInv

\* Every step keeps the invariant.
LEMMA StoreStep == StoreInv /\ [Next]_vars => StoreInv'
<1> SUFFICES ASSUME StoreInv, [Next]_vars PROVE StoreInv'
  OBVIOUS
<1>1. Typed'
  BY StoreType DEF StoreInv
<1>2. ASSUME NEW p \in Procs, Advance(p) PROVE StoreInv'
  BY <1>1, <1>2, OwnSteps, BuildStep, PersistStep, SyncStep, FinishStep DEF Advance
<1>3. ASSUME NEW p \in Procs, OpenForAppend(p) \/ OpenForLoad(p) PROVE StoreInv'
  BY <1>1, <1>3, OwnSteps
<1>4. ASSUME NEW p \in Procs, Fail(p) \/ Kill(p) PROVE StoreInv'
  BY <1>1, <1>4, GoneStep DEF Fail, Kill
<1>5. ASSUME LosePower PROVE StoreInv'
  BY <1>1, <1>5, PowerStep
<1>6. ASSUME UNCHANGED vars PROVE StoreInv'
  <2>1. Surviving' /\ Excluding'
    BY <1>6 DEF StoreInv, Surviving, Excluding, vars
  <2>2. ASSUME NEW p \in Procs PROVE IsSound(p)'
    <3>1. IsSound(p)
      BY DEF StoreInv
    <3> QED
      BY <1>6, <3>1 DEF vars, IsSound, HoldsAsPlaced, KnowsLog, OwnsEvents, IsBatch
  <2> QED
    BY <1>1, <2>1, <2>2 DEF StoreInv
<1> QED
  BY <1>2, <1>3, <1>4, <1>5, <1>6 DEF Next

LEMMA StoreInvariant == Spec => []StoreInv
<1> QED
  BY StoreInit, StoreStep, PTL DEF Spec

----------------------------------------------------------------------------
\* The properties.

\* Every variable of the store holds a value of its type, and the lock is held
\* exactly where a call is between taking it and dropping it.
THEOREM StoreTypeCorrect == Spec => []TypeOK
<1>1. StoreInv => TypeOK
  <2> SUFFICES ASSUME StoreInv, NEW p \in Procs PROVE holds[p] = HeldAt(pc[p])
    BY DEF StoreInv, TypeOK
  <2>1. HoldsAsPlaced(p) /\ holds[p] \in {"none", "shared", "exclusive"}
    BY DEF StoreInv, IsSound, Typed
  <2> QED
    BY <2>1 DEF HoldsAsPlaced, HeldAt, Inside
<1> QED
  BY <1>1, StoreInvariant, PTL

\* However many processes append, fail or are killed, and whenever the power goes:
\* what anyone reads is a log of whole batches, each decided on the very events
\* before it, and the report of a mutation shows the mutation.
THEOREM ReadsAreSoundHolds == Spec => []ReadsAreSound
<1>1. StoreInv => ReadsAreSound
  <2> SUFFICES ASSUME StoreInv PROVE ReadsAreSound
    OBVIOUS
  <2>1. \A l \in {file} \cup survivors : Good(l)
    BY DEF StoreInv, Surviving
  <2>2. \A p \in Procs : Good(seen[p])
    BY DEF StoreInv, IsSound, KnowsLog
  <2>3. NoPartialPrefix
    BY <2>1, <2>2 DEF NoPartialPrefix, Good
  <2>4. ReportShowsOwnEvents
    BY DEF StoreInv, IsSound, OwnsEvents, ReportShowsOwnEvents
  <2> QED
    BY <2>3, <2>4 DEF ReadsAreSound
<1> QED
  BY <1>1, StoreInvariant, PTL

\* What an append has acknowledged stays in the log, and a loss of power at any
\* moment leaves it there.
THEOREM AcknowledgedIsDurableHolds == Spec => []AcknowledgedIsDurable
<1>1. StoreInv => AcknowledgedIsDurable
  <2> SUFFICES ASSUME StoreInv, NEW l \in survivors \cup {file}
               PROVE  Len(l) >= acked /\ SubSeq(l, 1, acked) = SubSeq(file, 1, acked)
    BY DEF AcknowledgedIsDurable
  <2>1. /\ l \in Seq(Event) /\ file \in Seq(Event) /\ acked \in Nat
        /\ Begins(l, file) /\ acked <= Len(l)
    BY DEF StoreInv, Typed, Surviving
  <2>2. acked \in 0..Len(l) /\ Len(l) >= acked
    BY <2>1
  <2> QED
    BY <2>1, <2>2, BeginsIsFront
<1> QED
  BY <1>1, StoreInvariant, PTL

\* Every step of the store is a step of the event log, or changes nothing of it: the
\* rename extends it, the release acknowledges it, a loss of power takes back whole
\* batches from its end.
LEMMA LogStep ==
    ASSUME StoreInv, [Next]_vars
    PROVE  [Log!LogNext]_(Log!logVars)
<1> USE StoreAssumption
<1>1. ASSUME UNCHANGED <<file, acked>> PROVE UNCHANGED Log!logVars
  BY <1>1 DEF Log!logVars
<1>2. ASSUME NEW p \in Procs, Persist(p) PROVE Log!LogNext
  <2>1. PICK n \in 1..MaxBatch : /\ Len(file) + n <= MaxEvents
                                 /\ file' = file \o Batch(p, Len(file), n)
    BY <1>2, Persists
  <2>2. Batch(p, Len(file), n) = Log!Batch(p, Len(file), n)
    BY DEF Batch, Log!Batch
  <2>3. UNCHANGED acked
    BY <1>2 DEF Persist
  <2>4. Log!Extend(p, n)
    BY <2>1, <2>2, <2>3 DEF Log!Extend
  <2> QED
    BY <2>4 DEF Log!LogNext
<1>3. ASSUME NEW p \in Procs, FinishAppend(p) PROVE Log!LogNext
  <2>1. acked' = Len(file) /\ Len(file) \in Nat /\ acked <= Len(file) /\ acked \in Nat
    BY <1>3, Finishes DEF StoreInv, Typed
  <2>2. acked' \in acked..Len(file)
    BY <2>1
  <2>3. UNCHANGED file
    BY <1>3 DEF FinishAppend, diskVars
  <2> QED
    BY <2>2, <2>3 DEF Log!LogNext, Log!Acknowledge
<1>4. ASSUME LosePower PROVE Log!LogNext
  <2>1. PICK content \in survivors : file' = content
    BY <1>4 DEF LosePower
  <2>2. /\ content \in Seq(Event) /\ Good(content) /\ Begins(content, file)
        /\ acked <= Len(content) /\ acked \in Nat /\ file \in Seq(Event)
    BY DEF StoreInv, Typed, Surviving
  <2>3. content = SubSeq(file, 1, Len(content)) /\ Len(content) \in 0..Len(file)
    BY <2>2, BeginsIsFront
  <2>4. Len(content) \in acked..Len(file)
    BY <2>2, <2>3
  <2>5. Log!EndsWhole(content)
    BY <2>2, GoodEndsWhole DEF Log!EndsWhole
  <2>6. UNCHANGED acked
    BY <1>4 DEF LosePower, Gone
  <2>7. Log!LoseTail
    BY <2>1, <2>3, <2>4, <2>5, <2>6 DEF Log!LoseTail
  <2> QED
    BY <2>7 DEF Log!LogNext
<1>5. ASSUME NEW p \in Procs, Advance(p), ~Persist(p), ~FinishAppend(p)
      PROVE  UNCHANGED <<file, acked>>
  BY <1>5 DEF Advance, LockExclusive, ReadExisting, BuildEvents, SyncTemp, SyncDirectory,
     LockShared, Load, Return, diskVars
<1>6. ASSUME NEW p \in Procs, OpenForAppend(p) \/ OpenForLoad(p) \/ Fail(p) \/ Kill(p)
      PROVE  UNCHANGED <<file, acked>>
  BY <1>6 DEF OpenForAppend, OpenForLoad, Fail, Kill, Gone, diskVars
<1>7. ASSUME UNCHANGED vars PROVE UNCHANGED <<file, acked>>
  BY <1>7 DEF vars
<1> QED
  BY <1>1, <1>2, <1>3, <1>4, <1>5, <1>6, <1>7 DEF Next

\* The file, the lock and the rename implement the append-only log: a batch is
\* decided on the log it is appended to, and only what is not acknowledged can be
\* lost, from the end and batch by batch.
THEOREM ImplementsEventLogHolds == Spec => ImplementsEventLog
<1>1. Init => Log!LogInit
  BY DEF Init, Log!LogInit
<1>2. StoreInv /\ [Next]_vars => [Log!LogNext]_(Log!logVars)
  BY LogStep
<1> QED
  BY <1>1, <1>2, StoreInvariant, PTL DEF Spec, ImplementsEventLog, Log!LogSpec

=============================================================================
