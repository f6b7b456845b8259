----------------------------- MODULE EventStore -----------------------------
(***************************************************************************)
(* ObservabilityStore (observability.rs): the log in one JSONL file, shared *)
(* by any number of processes under a sidecar file lock.  An append reads   *)
(* the log, builds and verifies its events, writes the whole new log to a   *)
(* temporary file, syncs it, renames it over the log and syncs the          *)
(* directory; afterwards, without the lock, a mutation reads the log again  *)
(* to report.  Each of these is a step here.  A process may be killed       *)
(* between any two, an I/O error may end a call at any, and the machine may *)
(* lose power.                                                              *)
(*                                                                          *)
(* An event is known by the process that wrote it, the number of events its *)
(* decision was computed from, and its place in its batch.                  *)
(***************************************************************************)
EXTENDS Integers, Sequences

CONSTANTS Procs,     \* processes that use the store
          MaxBatch,  \* events in the largest batch
          MaxEvents  \* bound of the model: events in the log

ASSUME StoreAssumption ==
    MaxBatch \in Nat \ {0} /\ MaxEvents \in Nat

VARIABLES
    file,      \* the log every process can read
    survivors, \* what a loss of power may leave of it
    holds,     \* [Procs -> how the process holds the file lock]
    pc,        \* [Procs -> where the process is in its call]
    seen,      \* [Procs -> the log the process last read]
    batch,     \* [Procs -> the events the process is about to append]
    wrote,     \* [Procs -> length of the log with the process's last batch]
    acked      \* length of the longest log an append has acknowledged

diskVars == <<file, survivors>>
procVars == <<holds, pc, seen, batch, wrote>>
vars     == <<file, survivors, holds, pc, seen, batch, wrote, acked>>

Appending == {"wants_exclusive", "locked", "read", "written", "synced", "replaced"}
Loading   == {"wants_shared", "loading"}
Places    == {"idle", "durable", "shown"} \cup Appending \cup Loading

\* The places of an append between taking the lock and dropping it.
Inside == {"locked", "read", "written", "synced", "replaced", "durable"}

Event == [by : Procs, base : Nat, nth : Nat, size : Nat]

Batch(p, base, n) == [k \in 1..n |-> [by |-> p, base |-> base, nth |-> k, size |-> n]]

Goto(p, place) == pc' = [pc EXCEPT ![p] = place]
Hold(p, mode)  == holds' = [holds EXCEPT ![p] = mode]

----------------------------------------------------------------------------
\* An append, step by step.

OpenForAppend(p) ==
    /\ pc[p] = "idle"
    /\ Goto(p, "wants_exclusive")
    /\ UNCHANGED <<diskVars, holds, seen, batch, wrote, acked>>

LockExclusive(p) ==
    /\ pc[p] = "wants_exclusive"
    /\ \A q \in Procs : holds[q] = "none"
    /\ Goto(p, "locked")
    /\ Hold(p, "exclusive")
    /\ UNCHANGED <<diskVars, seen, batch, wrote, acked>>

ReadExisting(p) ==
    /\ pc[p] = "locked"
    /\ Goto(p, "read")
    /\ seen' = [seen EXCEPT ![p] = file]
    /\ UNCHANGED <<diskVars, holds, batch, wrote, acked>>

BuildEvents_KeepsLock(p, n) ==
    /\ pc[p] = "read"
    /\ Len(seen[p]) + n <= MaxEvents
    /\ IF n = 0
       THEN Goto(p, "wants_shared") /\ UNCHANGED batch
       ELSE /\ Goto(p, "written")
            /\ batch' = [batch EXCEPT ![p] = Batch(p, Len(seen[p]), n)]
    /\ UNCHANGED <<diskVars, holds, seen, wrote, acked>>

\* The events are built and the combined log is verified.  Without events,
\* which only append_checked_optional allows, nothing is written.
BuildEvents(p, n) ==
    /\ pc[p] = "read"
    /\ Len(seen[p]) + n <= MaxEvents
    /\ IF n = 0
       THEN /\ Goto(p, "wants_shared")
            /\ Hold(p, "none")
            /\ UNCHANGED batch
       ELSE /\ Goto(p, "written")
            /\ batch' = [batch EXCEPT ![p] = Batch(p, Len(seen[p]), n)]
            /\ UNCHANGED holds
    /\ UNCHANGED <<diskVars, seen, wrote, acked>>

SyncTemp(p) ==
    /\ pc[p] = "written"
    /\ Goto(p, "synced")
    /\ UNCHANGED <<diskVars, holds, seen, batch, wrote, acked>>

Persist_Unsynced(p) ==
    /\ pc[p] \in {"written", "synced"}
    /\ Goto(p, "replaced")
    /\ file' = seen[p] \o batch[p]
    /\ survivors' = survivors \cup
          (IF pc[p] = "synced" THEN {file'}
           ELSE {seen[p] \o SubSeq(batch[p], 1, k) : k \in 0..Len(batch[p])})
    /\ UNCHANGED <<holds, seen, batch, wrote, acked>>

Persist_EventByEvent(p) ==
    /\ pc[p] = "synced"
    /\ LET done == Len(file) - Len(seen[p])
       IN  /\ file' = Append(file, batch[p][done + 1])
           /\ pc' = [pc EXCEPT ![p] = IF done + 1 = Len(batch[p]) THEN "replaced" ELSE @]
    /\ survivors' = survivors \cup {file'}
    /\ UNCHANGED <<holds, seen, batch, wrote, acked>>

\* The rename.  Until the directory is synced a loss of power may undo it, and
\* the renames before it that were never synced.
Persist(p) ==
    /\ pc[p] = "synced"
    /\ Goto(p, "replaced")
    /\ file' = seen[p] \o batch[p]
    /\ survivors' = survivors \cup {file'}
    /\ UNCHANGED <<holds, seen, batch, wrote, acked>>

SyncDirectory_Skipped(p) ==
    /\ pc[p] = "replaced"
    /\ Goto(p, "durable")
    /\ UNCHANGED <<diskVars, holds, seen, batch, wrote, acked>>

\* sync_directory as on Unix; elsewhere it is Ok(()).
SyncDirectory(p) ==
    /\ pc[p] = "replaced"
    /\ Goto(p, "durable")
    /\ survivors' = {file}
    /\ UNCHANGED <<file, holds, seen, batch, wrote, acked>>

FinishAppend_KeepsLock(p) ==
    /\ pc[p] = "durable"
    /\ Goto(p, "wants_shared")
    /\ wrote' = [wrote EXCEPT ![p] = Len(seen[p]) + Len(batch[p])]
    /\ acked' = Len(seen[p]) + Len(batch[p])
    /\ UNCHANGED <<diskVars, holds, seen, batch>>

\* The lock is released and the append acknowledged.
FinishAppend(p) ==
    /\ pc[p] = "durable"
    /\ Goto(p, "wants_shared")
    /\ Hold(p, "none")
    /\ wrote' = [wrote EXCEPT ![p] = Len(seen[p]) + Len(batch[p])]
    /\ acked' = Len(seen[p]) + Len(batch[p])
    /\ UNCHANGED <<diskVars, seen, batch>>

----------------------------------------------------------------------------
\* A load: on its own, or for the report of a mutation.

OpenForLoad(p) ==
    /\ pc[p] = "idle"
    /\ Goto(p, "wants_shared")
    /\ wrote' = [wrote EXCEPT ![p] = 0]
    /\ UNCHANGED <<diskVars, holds, seen, batch, acked>>

LockShared(p) ==
    /\ pc[p] = "wants_shared"
    /\ \A q \in Procs : holds[q] # "exclusive"
    /\ Goto(p, "loading")
    /\ Hold(p, "shared")
    /\ UNCHANGED <<diskVars, seen, batch, wrote, acked>>

Load(p) ==
    /\ pc[p] = "loading"
    /\ Goto(p, "shown")
    /\ Hold(p, "none")
    /\ seen' = [seen EXCEPT ![p] = file]
    /\ UNCHANGED <<diskVars, batch, wrote, acked>>

Return(p) ==
    /\ pc[p] = "shown"
    /\ Goto(p, "idle")
    /\ seen'  = [seen EXCEPT ![p] = <<>>]
    /\ batch' = [batch EXCEPT ![p] = <<>>]
    /\ wrote' = [wrote EXCEPT ![p] = 0]
    /\ UNCHANGED <<diskVars, holds, acked>>

----------------------------------------------------------------------------
\* Failures.

\* The process is gone: the system releases its lock, the log stays.
Gone(P) ==
    /\ pc'    = [p \in Procs |-> IF p \in P THEN "idle" ELSE pc[p]]
    /\ holds' = [p \in Procs |-> IF p \in P THEN "none" ELSE holds[p]]
    /\ seen'  = [p \in Procs |-> IF p \in P THEN <<>> ELSE seen[p]]
    /\ batch' = [p \in Procs |-> IF p \in P THEN <<>> ELSE batch[p]]
    /\ wrote' = [p \in Procs |-> IF p \in P THEN 0 ELSE wrote[p]]
    /\ UNCHANGED acked

\* The call returns an error: the lock cannot be opened or taken, the log is
\* unreadable, the build refuses, the log does not verify, the temporary file
\* cannot be written or synced, the rename fails, the directory cannot be
\* synced.  Dropping the lock file releases the lock.
Fail(p) ==
    /\ pc[p] \in Appending \cup Loading
    /\ Gone({p})
    /\ UNCHANGED diskVars

Kill(p) ==
    /\ pc[p] # "idle"
    /\ Gone({p})
    /\ UNCHANGED diskVars

LosePower ==
    /\ \E content \in survivors : file' = content /\ survivors' = {content}
    /\ Gone(Procs)

----------------------------------------------------------------------------
Init ==
    /\ file = <<>>
    /\ survivors = {<<>>}
    /\ holds = [p \in Procs |-> "none"]
    /\ pc    = [p \in Procs |-> "idle"]
    /\ seen  = [p \in Procs |-> <<>>]
    /\ batch = [p \in Procs |-> <<>>]
    /\ wrote = [p \in Procs |-> 0]
    /\ acked = 0

\* A process that has begun a call goes on with it.
Advance(p) ==
    \/ LockExclusive(p)
    \/ ReadExisting(p)
    \/ \E n \in 0..MaxBatch : BuildEvents(p, n)
    \/ SyncTemp(p)
    \/ Persist(p)
    \/ SyncDirectory(p)
    \/ FinishAppend(p)
    \/ LockShared(p)
    \/ Load(p)
    \/ Return(p)

Next ==
    \/ \E p \in Procs : OpenForAppend(p) \/ OpenForLoad(p) \/ Advance(p)
                        \/ Fail(p) \/ Kill(p)
    \/ LosePower

Spec     == Init /\ [][Next]_vars
FairSpec == Spec /\ \A p \in Procs : WF_vars(Advance(p))

----------------------------------------------------------------------------
\* Properties.

Typed ==
    /\ file \in Seq(Event)
    /\ survivors \subseteq Seq(Event)
    /\ holds \in [Procs -> {"none", "shared", "exclusive"}]
    /\ pc    \in [Procs -> Places]
    /\ seen  \in [Procs -> Seq(Event)]
    /\ batch \in [Procs -> Seq(Event)]
    /\ wrote \in [Procs -> Nat]
    /\ acked \in Nat

\* How a call holds the lock at a place of it.
HeldAt(place) == CASE place \in Inside    -> "exclusive"
                   [] place = "loading"   -> "shared"
                   [] OTHER               -> "none"

\* Every variable holds a value of its type, and a process holds the file lock
\* exactly where its call is between taking it and dropping it, in the mode the
\* call asked for: an append without events, an error, a kill and a loss of power
\* all give it back.
TypeOK == Typed /\ \A p \in Procs : holds[p] = HeldAt(pc[p])

\* Every event stands where its decision was made: the number of events before
\* its batch is the number its writer had read.  So no append was computed from
\* a log that another append had already replaced.
DecidedInPlace(l) == \A k \in DOMAIN l : l[k].base + l[k].nth = k

\* Batches are whole: an event of a batch is there only with all the others.
Whole(l) == \A k \in DOMAIN l :
    /\ l[k].base + l[k].size <= Len(l)
    /\ \A m \in DOMAIN l : l[m].base = l[k].base => l[m].by = l[k].by /\ l[m].size = l[k].size

\* Whatever processes race, fail or are killed, and whenever the power goes, a
\* reader, a decision and a restart see whole batches, each decided on exactly
\* the events before it.
NoPartialPrefix ==
    \A l \in {file} \cup survivors \cup {seen[p] : p \in Procs} :
        Whole(l) /\ DecidedInPlace(l)

\* What an append has acknowledged is in the log and survives a loss of power.
AcknowledgedIsDurable ==
    \A l \in survivors \cup {file} :
        Len(l) >= acked /\ SubSeq(l, 1, acked) = SubSeq(file, 1, acked)

\* The report of a mutation, read after the lock was released and taken again,
\* shows the mutation.
ReportShowsOwnEvents ==
    \A p \in Procs : pc[p] = "shown" /\ wrote[p] # 0 =>
        /\ wrote[p] <= Len(seen[p])
        /\ seen[p][wrote[p]].by = p

\* Whatever is read, for a decision, for a report or after a restart, is whole, and
\* not older than what its reader has done.
ReadsAreSound == NoPartialPrefix /\ ReportShowsOwnEvents

\* The store implements the append-only log.
Log == INSTANCE EventLog WITH log <- file, kept <- acked

ImplementsEventLog == Log!LogSpec

\* Whoever holds the lock exclusively gives it back, without waiting for it
\* itself: every call that got the lock ends, so no call blocks all others.
LockReturned == \A p \in Procs : holds[p] = "exclusive" ~> holds[p] = "none"

=============================================================================
