------------------------------ MODULE EventLog ------------------------------
(***************************************************************************)
(* What ObservabilityStore promises its callers: one append-only log of    *)
(* events that grows by whole batches.  The events of a batch are decided  *)
(* on the very log they are appended to.  A loss of power may take back    *)
(* whole batches from the end, but none that an append has acknowledged.   *)
(***************************************************************************)
EXTENDS Integers, Sequences

CONSTANTS Procs,    \* the processes that append
          MaxBatch, \* events in the largest batch
          MaxEvents \* bound of the model: events in the log

VARIABLES log,      \* the events, oldest first
          kept      \* how many of them are acknowledged, and so for good

logVars == <<log, kept>>

\* The batch of n events that p decides on after seeing `base' events.
Batch(p, base, n) == [k \in 1..n |-> [by |-> p, base |-> base, nth |-> k, size |-> n]]

\* A log ends with a whole batch.
EndsWhole(l) == l = <<>> \/ l[Len(l)].nth = l[Len(l)].size

LogInit == log = <<>> /\ kept = 0

Extend(p, n) ==
    /\ Len(log) + n <= MaxEvents
    /\ log' = log \o Batch(p, Len(log), n)
    /\ UNCHANGED kept

Acknowledge ==
    /\ kept' \in kept..Len(log)
    /\ UNCHANGED log

LoseTail ==
    /\ \E n \in kept..Len(log) : log' = SubSeq(log, 1, n) /\ EndsWhole(SubSeq(log, 1, n))
    /\ UNCHANGED kept

LogNext ==
    \/ \E p \in Procs, n \in 1..MaxBatch : Extend(p, n)
    \/ Acknowledge
    \/ LoseTail

LogSpec == LogInit /\ [][LogNext]_logVars

=============================================================================
