--------------------------- MODULE ScheduleClaims ---------------------------
(***************************************************************************)
(* What the Scheduler promises the workers and the operators of its jobs:  *)
(* every job is claimed by one worker at a time.  `token' counts the       *)
(* claims of a job.  A claim whose lease ran out is suspect: its worker    *)
(* may still be at work, so nobody else gets the job until the claim is    *)
(* resolved.                                                               *)
(***************************************************************************)
EXTENDS Naturals

CONSTANT Jobs

VARIABLES phase, token

Phases == {"unqueued", "free", "paused", "held", "suspect", "settled", "done"}

Init ==
    /\ phase = [j \in Jobs |-> "unqueued"]
    /\ token = [j \in Jobs |-> 0]

Moves(j, from, to) ==
    /\ phase[j] \in from
    /\ phase' = [phase EXCEPT ![j] = to]

\* The only step that hands a job to a worker.
Claim(j) ==
    /\ Moves(j, {"free"}, "held")
    /\ token' = [token EXCEPT ![j] = @ + 1]

\* A job enters the queue, leaves it for a while, and comes back.
Queue(j)  == Moves(j, {"unqueued"}, "free") /\ UNCHANGED token
Pause(j)  == Moves(j, {"free"}, "paused")   /\ UNCHANGED token
Resume(j) == Moves(j, {"paused"}, "free")   /\ UNCHANGED token

\* The worker gives its claim back, having failed, or has done the work.
Release(j) == Moves(j, {"held"}, "free")    /\ UNCHANGED token
Settle(j)  == Moves(j, {"held"}, "settled") /\ UNCHANGED token

\* A supervisor makes sure of the worker of a suspect claim.
Recover(j) == Moves(j, {"suspect"}, "free") /\ UNCHANGED token

\* The job ends, by success, failure, cancellation or timeout.
End(j) ==
    /\ Moves(j, {"free", "paused", "held", "suspect", "settled"}, "done")
    /\ UNCHANGED token

\* One tick suspects claims and pauses jobs, any number of them.
Sweep ==
    /\ phase' \in [Jobs -> Phases]
    /\ \A j \in Jobs : \/ phase'[j] = phase[j]
                       \/ phase[j] = "held" /\ phase'[j] = "suspect"
                       \/ phase[j] = "free" /\ phase'[j] = "paused"
    /\ UNCHANGED token

Next ==
    \/ \E j \in Jobs :
          \/ Queue(j) \/ Pause(j) \/ Resume(j) \/ Claim(j)
          \/ Release(j) \/ Settle(j) \/ Recover(j) \/ End(j)
    \/ Sweep

Spec == Init /\ [][Next]_<<phase, token>>
=============================================================================
