----------------------------- MODULE JobLedger ------------------------------
(***************************************************************************)
(* What the calibration job queue promises to those who submit work, with  *)
(* no leases, workers or clocks: a job waits, is held by someone a bounded *)
(* number of times, and ends once and for all; the good results it has     *)
(* collected survive every change of hands, and success means all of them. *)
(***************************************************************************)
EXTENDS Integers

CONSTANTS Jobs, Items, MaxAttempts

VARIABLES
    phase,   \* phase[j]: absent, queued, running, succeeded, failed, cancelled
    tries,   \* how many times j was taken
    done     \* the items of j that have a good result

lvars == <<phase, tries, done>>

LInit ==
    /\ phase = [j \in Jobs |-> "absent"]
    /\ tries = [j \in Jobs |-> 0]
    /\ done = [j \in Jobs |-> {}]

Become(j, p) == phase' = [phase EXCEPT ![j] = p]

Enter(j) == phase[j] = "absent" /\ Become(j, "queued") /\ UNCHANGED <<tries, done>>

(* A queued job is taken up, or a running one is taken over. *)
Take(j) ==
    /\ phase[j] \in {"queued", "running"}
    /\ tries[j] < MaxAttempts
    /\ Become(j, "running")
    /\ tries' = [tries EXCEPT ![j] = @ + 1]
    /\ UNCHANGED done

Record(j) ==
    /\ phase[j] = "running"
    /\ \E i \in Items \ done[j] : done' = [done EXCEPT ![j] = @ \cup {i}]
    /\ UNCHANGED <<phase, tries>>

(* Only from some expiry onwards: warm-start results build on earlier ones. *)
Discard(j) ==
    /\ phase[j] = "running"
    /\ \E date \in Items : done' = [done EXCEPT ![j] = {i \in @ : i < date}]
    /\ UNCHANGED <<phase, tries>>

GiveBack(j) ==
    /\ phase[j] = "running"
    /\ tries[j] < MaxAttempts
    /\ Become(j, "queued")
    /\ UNCHANGED <<tries, done>>

Succeed(j) ==
    /\ phase[j] = "running"
    /\ done[j] = Items
    /\ Become(j, "succeeded")
    /\ UNCHANGED <<tries, done>>

GiveUp(j) == phase[j] = "running" /\ Become(j, "failed") /\ UNCHANGED <<tries, done>>

Withdraw(j) ==
    /\ phase[j] \in {"queued", "running"}
    /\ Become(j, "cancelled")
    /\ UNCHANGED <<tries, done>>

LNext ==
    \E j \in Jobs :
        \/ Enter(j) \/ Take(j) \/ Record(j) \/ Discard(j)
        \/ GiveBack(j) \/ Succeed(j) \/ GiveUp(j) \/ Withdraw(j)

LSpec == LInit /\ [][LNext]_lvars
=============================================================================
