------------------------------ MODULE JobQueue ------------------------------
(***************************************************************************)
(* The PostgreSQL job queue behind every background calibration:           *)
(* calibration/execution/repository.py.  One action per repository         *)
(* statement; a statement is one database transaction, hence one step.     *)
(*                                                                         *)
(* Worker processes keep nothing but the claim they were last granted.     *)
(* Every claim is made under a worker_id minted for it, so the worker_id   *)
(* of a row and the attempt it was claimed at are one "token" here: a      *)
(* process owns a job when the row still carries the token of its claim.   *)
(*                                                                         *)
(* Database time is kept as timers: lease is the time left before          *)
(* lease_expires_at (0: expired, or no lease), delay the time left before  *)
(* next_attempt_at.  Tick lets time pass.                                  *)
(***************************************************************************)
EXTENDS Integers, FiniteSets

CONSTANTS
    Jobs,         \* idempotency keys
    Items,        \* the expiry dates of a batch, as numbers: they are ordered
    Workers,      \* worker process slots
    NoJob, NoItem,
    MaxAttempts,  \* max_attempts of every job
    LeaseTicks,   \* lease_seconds
    RetryTicks    \* the longest retry_delay_seconds

ASSUME ItemsAssumption == Items \subseteq Nat /\ IsFiniteSet(Items)
ASSUME NullsAssumption == NoJob \notin Jobs /\ NoItem \notin Items
ASSUME BoundsAssumption ==
    /\ MaxAttempts \in Nat \ {0}
    /\ LeaseTicks \in Nat \ {0}
    /\ RetryTicks \in Nat

VARIABLES
    job,    \* rows of vol_calibration_jobs
    item,   \* rows of vol_calibration_job_items: item[j][date] is its status
    claim   \* what each worker process believes it holds

vars == <<job, item, claim>>

-----------------------------------------------------------------------------
(* Rows and claims.                                                        *)

Terminal == {"succeeded", "failed", "cancelled"}
JobStatus == {"absent", "queued", "running"} \cup Terminal

Good == {"succeeded", "skipped"}
Finished == Good \cup {"failed", "cancelled"}
ItemStatus == {"absent", "queued", "running"} \cup Finished

NoToken == 0
Tokens == 1 .. MaxAttempts

JobRows == [status    : JobStatus,
            attempts  : 0 .. MaxAttempts,
            owner     : {NoToken} \cup Tokens,
            cancel    : BOOLEAN,
            lease     : 0 .. LeaseTicks,
            delay     : 0 .. RetryTicks,
            completed : Int]

(* granted is the time left on the lease as the worker last heard it. *)
Claims == [job     : Jobs \cup {NoJob},
           token   : {NoToken} \cup Tokens,
           item    : Items \cup {NoItem},
           granted : 0 .. LeaseTicks]

AbsentJob == [status |-> "absent", attempts |-> 0, owner |-> NoToken, cancel |-> FALSE,
              lease |-> 0, delay |-> 0, completed |-> 0]

QueuedJob == [AbsentJob EXCEPT !.status = "queued"]

NoClaim == [job |-> NoJob, token |-> NoToken, item |-> NoItem, granted |-> 0]

FinishedItems(j) == {i \in Items : item[j][i] \in Finished}

(* status, worker_id and attempts match the claim of w. *)
Owns(w, j) ==
    /\ claim[w].job = j
    /\ job[j].status = "running"
    /\ job[j].owner = claim[w].token
    /\ job[j].attempts = claim[w].token

OwnsLive(w, j) == Owns(w, j) /\ job[j].lease > 0

(* What Complete, Fail, Abort and Cancel all do to the ownership columns. *)
Released(j, status) ==
    [job[j] EXCEPT !.status = status, !.owner = NoToken, !.lease = 0]

TypeOK ==
    /\ job \in [Jobs -> JobRows]
    /\ item \in [Jobs -> [Items -> ItemStatus]]
    /\ claim \in [Workers -> Claims]

Init ==
    /\ job = [j \in Jobs |-> AbsentJob]
    /\ item = [j \in Jobs |-> [i \in Items |-> "absent"]]
    /\ claim = [w \in Workers |-> NoClaim]

-----------------------------------------------------------------------------
(* Slips a change to the queries could make; each is shown to break one of *)
(* the properties below when it takes the place of the real operator.      *)

ClaimableAtLimit(j) ==
    /\ ~job[j].cancel /\ job[j].attempts <= MaxAttempts /\ job[j].delay = 0
    /\ (job[j].status = "queued" \/ (job[j].status = "running" /\ job[j].lease = 0))

ClaimableUnderLease(j) ==
    /\ ~job[j].cancel /\ job[j].attempts < MaxAttempts /\ job[j].delay = 0
    /\ job[j].status \in {"queued", "running"}

ClaimableWhenQueued(j) ==
    /\ ~job[j].cancel /\ job[j].attempts < MaxAttempts /\ job[j].delay = 0
    /\ job[j].status = "queued"

OrphansForgotten == {"failed"}

CheckpointsForgotten == {"running"} \cup Finished

FailuresStillCounted(j) == {}

LaterItems(j, date) == {i \in Items : i > date /\ item[j][i] \in Good \cup {"failed"}}

NoItemPending(j) == \A i \in Items : item[j][i] \in Finished

RetriedOnceMore(j) ==
    IF job[j].cancel THEN "cancelled"
    ELSE IF job[j].attempts <= MaxAttempts THEN "queued" ELSE "failed"

-----------------------------------------------------------------------------
(* Requests of the dashboard and of operators.                             *)

(* A key already present keeps its row and its items: the conflict clauses *)
(* write nothing, whether the inputs match (the row is returned) or not    *)
(* (the caller gets a ValueError).                                         *)
Submit(j) ==
    /\ IF job[j].status = "absent"
         THEN /\ job' = [job EXCEPT ![j] = QueuedJob]
              /\ item' = [item EXCEPT ![j] = [i \in Items |-> "queued"]]
         ELSE UNCHANGED <<job, item>>
    /\ UNCHANGED claim

RequestCancel(j) ==
    /\ job[j].status \in {"queued", "running"}
    /\ job' = [job EXCEPT ![j] = [Released(j, "cancelled") EXCEPT !.cancel = TRUE]]
    /\ UNCHANGED <<item, claim>>

-----------------------------------------------------------------------------
(* Statements of worker processes.                                         *)

Claimable(j) ==
    /\ ~job[j].cancel
    /\ job[j].attempts < MaxAttempts
    /\ job[j].delay = 0
    /\ \/ job[j].status = "queued"
       \/ job[j].status = "running" /\ job[j].lease = 0

(* Items that go back to the queue when a job is claimed.                  *)
Orphaned == {"running", "failed"}

(* Items that stop counting as completed when j is claimed.                *)
FailedItems(j) == {i \in Items : item[j][i] = "failed"}

(* The row of j under the claim that follows its present attempt.          *)
Claimed(j) ==
    [job[j] EXCEPT !.status = "running",
                   !.attempts = job[j].attempts + 1,
                   !.owner = job[j].attempts + 1,
                   !.lease = LeaseTicks,
                   !.completed = @ - Cardinality(FailedItems(j))]

(* SKIP LOCKED passes over rows that others hold, so any claimable job may *)
(* be the one returned.                                                    *)
Claim(w, j) ==
    /\ claim[w] = NoClaim
    /\ Claimable(j)
    /\ job' = [job EXCEPT ![j] = Claimed(j)]
    /\ claim' = [claim EXCEPT ![w] = [job |-> j, token |-> job[j].attempts + 1,
                                      item |-> NoItem, granted |-> LeaseTicks]]
    /\ item' = [item EXCEPT ![j] = [i \in Items |->
                  IF item[j][i] \in Orphaned THEN "queued" ELSE item[j][i]]]

Heartbeat(w, j) ==
    /\ OwnsLive(w, j)
    /\ ~job[j].cancel
    /\ job' = [job EXCEPT ![j].lease = LeaseTicks]
    /\ claim' = [claim EXCEPT ![w].granted = LeaseTicks]
    /\ UNCHANGED item

(* The earliest queued expiry. *)
ClaimItem(w, j, i) ==
    /\ OwnsLive(w, j)
    /\ ~job[j].cancel
    /\ claim[w].item = NoItem
    /\ item[j][i] = "queued"
    /\ \A k \in Items : item[j][k] = "queued" => i <= k
    /\ item' = [item EXCEPT ![j][i] = "running"]
    /\ claim' = [claim EXCEPT ![w].item = i]
    /\ UNCHANGED job

CompleteItem(w, j, i, status) ==
    /\ OwnsLive(w, j)
    /\ claim[w].item = i
    /\ item[j][i] = "running"
    /\ item' = [item EXCEPT ![j][i] = status]
    /\ job' = [job EXCEPT ![j].completed = @ + 1]
    /\ claim' = [claim EXCEPT ![w].item = NoItem]

(* A changed expiry and every later one lose their results. *)
StaleItems(j, date) == {i \in Items : i >= date /\ item[j][i] \in Good \cup {"failed"}}

InvalidateFrom(w, j, date) ==
    /\ OwnsLive(w, j)
    /\ ~job[j].cancel
    /\ item' = [item EXCEPT ![j] = [i \in Items |->
                  IF i \in StaleItems(j, date) THEN "queued" ELSE item[j][i]]]
    /\ job' = [job EXCEPT ![j].completed = @ - Cardinality(StaleItems(j, date))]
    /\ UNCHANGED claim

NoItemOpen(j) == \A i \in Items : item[j][i] \in Good

Complete(w, j) ==
    /\ OwnsLive(w, j)
    /\ ~job[j].cancel
    /\ job[j].completed = Cardinality(Items)
    /\ NoItemOpen(j)
    /\ job' = [job EXCEPT ![j] = [Released(j, "succeeded") EXCEPT
                  !.completed = Cardinality(Items)]]
    /\ UNCHANGED <<item, claim>>

StatusAfterFailure(j) ==
    IF job[j].cancel THEN "cancelled"
    ELSE IF job[j].attempts < MaxAttempts THEN "queued" ELSE "failed"

(* Needs no live lease; what is left of the grant is given up with it. *)
Fail(w, j, delay) ==
    /\ Owns(w, j)
    /\ job' = [job EXCEPT ![j] = [Released(j, StatusAfterFailure(j)) EXCEPT !.delay = delay]]
    /\ claim' = [claim EXCEPT ![w].granted = 0]
    /\ UNCHANGED item

Abort(w, j) ==
    /\ OwnsLive(w, j)
    /\ ~job[j].cancel
    /\ job' = [job EXCEPT ![j] = Released(j, "failed")]
    /\ UNCHANGED <<item, claim>>

(* The process ends or dies, with or without having heard the answer to    *)
(* its last statement; its slot is free for a new process.                 *)
Abandon(w) ==
    /\ claim[w] # NoClaim
    /\ claim' = [claim EXCEPT ![w] = NoClaim]
    /\ UNCHANGED <<job, item>>

-----------------------------------------------------------------------------
(* Database time.                                                          *)

Less(n) == IF n > 0 THEN n - 1 ELSE 0

Tick ==
    /\ job' = [j \in Jobs |-> [job[j] EXCEPT !.lease = Less(@), !.delay = Less(@)]]
    /\ claim' = [w \in Workers |-> [claim[w] EXCEPT !.granted = Less(@)]]
    /\ UNCHANGED item

Next ==
    \/ Tick
    \/ \E w \in Workers : Abandon(w)
    \/ \E j \in Jobs :
         \/ Submit(j)
         \/ RequestCancel(j)
         \/ \E w \in Workers :
              \/ Claim(w, j)
              \/ Heartbeat(w, j)
              \/ Complete(w, j)
              \/ Abort(w, j)
              \/ \E delay \in 0 .. RetryTicks : Fail(w, j, delay)
              \/ \E i \in Items :
                   \/ ClaimItem(w, j, i)
                   \/ InvalidateFrom(w, j, i)
                   \/ \E status \in Finished : CompleteItem(w, j, i, status)

Spec == Init /\ [][Next]_vars

(* Time passes; a worker process ends, since its calibration is a bounded  *)
(* loop; and pollers keep starting workers for a job that can be claimed.  *)
Fairness ==
    /\ WF_vars(Tick)
    /\ \A w \in Workers : WF_vars(Abandon(w))
    /\ \A j \in Jobs : SF_vars(\E w \in Workers : Claim(w, j))

FairSpec == Spec /\ Fairness

-----------------------------------------------------------------------------
(* Properties.                                                             *)

(* The progress column the dashboard divides by total_items counts exactly *)
(* the items that are finished, through claims that requeue failed items,  *)
(* invalidations and completions by successive owners.                     *)
ProgressExact ==
    \A j \in Jobs : job[j].completed = Cardinality(FinishedItems(j))

(* Two worker processes never both hold what they last heard to be a       *)
(* running lease on the same job.                                          *)
LeaseExclusive ==
    \A v, w \in Workers : \A j \in Jobs :
        /\ claim[v].job = j /\ claim[v].granted > 0
        /\ claim[w].job = j /\ claim[w].granted > 0
        => v = w

(* An item in progress under a claim whose process is still there is the   *)
(* one that process works on: no item is left running by an earlier owner, *)
(* where claim_item would never pick it again and complete would refuse.   *)
NoOrphanUnderOwner ==
    \A w \in Workers : \A j \in Jobs : Owns(w, j) =>
        \A i \in Items : item[j][i] = "running" => claim[w].item = i

(* A succeeded batch keeps a good result for every expiry, for good:       *)
(* completed_batch reads it without holding any lease.                     *)
SucceededComplete ==
    \A j \in Jobs : job[j].status = "succeeded" =>
        \A i \in Items : item[j][i] \in Good

(* What makes LeaseExclusive and NoOrphanUnderOwner inductive: no two      *)
(* claims share a token, none is for a job not yet submitted or ahead of   *)
(* its attempts column, and a lease still granted to a worker is its own   *)
(* in the row, unless the job ended.                                       *)
TokensUnique ==
    /\ \A w \in Workers : \A j \in Jobs : claim[w].job = j =>
          job[j].status # "absent" /\ claim[w].token <= job[j].attempts
    /\ \A v, w \in Workers : \A j \in Jobs :
          /\ claim[v].job = j /\ claim[w].job = j
          /\ claim[v].token = claim[w].token
          => v = w

GrantsHonoured ==
    \A w \in Workers : \A j \in Jobs :
        /\ claim[w].job = j
        /\ claim[w].granted > 0
        => \/ job[j].status \in Terminal
           \/ Owns(w, j) /\ job[j].lease >= claim[w].granted

(* A key not yet submitted has no history.                                 *)
AbsentBlank ==
    \A j \in Jobs : job[j].status = "absent" =>
        /\ job[j].attempts = 0
        /\ \A i \in Items : item[j][i] = "absent"

IInv ==
    /\ TypeOK
    /\ AbsentBlank
    /\ TokensUnique
    /\ GrantsHonoured
    /\ LeaseExclusive
    /\ NoOrphanUnderOwner
    /\ ProgressExact
    /\ SucceededComplete

(* A good result is only ever discarded by the worker that owns the job    *)
(* under a live lease: crashes, retries and takeovers keep checkpoints.    *)
CheckpointsKept ==
    [][\A j \in Jobs : \A i \in Items :
          item[j][i] \in Good /\ item'[j][i] \notin Good
          => \E w \in Workers : OwnsLive(w, j)]_vars

(* A submitted job does not wait for ever: it reaches a terminal status,   *)
(* or its last permitted attempt is the one left running.                  *)
Drains ==
    \A j \in Jobs : job[j].status = "queued" ~>
        \/ job[j].status \in Terminal
        \/ job[j].status = "running" /\ job[j].attempts = MaxAttempts

(* The queue implements what JobLedger promises: a job is in the phase its *)
(* status names, tried as often as its attempts say, and done with an item *)
(* when the item has a good result.                                        *)
LedgerPhase == [j \in Jobs |-> job[j].status]
LedgerTries == [j \in Jobs |-> job[j].attempts]
LedgerDone  == [j \in Jobs |-> {i \in Items : item[j][i] \in Good}]

Ledger == INSTANCE JobLedger WITH
    phase <- LedgerPhase, tries <- LedgerTries, done <- LedgerDone

ImplementsLedger == Ledger!LSpec
=============================================================================
