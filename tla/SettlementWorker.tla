--------------------------- MODULE SettlementWorker ---------------------------
(***************************************************************************)
(* Automatic settlement of one product: settlement_worker.py, with the     *)
(* sessions, promotion and retries of settlement_operations.py.  Detached  *)
(* processes reconcile the settlement snapshots into jobs and run them in  *)
(* shadow, or publish them under a promotion that rests on shadow jobs.    *)
(*                                                                         *)
(* A job is named by what its idempotency key is made of: settlement date, *)
(* mode, and version of the snapshot it was submitted for.  A claim is a   *)
(* token, as in JobQueue.  Each database transaction is one step, with the *)
(* reads before it that only choose it: what they read is compared again,  *)
(* or can no longer change the outcome.                                    *)
(***************************************************************************)
EXTENDS Integers, Sequences, FiniteSets

CONSTANTS
    Cobs,          \* settlement dates
    Window,        \* the dates a promotion needs evidence for
    ShadowVersions, PublishVersions,   \* snapshots processes of each mode meet
    Workers,
    NoJob,
    Targets,       \* expiries of a job
    MaxAttempts, RetryGrant, MaxRetries,
    MaxVersion,    \* bound on corrections of a snapshot
    MaxOthers,     \* bound on publications made by hand
    MaxFaults      \* bound on failures, cancellations and leases lost under way

ASSUME CobsAssumption == IsFiniteSet(Cobs) /\ Window \subseteq Cobs /\ Window # {}
ASSUME VersionsAssumption == ShadowVersions \cup PublishVersions \subseteq 1 .. MaxVersion
ASSUME BoundsAssumption ==
    /\ MaxAttempts \in Nat \ {0} /\ RetryGrant \in Nat \ {0} /\ Targets \in Nat \ {0}
    /\ MaxRetries \in Nat /\ MaxVersion \in Nat \ {0} /\ MaxOthers \in Nat
    /\ MaxFaults \in Nat

Jobs == [cob : Cobs, mode : {"shadow"}, version : ShadowVersions]
          \cup [cob : Cobs, mode : {"publish"}, version : PublishVersions]
ASSUME NullAssumption == NoJob \notin Jobs

VARIABLES
    source,    \* version of the latest complete snapshot of each date; 0: none
    phase,     \* where the clock stands to the session of each date
    reviewed,  \* dates whose session has been imported
    gate,      \* the promotion row
    pubs,      \* publications of each date, oldest first; the last is active
    job,       \* job row, candidate row and items
    worker,
    faults     \* faults so far

vars == <<source, phase, reviewed, gate, pubs, job, worker, faults>>

-----------------------------------------------------------------------------
MostAttempts == MaxAttempts + RetryGrant * MaxRetries
Terminal == {"succeeded", "failed", "cancelled"}

(* Revisions of a date, in the order of their commits; 0: there is none. *)
Revisions == Nat

(* Progress of a job: checkpoints up to Targets, then the certified         *)
(* candidate, then the items left over marked skipped.                     *)
Candidate == Targets + 1
Skipped == Targets + 2

JobRows == [status    : {"absent", "queued", "running"} \cup Terminal,
            attempts  : 0 .. MostAttempts, max : 0 .. MostAttempts,
            owner     : 0 .. MostAttempts,
            live      : BOOLEAN,             \* lease_expires_at is ahead
            kind      : {"none", "retryable", "permanent"},
            born      : Nat,                 \* rank of created_at
            timely    : BOOLEAN,             \* created and finished in the session
            done      : 0 .. Skipped,        \* checkpoints, candidate, skipped items
            state     : {"none", "prepared", "shadow", "held", "published"},
            pub       : Revisions]

Working == {"fit", "save", "skip", "recheck", "shadow", "activate", "record",
            "published", "complete"}

Processes == [pc    : {"idle", "submit", "hold", "heartbeat", "abort"} \cup Working,
              job   : Jobs \cup {NoJob},
              token : 0 .. MostAttempts,
              lost  : BOOLEAN,               \* the flag the heartbeat thread sets
              pub   : Revisions]

AbsentJob == [status |-> "absent", attempts |-> 0, max |-> 0, owner |-> 0, live |-> FALSE,
              kind |-> "none", born |-> 0, timely |-> TRUE, done |-> 0, state |-> "none", pub |-> 0]

Idle == [pc |-> "idle", job |-> NoJob, token |-> 0, lost |-> FALSE, pub |-> 0]

TypeOK ==
    /\ source \in [Cobs -> 0 .. MaxVersion]
    /\ phase \in [Cobs -> {"before", "open", "closed"}]
    /\ reviewed \subseteq Cobs
    /\ gate \in [approved : BOOLEAN, evidence : SUBSET Jobs]
    /\ pubs \in [Cobs -> Seq(Jobs \cup {NoJob})]
    /\ job \in [Jobs -> JobRows]
    /\ worker \in [Workers -> Processes]
    /\ faults \in 0 .. MaxFaults

Init ==
    /\ source = [c \in Cobs |-> 0]
    /\ phase = [c \in Cobs |-> "before"]
    /\ reviewed = {}
    /\ gate = [approved |-> FALSE, evidence |-> {}]
    /\ pubs = [c \in Cobs |-> <<>>]
    /\ job = [k \in Jobs |-> AbsentJob]
    /\ worker = [w \in Workers |-> Idle]
    /\ faults = 0

-----------------------------------------------------------------------------
Row(w) == job[worker[w].job]

Owned(w) ==
    /\ worker[w].job \in Jobs
    /\ Row(w).status = "running" /\ Row(w).owner = worker[w].token

(* Slips a change could make; each breaks one of the properties below when *)
(* it takes the place of the real operator.                                *)
GuardedByStatus(w) == worker[w].job \in Jobs /\ Row(w).status = "running" /\ Row(w).live
ApprovedOnce == gate.approved
SettledByDate(w) == DOMAIN pubs[worker[w].job.cob]
LeftToNextClaim(k) == FALSE
AnyFailure(k) == job[k].status = "failed" /\ source[k.cob] = k.version

(* _guard: the claim still stands and its lease has not run out. *)
Guarded(w) == Owned(w) /\ Row(w).live

Current(k) == source[k.cob] = k.version

Active(c) == Len(pubs[c])

Becomes(w, row) == worker' = [worker EXCEPT ![w] = row]
Goto(w, pc) == Becomes(w, [worker[w] EXCEPT !.pc = pc])
Exit(w) == Becomes(w, Idle)
Change(w, row) == job' = [job EXCEPT ![worker[w].job] = row]

(* Something goes wrong, or does not. *)
Fault == faults < MaxFaults /\ faults' = faults + 1
NoFault == UNCHANGED faults

Release(row, status) == [row EXCEPT !.status = status, !.owner = 0, !.live = FALSE]

-----------------------------------------------------------------------------
(* Reconciliation: events and sessions are read first, and each job is     *)
(* submitted in a transaction of its own.  A session that is not ready     *)
(* waits.                                                                  *)
Look(w, k) ==
    /\ worker[w].pc = "idle"
    /\ Current(k) /\ job[k].status = "absent"
    /\ k.cob \in reviewed => phase[k.cob] # "before"
    /\ Becomes(w, [Idle EXCEPT !.pc = "submit", !.job = k])
    /\ NoFault
    /\ UNCHANGED <<source, phase, reviewed, gate, pubs, job>>

Rank == Cardinality({k \in Jobs : job[k].status # "absent"}) + 1

(* A key that is there already keeps its row. *)
Submit(w) ==
    /\ worker[w].pc = "submit"
    /\ LET k == worker[w].job
       IN  job' = IF job[k].status # "absent" THEN job
                  ELSE [job EXCEPT ![k] = [AbsentJob EXCEPT !.status = "queued",
                          !.max = MaxAttempts, !.born = Rank, !.timely = phase[k.cob] # "before"]]
    /\ Exit(w)
    /\ NoFault
    /\ UNCHANGED <<source, phase, reviewed, gate, pubs>>

(* Inputs that cannot be loaded leave the event waiting for the next poll. *)
Wait(w) ==
    /\ worker[w].pc = "submit"
    /\ Exit(w)
    /\ NoFault
    /\ UNCHANGED <<source, phase, reviewed, gate, pubs, job>>

-----------------------------------------------------------------------------
(* run_one.                                                                *)

(* The last permitted claim died. *)
Exhausted(k) == job[k].status = "running" /\ ~job[k].live /\ job[k].attempts >= job[k].max

Claimable(k) ==
    /\ job[k].attempts < job[k].max
    /\ job[k].status = "queued" \/ (job[k].status = "running" /\ ~job[k].live)

Claimed(k) == [job[k] EXCEPT !.status = "running", !.attempts = @ + 1,
                             !.owner = job[k].attempts + 1, !.live = TRUE]

(* The sweep fails what no claim can take any more; the oldest job that    *)
(* can be claimed is taken, its pinned source compared, its checkpoints    *)
(* and its candidate read.                                                 *)
Claim(w) ==
    /\ worker[w].pc = "idle"
    /\ LET Swept == [k \in Jobs |-> IF Exhausted(k)
                       THEN [job[k] EXCEPT !.status = "failed", !.kind = "retryable"] ELSE job[k]]
       IN  \/ /\ \A k \in Jobs : ~Claimable(k)
              /\ job' = Swept
              /\ UNCHANGED worker
           \/ \E k \in Jobs :
                /\ Claimable(k)
                /\ \A o \in Jobs : Claimable(o) => job[k].born <= job[o].born
                /\ job' = [Swept EXCEPT ![k] = Claimed(k)]
                /\ Becomes(w, [Idle EXCEPT !.job = k, !.token = job[k].attempts + 1,
                      !.pc = IF ~Current(k) THEN "hold"
                             ELSE IF job[k].done >= Candidate THEN "skip"
                             ELSE IF job[k].done = Targets THEN "save" ELSE "fit"])
    /\ NoFault
    /\ UNCHANGED <<source, phase, reviewed, gate, pubs>>

(* The engine fits what has no checkpoint; how many of the targets it fits *)
(* is up to the quotes, the rest is interpolated.                          *)
Fit(w) ==
    /\ worker[w].pc = "fit" /\ ~worker[w].lost /\ Guarded(w)
    /\ Change(w, [Row(w) EXCEPT !.done = @ + 1])
    /\ \E next \in {"fit", "save"} :
         /\ Row(w).done + 1 = Targets => next = "save"
         /\ Goto(w, next)
    /\ NoFault
    /\ UNCHANGED <<source, phase, reviewed, gate, pubs>>

(* _save: the candidate row is written under the fence. *)
Save(w, from, row, to) ==
    /\ worker[w].pc = from /\ Guarded(w)
    /\ Change(w, row)
    /\ Goto(w, to)
    /\ NoFault
    /\ UNCHANGED <<source, phase, reviewed, gate, pubs>>

SaveCandidate(w) ==
    Save(w, "save", [Row(w) EXCEPT !.done = Candidate, !.state = "prepared", !.pub = 0], "skip")

SkipRemaining(w) == Save(w, "skip", [Row(w) EXCEPT !.done = Skipped], "recheck")

SaveShadow(w) ==
    Save(w, "shadow", [Row(w) EXCEPT !.state = "shadow", !.pub = 0], "complete")

-----------------------------------------------------------------------------
(* Publication.                                                            *)

(* The shadow jobs of a date, and the latest of them. *)
Shadows(c) == {k \in Jobs : k.cob = c /\ k.mode = "shadow" /\ job[k].status # "absent"}
IsLatest(k) == \A o \in Shadows(k.cob) : job[o].born <= job[k].born

(* What shadow_evidence accepts of a date: the latest job, whatever became *)
(* of it, has to be a timely success on the current source.                *)
Witnessed(k) ==
    /\ job[k].status = "succeeded" /\ job[k].state = "shadow" /\ job[k].timely
    /\ k.cob \in reviewed /\ Current(k)

Evidence == {k \in Jobs : k \in Shadows(k.cob) /\ k.cob \in Window /\ IsLatest(k)}
EvidenceComplete == /\ \A c \in Window : \E k \in Evidence : k.cob = c
              /\ \A k \in Evidence : Witnessed(k)

(* _promotion *)
Promoted == gate.approved /\ EvidenceComplete /\ gate.evidence = Evidence

(* require_session *)
InSession(c) == c \in reviewed /\ phase[c] = "open"

(* Revisions under the key of the certificate of this candidate. *)
Committed(w) ==
    LET k == worker[w].job
    IN  {p \in DOMAIN pubs[k.cob] : pubs[k.cob][p] # NoJob /\ pubs[k.cob][p].version = k.version}

(* The source is read again; a publisher looks for what a former claim of  *)
(* the same candidate committed, which has to be active still.             *)
Recheck(w) ==
    /\ worker[w].pc = "recheck"
    /\ LET k == worker[w].job
       IN  IF ~Current(k) THEN Goto(w, "hold")
           ELSE IF k.mode = "shadow" THEN Goto(w, "shadow")
           ELSE IF Committed(w) = {} THEN Goto(w, "activate")
           ELSE IF Active(k.cob) \in Committed(w)
             THEN Becomes(w, [worker[w] EXCEPT !.pc = "record", !.pub = Active(k.cob)])
           ELSE Goto(w, "hold")
    /\ NoFault
    /\ UNCHANGED <<source, phase, reviewed, gate, pubs, job>>

(* staging_guard and, in the transaction that activates,                   *)
(* publication_guard.  The job expects no publication of that date.        *)
Activate(w) ==
    /\ worker[w].pc = "activate" /\ Guarded(w)
    /\ LET k == worker[w].job
       IN  IF worker[w].lost THEN Goto(w, "heartbeat") /\ UNCHANGED pubs
           ELSE IF Current(k) /\ Promoted /\ InSession(k.cob) /\ Active(k.cob) = 0
             THEN /\ pubs' = [pubs EXCEPT ![k.cob] = Append(@, k)]
                  /\ Becomes(w, [worker[w] EXCEPT !.pc = "record", !.pub = Active(k.cob) + 1])
           ELSE Goto(w, "hold") /\ UNCHANGED pubs
    /\ NoFault
    /\ UNCHANGED <<source, phase, reviewed, gate, job>>

Record(w) ==
    Save(w, "record", [Row(w) EXCEPT !.state = "prepared", !.pub = worker[w].pub], "published")

(* After the publication was read back and verified. *)
SavePublished(w) ==
    Save(w, "published", [Row(w) EXCEPT !.state = "published", !.pub = worker[w].pub], "complete")

Complete(w) ==
    /\ worker[w].pc = "complete" /\ Guarded(w) /\ Row(w).done = Skipped
    /\ Change(w, [Release(Row(w), "succeeded") EXCEPT
                    !.timely = @ /\ phase[worker[w].job.cob] # "closed"])
    /\ Exit(w)
    /\ NoFault
    /\ UNCHANGED <<source, phase, reviewed, gate, pubs>>

-----------------------------------------------------------------------------
(* Failures.                                                               *)

(* A guard that finds the claim gone: nothing is written. *)
Fenced(w) ==
    /\ worker[w].pc \in {"fit", "save", "skip", "shadow", "activate", "record",
                         "published", "complete", "hold", "heartbeat", "abort"}
    /\ ~Guarded(w) \/ (worker[w].pc = "fit" /\ worker[w].lost)
    /\ Exit(w)
    /\ NoFault
    /\ UNCHANGED <<source, phase, reviewed, gate, pubs, job>>

(* A fit, a certificate, a readback or an authority is refused, or  *)
(* automatic publication is switched off.                                  *)
Refuse(w) ==
    /\ worker[w].pc \in Working \ {"complete"}
    /\ Goto(w, "hold")
    /\ Fault
    /\ UNCHANGED <<source, phase, reviewed, gate, pubs, job>>

(* The hold loses the publication_id, and keeps the candidate. *)
Hold(w) ==
    /\ worker[w].pc \in {"hold", "heartbeat"}
    /\ Save(w, worker[w].pc, [Row(w) EXCEPT !.state = "held", !.pub = 0], "abort")

Abort(w) ==
    /\ worker[w].pc = "abort" /\ Guarded(w)
    /\ Change(w, [Release(Row(w), "failed") EXCEPT !.kind = "permanent"])
    /\ Exit(w)
    /\ NoFault
    /\ UNCHANGED <<source, phase, reviewed, gate, pubs>>

(* Any other exception. *)
Fail(w) ==
    /\ worker[w].pc \in Working
    /\ IF Owned(w)
         THEN Change(w, [Release(Row(w), IF Row(w).attempts < Row(w).max THEN "queued" ELSE "failed")
                           EXCEPT !.kind = "retryable"])
         ELSE UNCHANGED job
    /\ Exit(w)
    /\ Fault
    /\ UNCHANGED <<source, phase, reviewed, gate, pubs>>

(* The heartbeat thread could not renew, or the renewal raised. *)
BeatFails(w) ==
    /\ worker[w].pc \in Working /\ ~worker[w].lost
    /\ Becomes(w, [worker[w] EXCEPT !.lost = TRUE])
    /\ Fault
    /\ UNCHANGED <<source, phase, reviewed, gate, pubs, job>>

Crash(w) ==
    /\ worker[w].pc # "idle"
    /\ Exit(w)
    /\ Fault
    /\ UNCHANGED <<source, phase, reviewed, gate, pubs, job>>

-----------------------------------------------------------------------------
(* Operators, and what nobody decides.                                     *)

ImportCalendar(c) ==
    /\ c \notin reviewed
    /\ reviewed' = reviewed \cup {c}
    /\ NoFault
    /\ UNCHANGED <<source, phase, gate, pubs, job, worker>>

ApprovePromotion ==
    /\ EvidenceComplete
    /\ gate' = [approved |-> TRUE, evidence |-> Evidence]
    /\ NoFault
    /\ UNCHANGED <<source, phase, reviewed, pubs, job, worker>>

Retryable(k) == job[k].status = "failed" /\ job[k].kind = "retryable" /\ Current(k)

RetrySettlement(k) ==
    /\ Retryable(k)
    /\ job[k].max + RetryGrant <= MostAttempts
    /\ job' = [job EXCEPT ![k].status = "queued", ![k].max = @ + RetryGrant]
    /\ NoFault
    /\ UNCHANGED <<source, phase, reviewed, gate, pubs, worker>>

RequestCancel(k) ==
    /\ job[k].status \in {"queued", "running"}
    /\ job' = [job EXCEPT ![k] = Release(@, "cancelled")]
    /\ Fault
    /\ UNCHANGED <<source, phase, reviewed, gate, pubs, worker>>

Unattended(k) == \A w \in Workers : worker[w].job = k => ~Owned(w)

(* A lease runs out after its owner died; under a live owner only when its *)
(* renewals do not come through.                                           *)
Expire(k) ==
    /\ job[k].live
    /\ job' = [job EXCEPT ![k].live = FALSE]
    /\ IF Unattended(k) THEN NoFault ELSE Fault
    /\ UNCHANGED <<source, phase, reviewed, gate, pubs, worker>>

SnapshotArrives(c) ==
    /\ source[c] < MaxVersion
    /\ source' = [source EXCEPT ![c] = @ + 1]
    /\ NoFault
    /\ UNCHANGED <<phase, reviewed, gate, pubs, job, worker>>

ClockMoves(c) ==
    /\ phase[c] # "closed"
    /\ phase' = [phase EXCEPT ![c] = IF @ = "before" THEN "open" ELSE "closed"]
    /\ NoFault
    /\ UNCHANGED <<source, reviewed, gate, pubs, job, worker>>

(* Publications and supersessions by hand. *)
OthersPublish(c) ==
    /\ Cardinality({p \in DOMAIN pubs[c] : pubs[c][p] = NoJob}) < MaxOthers
    /\ pubs' = [pubs EXCEPT ![c] = Append(@, NoJob)]
    /\ NoFault
    /\ UNCHANGED <<source, phase, reviewed, gate, job, worker>>

-----------------------------------------------------------------------------
Step(w) ==
    \/ Submit(w) \/ Claim(w) \/ Fit(w) \/ SaveCandidate(w) \/ SkipRemaining(w) \/ Recheck(w)
    \/ SaveShadow(w) \/ Activate(w) \/ Record(w) \/ SavePublished(w) \/ Complete(w)
    \/ Fenced(w) \/ Hold(w) \/ Abort(w)

Next ==
    \/ \E w \in Workers :
         \/ \E k \in Jobs : Look(w, k)
         \/ Step(w) \/ Wait(w) \/ Refuse(w) \/ Fail(w) \/ BeatFails(w) \/ Crash(w)
    \/ \E k \in Jobs : RetrySettlement(k) \/ RequestCancel(k) \/ Expire(k)
    \/ \E c \in Cobs : ImportCalendar(c) \/ SnapshotArrives(c) \/ ClockMoves(c) \/ OthersPublish(c)
    \/ ApprovePromotion

Spec == Init /\ [][Next]_vars

(* A supervised process keeps polling and executing what it claimed; the   *)
(* lease of a job nobody works on runs out.                                *)
Fairness ==
    /\ \A w \in Workers : WF_vars(Step(w))
    /\ \A k \in Jobs : WF_vars(Unattended(k) /\ Expire(k))

FairSpec == Spec /\ Fairness

-----------------------------------------------------------------------------
(* Properties.                                                             *)

(* An automatic publication rests, when it is activated, on a promotion    *)
(* whose evidence still stands: for each date of the window the job that   *)
(* was approved is still the last shadow job of that date, and was made on *)
(* the source as it is now, although jobs and corrections kept coming.     *)
PublishedOnEvidence ==
    [][\A c \in Cobs :
         Len(pubs'[c]) > Len(pubs[c]) /\ pubs'[c][Len(pubs'[c])] # NoJob =>
           \A d \in Window : \E k \in gate.evidence :
             /\ k.cob = d /\ source[d] = k.version /\ job[k].status = "succeeded"
             /\ \A o \in Jobs : o.cob = d /\ o.mode = "shadow" => job[o].born <= job[k].born]_vars

(* The revision a job recorded is not forgotten until the job is held:     *)
(* neither by a former owner, which may still save the candidate it had    *)
(* ready, nor by a later claim, which finds the commit of the first by its *)
(* key and records it again.  A finished or cancelled job keeps what it    *)
(* says of its outcome.                                                    *)
RevisionKept ==
    [][\A k \in Jobs :
         /\ job[k].pub # 0 => job'[k].pub = job[k].pub \/ job'[k].state = "held"
         /\ job[k].status \in {"succeeded", "cancelled"} =>
              /\ job'[k].status = job[k].status
              /\ job'[k].state = job[k].state /\ job'[k].pub = job[k].pub]_vars

(* The success of a job speaks of what it left: a shadow job has published *)
(* nothing, a publishing job names a revision with its own certificate,    *)
(* and no target is left unaccounted for.                                  *)
SuccessRecorded ==
    \A k \in Jobs : job[k].status = "succeeded" =>
        /\ job[k].done = Skipped
        /\ IF k.mode = "shadow" THEN job[k].state = "shadow"
           ELSE /\ job[k].state = "published" /\ job[k].pub \in DOMAIN pubs[k.cob]
                /\ pubs[k.cob][job[k].pub] = k

(* A hold stands: whatever former owners still try, a job that was held    *)
(* and aborted stays held until a reviewer submits another.                *)
HoldStands ==
    [][\A k \in Jobs : job[k].kind = "permanent" /\ job[k].status = "failed" =>
         job'[k].state = "held" /\ job'[k].status = "failed"]_vars

(* Every submitted job is settled, also when its last claim dies. *)
Settles == \A k \in Jobs : job[k].status = "queued" ~> job[k].status \in Terminal

(* What the release notes promise: execution failures are retried, only    *)
(* failures of source, model, certificate or authority hold a job.         *)
BeatFailureRetried ==
    [][\A w \in Workers : worker[w].pc = "heartbeat" => worker'[w].pc # "abort"]_vars
=============================================================================
