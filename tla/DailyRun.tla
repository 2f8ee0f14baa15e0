------------------------------ MODULE DailyRun ------------------------------
(***************************************************************************)
(* The daily settlement run of one product and one settlement date:        *)
(* calibration/execution/daily_runner.py and daily_store.py.  Several jobs *)
(* (submitted on other inputs, or in another mode) and several runner      *)
(* processes meet over the job rows, their insert-once artifacts and the   *)
(* publications of that date.  Each database transaction is one step; a    *)
(* process may die, be cancelled or lose its lease between any two.        *)
(*                                                                         *)
(* A claim is a token, as in JobQueue.  A fit is deterministic, so what it *)
(* certifies is named by what it was fitted to: the version of the         *)
(* settlement source and the preceding publication (the lineage).          *)
(***************************************************************************)
EXTENDS Integers, Sequences, FiniteSets

CONSTANTS
    Jobs, Workers, NoJob,
    MaxAttempts,   \* max_attempts at submission
    RetryGrant,    \* claims granted by retry_daily
    MaxRetries,    \* bound on retries of one job
    MaxVersion,    \* bound on corrections of the source
    MaxLineage,    \* bound on corrections of the preceding date
    MaxOthers      \* bound on publications made outside the daily runner

ASSUME NullAssumption == NoJob \notin Jobs
ASSUME BoundsAssumption ==
    /\ MaxAttempts \in Nat \ {0} /\ RetryGrant \in Nat \ {0}
    /\ MaxVersion \in Nat \ {0}   \* the settlement inputs arrive
    /\ MaxRetries \in Nat /\ MaxLineage \in Nat /\ MaxOthers \in Nat

VARIABLES
    source,    \* version of the settlement inputs; 0: not there yet
    lineage,   \* the active publication of the preceding date; 0: there is none
    pubs,      \* publications of this date, oldest first; the last one is active
    job,       \* job row, artifacts and stage of each job
    worker     \* runner processes

vars == <<source, lineage, pubs, job, worker>>

-----------------------------------------------------------------------------
MostAttempts == MaxAttempts + RetryGrant * MaxRetries

Terminal == {"succeeded", "failed", "cancelled"}

(* An identity of inputs, or of a candidate; source 0 stands for none. *)
Identities == [source : 0 .. MaxVersion, lineage : 0 .. MaxLineage]
None == [source |-> 0, lineage |-> 0]

(* Revisions of the date, in the order of their commits; 0: there is none. *)
Revisions == Nat

Publications == [job : Jobs \cup {NoJob}, token : 0 .. MostAttempts, cert : Identities]

JobRows == [status    : {"absent", "queued", "running"} \cup Terminal,
            attempts  : 0 .. MostAttempts,
            max       : 0 .. MostAttempts,
            owner     : 0 .. MostAttempts,
            live      : BOOLEAN,   \* lease_expires_at is in the future
            kind      : {"none", "retryable", "permanent"},
            mode      : {"prepare", "publish"},
            awaiting  : BOOLEAN,
            identity  : Identities,   \* payload: input identity and base publication
            inputs    : Identities,   \* artifact "inputs"
            expected  : Revisions,    \* the revision pinned with them
            candidate : Identities,   \* artifact "candidate"
            stage     : {"none", "waiting", "prepared", "calibrating", "accepted",
                         "staging", "staged", "publishing", "published",
                         "verification_pending", "verified", "held"},
            pub       : Revisions]    \* publication_id of the stage

Working == {"inputs", "pin", "candidate", "reuse", "reused", "calibrate", "fit", "verify",
            "checked", "matching", "stage", "activate", "published", "pending",
            "readback", "verified", "complete"}
Handling == {"unavailable", "failing", "hold", "conflict", "abort"}

Runners == [pc : {"idle", "claim"} \cup Working \cup Handling,
            job : Jobs \cup {NoJob}, token : 0 .. MostAttempts,
            pinned : Identities, expected : Revisions, pub : Revisions]

AbsentJob == [status |-> "absent", attempts |-> 0, max |-> 0, owner |-> 0, live |-> FALSE,
              kind |-> "none", mode |-> "prepare", awaiting |-> FALSE, identity |-> None,
              inputs |-> None, expected |-> 0, candidate |-> None, stage |-> "none", pub |-> 0]

Idle == [pc |-> "idle", job |-> NoJob, token |-> 0, pinned |-> None, expected |-> 0, pub |-> 0]

TypeOK ==
    /\ source \in 0 .. MaxVersion /\ lineage \in 0 .. MaxLineage
    /\ pubs \in Seq(Publications)
    /\ job \in [Jobs -> JobRows] /\ \A j \in Jobs : job[j].attempts <= job[j].max
    /\ worker \in [Workers -> Runners]

Init ==
    /\ source \in 0 .. 1
    /\ lineage = 0
    /\ pubs = <<>>
    /\ job = [j \in Jobs |-> AbsentJob]
    /\ worker = [w \in Workers |-> Idle]

-----------------------------------------------------------------------------
Active == Len(pubs)
Fields(w) == job[worker[w].job]

(* Slip: the claim is told by its number alone, which a row keeps when it  *)
(* is released.                                                            *)
OwnedByAttempt(w) == worker[w].job \in Jobs /\ Fields(w).attempts = worker[w].token

(* The row still carries the claim of w ... *)
Owned(w) ==
    /\ worker[w].job \in Jobs
    /\ Fields(w).status = "running"
    /\ Fields(w).owner = worker[w].token

(* Slips a change to the runner could make; each is shown to break one of  *)
(* the properties below when it takes the place of the real operator.      *)
GuardedByAnyOwner(w) == worker[w].job \in Jobs /\ Fields(w).status = "running" /\ Fields(w).live
SourceOnly(j) == source = job[j].inputs.source
CommittedByAttempt(w) ==
    {p \in DOMAIN pubs : /\ pubs[p].job = worker[w].job /\ pubs[p].token = worker[w].token
                         /\ pubs[p].cert = Fields(w).candidate}
DonorsOfAnyLineage(j) ==
    {d \in Jobs \ {j} : /\ job[d].status = "succeeded" /\ job[d].candidate # None
                        /\ job[d].identity.source = job[j].inputs.source}
NeverExhausted(j) == FALSE

(* ... and its lease has not run out: _guard. *)
Guarded(w) == Owned(w) /\ Fields(w).live

(* What a job was pinned to is what the database still holds. *)
SourceUnchanged(j) == source = job[j].inputs.source /\ lineage = job[j].inputs.lineage

Goto(w, pc) == worker' = [worker EXCEPT ![w].pc = pc]
Exit(w) == worker' = [worker EXCEPT ![w] = Idle]
SetStage(w, stage) == job' = [job EXCEPT ![worker[w].job].stage = stage]

Release(row, status) == [row EXCEPT !.status = status, !.owner = 0, !.live = FALSE]

-----------------------------------------------------------------------------
(* Commands.                                                               *)

(* The inputs are pinned in one read; the job, its artifact and its stage  *)
(* are written in one transaction.  Without inputs the job waits for them, *)
(* or carries the error its first claim will report.                       *)
Submit(j, mode, outcome) ==
    /\ job[j].status = "absent"
    /\ outcome = "pinned" => source > 0
    /\ LET pin == IF outcome = "pinned" THEN [source |-> source, lineage |-> lineage] ELSE None
       IN  job' = [job EXCEPT ![j] = [AbsentJob EXCEPT
               !.status = "queued", !.max = MaxAttempts, !.mode = mode,
               !.awaiting = (outcome = "awaiting"), !.identity = pin, !.inputs = pin,
               !.expected = IF outcome = "pinned" THEN Active ELSE 0,
               !.stage = IF outcome = "pinned" THEN "prepared" ELSE "waiting"]]
    /\ UNCHANGED <<source, lineage, pubs, worker>>

RequestCancel(j) ==
    /\ job[j].status \in {"queued", "running"}
    /\ job' = [job EXCEPT ![j] = Release(@, "cancelled")]
    /\ UNCHANGED <<source, lineage, pubs, worker>>

(* An audited retry grants more claims to an execution failure, once the   *)
(* pinned inputs are seen to be current.                                   *)
Retry(j) ==
    /\ job[j].status = "failed" /\ job[j].kind = "retryable"
    /\ IF job[j].inputs # None THEN SourceUnchanged(j) ELSE job[j].awaiting
    /\ job[j].max + RetryGrant <= MostAttempts
    /\ job' = [job EXCEPT ![j].status = "queued", ![j].max = @ + RetryGrant]
    /\ UNCHANGED <<source, lineage, pubs, worker>>

(* The last permitted claim died. *)
Exhausted(j) ==
    job[j].status = "running" /\ ~job[j].live /\ job[j].attempts >= job[j].max

(* run_daily first turns a crash on the final claim into a failure that    *)
(* can be retried.  A finished job would be left as it is.                 *)
Run(w, j) ==
    /\ worker[w].pc = "idle"
    /\ job[j].status \in {"queued", "running"}
    /\ job' = IF Exhausted(j)
                THEN [job EXCEPT ![j] = [Release(@, "failed") EXCEPT !.kind = "retryable"]]
                ELSE job
    /\ worker' = [worker EXCEPT ![w] = [Idle EXCEPT !.pc = "claim", !.job = j]]
    /\ UNCHANGED <<source, lineage, pubs>>

Claimable(j) ==
    /\ job[j].attempts < job[j].max
    /\ job[j].status = "queued" \/ (job[j].status = "running" /\ ~job[j].live)

Claim(w) ==
    /\ worker[w].pc = "claim"
    /\ LET j == worker[w].job
           token == job[j].attempts + 1
       IN  IF Claimable(j)
             THEN /\ job' = [job EXCEPT ![j].status = "running", ![j].attempts = token,
                                        ![j].owner = token, ![j].live = TRUE]
                  /\ worker' = [worker EXCEPT ![w].pc = "inputs", ![w].token = token]
             ELSE Exit(w) /\ UNCHANGED job
    /\ UNCHANGED <<source, lineage, pubs>>

-----------------------------------------------------------------------------
(* _run_claimed: the inputs.                                               *)

ReadInputs(w) ==
    /\ worker[w].pc = "inputs"
    /\ IF Fields(w).inputs # None THEN Goto(w, "candidate")
       ELSE IF ~Fields(w).awaiting THEN Goto(w, "hold")
       ELSE IF source = 0 THEN Goto(w, "unavailable")
       ELSE worker' = [worker EXCEPT ![w].pc = "pin", ![w].expected = Active,
                         ![w].pinned = [source |-> source, lineage |-> lineage]]
    /\ UNCHANGED <<source, lineage, pubs, job>>

InsertInputs(w) ==
    /\ worker[w].pc = "pin" /\ Guarded(w)
    /\ job' = [job EXCEPT ![worker[w].job].inputs = worker[w].pinned,
                          ![worker[w].job].expected = worker[w].expected]
    /\ worker' = [worker EXCEPT ![w].pc = "candidate", ![w].pinned = None, ![w].expected = 0]
    /\ UNCHANGED <<source, lineage, pubs>>

-----------------------------------------------------------------------------
(* The candidate: saved, reused from another job, or fitted.               *)

ReadCandidate(w) ==
    /\ worker[w].pc = "candidate"
    /\ Goto(w, IF Fields(w).candidate # None THEN "verify" ELSE "reuse")
    /\ UNCHANGED <<source, lineage, pubs, job>>

(* Succeeded jobs whose payload pins the inputs and the base that j has,   *)
(* and the warm start that is in the payload of j.                         *)
Donors(j) ==
    {d \in Jobs \ {j} : /\ job[d].status = "succeeded" /\ job[d].candidate # None
                        /\ job[d].identity = job[j].inputs
                        /\ job[d].identity.lineage = job[j].identity.lineage}

Reuse(w) ==
    /\ worker[w].pc = "reuse" /\ Guarded(w)
    /\ LET j == worker[w].job
       IN  IF Donors(j) = {} THEN Goto(w, "calibrate") /\ UNCHANGED job
           ELSE /\ \E d \in Donors(j) : job' = [job EXCEPT ![j].candidate = job[d].candidate]
                /\ Goto(w, "reused")
    /\ UNCHANGED <<source, lineage, pubs>>

(* store.transition: the stage moves under the fence. *)
Transition(w, from, to, stage) ==
    /\ worker[w].pc = from /\ Guarded(w)
    /\ SetStage(w, stage)
    /\ Goto(w, to)
    /\ UNCHANGED <<source, lineage, pubs>>

(* store.put; that the candidate is for these inputs is checked after it. *)
Fit(w) ==
    /\ worker[w].pc = "fit" /\ Guarded(w)
    /\ job' = [job EXCEPT ![worker[w].job].candidate = Fields(w).inputs]
    /\ Goto(w, "verify")
    /\ UNCHANGED <<source, lineage, pubs>>

-----------------------------------------------------------------------------
(* The publication.                                                        *)

(* Publications under the key of this job and candidate. *)
Committed(w) ==
    {p \in DOMAIN pubs : pubs[p].job = worker[w].job /\ pubs[p].cert = Fields(w).candidate}

(* The revision that was active when the inputs were pinned still is, and  *)
(* certifies the same candidate.                                           *)
Matching(w) ==
    LET expected == Fields(w).expected
    IN  expected # 0 /\ expected = Active /\ pubs[expected].cert = Fields(w).candidate

(* A prepared job checks its source; a publishing one looks for a commit   *)
(* whose answer was lost, then for an equal active revision.               *)
Verify(w) ==
    /\ worker[w].pc = "verify"
    /\ IF Fields(w).mode = "prepare"
         THEN Guarded(w) /\ Goto(w, IF SourceUnchanged(worker[w].job) THEN "checked" ELSE "hold")
       ELSE IF Committed(w) # {}
         THEN IF Active \in Committed(w)
                THEN worker' = [worker EXCEPT ![w].pc = "published", ![w].pub = Active]
                ELSE Goto(w, "hold")
       ELSE Goto(w, IF Matching(w) THEN "matching" ELSE "stage")
    /\ UNCHANGED <<source, lineage, pubs, job>>

Match(w) ==
    /\ worker[w].pc = "matching" /\ Guarded(w)
    /\ IF ~SourceUnchanged(worker[w].job) THEN Goto(w, "hold")
       ELSE IF Matching(w)
         THEN worker' = [worker EXCEPT ![w].pc = "published", ![w].pub = Active]
       ELSE Goto(w, "stage")
    /\ UNCHANGED <<source, lineage, pubs, job>>

(* publish_hybrid_surface reports its progress while it stages. *)
Announce(w) ==
    /\ worker[w].pc = "activate" /\ Guarded(w)
    /\ \/ Fields(w).stage = "staging" /\ SetStage(w, "staged")
       \/ Fields(w).stage = "staged" /\ SetStage(w, "publishing")
    /\ UNCHANGED <<source, lineage, pubs, worker>>

(* Its last transaction calls source_guard, then replaces the revision the *)
(* job expects, or refuses.                                                *)
Activate(w) ==
    /\ worker[w].pc = "activate" /\ Guarded(w)
    /\ LET j == worker[w].job
       IN  IF ~SourceUnchanged(j) THEN Goto(w, "hold") /\ UNCHANGED pubs
           ELSE IF job[j].expected # Active THEN Goto(w, "conflict") /\ UNCHANGED pubs
           ELSE /\ pubs' = Append(pubs, [job |-> j, token |-> worker[w].token,
                                         cert |-> job[j].candidate])
                /\ worker' = [worker EXCEPT ![w].pc = "published", ![w].pub = Active + 1]
    /\ UNCHANGED <<source, lineage, job>>

Published(w) ==
    /\ worker[w].pc = "published" /\ Guarded(w)
    /\ job' = [job EXCEPT ![worker[w].job].stage = "published",
                          ![worker[w].job].pub = worker[w].pub]
    /\ worker' = [worker EXCEPT ![w].pc = "pending", ![w].pub = 0]
    /\ UNCHANGED <<source, lineage, pubs>>

(* The full canonical readback, then cancelled(force=True). *)
Readback(w) ==
    /\ worker[w].pc = "readback" /\ Guarded(w)
    /\ Goto(w, "verified")
    /\ UNCHANGED <<source, lineage, pubs, job>>

Complete(w) ==
    /\ worker[w].pc = "complete" /\ Guarded(w)
    /\ job' = [job EXCEPT ![worker[w].job] = Release(@, "succeeded")]
    /\ Exit(w)
    /\ UNCHANGED <<source, lineage, pubs>>

-----------------------------------------------------------------------------
(* Failures.                                                               *)

(* A fit, a certificate, a readback or an authorization is refused. *)
Refuse(w) ==
    /\ worker[w].pc \in Working
    /\ Goto(w, "hold")
    /\ UNCHANGED <<source, lineage, pubs, job>>

(* If the transition finds the lease gone, its LeaseLost leaves run_daily. *)
Hold(w) ==
    /\ worker[w].pc \in {"hold", "conflict"}
    /\ IF Guarded(w) THEN SetStage(w, "held") /\ Goto(w, "abort")
                     ELSE UNCHANGED job /\ Exit(w)
    /\ UNCHANGED <<source, lineage, pubs>>

Abort(w) ==
    /\ worker[w].pc = "abort"
    /\ job' = IF Guarded(w)
                THEN [job EXCEPT ![worker[w].job] =
                        [Release(@, "failed") EXCEPT !.kind = "permanent"]]
                ELSE job
    /\ Exit(w)
    /\ UNCHANGED <<source, lineage, pubs>>

Unavailable(w) ==
    /\ worker[w].pc = "unavailable"
    /\ IF Guarded(w) THEN SetStage(w, "waiting") /\ Goto(w, "failing")
                     ELSE UNCHANGED job /\ Exit(w)
    /\ UNCHANGED <<source, lineage, pubs>>

(* A transient database failure, a heartbeat that failed or a guard that   *)
(* found the lease lost: fail, which needs the claim but no live lease.    *)
Fail(w) ==
    /\ worker[w].pc \in Working \cup {"failing"}
    /\ job' = IF Owned(w)
                THEN [job EXCEPT ![worker[w].job] =
                        [Release(@, IF @.attempts < @.max THEN "queued" ELSE "failed")
                           EXCEPT !.kind = "retryable"]]
                ELSE job
    /\ Exit(w)
    /\ UNCHANGED <<source, lineage, pubs>>

Crash(w) ==
    /\ worker[w].pc # "idle"
    /\ Exit(w)
    /\ UNCHANGED <<source, lineage, pubs, job>>

-----------------------------------------------------------------------------
(* What the runner does not decide.                                        *)

Expire(j) ==
    /\ job[j].live
    /\ job' = [job EXCEPT ![j].live = FALSE]
    /\ UNCHANGED <<source, lineage, pubs, worker>>

SourceMoves ==
    /\ source < MaxVersion /\ source' = source + 1
    /\ UNCHANGED <<lineage, pubs, job, worker>>

LineageMoves ==
    /\ lineage < MaxLineage /\ lineage' = lineage + 1
    /\ UNCHANGED <<source, pubs, job, worker>>

(* Another publisher replaces the active revision. *)
OtherPublishes ==
    /\ Cardinality({p \in DOMAIN pubs : pubs[p].job = NoJob}) < MaxOthers
    /\ pubs' = Append(pubs, [job |-> NoJob, token |-> 0, cert |-> None])
    /\ UNCHANGED <<source, lineage, job, worker>>

-----------------------------------------------------------------------------
Step(w) ==
    \/ Claim(w) \/ ReadInputs(w) \/ InsertInputs(w) \/ ReadCandidate(w) \/ Reuse(w)
    \/ Transition(w, "reused", "verify", "accepted")
    \/ Transition(w, "calibrate", "fit", "calibrating")
    \/ Fit(w) \/ Verify(w) \/ Match(w)
    \/ Transition(w, "checked", "complete", "accepted")
    \/ Transition(w, "stage", "activate", "staging")
    \/ Announce(w) \/ Activate(w) \/ Published(w)
    \/ Transition(w, "pending", "readback", "verification_pending")
    \/ Readback(w)
    \/ Transition(w, "verified", "complete", "verified")
    \/ Complete(w) \/ Hold(w) \/ Abort(w) \/ Unavailable(w) \/ Fail(w)

Next ==
    \/ SourceMoves \/ LineageMoves \/ OtherPublishes
    \/ \E j \in Jobs :
         \/ \E mode \in {"prepare", "publish"}, outcome \in {"pinned", "awaiting", "broken"} :
               Submit(j, mode, outcome)
         \/ RequestCancel(j) \/ Retry(j) \/ Expire(j)
         \/ \E w \in Workers : Run(w, j)
    \/ \E w \in Workers : Step(w) \/ Refuse(w) \/ Crash(w)

Spec == Init /\ [][Next]_vars

Unattended(j) == \A w \in Workers : worker[w].job = j => ~Owned(w)

(* A process keeps executing; the lease of a job nobody works on runs out; *)
(* a job that is not finished is run again, by the batch command or by its *)
(* owner (there is no scheduler that does it), and not every process that  *)
(* is run dies before its claim.                                           *)
Fairness ==
    /\ \A w \in Workers : WF_vars(Step(w))
    /\ \A j \in Jobs : WF_vars(Unattended(j) /\ Expire(j))
    /\ \A j \in Jobs : WF_vars(\E w \in Workers : Run(w, j))
    /\ SF_vars(\E w \in Workers : Claim(w))

FairSpec == Spec /\ Fairness

-----------------------------------------------------------------------------
(* Properties.                                                             *)

(* What was saved stands, whoever still runs the job: inputs, the revision *)
(* pinned with them and a candidate are saved once, though the process     *)
(* that lost the job in between has read a later source; and a job that    *)
(* succeeded, was cancelled or was held keeps its row and its revisions,   *)
(* whatever its processes had under way, a failure to record included.     *)
Settled(j) ==
    \/ job[j].status \in {"succeeded", "cancelled"}
    \/ job[j].status = "failed" /\ job[j].kind = "permanent"

SavedStands ==
    [][\A j \in Jobs :
         /\ job[j].inputs # None =>
              job'[j].inputs = job[j].inputs /\ job'[j].expected = job[j].expected
         /\ job[j].candidate # None => job'[j].candidate = job[j].candidate
         /\ Settled(j) =>
              /\ job'[j] = job[j]
              /\ \A p \in DOMAIN pubs' : pubs'[p].job = j => p \in DOMAIN pubs]_vars

(* What is activated was fitted to the source and to the preceding         *)
(* publication as they are then, whatever moved since the inputs were      *)
(* pinned or a candidate was taken from another job.                       *)
CurrentActivation ==
    [][Len(pubs') > Len(pubs) /\ pubs'[Len(pubs')].job # NoJob =>
         pubs'[Len(pubs')].cert = [source |-> source, lineage |-> lineage]]_vars

(* A job's success speaks of its own candidate: a publishing job has a     *)
(* verified stage that names a revision with its certificate, a preparing  *)
(* one is accepted and has published nothing.                              *)
SuccessVerified ==
    \A j \in Jobs : job[j].status = "succeeded" =>
        IF job[j].mode = "publish"
          THEN /\ job[j].stage = "verified" /\ job[j].pub \in DOMAIN pubs
               /\ pubs[job[j].pub].cert = job[j].candidate
          ELSE /\ job[j].stage = "accepted"
               /\ \A p \in DOMAIN pubs : pubs[p].job # j

(* A candidate certifies the inputs of the job it is stored with, also     *)
(* when another job fitted it.                                             *)
CandidateFits ==
    \A j \in Jobs : job[j].candidate # None => job[j].candidate = job[j].inputs

(* A commit whose answer was lost is found again before anything is        *)
(* replayed: no job is held for a conflict with its own publication, and   *)
(* none publishes twice.                                                   *)
OwnCommitFound ==
    /\ \A w \in Workers : worker[w].pc = "conflict" => pubs[Active].job # worker[w].job
    /\ \A p, q \in DOMAIN pubs : pubs[p].job = pubs[q].job /\ pubs[p].job # NoJob => p = q

(* A submitted job is settled: a crash on the final claim does not leave   *)
(* it running for ever.                                                    *)
Settles == \A j \in Jobs : job[j].status = "queued" ~> job[j].status \in Terminal
=============================================================================
