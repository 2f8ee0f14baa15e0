--------------------------- MODULE DailyRunProofs ---------------------------
(***************************************************************************)
(* Theorems about DailyRun for any jobs, processes and bounds.  A process  *)
(* may believe anything about a job it lost; what its program counter says *)
(* of the rows holds while the row still carries its claim, and the fence  *)
(* that every transaction repeats makes that enough.                       *)
(***************************************************************************)
EXTENDS DailyRun, TLAPS

-----------------------------------------------------------------------------
(* Constants and rows.                                                     *)

LEMMA Bounds ==
    /\ MostAttempts \in Nat /\ MaxAttempts \in 0 .. MostAttempts /\ MaxAttempts > 0
    /\ 0 \in 0 .. MostAttempts /\ 0 \in 0 .. MaxVersion /\ 0 \in 0 .. MaxLineage
    /\ RetryGrant \in Nat
<1>1. RetryGrant * MaxRetries \in Nat
  BY BoundsAssumption
<1> QED
  BY <1>1, BoundsAssumption DEF MostAttempts

LEMMA BlankRows == None \in Identities /\ AbsentJob \in JobRows /\ Idle \in Runners
<1>1. None \in Identities
  BY Bounds DEF None, Identities
<1>2. AbsentJob \in JobRows
  BY <1>1, Bounds DEF AbsentJob, JobRows, Terminal, Revisions
<1>3. Idle \in Runners
  BY <1>1, Bounds DEF Idle, Runners, Revisions
<1> QED
  BY <1>1, <1>2, <1>3

(* What is read at one moment is an identity, and none when there is no    *)
(* source.                                                                 *)
LEMMA CurrentIdentity ==
    ASSUME TypeOK
    PROVE  /\ [source |-> source, lineage |-> lineage] \in Identities
           /\ source > 0 => [source |-> source, lineage |-> lineage] # None
BY Bounds, BoundsAssumption DEF TypeOK, Identities, None

(* A row that is released keeps what it says of the calibration.           *)
LEMMA ReleasedRow ==
    ASSUME NEW row \in JobRows, NEW status \in {"queued"} \cup Terminal
    PROVE  /\ Release(row, status) \in JobRows
           /\ Release(row, status).status = status /\ Release(row, status).owner = 0
           /\ Release(row, status).live = FALSE
           /\ Release(row, status).attempts = row.attempts /\ Release(row, status).max = row.max
           /\ Release(row, status).mode = row.mode /\ Release(row, status).identity = row.identity
           /\ Release(row, status).inputs = row.inputs /\ Release(row, status).expected = row.expected
           /\ Release(row, status).candidate = row.candidate /\ Release(row, status).stage = row.stage
           /\ Release(row, status).pub = row.pub
BY Bounds DEF Release, JobRows

-----------------------------------------------------------------------------
(* The invariant.                                                          *)

Claimed == Working \cup Handling
NoPublication(j) == \A p \in DOMAIN pubs : pubs[p].job # j
Certifies(p, j) == p \in DOMAIN pubs /\ pubs[p].cert = job[j].candidate

Verified(j) ==
    IF job[j].mode = "publish" THEN job[j].stage = "verified" /\ Certifies(job[j].pub, j)
                               ELSE job[j].stage = "accepted"

JobOK(j) ==
    /\ job[j].status = "absent" => job[j] = AbsentJob
    /\ job[j].identity # None => job[j].inputs = job[j].identity
    /\ job[j].candidate # None => job[j].candidate = job[j].inputs
    /\ job[j].expected <= Len(pubs)
    /\ job[j].status = "running" => job[j].owner > 0
    /\ job[j].status = "succeeded" => Verified(j)

(* A revision of a job is what the job published: once, with the candidate *)
(* it still has.                                                           *)
PubOK(p) ==
    pubs[p].job \in Jobs =>
        /\ job[pubs[p].job].mode = "publish"
        /\ job[pubs[p].job].candidate # None
        /\ pubs[p].cert = job[pubs[p].job].candidate

PublishedOnce ==
    \A p, q \in DOMAIN pubs : pubs[p].job = pubs[q].job /\ pubs[p].job # NoJob => p = q

(* What the owner of a job knows at each step.                             *)
Knows(w) ==
    LET pc == worker[w].pc
        j == worker[w].job
    IN  /\ pc = "pin" => job[j].inputs = None
        /\ pc \in {"candidate", "reuse", "reused", "calibrate", "fit"} => job[j].inputs # None
        /\ pc \in {"reuse", "calibrate", "fit"} => job[j].candidate = None
        /\ pc \in {"reused", "verify", "matching", "stage", "activate"} => job[j].candidate # None
        /\ pc \in {"matching", "stage", "activate"} => job[j].mode = "publish" /\ NoPublication(j)
        /\ pc = "checked" => job[j].mode = "prepare"
        /\ pc = "published" => job[j].mode = "publish" /\ Certifies(worker[w].pub, j)
        /\ pc \in {"pending", "readback", "verified"} =>
             job[j].mode = "publish" /\ Certifies(job[j].pub, j)
        /\ pc = "complete" => Verified(j)

(* What holds of a process whether it still owns its job or not: the       *)
(* revision a job expected is gone for good once it was replaced.          *)
WorkerOK(w) ==
    /\ worker[w].pc # "idle" => worker[w].job \in Jobs
    /\ worker[w].pc \in Claimed =>
         worker[w].token > 0 /\ worker[w].token <= job[worker[w].job].attempts
    /\ worker[w].pc \notin Claimed => worker[w].token = 0
    /\ worker[w].expected <= Len(pubs)
    /\ worker[w].pc = "pin" => worker[w].pinned # None
    /\ worker[w].pc = "conflict" =>
         /\ job[worker[w].job].inputs # None
         /\ job[worker[w].job].expected < Len(pubs)
         /\ NoPublication(worker[w].job)
    /\ Owned(w) => Knows(w)

TokensUnique ==
    \A v, w \in Workers :
        /\ worker[v].pc \in Claimed /\ worker[w].pc \in Claimed
        /\ worker[v].job = worker[w].job /\ worker[v].token = worker[w].token
        => v = w

IInv ==
    /\ TypeOK
    /\ \A j \in Jobs : JobOK(j)
    /\ \A p \in DOMAIN pubs : PubOK(p)
    /\ PublishedOnce
    /\ \A w \in Workers : WorkerOK(w)
    /\ TokensUnique

-----------------------------------------------------------------------------
(* What a step does to one job and to one process.                         *)

SameRow(j) ==
    /\ job'[j].mode = job[j].mode /\ job'[j].identity = job[j].identity
    /\ job'[j].inputs = job[j].inputs /\ job'[j].expected = job[j].expected
    /\ job'[j].candidate = job[j].candidate
    /\ job'[j].stage = job[j].stage /\ job'[j].pub = job[j].pub

(* A step of somebody who does not work on the job.                        *)
Kept(j) ==
    /\ SameRow(j)
    /\ job'[j].status = "absent" => job'[j] = job[j]
    /\ job[j].status = "absent" => job'[j].status = "absent"
    /\ job'[j].status = "succeeded" => job[j].status = "succeeded"
    /\ job[j].attempts <= job'[j].attempts
    /\ job'[j].status = "running" =>
         \/ job[j].status = "running" /\ job'[j].owner = job[j].owner
         \/ job'[j].owner > job[j].attempts

(* A step of the owner.                                                    *)
Grows(j) ==
    /\ job[j].status # "absent" /\ job'[j].status # "absent"
    /\ job'[j].mode = job[j].mode /\ job'[j].identity = job[j].identity
    /\ job[j].inputs # None => job'[j].inputs = job[j].inputs /\ job'[j].expected = job[j].expected
    /\ job[j].candidate # None => job'[j].candidate = job[j].candidate
    /\ job[j].attempts <= job'[j].attempts
    /\ job'[j].status = "running" => job'[j].owner = job[j].owner

Steps(w, r) == worker' = [worker EXCEPT ![w] = r]

LEMMA StepsEffect ==
    ASSUME TypeOK, NEW w \in Workers, NEW r \in Runners, Steps(w, r)
    PROVE  /\ worker' \in [Workers -> Runners] /\ worker'[w] = r
           /\ \A x \in Workers : x # w => worker'[x] = worker[x]
BY DEF TypeOK, Steps

LEMMA GotoEffect ==
    ASSUME TypeOK, NEW w \in Workers, NEW pc \in Working \cup Handling, Goto(w, pc)
    PROVE  /\ worker' \in [Workers -> Runners]
           /\ worker'[w].pc = pc
           /\ worker'[w].job = worker[w].job /\ worker'[w].token = worker[w].token
           /\ worker'[w].pinned = worker[w].pinned /\ worker'[w].expected = worker[w].expected
           /\ worker'[w].pub = worker[w].pub
           /\ \A x \in Workers : x # w => worker'[x] = worker[x]
<1> DEFINE r == [worker[w] EXCEPT !.pc = pc]
<1>1. worker[w] \in Runners
  BY DEF TypeOK
<1>2. r \in Runners /\ r.pc = pc /\ r.job = worker[w].job /\ r.token = worker[w].token
      /\ r.pinned = worker[w].pinned /\ r.expected = worker[w].expected /\ r.pub = worker[w].pub
  BY <1>1 DEF Runners
<1>3. Steps(w, r)
  BY DEF Goto, Steps
<1> QED
  BY <1>2, <1>3, StepsEffect

LEMMA RowEffect ==
    ASSUME TypeOK, NEW j \in Jobs, NEW row \in JobRows, row.attempts <= row.max,
           job' = [job EXCEPT ![j] = row]
    PROVE  /\ job' \in [Jobs -> JobRows] /\ \A k \in Jobs : job'[k].attempts <= job'[k].max
           /\ job'[j] = row
           /\ \A k \in Jobs : k # j => job'[k] = job[k]
BY DEF TypeOK

LEMMA UnchangedKept ==
    ASSUME TypeOK, NEW j \in Jobs, job'[j] = job[j]
    PROVE  Kept(j)
<1>1. job[j] \in JobRows
  BY DEF TypeOK
<1> QED
  BY <1>1 DEF Kept, SameRow, JobRows

LEMMA KeptJobOK ==
    ASSUME IInv, TypeOK', NEW j \in Jobs, Kept(j), pubs' = pubs
    PROVE  JobOK(j)'
<1>1. job[j] \in JobRows /\ job'[j] \in JobRows /\ JobOK(j)
  BY DEF IInv, TypeOK
<1>2. ASSUME job'[j].status = "running" PROVE job'[j].owner > 0
  <2>1. CASE job[j].status = "running" /\ job'[j].owner = job[j].owner
    BY <1>1, <2>1 DEF JobOK
  <2>2. CASE job'[j].owner > job[j].attempts
    <3>1. job[j].attempts \in Nat /\ job'[j].owner \in Nat
      BY <1>1, Bounds DEF JobRows
    <3> QED
      BY <2>2, <3>1
  <2> QED
    BY <1>2, <2>1, <2>2 DEF Kept
<1> QED
  BY <1>1, <1>2 DEF JobOK, Kept, SameRow, Verified, Certifies

(* A job that is there and was given a candidate has inputs and a claim.   *)
LEMMA CandidateHasRow ==
    ASSUME IInv, NEW j \in Jobs, job[j].candidate # None \/ job[j].inputs # None
    PROVE  job[j].status # "absent"
BY DEF IInv, JobOK, AbsentJob

LEMMA PubsKept ==
    ASSUME IInv, pubs' = pubs, \A j \in Jobs : Kept(j) \/ Grows(j)
    PROVE  (\A p \in DOMAIN pubs : PubOK(p))' /\ PublishedOnce'
<1>1. ASSUME NEW p \in DOMAIN pubs, pubs[p].job \in Jobs
      PROVE  /\ job'[pubs[p].job].mode = "publish"
             /\ job'[pubs[p].job].candidate # None
             /\ pubs[p].cert = job'[pubs[p].job].candidate
  BY <1>1 DEF IInv, PubOK, Kept, SameRow, Grows
<1> QED
  BY <1>1 DEF IInv, PubOK, PublishedOnce

(* The owner of a job is a process that claimed it.                        *)
LEMMA OwnersClaim ==
    ASSUME IInv, NEW x \in Workers, worker[x].job \in Jobs,
           job[worker[x].job].status = "running", job[worker[x].job].owner = worker[x].token
    PROVE  worker[x].pc \in Claimed
<1>1. WorkerOK(x) /\ JobOK(worker[x].job)
  BY DEF IInv
<1> QED
  BY <1>1 DEF WorkerOK, JobOK

(* A process that makes no step keeps what it knows, unless it is not the  *)
(* owner any more.                                                         *)
LEMMA Bystander ==
    ASSUME IInv, TypeOK', NEW x \in Workers, worker'[x] = worker[x], pubs' = pubs,
           \A j \in Jobs : Kept(j) \/ Grows(j),
           Owned(x)' => Owned(x) /\ SameRow(worker[x].job)
    PROVE  WorkerOK(x)'
<1> DEFINE j == worker[x].job
<1>1. WorkerOK(x) /\ TypeOK
  BY DEF IInv
<1>2. CASE j \notin Jobs
  <2>1. worker[x].pc = "idle" /\ ~Owned(x)'
    BY <1>1, <1>2 DEF WorkerOK, Owned
  <2> QED
    BY <1>1, <2>1 DEF WorkerOK, Claimed, Working, Handling
<1>3. CASE j \in Jobs
  <2>1. job[j].attempts <= job'[j].attempts /\ job[j].attempts \in Nat
    <3>1. job[j] \in JobRows
      BY <1>1, <1>3 DEF TypeOK
    <3> QED
      BY <1>3, <3>1, Bounds DEF Kept, Grows, JobRows
  <2>2. worker[x].pc \in Claimed =>
          worker[x].token > 0 /\ worker[x].token <= job'[j].attempts
    <3>1. worker[x] \in Runners
      BY <1>1 DEF TypeOK
    <3>2. worker[x].token \in Nat
      BY <3>1, Bounds DEF Runners
    <3>3. job'[j].attempts \in Nat
      <4>1. job'[j] \in JobRows
        BY <1>3 DEF TypeOK
      <4> QED
        BY <4>1, Bounds DEF JobRows
    <3> QED
      BY <1>1, <2>1, <3>2, <3>3 DEF WorkerOK
  <2>3. worker[x].pc = "conflict" =>
          /\ job'[j].inputs # None /\ job'[j].expected < Len(pubs) /\ NoPublication(j)
    BY <1>1, <1>3 DEF WorkerOK, Kept, SameRow, Grows
  <2>4. Owned(x)' => Knows(x)'
    BY <1>1 DEF WorkerOK, Knows, SameRow, NoPublication, Certifies, Verified
  <2> QED
    BY <1>1, <1>3, <2>2, <2>3, <2>4 DEF WorkerOK, NoPublication
<1> QED
  BY <1>2, <1>3

(* A step that keeps the row makes nobody its owner.                       *)
LEMMA StillOwner ==
    ASSUME IInv, NEW x \in Workers, worker'[x] = worker[x], Owned(x)', Kept(worker[x].job)
    PROVE  Owned(x) /\ SameRow(worker[x].job)
<1> DEFINE j == worker[x].job
<1>1. j \in Jobs /\ job'[j].status = "running" /\ job'[j].owner = worker[x].token
  BY DEF Owned, Fields
<1>2. SameRow(j) /\ (\/ job[j].status = "running" /\ job'[j].owner = job[j].owner
                     \/ job'[j].owner > job[j].attempts)
  BY <1>1 DEF Kept
<1>3. ~(job'[j].owner > job[j].attempts)
  <2>1. job[j] \in JobRows /\ worker[x] \in Runners /\ WorkerOK(x)
    BY <1>1 DEF IInv, TypeOK
  <2>2. job[j].attempts \in Nat /\ worker[x].token \in Nat
    BY <2>1, Bounds DEF JobRows, Runners
  <2>3. worker[x].token <= job[j].attempts
    BY <2>1, <2>2 DEF WorkerOK
  <2> QED
    BY <1>1, <2>2, <2>3
<1> QED
  BY <1>1, <1>2, <1>3 DEF Owned, Fields

(* A step of process w, or of nobody: jobs it does not own are kept, and   *)
(* it stays with its claim or gives it up.                                 *)
LEMMA WorkerStep ==
    ASSUME IInv, TypeOK', NEW w, pubs' = pubs,
           \A x \in Workers : x # w => worker'[x] = worker[x],
           w \in Workers =>
             /\ WorkerOK(w)'
             /\ worker'[w].pc \in Claimed => /\ worker[w].pc \in Claimed
                                             /\ worker'[w].job = worker[w].job
                                             /\ worker'[w].token = worker[w].token,
           \A j \in Jobs : \/ Kept(j)
                           \/ /\ w \in Workers /\ Owned(w) /\ j = worker[w].job
                              /\ Grows(j) /\ JobOK(j)'
    PROVE  IInv'
<1>1. \A j \in Jobs : JobOK(j)'
  BY KeptJobOK
<1>2. (\A p \in DOMAIN pubs : PubOK(p))' /\ PublishedOnce'
  BY PubsKept
<1>3. ASSUME NEW x \in Workers, x # w PROVE WorkerOK(x)'
  <2>1. worker'[x] = worker[x] /\ WorkerOK(x) /\ worker[x] \in Runners
    BY <1>3 DEF IInv, TypeOK
  <2>2. ASSUME Owned(x)' PROVE Owned(x) /\ SameRow(worker[x].job)
    <3> DEFINE j == worker[x].job
    <3>1. j \in Jobs /\ job'[j].status = "running" /\ job'[j].owner = worker[x].token
      BY <2>1, <2>2 DEF Owned, Fields
    <3>2. CASE Kept(j)
      BY <2>1, <2>2, <3>2, StillOwner
    <3>3. CASE w \in Workers /\ Owned(w) /\ j = worker[w].job /\ Grows(j)
      <4>1. job[j].owner = worker[w].token /\ job'[j].owner = job[j].owner
        BY <3>1, <3>3 DEF Owned, Fields, Grows
      <4>2. worker[w].pc \in Claimed
        BY OwnersClaim, <3>3 DEF Owned, Fields
      <4>3. worker[x].pc \in Claimed
        <5>1. job[j].status = "running" /\ job[j].owner = worker[x].token
          BY <3>1, <3>3, <4>1 DEF Owned, Fields
        <5> QED
          BY OwnersClaim, <1>3, <3>1, <5>1
      <4> QED
        BY <1>3, <3>1, <3>3, <4>1, <4>2, <4>3 DEF IInv, TokensUnique
    <3> QED
      BY <3>1, <3>2, <3>3
  <2>3. \A j \in Jobs : Kept(j) \/ Grows(j)
    OBVIOUS
  <2> QED
    BY <1>3, <2>1, <2>2, <2>3, Bystander
<1>4. TokensUnique'
  <2>1. ASSUME NEW v \in Workers, worker'[v].pc \in Claimed
        PROVE  /\ worker[v].pc \in Claimed
               /\ worker'[v].job = worker[v].job /\ worker'[v].token = worker[v].token
    BY <2>1
  <2> QED
    BY <2>1 DEF IInv, TokensUnique
<1>5. \A x \in Workers : WorkerOK(x)'
  BY <1>3
<1> QED
  BY <1>1, <1>2, <1>4, <1>5 DEF IInv


-----------------------------------------------------------------------------
(* Steps of one process.                                                   *)

(* A process that is doing something has a job.                            *)
LEMMA Busy ==
    ASSUME IInv, NEW w \in Workers, worker[w].pc # "idle"
    PROVE  /\ worker[w] \in Runners /\ worker[w].job \in Jobs
           /\ Fields(w) = job[worker[w].job] /\ Fields(w) \in JobRows
           /\ Fields(w).attempts <= Fields(w).max
BY DEF IInv, TypeOK, WorkerOK, Fields

(* The process leaves the job.                                             *)
LEMMA Leave ==
    ASSUME IInv, NEW w \in Workers, Exit(w), UNCHANGED <<source, lineage, pubs>>,
           job' \in [Jobs -> JobRows], \A j \in Jobs : job'[j].attempts <= job'[j].max,
           \A j \in Jobs : \/ Kept(j)
                           \/ Owned(w) /\ j = worker[w].job /\ Grows(j) /\ JobOK(j)'
    PROVE  IInv'
<1>1. /\ worker' \in [Workers -> Runners] /\ worker'[w] = Idle
      /\ \A x \in Workers : x # w => worker'[x] = worker[x]
  BY BlankRows, StepsEffect DEF Exit, Steps, IInv
<1>2. TypeOK'
  BY <1>1 DEF TypeOK, IInv
<1>3. WorkerOK(w)'
  <2>1. Len(pubs) \in Nat
    BY DEF IInv, TypeOK
  <2> QED
    BY <1>1, <2>1, NullAssumption DEF WorkerOK, Idle, Owned, Claimed, Working, Handling
<1>4. worker'[w].pc \notin Claimed
  BY <1>1 DEF Idle, Claimed, Working, Handling
<1> QED
  BY <1>1, <1>2, <1>3, <1>4, WorkerStep

(* The process goes on with it.                                            *)
LEMMA Advance ==
    ASSUME IInv, NEW w \in Workers, UNCHANGED <<source, lineage, pubs>>,
           job' \in [Jobs -> JobRows], \A j \in Jobs : job'[j].attempts <= job'[j].max,
           worker' \in [Workers -> Runners],
           \A x \in Workers : x # w => worker'[x] = worker[x],
           worker[w].pc \in Claimed, worker'[w].pc \in Claimed \ {"conflict"},
           worker'[w].job = worker[w].job, worker'[w].token = worker[w].token,
           worker'[w].expected <= Len(pubs),
           worker'[w].pc = "pin" => worker'[w].pinned # None,
           Owned(w)' => Knows(w)',
           \A j \in Jobs : \/ Kept(j)
                           \/ Owned(w) /\ j = worker[w].job /\ Grows(j) /\ JobOK(j)'
    PROVE  IInv'
<1>1. TypeOK'
  BY DEF TypeOK, IInv
<1>2. worker[w].pc # "idle"
  BY DEF Claimed, Working, Handling
<1> DEFINE j == worker[w].job
<1>3. j \in Jobs /\ job[j] \in JobRows /\ job'[j] \in JobRows /\ worker[w] \in Runners
  BY <1>2, Busy DEF Fields
<1>4. worker[w].token > 0 /\ worker[w].token <= job'[j].attempts
  <2>1. worker[w].token > 0 /\ worker[w].token <= job[j].attempts
    BY DEF IInv, WorkerOK
  <2>2. job[j].attempts <= job'[j].attempts
    BY <1>3 DEF Kept, Grows
  <2>3. worker[w].token \in Nat /\ job[j].attempts \in Nat /\ job'[j].attempts \in Nat
    BY <1>3, Bounds DEF Runners, JobRows
  <2> QED
    BY <2>1, <2>2, <2>3
<1>5. WorkerOK(w)'
  BY <1>3, <1>4 DEF WorkerOK
<1> QED
  BY <1>1, <1>5, WorkerStep

LEMMA AdvanceByGoto ==
    ASSUME IInv, NEW w \in Workers, UNCHANGED <<source, lineage, pubs>>,
           job' \in [Jobs -> JobRows], \A j \in Jobs : job'[j].attempts <= job'[j].max,
           worker[w].pc \in Claimed,
           NEW pc \in (Working \cup Handling) \ {"pin", "conflict"}, Goto(w, pc),
           Owned(w)' => Knows(w)',
           \A j \in Jobs : \/ Kept(j)
                           \/ Owned(w) /\ j = worker[w].job /\ Grows(j) /\ JobOK(j)'
    PROVE  IInv'
<1>1. TypeOK /\ WorkerOK(w)
  BY DEF IInv
<1>2. /\ worker' \in [Workers -> Runners] /\ worker'[w].pc = pc
      /\ worker'[w].job = worker[w].job /\ worker'[w].token = worker[w].token
      /\ worker'[w].expected = worker[w].expected
      /\ \A x \in Workers : x # w => worker'[x] = worker[x]
  BY <1>1, GotoEffect
<1>3. worker'[w].expected <= Len(pubs)
  BY <1>1, <1>2 DEF WorkerOK
<1> QED
  BY <1>2, <1>3, Advance DEF Claimed

(* The row is left alone.                                                  *)
LEMMA RowsAlone ==
    ASSUME IInv, UNCHANGED job
    PROVE  /\ job' \in [Jobs -> JobRows] /\ \A j \in Jobs : job'[j].attempts <= job'[j].max
           /\ \A j \in Jobs : Kept(j)
BY UnchangedKept DEF IInv, TypeOK

(* The owner writes its row.                                               *)
LEMMA OwnerWrites ==
    ASSUME IInv, NEW w \in Workers, NEW j \in Jobs, j = worker[w].job, Owned(w),
           NEW row \in JobRows, UNCHANGED pubs, job' = [job EXCEPT ![j] = row],
           row.status = "running", row.owner = Fields(w).owner,
           row.attempts = Fields(w).attempts, row.max = Fields(w).max,
           row.mode = Fields(w).mode, row.identity = Fields(w).identity,
           Fields(w).inputs # None =>
             row.inputs = Fields(w).inputs /\ row.expected = Fields(w).expected,
           Fields(w).candidate # None => row.candidate = Fields(w).candidate,
           row.candidate # None => row.candidate = row.inputs,
           row.expected <= Len(pubs)
    PROVE  /\ job' \in [Jobs -> JobRows] /\ \A k \in Jobs : job'[k].attempts <= job'[k].max
           /\ job'[j] = row
           /\ \A k \in Jobs : \/ Kept(k)
                              \/ k = worker[w].job /\ Grows(k) /\ JobOK(k)'
<1>1. /\ job[j].status = "running" /\ job[j] \in JobRows /\ JobOK(j)
      /\ Fields(w) = job[j] /\ TypeOK /\ job[j].attempts <= job[j].max
  BY DEF Owned, Fields, IInv, TypeOK
<1>2. /\ job' \in [Jobs -> JobRows] /\ \A k \in Jobs : job'[k].attempts <= job'[k].max
      /\ job'[j] = row /\ \A k \in Jobs : k # j => job'[k] = job[k]
  BY <1>1, RowEffect
<1>3. Grows(j)
  <2>1. job[j].attempts <= job[j].attempts
    BY <1>1, Bounds DEF JobRows
  <2> QED
    BY <1>1, <1>2, <2>1 DEF Grows
<1>4. JobOK(j)'
  <2>1. job'[j].identity # None => job'[j].inputs = job'[j].identity
    BY <1>1, <1>2 DEF JobOK
  <2>2. job'[j].owner > 0 /\ job'[j].status = "running"
    BY <1>1, <1>2 DEF JobOK
  <2>3. job'[j].candidate # None => job'[j].candidate = job'[j].inputs
    BY <1>2
  <2>4. job'[j].expected <= Len(pubs')
    BY <1>2
  <2> QED
    BY <2>1, <2>2, <2>3, <2>4 DEF JobOK
<1>5. ASSUME NEW k \in Jobs, k # j PROVE Kept(k)
  BY <1>1, <1>2, <1>5, UnchangedKept
<1> QED
  BY <1>2, <1>3, <1>4, <1>5


-----------------------------------------------------------------------------
(* Steps of nobody: commands, clocks and the world.                        *)

LEMMA NobodyActs ==
    ASSUME IInv, TypeOK', UNCHANGED <<pubs, worker>>, \A j \in Jobs : Kept(j)
    PROVE  IInv'
<1>1. PICK w : w \notin Workers
  BY NoSetContainsEverything
<1> QED
  BY <1>1, WorkerStep

(* A row is written by somebody who is not its owner.                      *)
LEMMA KeptRow ==
    ASSUME IInv, NEW j \in Jobs, NEW row \in JobRows, job' = [job EXCEPT ![j] = row],
           row.mode = job[j].mode, row.identity = job[j].identity, row.inputs = job[j].inputs,
           row.expected = job[j].expected, row.candidate = job[j].candidate,
           row.stage = job[j].stage, row.pub = job[j].pub,
           job[j].status # "absent", row.status # "absent",
           row.status = "succeeded" => job[j].status = "succeeded",
           job[j].attempts <= row.attempts, row.attempts <= row.max,
           row.status = "running" => \/ job[j].status = "running" /\ row.owner = job[j].owner
                                     \/ row.owner > job[j].attempts
    PROVE  /\ job' \in [Jobs -> JobRows] /\ \A k \in Jobs : job'[k].attempts <= job'[k].max
           /\ job'[j] = row /\ \A k \in Jobs : Kept(k)
<1>1. TypeOK
  BY DEF IInv
<1>2. /\ job' \in [Jobs -> JobRows] /\ \A k \in Jobs : job'[k].attempts <= job'[k].max
      /\ job'[j] = row /\ \A k \in Jobs : k # j => job'[k] = job[k]
  BY <1>1, RowEffect
<1>3. Kept(j)
  BY <1>2 DEF Kept, SameRow
<1>4. ASSUME NEW k \in Jobs, k # j PROVE Kept(k)
  BY <1>1, <1>2, <1>4, UnchangedKept
<1> QED
  BY <1>2, <1>3, <1>4

(* The claim ends without success.                                         *)
LEMMA ReleasedKept ==
    ASSUME IInv, NEW j \in Jobs, job[j].status \in {"queued", "running"},
           NEW status \in {"queued", "failed", "cancelled"},
           NEW kind \in {job[j].kind, "retryable", "permanent"},
           job' = [job EXCEPT ![j] = [Release(job[j], status) EXCEPT !.kind = kind]]
    PROVE  /\ job' \in [Jobs -> JobRows] /\ \A k \in Jobs : job'[k].attempts <= job'[k].max
           /\ \A k \in Jobs : Kept(k)
<1> DEFINE row == [Release(job[j], status) EXCEPT !.kind = kind]
<1>1. job[j] \in JobRows /\ job[j].attempts <= job[j].max
  BY DEF IInv, TypeOK
<1>2. /\ Release(job[j], status) \in JobRows
      /\ Release(job[j], status).status = status
      /\ Release(job[j], status).attempts = job[j].attempts
      /\ Release(job[j], status).max = job[j].max /\ Release(job[j], status).mode = job[j].mode
      /\ Release(job[j], status).identity = job[j].identity
      /\ Release(job[j], status).inputs = job[j].inputs
      /\ Release(job[j], status).expected = job[j].expected
      /\ Release(job[j], status).candidate = job[j].candidate
      /\ Release(job[j], status).stage = job[j].stage /\ Release(job[j], status).pub = job[j].pub
  <2>1. status \in {"queued"} \cup Terminal
    BY DEF Terminal
  <2> QED
    BY <1>1, <2>1, ReleasedRow
<1>3. kind \in {"none", "retryable", "permanent"}
  BY <1>1 DEF JobRows
<1> HIDE DEF row
<1>4. /\ row \in JobRows /\ row.status = status /\ row.attempts = job[j].attempts
      /\ row.max = job[j].max /\ row.mode = job[j].mode /\ row.identity = job[j].identity
      /\ row.inputs = job[j].inputs /\ row.expected = job[j].expected
      /\ row.candidate = job[j].candidate /\ row.stage = job[j].stage /\ row.pub = job[j].pub
  BY <1>2, <1>3 DEF row, JobRows
<1>5. job[j].attempts <= row.attempts
  BY <1>1, <1>4, Bounds DEF JobRows
<1>6. job' = [job EXCEPT ![j] = row]
  BY DEF row
<1> QED
  BY <1>1, <1>4, <1>5, <1>6, KeptRow

LEMMA CancelInv ==
    ASSUME IInv, NEW j \in Jobs, RequestCancel(j)
    PROVE  IInv'
<1>1. job' = [job EXCEPT ![j] = [Release(job[j], "cancelled") EXCEPT !.kind = job[j].kind]]
  BY DEF RequestCancel, Release, IInv, TypeOK, JobRows
<1>2. /\ job' \in [Jobs -> JobRows] /\ \A k \in Jobs : job'[k].attempts <= job'[k].max
      /\ \A k \in Jobs : Kept(k)
  BY <1>1, ReleasedKept DEF RequestCancel
<1>3. TypeOK'
  BY <1>2 DEF RequestCancel, IInv, TypeOK
<1> QED
  BY <1>2, <1>3, NobodyActs DEF RequestCancel

LEMMA RetryInv ==
    ASSUME IInv, NEW j \in Jobs, Retry(j)
    PROVE  IInv'
<1> DEFINE row == [job[j] EXCEPT !.status = "queued", !.max = @ + RetryGrant]
<1>1. job[j] \in JobRows /\ job[j].attempts <= job[j].max
  BY DEF IInv, TypeOK
<1>2. job[j].max + RetryGrant \in 0 .. MostAttempts /\ job[j].attempts <= job[j].max + RetryGrant
  BY <1>1, Bounds DEF Retry, JobRows
<1>3. job' = [job EXCEPT ![j] = row]
  BY <1>1 DEF Retry, IInv, TypeOK, JobRows
<1> HIDE DEF row
<1>4. /\ row \in JobRows /\ row.status = "queued" /\ row.max = job[j].max + RetryGrant
      /\ row.attempts = job[j].attempts
      /\ row.mode = job[j].mode /\ row.identity = job[j].identity
      /\ row.inputs = job[j].inputs /\ row.expected = job[j].expected
      /\ row.candidate = job[j].candidate /\ row.stage = job[j].stage /\ row.pub = job[j].pub
  BY <1>1, <1>2 DEF row, JobRows
<1>5. job[j].attempts <= row.attempts /\ row.attempts <= row.max
  BY <1>1, <1>2, <1>4, Bounds DEF JobRows
<1>6. /\ job' \in [Jobs -> JobRows] /\ \A k \in Jobs : job'[k].attempts <= job'[k].max
      /\ \A k \in Jobs : Kept(k)
  BY <1>3, <1>4, <1>5, KeptRow DEF Retry
<1>7. TypeOK'
  BY <1>6 DEF Retry, IInv, TypeOK
<1> QED
  BY <1>6, <1>7, NobodyActs DEF Retry

LEMMA ExpireInv ==
    ASSUME IInv, NEW j \in Jobs, Expire(j)
    PROVE  IInv'
<1> DEFINE row == [job[j] EXCEPT !.live = FALSE]
<1>1. job[j] \in JobRows /\ job[j].attempts <= job[j].max /\ JobOK(j)
  BY DEF IInv, TypeOK
<1>2. job[j].status # "absent"
  BY <1>1 DEF Expire, JobOK, AbsentJob
<1>3. job' = [job EXCEPT ![j] = row]
  BY DEF Expire
<1> HIDE DEF row
<1>4. /\ row \in JobRows /\ row.status = job[j].status /\ row.max = job[j].max
      /\ row.attempts = job[j].attempts /\ row.owner = job[j].owner
      /\ row.mode = job[j].mode /\ row.identity = job[j].identity
      /\ row.inputs = job[j].inputs /\ row.expected = job[j].expected
      /\ row.candidate = job[j].candidate /\ row.stage = job[j].stage /\ row.pub = job[j].pub
  BY <1>1 DEF row, JobRows
<1>5. job[j].attempts <= row.attempts /\ row.attempts <= row.max
  BY <1>1, <1>4, Bounds DEF JobRows
<1>6. /\ job' \in [Jobs -> JobRows] /\ \A k \in Jobs : job'[k].attempts <= job'[k].max
      /\ \A k \in Jobs : Kept(k)
  BY <1>2, <1>3, <1>4, <1>5, KeptRow
<1>7. TypeOK'
  BY <1>6 DEF Expire, IInv, TypeOK
<1> QED
  BY <1>6, <1>7, NobodyActs DEF Expire

LEMMA SourceInv ==
    ASSUME IInv, SourceMoves \/ LineageMoves
    PROVE  IInv'
<1>1. UNCHANGED <<pubs, worker, job>>
  BY DEF SourceMoves, LineageMoves
<1>2. TypeOK'
  BY <1>1, BoundsAssumption DEF SourceMoves, LineageMoves, IInv, TypeOK
<1> QED
  BY <1>1, <1>2, RowsAlone, NobodyActs


(* A row takes what a submission fills in.                                 *)
LEMMA SubmittedRow ==
    ASSUME NEW base \in JobRows, NEW max \in 0 .. MostAttempts, NEW mode \in {"prepare", "publish"},
           NEW awaiting \in BOOLEAN, NEW pin \in Identities, NEW expected \in Revisions,
           NEW stage \in {"prepared", "waiting"}
    PROVE  [base EXCEPT !.status = "queued", !.max = max, !.mode = mode, !.awaiting = awaiting,
                        !.identity = pin, !.inputs = pin, !.expected = expected,
                        !.stage = stage] \in JobRows
BY DEF JobRows

(* What is submitted is there with its inputs, or without any.             *)
LEMMA SubmitInv ==
    ASSUME IInv, NEW j \in Jobs, NEW mode \in {"prepare", "publish"},
           NEW outcome \in {"pinned", "awaiting", "broken"}, Submit(j, mode, outcome)
    PROVE  IInv'
<1> DEFINE pin == IF outcome = "pinned" THEN [source |-> source, lineage |-> lineage] ELSE None
           awaiting == (outcome = "awaiting")
           expected == IF outcome = "pinned" THEN Active ELSE 0
           stage == IF outcome = "pinned" THEN "prepared" ELSE "waiting"
           row == [AbsentJob EXCEPT
               !.status = "queued", !.max = MaxAttempts, !.mode = mode,
               !.awaiting = awaiting, !.identity = pin, !.inputs = pin,
               !.expected = expected, !.stage = stage]
<1>1. TypeOK /\ job[j] = AbsentJob /\ pin \in Identities /\ Active \in Nat
  <2>1. TypeOK /\ JobOK(j)
    BY DEF IInv
  <2>2. Active \in Nat
    BY <2>1 DEF TypeOK, Active
  <2> QED
    BY <2>1, <2>2, CurrentIdentity, BlankRows DEF JobOK, Submit
<1> HIDE DEF pin
<1>2. /\ awaiting \in BOOLEAN /\ expected \in Revisions /\ expected <= Active
       /\ stage \in {"prepared", "waiting"}
  BY <1>1 DEF Revisions
<1> HIDE DEF awaiting, expected, stage
<1>3. /\ row \in JobRows /\ row.status = "queued" /\ row.attempts = 0 /\ row.max = MaxAttempts
      /\ row.identity = pin /\ row.inputs = pin /\ row.candidate = None /\ row.expected <= Active
  <2>1. AbsentJob \in JobRows /\ MaxAttempts \in 0 .. MostAttempts
    BY Bounds, BlankRows
  <2>2. row \in JobRows
    BY <1>1, <1>2, <2>1, SubmittedRow
  <2> QED
    BY <1>2, <2>2 DEF AbsentJob
<1>4. job' = [job EXCEPT ![j] = row] /\ UNCHANGED <<source, lineage, pubs, worker>>
  BY DEF Submit, pin, awaiting, expected, stage
<1> HIDE DEF row
<1>5. /\ job' \in [Jobs -> JobRows] /\ \A k \in Jobs : job'[k].attempts <= job'[k].max
      /\ job'[j] = row /\ \A k \in Jobs : k # j => job'[k] = job[k]
  <2>1. row.attempts <= row.max
    BY <1>3, Bounds
  <2> QED
    BY <1>1, <1>3, <1>4, <2>1, RowEffect
<1>6. TypeOK'
  BY <1>1, <1>4, <1>5 DEF TypeOK
<1>7. ASSUME NEW k \in Jobs PROVE JobOK(k)'
  <2>1. CASE k = j
    BY <1>3, <1>4, <1>5, <2>1 DEF JobOK, Active
  <2>2. CASE k # j
    BY <1>1, <1>4, <1>5, <2>2, UnchangedKept, KeptJobOK, <1>6
  <2> QED
    BY <2>1, <2>2
<1>8. ASSUME NEW p \in DOMAIN pubs PROVE pubs[p].job # j /\ PubOK(p)'
  <2>1. PubOK(p)
    BY DEF IInv
  <2>2. pubs[p].job # j
    BY <1>1, <2>1 DEF PubOK, AbsentJob
  <2> QED
    BY <1>4, <1>5, <2>1, <2>2 DEF PubOK
<1>9. ASSUME NEW x \in Workers PROVE WorkerOK(x)'
  <2>1. WorkerOK(x) /\ worker'[x] = worker[x] /\ worker[x] \in Runners
    BY <1>1, <1>4 DEF IInv, TypeOK
  <2>2. CASE worker[x].job = j
    <3>1. worker[x].pc \notin Claimed
      <4>1. worker[x].token \in Nat
        BY <2>1, Bounds DEF Runners
      <4> QED
        BY <1>1, <2>1, <2>2, <4>1 DEF WorkerOK, AbsentJob
    <3>2. ~Owned(x)'
      BY <1>3, <1>5, <2>1, <2>2 DEF Owned, Fields
    <3> QED
      BY <1>4, <2>1, <3>1, <3>2 DEF WorkerOK, Claimed, Working, Handling
  <2>3. CASE worker[x].job # j
    <3>1. worker[x].job \in Jobs => job'[worker[x].job] = job[worker[x].job]
      BY <1>5, <2>3
    <3>2. Owned(x)' => Owned(x) /\ Knows(x)'
      BY <1>4, <2>1, <3>1 DEF Owned, Fields, WorkerOK, Knows, NoPublication, Certifies, Verified
    <3> QED
      BY <1>4, <2>1, <3>1, <3>2 DEF WorkerOK, NoPublication, Claimed, Working, Handling
  <2> QED
    BY <2>2, <2>3
<1>10. PublishedOnce' /\ TokensUnique'
  BY <1>4 DEF IInv, PublishedOnce, TokensUnique
<1> QED
  BY <1>4, <1>6, <1>7, <1>8, <1>9, <1>10 DEF IInv


-----------------------------------------------------------------------------
(* Claims.                                                                 *)

LEMMA RunInv ==
    ASSUME IInv, NEW w \in Workers, NEW j \in Jobs, Run(w, j)
    PROVE  IInv'
<1> DEFINE r == [Idle EXCEPT !.pc = "claim", !.job = j]
<1>1. r \in Runners
  BY BlankRows DEF Runners
<1>2. r.pc = "claim" /\ r.job = j /\ r.token = 0 /\ r.expected = 0
  BY DEF Idle
<1>3. Steps(w, r) /\ TypeOK /\ worker[w].pc = "idle"
  BY DEF Run, Steps, IInv
<1> HIDE DEF r
<1>4. /\ worker' \in [Workers -> Runners] /\ worker'[w] = r
      /\ \A x \in Workers : x # w => worker'[x] = worker[x]
  BY <1>1, <1>3, StepsEffect
<1>5. /\ job' \in [Jobs -> JobRows] /\ \A k \in Jobs : job'[k].attempts <= job'[k].max
      /\ \A k \in Jobs : Kept(k)
  <2>1. CASE Exhausted(j)
    BY <2>1, ReleasedKept DEF Run, Exhausted
  <2>2. CASE ~Exhausted(j)
    BY <2>2, RowsAlone DEF Run
  <2> QED
    BY <2>1, <2>2
<1>6. TypeOK'
  BY <1>4, <1>5 DEF Run, TypeOK, IInv
<1>7. r.pc \notin Claimed /\ r.pc # "conflict"
  BY <1>2 DEF Claimed, Working, Handling
<1>8. WorkerOK(w)'
  <2>1. JobOK(j)'
    BY <1>5, <1>6, KeptJobOK DEF Run
  <2>2. ~Owned(w)'
    BY <1>2, <1>4, <2>1 DEF Owned, Fields, JobOK
  <2>3. 0 <= Len(pubs) /\ pubs' = pubs
    BY DEF Run, IInv, TypeOK
  <2> QED
    BY <1>2, <1>4, <1>7, <2>2, <2>3 DEF WorkerOK
<1> QED
  BY <1>4, <1>5, <1>6, <1>7, <1>8, WorkerStep DEF Run

(* A claim that is granted takes the next token, which no process holds.   *)
LEMMA GrantedInv ==
    ASSUME IInv, NEW w \in Workers, Claim(w), Claimable(worker[w].job)
    PROVE  IInv'
<1>1. /\ TypeOK /\ worker[w].pc = "claim" /\ UNCHANGED <<source, lineage, pubs>>
      /\ WorkerOK(w)
  BY DEF Claim, IInv
<1>2. PICK j \in Jobs : j = worker[w].job
  BY <1>1 DEF WorkerOK
<1>3. /\ job[j] \in JobRows /\ job[j].attempts \in Nat /\ job[j].max \in 0 .. MostAttempts
      /\ job[j].attempts < job[j].max /\ job[j].status \in {"queued", "running"}
      /\ worker[w] \in Runners
  BY <1>1, <1>2, Bounds DEF TypeOK, JobRows, Claimable
<1>4. PICK token \in Nat : token = job[j].attempts + 1
  BY <1>3
<1> DEFINE row == [job[j] EXCEPT !.status = "running", !.attempts = token,
                                 !.owner = token, !.live = TRUE]
           r == [worker[w] EXCEPT !.pc = "inputs", !.token = token]
<1>5. token \in 0 .. MostAttempts /\ token > job[j].attempts /\ token <= job[j].max /\ token > 0
  BY <1>3, <1>4, Bounds
<1>6. job' = [job EXCEPT ![j] = row] /\ Steps(w, r)
  <2>1. Claimable(j)
    BY <1>2
  <2> QED
    BY <1>2, <1>3, <1>4, <2>1 DEF Claim, Steps, TypeOK, JobRows, Runners
<1>7. /\ row \in JobRows /\ row.status = "running" /\ row.max = job[j].max
      /\ row.attempts = token /\ row.owner = token
      /\ row.mode = job[j].mode /\ row.identity = job[j].identity
      /\ row.inputs = job[j].inputs /\ row.expected = job[j].expected
      /\ row.candidate = job[j].candidate /\ row.stage = job[j].stage /\ row.pub = job[j].pub
  BY <1>3, <1>5 DEF JobRows
<1>8. /\ r \in Runners /\ r.pc = "inputs" /\ r.token = token /\ r.job = j
      /\ r.expected = worker[w].expected
  BY <1>2, <1>3, <1>5 DEF Runners, Working
<1> HIDE DEF row, r
<1>9. /\ job' \in [Jobs -> JobRows] /\ \A k \in Jobs : job'[k].attempts <= job'[k].max
      /\ job'[j] = row /\ \A k \in Jobs : Kept(k)
  <2>1. job[j].attempts <= row.attempts /\ row.attempts <= row.max /\ row.owner > job[j].attempts
    BY <1>3, <1>5, <1>7, Bounds
  <2> QED
    BY <1>3, <1>6, <1>7, <2>1, KeptRow
<1>10. /\ worker' \in [Workers -> Runners] /\ worker'[w] = r
       /\ \A x \in Workers : x # w => worker'[x] = worker[x]
  BY <1>1, <1>6, <1>8, StepsEffect
<1>11. TypeOK'
  BY <1>1, <1>9, <1>10 DEF TypeOK
<1>12. \A k \in Jobs : JobOK(k)'
  BY <1>1, <1>9, <1>11, KeptJobOK
<1>13. (\A p \in DOMAIN pubs : PubOK(p))' /\ PublishedOnce'
  BY <1>1, <1>9, PubsKept
<1>14. ASSUME NEW x \in Workers PROVE WorkerOK(x)'
  <2>1. CASE x = w
    <3>1. worker'[w].expected <= Len(pubs)
      BY <1>1, <1>8, <1>10 DEF WorkerOK
    <3>2. token <= job'[j].attempts
      BY <1>7, <1>9
    <3>3. Knows(w)'
      BY <1>8, <1>10 DEF Knows
    <3>4. r.pc \in Claimed
      BY <1>8 DEF Claimed, Working
    <3> QED
      BY <1>1, <1>5, <1>8, <1>10, <2>1, <3>1, <3>2, <3>3, <3>4 DEF WorkerOK
  <2>2. CASE x # w
    <3>1. worker'[x] = worker[x] /\ WorkerOK(x)
      BY <1>10, <2>2 DEF IInv
    <3>2. ASSUME Owned(x)' PROVE Owned(x) /\ SameRow(worker[x].job)
      <4>1. worker[x].job \in Jobs
        BY <3>1, <3>2 DEF Owned
      <4> QED
        BY <1>9, <3>1, <3>2, <4>1, StillOwner
    <3>3. \A k \in Jobs : Kept(k) \/ Grows(k)
      BY <1>9
    <3> QED
      BY <1>1, <1>11, <3>1, <3>2, <3>3, Bystander
  <2> QED
    BY <2>1, <2>2
<1>15. TokensUnique'
  <2>1. ASSUME NEW x \in Workers, x # w, worker'[x].pc \in Claimed, worker'[x].job = j
        PROVE  worker'[x].token # token
    <3>1. WorkerOK(x) /\ worker'[x] = worker[x] /\ worker[x] \in Runners
      BY <1>1, <1>10, <2>1 DEF IInv, TypeOK
    <3>2. worker[x].token <= job[j].attempts /\ worker[x].token \in Nat
      BY <2>1, <3>1, Bounds DEF WorkerOK, Runners
    <3> QED
      BY <1>3, <1>5, <3>1, <3>2
  <2> QED
    BY <1>8, <1>10, <2>1 DEF IInv, TokensUnique
<1> QED
  BY <1>11, <1>12, <1>13, <1>14, <1>15 DEF IInv

LEMMA ClaimInv ==
    ASSUME IInv, NEW w \in Workers, Claim(w)
    PROVE  IInv'
<1>1. CASE Claimable(worker[w].job)
  BY <1>1, GrantedInv
<1>2. CASE ~Claimable(worker[w].job)
  <2>1. Exit(w) /\ UNCHANGED <<source, lineage, pubs, job>>
    BY <1>2 DEF Claim
  <2> QED
    BY <2>1, RowsAlone, Leave
<1> QED
  BY <1>1, <1>2


-----------------------------------------------------------------------------
(* Steps that write no row.                                                *)

(* The owner goes on, the rows are as they were.                           *)
LEMMA GoesOn ==
    ASSUME IInv, NEW w \in Workers, UNCHANGED <<source, lineage, pubs, job>>,
           worker[w].pc \in Claimed,
           NEW pc \in (Working \cup Handling) \ {"pin", "conflict"}, Goto(w, pc),
           Owned(w)' => Knows(w)'
    PROVE  IInv'
BY RowsAlone, AdvanceByGoto

(* Its claim is what it was.                                               *)
LEMMA ClaimStands ==
    ASSUME IInv, NEW w \in Workers, UNCHANGED <<pubs, job>>,
           worker'[w].job = worker[w].job, worker'[w].token = worker[w].token
    PROVE  /\ Owned(w)' = Owned(w)
           /\ Owned(w) => Knows(w)
           /\ Fields(w)' = Fields(w) /\ Verified(worker[w].job)' = Verified(worker[w].job)
           /\ \A p : Certifies(p, worker[w].job)' = Certifies(p, worker[w].job)
           /\ NoPublication(worker[w].job)' = NoPublication(worker[w].job)
BY DEF IInv, WorkerOK, Owned, Fields, Verified, Certifies, NoPublication

LEMMA ReadInputsInv ==
    ASSUME IInv, NEW w \in Workers, ReadInputs(w)
    PROVE  IInv'
<1>1. /\ worker[w].pc = "inputs" /\ worker[w].pc \in Claimed /\ worker[w].pc # "idle" /\ TypeOK
      /\ UNCHANGED <<source, lineage, pubs, job>>
  BY DEF ReadInputs, Claimed, Working, IInv
<1>2. worker[w] \in Runners /\ Fields(w) = job[worker[w].job]
  BY <1>1, Busy
<1>3. CASE Fields(w).inputs # None
  <2>1. Goto(w, "candidate")
    BY <1>3 DEF ReadInputs
  <2>2. worker'[w].pc = "candidate" /\ worker'[w].job = worker[w].job
    BY <1>1, <2>1, GotoEffect DEF Working
  <2>3. Knows(w)'
    BY <1>1, <1>2, <1>3, <2>2 DEF Knows
  <2> QED
    BY <1>1, <2>1, <2>3, GoesOn DEF Working
<1>4. ASSUME NEW pc \in {"hold", "unavailable"}, Goto(w, pc) PROVE IInv'
  <2>1. worker'[w].pc = pc
    BY <1>1, <1>4, GotoEffect DEF Handling
  <2>2. Knows(w)'
    BY <2>1 DEF Knows
  <2> QED
    BY <1>1, <1>4, <2>2, GoesOn DEF Handling
<1>5. CASE Fields(w).inputs = None /\ Fields(w).awaiting /\ source # 0
  <2> DEFINE id == [source |-> source, lineage |-> lineage]
             r == [worker[w] EXCEPT !.pc = "pin", !.expected = Active, !.pinned = id]
  <2>1. id \in Identities /\ id # None /\ Active \in Nat
    BY <1>1, <1>5, CurrentIdentity DEF TypeOK, Active
  <2>2. Steps(w, r)
    BY <1>2, <1>5 DEF ReadInputs, Steps, Runners
  <2> HIDE DEF id
  <2>3. /\ r \in Runners /\ r.pc = "pin" /\ r.expected = Active /\ r.pinned = id
        /\ r.job = worker[w].job /\ r.token = worker[w].token
    BY <1>2, <2>1 DEF Runners, Revisions, Working
  <2> HIDE DEF r
  <2>4. /\ worker' \in [Workers -> Runners] /\ worker'[w] = r
        /\ \A x \in Workers : x # w => worker'[x] = worker[x]
    BY <1>1, <2>2, <2>3, StepsEffect
  <2>5. Knows(w)'
    BY <1>1, <1>2, <1>5, <2>3, <2>4 DEF Knows
  <2>6. worker'[w].expected <= Len(pubs)
    BY <2>1, <2>3, <2>4 DEF Active
  <2>7. worker'[w].pc \in Claimed \ {"conflict"}
    BY <2>3, <2>4 DEF Claimed, Working
  <2> QED
    BY <1>1, <2>1, <2>3, <2>4, <2>5, <2>6, <2>7, RowsAlone, Advance
<1> QED
  BY <1>3, <1>4, <1>5 DEF ReadInputs

LEMMA ReadCandidateInv ==
    ASSUME IInv, NEW w \in Workers, ReadCandidate(w)
    PROVE  IInv'
<1>1. /\ worker[w].pc = "candidate" /\ worker[w].pc \in Claimed /\ worker[w].pc # "idle" /\ TypeOK
      /\ UNCHANGED <<source, lineage, pubs, job>>
  BY DEF ReadCandidate, Claimed, Working, IInv
<1>2. Fields(w) = job[worker[w].job]
  BY <1>1, Busy
<1> DEFINE pc == IF Fields(w).candidate # None THEN "verify" ELSE "reuse"
<1>3. pc \in {"verify", "reuse"} /\ Goto(w, pc)
  BY DEF ReadCandidate
<1>4. worker'[w].pc = pc /\ worker'[w].job = worker[w].job /\ worker'[w].token = worker[w].token
  BY <1>1, <1>3, GotoEffect DEF Working
<1>5. ASSUME Owned(w)' PROVE Knows(w)'
  <2>1. job[worker[w].job].inputs # None
    BY <1>1, <1>4, <1>5, ClaimStands DEF Knows
  <2> QED
    BY <1>1, <1>2, <1>4, <2>1 DEF Knows
<1> QED
  BY <1>1, <1>3, <1>5, GoesOn DEF Working

LEMMA VerifyInv ==
    ASSUME IInv, NEW w \in Workers, Verify(w)
    PROVE  IInv'
<1>1. /\ worker[w].pc = "verify" /\ worker[w].pc \in Claimed /\ worker[w].pc # "idle" /\ TypeOK
      /\ UNCHANGED <<source, lineage, pubs, job>>
  BY DEF Verify, Claimed, Working, IInv
<1>2. /\ worker[w] \in Runners /\ worker[w].job \in Jobs /\ Fields(w) = job[worker[w].job]
      /\ Fields(w) \in JobRows
  BY <1>1, Busy
<1>3. Owned(w) => Fields(w).candidate # None
  BY <1>1, <1>2 DEF IInv, WorkerOK, Knows
<1>4. ASSUME NEW pc \in {"checked", "hold"}, Goto(w, pc),
             pc = "checked" => Fields(w).mode = "prepare"
      PROVE  IInv'
  <2>1. worker'[w].pc = pc /\ worker'[w].job = worker[w].job
    BY <1>1, <1>4, GotoEffect DEF Working, Handling
  <2>2. Knows(w)'
    BY <1>1, <1>2, <1>4, <2>1 DEF Knows
  <2> QED
    BY <1>1, <1>4, <2>2, GoesOn DEF Working, Handling
<1>5. CASE Fields(w).mode # "prepare" /\ Committed(w) = {}
  <2> DEFINE pc == IF Matching(w) THEN "matching" ELSE "stage"
  <2>1. pc \in {"matching", "stage"} /\ Goto(w, pc)
    BY <1>5 DEF Verify
  <2>2. worker'[w].pc = pc /\ worker'[w].job = worker[w].job /\ worker'[w].token = worker[w].token
    BY <1>1, <2>1, GotoEffect DEF Working
  <2>3. Fields(w).mode = "publish"
    BY <1>2, <1>5 DEF JobRows
  <2>4. NoPublication(worker[w].job)
    BY <1>2, <1>5 DEF NoPublication, Committed, IInv, PubOK
  <2>5. ASSUME Owned(w)' PROVE Knows(w)'
    <3>1. Fields(w).candidate # None
      BY <1>1, <1>3, <2>2, <2>5, ClaimStands
    <3> QED
      BY <1>1, <1>2, <2>1, <2>2, <2>3, <2>4, <3>1 DEF Knows, NoPublication
  <2> QED
    BY <1>1, <2>1, <2>5, GoesOn DEF Working
<1>6. CASE Fields(w).mode # "prepare" /\ Active \in Committed(w)
  <2> DEFINE r == [worker[w] EXCEPT !.pc = "published", !.pub = Active]
  <2>1. Active \in Revisions
    BY <1>1 DEF TypeOK, Active, Revisions
  <2>2. /\ r \in Runners /\ r.pc = "published" /\ r.pub = Active /\ r.job = worker[w].job
        /\ r.token = worker[w].token /\ r.expected = worker[w].expected
    BY <1>2, <2>1 DEF Runners, Working
  <2>3. Steps(w, r)
    BY <1>2, <1>6 DEF Verify, Steps, Runners
  <2> HIDE DEF r
  <2>4. /\ worker' \in [Workers -> Runners] /\ worker'[w] = r
        /\ \A x \in Workers : x # w => worker'[x] = worker[x]
    BY <1>1, <2>2, <2>3, StepsEffect
  <2>5. Knows(w)'
    <3>1. Fields(w).mode = "publish" /\ Certifies(Active, worker[w].job)
      BY <1>2, <1>6 DEF JobRows, Committed, Certifies
    <3> QED
      BY <1>1, <1>2, <2>2, <2>4, <3>1 DEF Knows, Certifies
  <2>6. worker'[w].expected <= Len(pubs)
    BY <2>2, <2>4 DEF IInv, WorkerOK
  <2>7. worker'[w].pc \in Claimed \ {"conflict"} /\ worker'[w].pc # "pin"
    BY <2>2, <2>4 DEF Claimed, Working
  <2> QED
    BY <1>1, <2>2, <2>4, <2>5, <2>6, <2>7, RowsAlone, Advance
<1> QED
  BY <1>4, <1>5, <1>6 DEF Verify


LEMMA MatchInv ==
    ASSUME IInv, NEW w \in Workers, Match(w)
    PROVE  IInv'
<1>1. /\ worker[w].pc = "matching" /\ worker[w].pc \in Claimed /\ worker[w].pc # "idle" /\ TypeOK
      /\ UNCHANGED <<source, lineage, pubs, job>> /\ Owned(w)
  BY DEF Match, Guarded, Claimed, Working, IInv
<1>2. /\ worker[w] \in Runners /\ worker[w].job \in Jobs /\ Fields(w) = job[worker[w].job]
      /\ Fields(w) \in JobRows
  BY <1>1, Busy
<1>3. /\ Fields(w).candidate # None /\ Fields(w).mode = "publish"
      /\ NoPublication(worker[w].job)
  BY <1>1, <1>2 DEF IInv, WorkerOK, Knows
<1>4. ASSUME NEW pc \in {"hold", "stage"}, Goto(w, pc) PROVE IInv'
  <2>1. worker'[w].pc = pc /\ worker'[w].job = worker[w].job
    BY <1>1, <1>4, GotoEffect DEF Working, Handling
  <2>2. Knows(w)'
    BY <1>1, <1>2, <1>3, <2>1 DEF Knows, NoPublication
  <2> QED
    BY <1>1, <1>4, <2>2, GoesOn DEF Working, Handling
<1>5. CASE Matching(w) /\ worker' = [worker EXCEPT ![w].pc = "published", ![w].pub = Active]
  <2> DEFINE r == [worker[w] EXCEPT !.pc = "published", !.pub = Active]
  <2>1. Active \in Revisions
    BY <1>1 DEF TypeOK, Active, Revisions
  <2>2. /\ r \in Runners /\ r.pc = "published" /\ r.pub = Active /\ r.job = worker[w].job
        /\ r.token = worker[w].token /\ r.expected = worker[w].expected
    BY <1>2, <2>1 DEF Runners, Working
  <2>3. Steps(w, r)
    BY <1>2, <1>5 DEF Steps, Runners
  <2> HIDE DEF r
  <2>4. /\ worker' \in [Workers -> Runners] /\ worker'[w] = r
        /\ \A x \in Workers : x # w => worker'[x] = worker[x]
    BY <1>1, <2>2, <2>3, StepsEffect
  <2>5. Knows(w)'
    <3>1. Active \in DOMAIN pubs
      BY <1>1, <1>2, <1>5 DEF Matching, TypeOK, Active
    <3>2. Certifies(Active, worker[w].job)
      BY <1>2, <1>5, <3>1 DEF Matching, Certifies
    <3> QED
      BY <1>1, <1>2, <1>3, <2>2, <2>4, <3>2 DEF Knows, Certifies
  <2>6. worker'[w].expected <= Len(pubs)
    BY <2>2, <2>4 DEF IInv, WorkerOK
  <2>7. worker'[w].pc \in Claimed \ {"conflict"} /\ worker'[w].pc # "pin"
    BY <2>2, <2>4 DEF Claimed, Working
  <2> QED
    BY <1>1, <2>2, <2>4, <2>5, <2>6, <2>7, RowsAlone, Advance
<1> QED
  BY <1>4, <1>5 DEF Match

LEMMA ReadbackInv ==
    ASSUME IInv, NEW w \in Workers, Readback(w)
    PROVE  IInv'
<1>1. /\ worker[w].pc = "readback" /\ worker[w].pc \in Claimed /\ worker[w].pc # "idle" /\ TypeOK
      /\ UNCHANGED <<source, lineage, pubs, job>> /\ Owned(w) /\ Goto(w, "verified")
  BY DEF Readback, Guarded, Claimed, Working, IInv
<1>2. worker'[w].pc = "verified" /\ worker'[w].job = worker[w].job
  BY <1>1, GotoEffect DEF Working
<1>3. Fields(w).mode = "publish" /\ Certifies(Fields(w).pub, worker[w].job)
  BY <1>1, Busy DEF IInv, WorkerOK, Knows
<1>4. Knows(w)'
  BY <1>1, <1>2, <1>3, Busy DEF Knows, Certifies
<1> QED
  BY <1>1, <1>4, GoesOn DEF Working

LEMMA RefuseInv ==
    ASSUME IInv, NEW w \in Workers, Refuse(w)
    PROVE  IInv'
<1>1. worker[w].pc \in Claimed /\ Goto(w, "hold") /\ UNCHANGED <<source, lineage, pubs, job>>
  BY DEF Refuse, Claimed
<1>2. worker'[w].pc = "hold"
  BY <1>1, GotoEffect DEF Handling, IInv
<1>3. Knows(w)'
  BY <1>2 DEF Knows
<1> QED
  BY <1>1, <1>3, GoesOn DEF Handling

LEMMA CrashInv ==
    ASSUME IInv, NEW w \in Workers, Crash(w)
    PROVE  IInv'
BY RowsAlone, Leave DEF Crash

-----------------------------------------------------------------------------
(* Steps that write the row of the owner.                                  *)

LEMMA InsertInputsInv ==
    ASSUME IInv, NEW w \in Workers, InsertInputs(w)
    PROVE  IInv'
<1>1. /\ worker[w].pc = "pin" /\ worker[w].pc # "idle" /\ TypeOK
      /\ UNCHANGED <<source, lineage, pubs>> /\ Owned(w) /\ WorkerOK(w)
  BY DEF InsertInputs, Guarded, IInv
<1>2. PICK j \in Jobs : /\ j = worker[w].job /\ Fields(w) = job[j] /\ job[j] \in JobRows
                        /\ worker[w] \in Runners /\ JobOK(j)
  BY <1>1, Busy DEF IInv
<1> DEFINE row == [job[j] EXCEPT !.inputs = worker[w].pinned, !.expected = worker[w].expected]
           r == [worker[w] EXCEPT !.pc = "candidate", !.pinned = None, !.expected = 0]
<1>3. job[j].inputs = None /\ worker[w].pinned # None /\ worker[w].expected <= Len(pubs)
  BY <1>1, <1>2 DEF WorkerOK, Knows
<1>4. job[j].candidate = None
  BY <1>2, <1>3 DEF JobOK
<1>5. job' = [job EXCEPT ![j] = row] /\ Steps(w, r)
  BY <1>1, <1>2 DEF InsertInputs, Steps, TypeOK, JobRows, Runners
<1>6. /\ row \in JobRows /\ row.status = job[j].status /\ row.max = job[j].max
      /\ row.attempts = job[j].attempts /\ row.owner = job[j].owner
      /\ row.mode = job[j].mode /\ row.identity = job[j].identity
      /\ row.inputs = worker[w].pinned /\ row.expected = worker[w].expected
      /\ row.candidate = job[j].candidate
  BY <1>2 DEF JobRows, Runners
<1>7. /\ r \in Runners /\ r.pc = "candidate" /\ r.job = j /\ r.token = worker[w].token
      /\ r.expected = 0
  BY <1>2, BlankRows DEF Runners, Revisions, Working
<1> HIDE DEF row, r
<1>8. /\ job' \in [Jobs -> JobRows] /\ \A k \in Jobs : job'[k].attempts <= job'[k].max
      /\ job'[j] = row
      /\ \A k \in Jobs : Kept(k) \/ (k = worker[w].job /\ Grows(k) /\ JobOK(k)')
  <2>1. /\ row.status = "running" /\ row.owner = Fields(w).owner
        /\ row.attempts = Fields(w).attempts /\ row.max = Fields(w).max
        /\ row.mode = Fields(w).mode /\ row.identity = Fields(w).identity
    BY <1>1, <1>2, <1>6 DEF Owned
  <2>2. /\ Fields(w).inputs = None /\ Fields(w).candidate = None /\ row.candidate = None
        /\ row.expected <= Len(pubs)
    BY <1>2, <1>3, <1>4, <1>6
  <2> QED
    BY <1>1, <1>2, <1>5, <1>6, <2>1, <2>2, OwnerWrites
<1>9. /\ worker' \in [Workers -> Runners] /\ worker'[w] = r
      /\ \A x \in Workers : x # w => worker'[x] = worker[x]
  BY <1>1, <1>5, <1>7, StepsEffect
<1>10. Knows(w)'
  BY <1>3, <1>6, <1>7, <1>8, <1>9 DEF Knows
<1>11. /\ worker'[w].pc \in Claimed \ {"conflict"} /\ worker'[w].pc # "pin"
       /\ worker[w].pc \in Claimed
  BY <1>1, <1>7, <1>9 DEF Claimed, Working
<1>12. worker'[w].expected <= Len(pubs)
  BY <1>1, <1>7, <1>9 DEF TypeOK
<1> QED
  BY <1>1, <1>2, <1>7, <1>8, <1>9, <1>10, <1>11, <1>12, Advance


(* The stages of a row, as JobRows has them.                               *)
Stages == {"none", "waiting", "prepared", "calibrating", "accepted", "staging", "staged",
           "publishing", "published", "verification_pending", "verified", "held"}

(* Its stage alone.                                                        *)
LEMMA StageWritten ==
    ASSUME IInv, NEW w \in Workers, NEW j \in Jobs, j = worker[w].job, Owned(w),
           NEW stage \in Stages, SetStage(w, stage), UNCHANGED pubs
    PROVE  /\ job' \in [Jobs -> JobRows] /\ \A k \in Jobs : job'[k].attempts <= job'[k].max
           /\ job'[j].stage = stage /\ job'[j].pub = job[j].pub
           /\ job'[j].mode = job[j].mode
           /\ job'[j].inputs = job[j].inputs /\ job'[j].candidate = job[j].candidate
           /\ \A k \in Jobs : Kept(k) \/ (k = worker[w].job /\ Grows(k) /\ JobOK(k)')
<1> DEFINE row == [job[j] EXCEPT !.stage = stage]
<1>1. job[j] \in JobRows /\ JobOK(j) /\ job[j].status = "running" /\ Fields(w) = job[j]
  BY DEF IInv, TypeOK, Owned, Fields
<1>2. job' = [job EXCEPT ![j] = row]
  BY DEF SetStage
<1>3. /\ row \in JobRows /\ row.stage = stage /\ row.status = job[j].status
      /\ row.owner = job[j].owner /\ row.attempts = job[j].attempts /\ row.max = job[j].max
      /\ row.mode = job[j].mode /\ row.identity = job[j].identity
      /\ row.inputs = job[j].inputs /\ row.expected = job[j].expected
      /\ row.candidate = job[j].candidate /\ row.pub = job[j].pub
  BY <1>1 DEF JobRows, Stages
<1> HIDE DEF row
<1>4. /\ row.candidate # None => row.candidate = row.inputs
      /\ row.expected <= Len(pubs)
  BY <1>1, <1>3 DEF JobOK
<1>5. /\ job' \in [Jobs -> JobRows] /\ \A k \in Jobs : job'[k].attempts <= job'[k].max
      /\ job'[j] = row
      /\ \A k \in Jobs : Kept(k) \/ (k = worker[w].job /\ Grows(k) /\ JobOK(k)')
  <2>1. /\ row.status = "running" /\ row.owner = Fields(w).owner
        /\ row.attempts = Fields(w).attempts /\ row.max = Fields(w).max
        /\ row.mode = Fields(w).mode /\ row.identity = Fields(w).identity
        /\ row.inputs = Fields(w).inputs /\ row.expected = Fields(w).expected
        /\ row.candidate = Fields(w).candidate
    BY <1>1, <1>3
  <2> QED
    BY <1>2, <1>3, <1>4, <2>1, OwnerWrites
<1> QED
  BY <1>3, <1>5

(* A stage moves with the program counter, under the fence.                *)
LEMMA TransitionInv ==
    ASSUME IInv, NEW w \in Workers, NEW from \in Working,
           NEW to \in {"verify", "fit", "complete", "activate", "readback"},
           NEW stage \in Stages, Transition(w, from, to, stage),
           \/ from = "reused" /\ to = "verify"
           \/ from = "calibrate" /\ to = "fit"
           \/ from = "checked" /\ to = "complete" /\ stage = "accepted"
           \/ from = "stage" /\ to = "activate"
           \/ from = "pending" /\ to = "readback"
           \/ from = "verified" /\ to = "complete" /\ stage = "verified"
    PROVE  IInv'
<1>1. /\ worker[w].pc = from /\ from \in Claimed /\ from # "idle" /\ Owned(w)
      /\ SetStage(w, stage) /\ Goto(w, to) /\ UNCHANGED <<source, lineage, pubs>>
  BY DEF Transition, Guarded, Claimed, Working
<1>2. PICK j \in Jobs : j = worker[w].job
  BY <1>1, Busy
<1>3. /\ job' \in [Jobs -> JobRows] /\ \A k \in Jobs : job'[k].attempts <= job'[k].max
      /\ job'[j].stage = stage /\ job'[j].pub = job[j].pub
      /\ job'[j].mode = job[j].mode
      /\ job'[j].inputs = job[j].inputs /\ job'[j].candidate = job[j].candidate
      /\ \A k \in Jobs : Kept(k) \/ (k = worker[w].job /\ Grows(k) /\ JobOK(k)')
  BY <1>1, <1>2, StageWritten
<1>4. worker'[w].pc = to /\ worker'[w].job = j
  BY <1>1, <1>2, GotoEffect DEF IInv, Working
<1>5. Knows(w)
  BY <1>1 DEF IInv, WorkerOK
<1>6. Knows(w)'
  <2>1. CASE from = "reused" /\ to = "verify"
    BY <1>1, <1>2, <1>3, <1>4, <1>5, <2>1 DEF Knows
  <2>2. CASE from = "calibrate" /\ to = "fit"
    BY <1>1, <1>2, <1>3, <1>4, <1>5, <2>2 DEF Knows
  <2>3. CASE from = "checked" /\ to = "complete" /\ stage = "accepted"
    BY <1>1, <1>2, <1>3, <1>4, <1>5, <2>3 DEF Knows, Verified
  <2>4. CASE from = "stage" /\ to = "activate"
    BY <1>1, <1>2, <1>3, <1>4, <1>5, <2>4 DEF Knows, NoPublication
  <2>5. CASE from = "pending" /\ to = "readback"
    BY <1>1, <1>2, <1>3, <1>4, <1>5, <2>5 DEF Knows, Certifies
  <2>6. CASE from = "verified" /\ to = "complete" /\ stage = "verified"
    BY <1>1, <1>2, <1>3, <1>4, <1>5, <2>6 DEF Knows, Certifies, Verified
  <2> QED
    BY <2>1, <2>2, <2>3, <2>4, <2>5, <2>6
<1>7. to \in (Working \cup Handling) \ {"pin", "conflict"}
  BY DEF Working
<1> QED
  BY <1>1, <1>3, <1>6, <1>7, AdvanceByGoto

LEMMA AnnounceInv ==
    ASSUME IInv, NEW w \in Workers, Announce(w)
    PROVE  IInv'
<1>1. /\ worker[w].pc = "activate" /\ worker[w].pc \in Claimed /\ worker[w].pc # "idle"
      /\ Owned(w) /\ UNCHANGED <<source, lineage, pubs, worker>>
  BY DEF Announce, Guarded, Claimed, Working
<1>2. PICK j \in Jobs : j = worker[w].job
  BY <1>1, Busy
<1>3. PICK stage \in Stages : SetStage(w, stage)
  BY DEF Announce, Stages
<1>4. /\ job' \in [Jobs -> JobRows] /\ \A k \in Jobs : job'[k].attempts <= job'[k].max
      /\ job'[j].mode = job[j].mode /\ job'[j].candidate = job[j].candidate
      /\ \A k \in Jobs : Kept(k) \/ (k = worker[w].job /\ Grows(k) /\ JobOK(k)')
  BY <1>1, <1>2, <1>3, StageWritten
<1>5. Knows(w)'
  BY <1>1, <1>2, <1>4 DEF IInv, WorkerOK, Knows, NoPublication
<1>6. worker' \in [Workers -> Runners] /\ worker[w].expected <= Len(pubs)
  BY <1>1 DEF IInv, TypeOK, WorkerOK
<1> QED
  BY <1>1, <1>4, <1>5, <1>6, Advance

LEMMA HoldInv ==
    ASSUME IInv, NEW w \in Workers, Hold(w) \/ Unavailable(w)
    PROVE  IInv'
<1>1. /\ worker[w].pc \in Claimed /\ worker[w].pc # "idle"
      /\ UNCHANGED <<source, lineage, pubs>>
  BY DEF Hold, Unavailable, Claimed, Handling
<1>2. CASE Guarded(w)
  <2>1. PICK stage \in Stages, pc \in {"abort", "failing"} : SetStage(w, stage) /\ Goto(w, pc)
    BY <1>2 DEF Hold, Unavailable, Stages
  <2>2. PICK j \in Jobs : j = worker[w].job
    BY <1>1, Busy
  <2>3. /\ job' \in [Jobs -> JobRows] /\ \A k \in Jobs : job'[k].attempts <= job'[k].max
        /\ \A k \in Jobs : Kept(k) \/ (k = worker[w].job /\ Grows(k) /\ JobOK(k)')
    BY <1>1, <1>2, <2>1, <2>2, StageWritten DEF Guarded
  <2>4. worker'[w].pc = pc
    BY <2>1, GotoEffect DEF IInv, Handling
  <2>5. Knows(w)'
    BY <2>4 DEF Knows
  <2>6. pc \in (Working \cup Handling) \ {"pin", "conflict"}
    BY DEF Handling
  <2> QED
    BY <1>1, <1>2, <2>1, <2>3, <2>5, <2>6, AdvanceByGoto DEF Guarded
<1>3. CASE ~Guarded(w)
  <2>1. Exit(w) /\ UNCHANGED job
    BY <1>3 DEF Hold, Unavailable
  <2> QED
    BY <1>1, <2>1, RowsAlone, Leave
<1> QED
  BY <1>2, <1>3

(* The claim ends: by a failure, which keeps the row, or by success.       *)
LEMMA FailInv ==
    ASSUME IInv, NEW w \in Workers, Abort(w) \/ Fail(w)
    PROVE  IInv'
<1>1. Exit(w) /\ UNCHANGED <<source, lineage, pubs>>
  BY DEF Abort, Fail
<1>2. CASE UNCHANGED job
  BY <1>1, <1>2, RowsAlone, Leave
<1>3. CASE Owned(w) /\ ~UNCHANGED job
  <2>1. PICK j \in Jobs : j = worker[w].job /\ job[j].status = "running"
    BY <1>3 DEF Owned, Fields
  <2>2. PICK status \in {"queued", "failed"}, kind \in {"retryable", "permanent"} :
          job' = [job EXCEPT ![j] = [Release(job[j], status) EXCEPT !.kind = kind]]
    BY <1>3, <2>1 DEF Abort, Fail
  <2>3. /\ job' \in [Jobs -> JobRows] /\ \A k \in Jobs : job'[k].attempts <= job'[k].max
        /\ \A k \in Jobs : Kept(k)
    BY <2>1, <2>2, ReleasedKept
  <2> QED
    BY <1>1, <2>3, Leave
<1> QED
  BY <1>2, <1>3 DEF Abort, Fail, Guarded


(* A candidate is stored where there was none, for the inputs of the job.  *)
LEMMA CandidateWritten ==
    ASSUME IInv, NEW w \in Workers, NEW j \in Jobs, j = worker[w].job, Owned(w),
           job' = [job EXCEPT ![j].candidate = job[j].inputs],
           job[j].candidate = None, UNCHANGED pubs
    PROVE  /\ job' \in [Jobs -> JobRows] /\ \A k \in Jobs : job'[k].attempts <= job'[k].max
           /\ job'[j].candidate = job[j].inputs
           /\ \A k \in Jobs : Kept(k) \/ (k = worker[w].job /\ Grows(k) /\ JobOK(k)')
<1> DEFINE row == [job[j] EXCEPT !.candidate = job[j].inputs]
<1>1. job[j] \in JobRows /\ JobOK(j) /\ job[j].status = "running" /\ Fields(w) = job[j]
  BY DEF IInv, TypeOK, Owned, Fields
<1>2. job' = [job EXCEPT ![j] = row]
  OBVIOUS
<1>3. /\ row \in JobRows /\ row.status = job[j].status
      /\ row.owner = job[j].owner /\ row.attempts = job[j].attempts /\ row.max = job[j].max
      /\ row.mode = job[j].mode /\ row.identity = job[j].identity
      /\ row.inputs = job[j].inputs /\ row.expected = job[j].expected
      /\ row.candidate = job[j].inputs
  BY <1>1 DEF JobRows
<1> HIDE DEF row
<1>4. /\ row.status = "running" /\ row.owner = Fields(w).owner
      /\ row.attempts = Fields(w).attempts /\ row.max = Fields(w).max
      /\ row.mode = Fields(w).mode /\ row.identity = Fields(w).identity
      /\ row.inputs = Fields(w).inputs /\ row.expected = Fields(w).expected
      /\ Fields(w).candidate = None /\ row.candidate = row.inputs
      /\ row.expected <= Len(pubs)
  BY <1>1, <1>3 DEF JobOK
<1>5. /\ job' \in [Jobs -> JobRows] /\ \A k \in Jobs : job'[k].attempts <= job'[k].max
      /\ job'[j] = row
      /\ \A k \in Jobs : Kept(k) \/ (k = worker[w].job /\ Grows(k) /\ JobOK(k)')
  BY <1>2, <1>3, <1>4, OwnerWrites
<1> QED
  BY <1>3, <1>5

(* A donor is a job with the inputs of this one, and its candidate         *)
(* certifies them.                                                         *)
LEMMA DonorFits ==
    ASSUME IInv, NEW j \in Jobs, job[j].inputs # None, NEW d \in Donors(j)
    PROVE  job[d].candidate = job[j].inputs
<1>1. JobOK(d) /\ d \in Jobs
  BY DEF IInv, Donors
<1>2. /\ job[d].candidate # None /\ job[d].identity = job[j].inputs
      /\ job[d].status = "succeeded"
  BY DEF Donors
<1>3. job[d].candidate = job[d].inputs
  BY <1>1, <1>2 DEF JobOK
<1>4. job[d].inputs = job[d].identity
  BY <1>1, <1>2 DEF JobOK
<1> QED
  BY <1>2, <1>3, <1>4


LEMMA ReuseInv ==
    ASSUME IInv, NEW w \in Workers, Reuse(w)
    PROVE  IInv'
<1>1. /\ worker[w].pc = "reuse" /\ worker[w].pc \in Claimed /\ worker[w].pc # "idle"
      /\ UNCHANGED <<source, lineage, pubs>> /\ Owned(w)
  BY DEF Reuse, Guarded, Claimed, Working
<1>2. PICK j \in Jobs : j = worker[w].job
  BY <1>1, Busy
<1>3. job[j].inputs # None /\ job[j].candidate = None
  BY <1>1, <1>2 DEF IInv, WorkerOK, Knows
<1>4. CASE Donors(j) = {}
  <2>1. Goto(w, "calibrate") /\ UNCHANGED job
    BY <1>2, <1>4 DEF Reuse
  <2>2. worker'[w].pc = "calibrate" /\ worker'[w].job = j
    BY <1>2, <2>1, GotoEffect DEF IInv, Working
  <2>3. Knows(w)'
    BY <1>3, <2>1, <2>2 DEF Knows
  <2> QED
    BY <1>1, <2>1, <2>3, GoesOn DEF Working
<1>5. CASE Donors(j) # {}
  <2>1. PICK d \in Donors(j) : job' = [job EXCEPT ![j].candidate = job[d].candidate]
    BY <1>2, <1>5 DEF Reuse
  <2>2. job[d].candidate = job[j].inputs
    BY <1>3, DonorFits
  <2>3. /\ job' \in [Jobs -> JobRows] /\ \A k \in Jobs : job'[k].attempts <= job'[k].max
        /\ job'[j].candidate = job[j].inputs
        /\ \A k \in Jobs : Kept(k) \/ (k = worker[w].job /\ Grows(k) /\ JobOK(k)')
    BY <1>1, <1>2, <1>3, <2>1, <2>2, CandidateWritten
  <2>4. Goto(w, "reused")
    BY <1>2, <1>5 DEF Reuse
  <2>5. worker'[w].pc = "reused" /\ worker'[w].job = j
    BY <1>2, <2>4, GotoEffect DEF IInv, Working
  <2>6. Knows(w)'
    <3>1. job'[j].inputs # None
      <4>1. j = worker[w].job => job'[j].inputs = job[j].inputs
        BY <1>3, <2>3 DEF Kept, SameRow, Grows
      <4> QED
        BY <1>2, <1>3, <4>1
    <3> QED
      BY <1>3, <2>3, <2>5, <3>1 DEF Knows
  <2> QED
    BY <1>1, <2>3, <2>4, <2>6, AdvanceByGoto DEF Working
<1> QED
  BY <1>4, <1>5

LEMMA FitInv ==
    ASSUME IInv, NEW w \in Workers, Fit(w)
    PROVE  IInv'
<1>1. /\ worker[w].pc = "fit" /\ worker[w].pc \in Claimed /\ worker[w].pc # "idle"
      /\ UNCHANGED <<source, lineage, pubs>> /\ Owned(w) /\ Goto(w, "verify")
  BY DEF Fit, Guarded, Claimed, Working
<1>2. PICK j \in Jobs : j = worker[w].job /\ Fields(w) = job[j]
  BY <1>1, Busy
<1>3. job[j].inputs # None /\ job[j].candidate = None
  BY <1>1, <1>2 DEF IInv, WorkerOK, Knows
<1>4. job' = [job EXCEPT ![j].candidate = job[j].inputs]
  BY <1>2 DEF Fit
<1>5. /\ job' \in [Jobs -> JobRows] /\ \A k \in Jobs : job'[k].attempts <= job'[k].max
      /\ job'[j].candidate = job[j].inputs
      /\ \A k \in Jobs : Kept(k) \/ (k = worker[w].job /\ Grows(k) /\ JobOK(k)')
  BY <1>1, <1>2, <1>3, <1>4, CandidateWritten
<1>6. worker'[w].pc = "verify" /\ worker'[w].job = j
  BY <1>1, <1>2, GotoEffect DEF IInv, Working
<1>7. Knows(w)'
  BY <1>3, <1>5, <1>6 DEF Knows
<1> QED
  BY <1>1, <1>5, <1>7, AdvanceByGoto DEF Working

LEMMA PublishedInv ==
    ASSUME IInv, NEW w \in Workers, Published(w)
    PROVE  IInv'
<1>1. /\ worker[w].pc = "published" /\ worker[w].pc # "idle" /\ TypeOK
      /\ UNCHANGED <<source, lineage, pubs>> /\ Owned(w) /\ WorkerOK(w)
  BY DEF Published, Guarded, IInv
<1>2. PICK j \in Jobs : /\ j = worker[w].job /\ Fields(w) = job[j] /\ job[j] \in JobRows
                        /\ worker[w] \in Runners /\ JobOK(j)
  BY <1>1, Busy DEF IInv
<1> DEFINE row == [job[j] EXCEPT !.stage = "published", !.pub = worker[w].pub]
           r == [worker[w] EXCEPT !.pc = "pending", !.pub = 0]
<1>3. job[j].mode = "publish" /\ Certifies(worker[w].pub, j)
  BY <1>1, <1>2 DEF WorkerOK, Knows
<1>4. job' = [job EXCEPT ![j] = row] /\ Steps(w, r)
  BY <1>1, <1>2 DEF Published, Steps, TypeOK, JobRows, Runners
<1>5. /\ row \in JobRows /\ row.status = job[j].status /\ row.max = job[j].max
      /\ row.attempts = job[j].attempts /\ row.owner = job[j].owner
      /\ row.mode = job[j].mode /\ row.identity = job[j].identity
      /\ row.inputs = job[j].inputs /\ row.expected = job[j].expected
      /\ row.candidate = job[j].candidate /\ row.pub = worker[w].pub
  BY <1>2 DEF JobRows, Runners
<1>6. /\ r \in Runners /\ r.pc = "pending" /\ r.job = j /\ r.token = worker[w].token
      /\ r.expected = worker[w].expected
  BY <1>2, BlankRows DEF Runners, Revisions, Working
<1> HIDE DEF row, r
<1>7. /\ job' \in [Jobs -> JobRows] /\ \A k \in Jobs : job'[k].attempts <= job'[k].max
      /\ job'[j] = row
      /\ \A k \in Jobs : Kept(k) \/ (k = worker[w].job /\ Grows(k) /\ JobOK(k)')
  <2>1. /\ row.status = "running" /\ row.owner = Fields(w).owner
        /\ row.attempts = Fields(w).attempts /\ row.max = Fields(w).max
        /\ row.mode = Fields(w).mode /\ row.identity = Fields(w).identity
        /\ row.inputs = Fields(w).inputs /\ row.expected = Fields(w).expected
        /\ row.candidate = Fields(w).candidate
    BY <1>1, <1>2, <1>5 DEF Owned
  <2>2. /\ row.candidate # None => row.candidate = row.inputs
        /\ row.expected <= Len(pubs)
    BY <1>2, <1>5 DEF JobOK
  <2> QED
    BY <1>1, <1>2, <1>4, <1>5, <2>1, <2>2, OwnerWrites
<1>8. /\ worker' \in [Workers -> Runners] /\ worker'[w] = r
      /\ \A x \in Workers : x # w => worker'[x] = worker[x]
  BY <1>1, <1>4, <1>6, StepsEffect
<1>9. Knows(w)'
  BY <1>1, <1>3, <1>5, <1>6, <1>7, <1>8 DEF Knows, Certifies
<1>10. /\ worker'[w].pc \in Claimed \ {"conflict"} /\ worker'[w].pc # "pin"
       /\ worker[w].pc \in Claimed
  BY <1>1, <1>6, <1>8 DEF Claimed, Working
<1>11. worker'[w].expected <= Len(pubs)
  BY <1>1, <1>6, <1>8 DEF WorkerOK
<1> QED
  BY <1>1, <1>2, <1>6, <1>7, <1>8, <1>9, <1>10, <1>11, Advance

LEMMA CompleteInv ==
    ASSUME IInv, NEW w \in Workers, Complete(w)
    PROVE  IInv'
<1>1. /\ worker[w].pc = "complete" /\ worker[w].pc # "idle" /\ TypeOK /\ Exit(w)
      /\ UNCHANGED <<source, lineage, pubs>> /\ Owned(w) /\ WorkerOK(w)
  BY DEF Complete, Guarded, IInv
<1>2. PICK j \in Jobs : /\ j = worker[w].job /\ Fields(w) = job[j] /\ job[j] \in JobRows
                        /\ JobOK(j) /\ job[j].attempts <= job[j].max
  BY <1>1, Busy DEF IInv
<1>3. PICK row \in JobRows :
         /\ row = Release(job[j], "succeeded") /\ row.status = "succeeded"
         /\ row.attempts = job[j].attempts /\ row.max = job[j].max
         /\ row.mode = job[j].mode /\ row.identity = job[j].identity
         /\ row.inputs = job[j].inputs /\ row.expected = job[j].expected
         /\ row.candidate = job[j].candidate /\ row.stage = job[j].stage
         /\ row.pub = job[j].pub
  <2>1. "succeeded" \in {"queued"} \cup Terminal
    BY DEF Terminal
  <2> QED
    BY <1>2, <2>1, ReleasedRow
<1>4. job' = [job EXCEPT ![j] = row]
  BY <1>2, <1>3 DEF Complete
<1>5. /\ job' \in [Jobs -> JobRows] /\ \A k \in Jobs : job'[k].attempts <= job'[k].max
      /\ job'[j] = row /\ \A k \in Jobs : k # j => job'[k] = job[k]
  BY <1>1, <1>2, <1>3, <1>4, RowEffect
<1>6. Verified(j) /\ job[j].status = "running"
  BY <1>1, <1>2 DEF WorkerOK, Knows, Owned
<1>7. Grows(j)
  <2>1. job[j].attempts <= job[j].attempts
    BY <1>2, Bounds DEF JobRows
  <2> QED
    BY <1>3, <1>5, <1>6, <2>1 DEF Grows
<1>8. JobOK(j)'
  BY <1>1, <1>2, <1>3, <1>5, <1>6 DEF JobOK, Verified, Certifies
<1>9. ASSUME NEW k \in Jobs, k # j PROVE Kept(k)
  BY <1>1, <1>5, <1>9, UnchangedKept
<1> QED
  BY <1>1, <1>2, <1>5, <1>7, <1>8, <1>9, Leave


-----------------------------------------------------------------------------
(* Publications.                                                           *)

(* A revision is added.  Nobody else is about to publish the same job, and *)
(* nobody was refused a publication of it.                                 *)
LEMMA RevisionAdded ==
    ASSUME IInv, NEW row \in Publications, pubs' = Append(pubs, row),
           UNCHANGED <<source, lineage, job>>,
           row.job \in Jobs =>
              /\ job[row.job].mode = "publish" /\ job[row.job].candidate # None
              /\ row.cert = job[row.job].candidate /\ NoPublication(row.job)
    PROVE  /\ pubs' \in Seq(Publications) /\ Len(pubs') = Len(pubs) + 1 /\ Len(pubs) \in Nat
           /\ pubs'[Len(pubs) + 1] = row
           /\ \A j \in Jobs : JobOK(j)'
           /\ (\A p \in DOMAIN pubs : PubOK(p))' /\ PublishedOnce'
           /\ \A x \in Workers :
                 /\ worker'[x] = worker[x]
                 /\ row.job \in Jobs /\ worker[x].job = row.job =>
                      ~Owned(x) /\ worker[x].pc # "conflict"
                 => WorkerOK(x)'
<1>1. TypeOK /\ pubs \in Seq(Publications) /\ Len(pubs) \in Nat
  BY DEF IInv, TypeOK
<1>2. /\ pubs' \in Seq(Publications) /\ Len(pubs') = Len(pubs) + 1
      /\ pubs'[Len(pubs) + 1] = row
      /\ DOMAIN pubs = 1 .. Len(pubs) /\ DOMAIN pubs' = 1 .. (Len(pubs) + 1)
      /\ \A p \in DOMAIN pubs : p \in DOMAIN pubs' /\ pubs'[p] = pubs[p]
  BY <1>1
<1>3. \A p, k : Certifies(p, k) => Certifies(p, k)'
  BY <1>2 DEF Certifies
<1>4. ASSUME NEW j \in Jobs PROVE JobOK(j)'
  <2>1. JobOK(j) /\ job[j].expected \in Nat
    BY <1>1 DEF IInv, TypeOK, JobRows, Revisions
  <2>2. Verified(j) => Verified(j)'
    BY <1>3 DEF Verified
  <2>3. job[j].expected <= Len(pubs')
    BY <1>1, <1>2, <2>1 DEF JobOK
  <2> QED
    BY <2>1, <2>2, <2>3 DEF JobOK
<1>5. ASSUME NEW p \in DOMAIN pubs' PROVE PubOK(p)'
  <2>1. CASE p = Len(pubs) + 1
    BY <1>2, <2>1 DEF PubOK
  <2>2. CASE p # Len(pubs) + 1
    <3>1. p \in DOMAIN pubs
      BY <1>1, <1>2, <2>2
    <3> QED
      BY <1>2, <3>1 DEF IInv, PubOK
  <2> QED
    BY <2>1, <2>2
<1>6. PublishedOnce'
  <2>1. \A p \in DOMAIN pubs' : p \in DOMAIN pubs \/ p = Len(pubs) + 1
    BY <1>1, <1>2
  <2>2. row.job # NoJob => row.job \in Jobs
    BY DEF Publications
  <2> QED
    BY <1>2, <2>1, <2>2 DEF IInv, PublishedOnce, NoPublication
<1>7. ASSUME NEW x \in Workers, worker'[x] = worker[x],
             row.job \in Jobs /\ worker[x].job = row.job =>
               ~Owned(x) /\ worker[x].pc # "conflict"
      PROVE  WorkerOK(x)'
  <2>1. WorkerOK(x) /\ worker[x] \in Runners /\ worker[x].expected \in Nat
    BY <1>1 DEF IInv, TypeOK, Runners, Revisions
  <2>2. worker[x].expected <= Len(pubs')
    BY <1>1, <1>2, <2>1 DEF WorkerOK
  <2>3. NoPublication(worker[x].job) /\ worker[x].job \in Jobs /\ worker[x].job # row.job
          => NoPublication(worker[x].job)'
    <3>1. \A p \in DOMAIN pubs' : p \in DOMAIN pubs \/ p = Len(pubs) + 1
      BY <1>1, <1>2
    <3> QED
      BY <1>2, <1>7, <3>1 DEF NoPublication
  <2>4. ASSUME worker[x].pc = "conflict"
        PROVE  /\ job[worker[x].job].inputs # None
               /\ job[worker[x].job].expected < Len(pubs')
               /\ NoPublication(worker[x].job)'
    <3>1. /\ worker[x].job \in Jobs /\ job[worker[x].job].expected < Len(pubs)
          /\ NoPublication(worker[x].job) /\ job[worker[x].job].inputs # None
      BY <2>1, <2>4 DEF WorkerOK
    <3>2. job[worker[x].job].expected \in Nat
      BY <1>1, <3>1 DEF TypeOK, JobRows, Revisions
    <3>3. worker[x].job # row.job
      BY <1>7, <2>4, <3>1
    <3> QED
      BY <1>1, <1>2, <2>3, <3>1, <3>2, <3>3
  <2>5. ASSUME Owned(x)' PROVE Knows(x)'
    <3>1. Owned(x) /\ Knows(x) /\ worker[x].job \in Jobs
      BY <1>7, <2>1, <2>5 DEF WorkerOK, Owned, Fields
    <3>2. worker[x].job # row.job
      BY <1>7, <3>1
    <3>3. Verified(worker[x].job) => Verified(worker[x].job)'
      BY <1>3, <1>7 DEF Verified
    <3> QED
      BY <1>3, <1>7, <2>3, <3>1, <3>2, <3>3 DEF Knows
  <2> QED
    BY <1>7, <2>1, <2>2, <2>4, <2>5 DEF WorkerOK
<1> QED
  BY <1>1, <1>2, <1>4, <1>5, <1>6, <1>7

LEMMA OtherPublishesInv ==
    ASSUME IInv, OtherPublishes
    PROVE  IInv'
<1> DEFINE row == [job |-> NoJob, token |-> 0, cert |-> None]
<1>1. row \in Publications /\ row.job \notin Jobs
  BY Bounds, BlankRows, NullAssumption DEF Publications
<1>2. pubs' = Append(pubs, row) /\ UNCHANGED <<source, lineage, job, worker>>
  BY DEF OtherPublishes
<1> HIDE DEF row
<1>3. /\ pubs' \in Seq(Publications)
      /\ \A j \in Jobs : JobOK(j)'
      /\ (\A p \in DOMAIN pubs : PubOK(p))' /\ PublishedOnce'
      /\ \A x \in Workers : WorkerOK(x)'
  BY <1>1, <1>2, RevisionAdded
<1>4. TypeOK' /\ TokensUnique'
  BY <1>2, <1>3 DEF IInv, TypeOK, TokensUnique
<1> QED
  BY <1>3, <1>4 DEF IInv

(* What holds of the job when its owner comes to publish it.               *)
LEMMA AboutToPublish ==
    ASSUME IInv, NEW w \in Workers, Activate(w)
    PROVE  /\ worker[w].pc = "activate" /\ worker[w].pc \in Claimed /\ worker[w] \in Runners
           /\ TypeOK /\ Owned(w) /\ WorkerOK(w) /\ UNCHANGED <<source, lineage, job>>
           /\ \E j \in Jobs : /\ j = worker[w].job /\ Fields(w) = job[j] /\ job[j] \in JobRows
                              /\ job[j].candidate # None /\ job[j].mode = "publish"
                              /\ job[j].candidate = job[j].inputs
                              /\ job[j].expected <= Len(pubs) /\ NoPublication(j)
<1>1. /\ worker[w].pc = "activate" /\ worker[w].pc # "idle" /\ worker[w].pc \in Claimed
      /\ TypeOK /\ Owned(w) /\ WorkerOK(w) /\ UNCHANGED <<source, lineage, job>>
  BY DEF Activate, Guarded, Claimed, Working, IInv
<1>2. PICK j \in Jobs : /\ j = worker[w].job /\ Fields(w) = job[j] /\ job[j] \in JobRows
                        /\ worker[w] \in Runners /\ JobOK(j)
  BY <1>1, Busy DEF IInv
<1>3. job[j].candidate # None /\ job[j].mode = "publish" /\ NoPublication(j)
  BY <1>1, <1>2 DEF WorkerOK, Knows
<1> QED
  BY <1>1, <1>2, <1>3 DEF JobOK

LEMMA ActivateInv ==
    ASSUME IInv, NEW w \in Workers, Activate(w)
    PROVE  IInv'
<1>1. /\ worker[w].pc = "activate" /\ worker[w].pc \in Claimed /\ worker[w] \in Runners
      /\ TypeOK /\ Owned(w) /\ WorkerOK(w) /\ UNCHANGED <<source, lineage, job>>
  BY AboutToPublish
<1>2. PICK j \in Jobs : /\ j = worker[w].job /\ Fields(w) = job[j] /\ job[j] \in JobRows
                        /\ job[j].candidate # None /\ job[j].mode = "publish"
                        /\ job[j].candidate = job[j].inputs
                        /\ job[j].expected <= Len(pubs) /\ NoPublication(j)
  BY AboutToPublish
<1>3. CASE Goto(w, "hold") /\ UNCHANGED pubs
  <2>1. worker'[w].pc = "hold"
    BY <1>1, <1>3, GotoEffect DEF Handling
  <2>2. Knows(w)'
    BY <2>1 DEF Knows
  <2> QED
    BY <1>1, <1>3, <2>2, GoesOn DEF Handling
<1>4. CASE job[j].expected # Active /\ Goto(w, "conflict") /\ UNCHANGED pubs
  <2>1. /\ worker' \in [Workers -> Runners] /\ worker'[w].pc = "conflict"
        /\ worker'[w].job = j /\ worker'[w].token = worker[w].token
        /\ worker'[w].expected = worker[w].expected
        /\ \A x \in Workers : x # w => worker'[x] = worker[x]
    BY <1>1, <1>2, <1>4, GotoEffect DEF Handling
  <2>2. job[j].expected < Len(pubs)
    <3>1. job[j].expected \in Nat /\ Len(pubs) \in Nat
      BY <1>1, <1>2 DEF TypeOK, JobRows, Revisions
    <3> QED
      BY <1>2, <1>4, <3>1 DEF Active
  <2>3. Knows(w)'
    BY <2>1 DEF Knows
  <2>4. WorkerOK(w)'
    <3>1. worker[w].token > 0 /\ worker[w].token <= job[j].attempts
      BY <1>1, <1>2 DEF WorkerOK
    <3>2. worker'[w].expected <= Len(pubs)
      BY <1>1, <2>1 DEF WorkerOK
    <3> QED
      BY <1>1, <1>2, <1>4, <2>1, <2>2, <2>3, <3>1, <3>2
      DEF WorkerOK, NoPublication, Claimed, Handling
  <2>5. TypeOK' /\ \A k \in Jobs : Kept(k)
    BY <1>1, <1>4, <2>1, RowsAlone DEF TypeOK
  <2> QED
    BY <1>1, <1>2, <1>4, <2>1, <2>4, <2>5, WorkerStep
<1>5. CASE /\ job[j].expected = Active
           /\ pubs' = Append(pubs, [job |-> j, token |-> worker[w].token,
                                    cert |-> job[j].candidate])
           /\ worker' = [worker EXCEPT ![w].pc = "published", ![w].pub = Active + 1]
  <2> DEFINE row == [job |-> j, token |-> worker[w].token, cert |-> job[j].candidate]
             r == [worker[w] EXCEPT !.pc = "published", !.pub = Active + 1]
  <2>1. row \in Publications /\ row.job = j /\ row.cert = job[j].candidate
    BY <1>1, <1>2 DEF Publications, Runners, JobRows
  <2>2. Active + 1 \in Revisions
    BY <1>1 DEF TypeOK, Active, Revisions
  <2>3. /\ r \in Runners /\ r.pc = "published" /\ r.pub = Active + 1 /\ r.job = j
        /\ r.token = worker[w].token /\ r.expected = worker[w].expected
    BY <1>1, <1>2, <2>2 DEF Runners, Working
  <2>4. Steps(w, r) /\ pubs' = Append(pubs, row)
    BY <1>1, <1>5 DEF Steps, Runners
  <2> HIDE DEF r, row
  <2>5. /\ worker' \in [Workers -> Runners] /\ worker'[w] = r
        /\ \A x \in Workers : x # w => worker'[x] = worker[x]
    BY <1>1, <2>3, <2>4, StepsEffect
  <2>6. /\ pubs' \in Seq(Publications) /\ Len(pubs') = Len(pubs) + 1 /\ Len(pubs) \in Nat
        /\ pubs'[Len(pubs) + 1] = row
        /\ \A k \in Jobs : JobOK(k)'
        /\ (\A p \in DOMAIN pubs : PubOK(p))' /\ PublishedOnce'
        /\ \A x \in Workers :
              /\ worker'[x] = worker[x]
              /\ worker[x].job = j => ~Owned(x) /\ worker[x].pc # "conflict"
              => WorkerOK(x)'
    BY <1>1, <1>2, <2>1, <2>4, RevisionAdded
  <2>7. TypeOK'
    BY <1>1, <2>5, <2>6 DEF TypeOK
  <2>8. ASSUME NEW x \in Workers, x # w PROVE WorkerOK(x)'
    <3>1. ASSUME worker[x].job = j PROVE ~Owned(x) /\ worker[x].pc # "conflict"
      <4>1. ~Owned(x)
        <5> SUFFICES ASSUME Owned(x) PROVE FALSE
          OBVIOUS
        <5>1. /\ job[j].status = "running" /\ job[j].owner = worker[x].token
              /\ worker[x].token = worker[w].token
          BY <1>1, <1>2, <3>1 DEF Owned, Fields
        <5>2. worker[x].pc \in Claimed
          BY <3>1, <5>1, OwnersClaim
        <5> QED
          BY <1>1, <1>2, <2>8, <3>1, <5>1, <5>2 DEF IInv, TokensUnique
      <4>2. worker[x].pc # "conflict"
        <5>1. worker[x].pc = "conflict" => job[j].expected < Len(pubs)
          BY <3>1 DEF IInv, WorkerOK
        <5> QED
          BY <1>5, <2>6, <5>1 DEF Active
      <4> QED
        BY <4>1, <4>2
    <3> QED
      BY <2>5, <2>6, <2>8, <3>1
  <2>9. WorkerOK(w)'
    <3>1. worker[w].token > 0 /\ worker[w].token <= job[j].attempts
      BY <1>1, <1>2 DEF WorkerOK
    <3>2. worker'[w].expected <= Len(pubs')
      <4>1. worker[w].expected <= Len(pubs) /\ worker[w].expected \in Nat
        BY <1>1 DEF WorkerOK, Runners, Revisions
      <4> QED
        BY <2>3, <2>5, <2>6, <4>1
    <3>3. PICK p \in Nat : p = Len(pubs) + 1
      BY <2>6
    <3>4. Certifies(p, j)'
      BY <1>1, <2>1, <2>6, <3>3 DEF Certifies
    <3>5. Knows(w)'
      BY <1>1, <1>2, <2>3, <2>5, <3>3, <3>4 DEF Knows, Active
    <3>6. r.pc \in Claimed
      BY <2>3 DEF Claimed, Working
    <3> QED
      BY <1>1, <1>2, <2>3, <2>5, <3>1, <3>2, <3>5, <3>6 DEF WorkerOK
  <2>10. TokensUnique'
    <3>1. ASSUME NEW x \in Workers
          PROVE  /\ worker'[x].pc \in Claimed => worker[x].pc \in Claimed
                 /\ worker'[x].job = worker[x].job /\ worker'[x].token = worker[x].token
      BY <1>1, <1>2, <2>3, <2>5
    <3> QED
      BY <3>1 DEF IInv, TokensUnique
  <2> QED
    BY <2>6, <2>7, <2>8, <2>9, <2>10 DEF IInv
<1> QED
  BY <1>2, <1>3, <1>4, <1>5 DEF Activate


-----------------------------------------------------------------------------
(* The theorems.                                                           *)

LEMMA InitInv ==
    ASSUME Init
    PROVE  IInv
<1>1. /\ \A j \in Jobs : job[j] = AbsentJob
      /\ \A w \in Workers : worker[w] = Idle
      /\ pubs = <<>> /\ Len(pubs) = 0 /\ DOMAIN pubs = {}
  BY DEF Init
<1>2. TypeOK
  <2>1. source \in 0 .. MaxVersion /\ lineage \in 0 .. MaxLineage
    BY BoundsAssumption DEF Init
  <2>2. job \in [Jobs -> JobRows] /\ worker \in [Workers -> Runners]
    BY BlankRows DEF Init
  <2>3. \A j \in Jobs : job[j].attempts <= job[j].max
    BY <1>1 DEF AbsentJob
  <2>4. pubs \in Seq(Publications)
    BY <1>1
  <2> QED
    BY <2>1, <2>2, <2>3, <2>4 DEF TypeOK
<1>3. ASSUME NEW j \in Jobs PROVE JobOK(j)
  <2>1. job[j] = AbsentJob
    BY <1>1
  <2>2. /\ job[j].status = "absent" /\ job[j].identity = None
        /\ job[j].candidate = None /\ job[j].expected = 0
    BY <1>1 DEF AbsentJob
  <2> QED
    BY <1>1, <2>1, <2>2 DEF JobOK
<1>4. ASSUME NEW w \in Workers PROVE WorkerOK(w) /\ worker[w].pc \notin Claimed
  BY <1>1, NullAssumption DEF WorkerOK, Idle, Owned, Claimed, Working, Handling
<1>5. (\A p \in DOMAIN pubs : PubOK(p)) /\ PublishedOnce /\ TokensUnique
  BY <1>1, <1>4 DEF PublishedOnce, TokensUnique
<1> QED
  BY <1>2, <1>3, <1>4, <1>5 DEF IInv

(* Only two steps add a revision.                                          *)
LEMMA OthersPublishNothing ==
    ASSUME Next, pubs' # pubs
    PROVE  OtherPublishes \/ \E w \in Workers : Activate(w)
BY DEF Next, Step, SourceMoves, LineageMoves, Submit, RequestCancel, Retry, Expire, Run,
       Claim, ReadInputs, InsertInputs, ReadCandidate, Reuse, Transition, Fit, Verify, Match,
       Announce, Published, Readback, Complete, Hold, Abort, Unavailable, Fail, Refuse, Crash

LEMMA StepInv ==
    ASSUME IInv, NEW w \in Workers, Step(w)
    PROVE  IInv'
<1>1. /\ {"reused", "calibrate", "checked", "stage", "pending", "verified"} \subseteq Working
      /\ {"accepted", "calibrating", "staging", "verification_pending", "verified"}
           \subseteq Stages
  BY DEF Working, Stages
<1>2. CASE \/ Transition(w, "reused", "verify", "accepted")
           \/ Transition(w, "calibrate", "fit", "calibrating")
           \/ Transition(w, "checked", "complete", "accepted")
           \/ Transition(w, "stage", "activate", "staging")
           \/ Transition(w, "pending", "readback", "verification_pending")
           \/ Transition(w, "verified", "complete", "verified")
  BY <1>1, <1>2, TransitionInv
<1>3. CASE \/ Claim(w) \/ ReadInputs(w) \/ InsertInputs(w) \/ ReadCandidate(w) \/ Reuse(w)
           \/ Fit(w) \/ Verify(w) \/ Match(w) \/ Announce(w) \/ Activate(w) \/ Published(w)
           \/ Readback(w) \/ Complete(w) \/ Hold(w) \/ Abort(w) \/ Unavailable(w) \/ Fail(w)
  BY <1>3, ClaimInv, ReadInputsInv, InsertInputsInv, ReadCandidateInv, ReuseInv, FitInv,
     VerifyInv, MatchInv, AnnounceInv, ActivateInv, PublishedInv, ReadbackInv, CompleteInv,
     HoldInv, FailInv
<1> QED
  BY <1>2, <1>3 DEF Step

LEMMA Inductive ==
    ASSUME IInv, [Next]_vars
    PROVE  IInv'
<1>1. CASE UNCHANGED vars
  <2>1. UNCHANGED <<source, lineage, pubs, job, worker>> /\ TypeOK'
    BY <1>1 DEF vars, IInv, TypeOK
  <2> QED
    BY <2>1, RowsAlone, NobodyActs
<1>2. CASE \/ SourceMoves \/ LineageMoves \/ OtherPublishes
  BY <1>2, SourceInv, OtherPublishesInv
<1>3. ASSUME NEW j \in Jobs,
             \/ \E mode \in {"prepare", "publish"}, outcome \in {"pinned", "awaiting", "broken"} :
                   Submit(j, mode, outcome)
             \/ RequestCancel(j) \/ Retry(j) \/ Expire(j)
             \/ \E w \in Workers : Run(w, j)
      PROVE  IInv'
  BY <1>3, SubmitInv, CancelInv, RetryInv, ExpireInv, RunInv
<1>4. ASSUME NEW w \in Workers, Step(w) \/ Refuse(w) \/ Crash(w) PROVE IInv'
  BY <1>4, StepInv, RefuseInv, CrashInv
<1> QED
  BY <1>1, <1>2, <1>3, <1>4 DEF Next

(* The state of the run has its type, whatever commands, processes and     *)
(* publishers do.                                                          *)
THEOREM TypeCorrect == Spec => []TypeOK
<1>1. IInv => TypeOK
  BY DEF IInv
<1> QED
  BY <1>1, InitInv, Inductive, PTL DEF Spec

(* A job that ended in success says so of its own candidate: a publishing  *)
(* one names a verified revision with its certificate, a preparing one has *)
(* published nothing.                                                      *)
THEOREM SuccessIsVerified == Spec => []SuccessVerified
<1>1. ASSUME IInv PROVE SuccessVerified
  <2>1. ASSUME NEW j \in Jobs, job[j].status = "succeeded", job[j].mode # "publish",
               NEW p \in DOMAIN pubs
        PROVE  pubs[p].job # j
    BY <1>1, <2>1 DEF IInv, PubOK
  <2> QED
    BY <1>1, <2>1 DEF SuccessVerified, IInv, JobOK, Verified, Certifies
<1> QED
  BY <1>1, InitInv, Inductive, PTL DEF Spec

(* A stored candidate certifies the inputs its job was pinned to, also     *)
(* when it was fitted by another job.                                      *)
THEOREM CandidatesFit == Spec => []CandidateFits
<1>1. IInv => CandidateFits
  BY DEF IInv, JobOK, CandidateFits
<1> QED
  BY <1>1, InitInv, Inductive, PTL DEF Spec

(* No job is held for a conflict with a revision it published itself, and  *)
(* none publishes twice, however often its processes die after the commit. *)
THEOREM OwnCommitIsFound == Spec => []OwnCommitFound
<1>1. ASSUME IInv PROVE OwnCommitFound
  <2>1. ASSUME NEW w \in Workers, worker[w].pc = "conflict"
        PROVE  pubs[Active].job # worker[w].job
    <3>1. /\ NoPublication(worker[w].job) /\ worker[w].job \in Jobs
          /\ job[worker[w].job].expected < Len(pubs)
      BY <1>1, <2>1 DEF IInv, WorkerOK
    <3>2. Active \in DOMAIN pubs
      <4>1. pubs \in Seq(Publications) /\ job[worker[w].job].expected \in Nat
        BY <1>1, <3>1 DEF IInv, TypeOK, JobRows, Revisions
      <4> QED
        BY <3>1, <4>1 DEF Active
    <3> QED
      BY <3>1, <3>2 DEF NoPublication
  <2> QED
    BY <1>1, <2>1 DEF OwnCommitFound, IInv, PublishedOnce
<1> QED
  BY <1>1, InitInv, Inductive, PTL DEF Spec

(* What a step that adds a revision of a job does.                         *)
LEMMA ActivationEffect ==
    ASSUME IInv, [Next]_vars, Len(pubs') > Len(pubs), pubs'[Len(pubs')].job # NoJob
    PROVE  \E w \in Workers, j \in Jobs :
              /\ Guarded(w) /\ j = worker[w].job /\ Fields(w) = job[j]
              /\ SourceUnchanged(j)
              /\ pubs'[Len(pubs')].job = j /\ pubs'[Len(pubs')].token = worker[w].token
              /\ pubs'[Len(pubs')].cert = job[j].inputs /\ job[j].inputs \in Identities
<1>1. pubs \in Seq(Publications) /\ Len(pubs) \in Nat
  BY DEF IInv, TypeOK
<1>2. pubs' # pubs /\ Next
  BY <1>1 DEF vars
<1>3. ~OtherPublishes
  BY <1>1 DEF OtherPublishes
<1>4. PICK w \in Workers : Activate(w)
  BY <1>2, <1>3, OthersPublishNothing
<1>5. PICK j \in Jobs : /\ j = worker[w].job /\ Fields(w) = job[j] /\ job[j] \in JobRows
                        /\ job[j].candidate = job[j].inputs
  BY <1>4, AboutToPublish
<1>6. /\ pubs' = Append(pubs, [job |-> j, token |-> worker[w].token, cert |-> job[j].candidate])
      /\ SourceUnchanged(j) /\ Guarded(w)
  BY <1>2, <1>4, <1>5 DEF Activate
<1>7. pubs'[Len(pubs')] = [job |-> j, token |-> worker[w].token, cert |-> job[j].candidate]
  BY <1>1, <1>6
<1>8. job[j].inputs \in Identities
  BY <1>5 DEF JobRows
<1> QED
  BY <1>5, <1>6, <1>7, <1>8

(* What the property says of one row.                                      *)
RowStands(j) ==
    /\ job[j].inputs # None =>
         job'[j].inputs = job[j].inputs /\ job'[j].expected = job[j].expected
    /\ job[j].candidate # None => job'[j].candidate = job[j].candidate
    /\ Settled(j) => job'[j] = job[j]

(* Only a running row has a lease.                                         *)
LeasesRun == \A j \in Jobs : job[j].live => job[j].status = "running"

(* A step that writes one row keeps the artifacts that are there, and      *)
(* writes no settled row.                                                  *)
LEMMA WriteStands ==
    ASSUME TypeOK, LeasesRun, NEW j \in Jobs, NEW row, job' = [job EXCEPT ![j] = row],
           ~Settled(j), row.live => row.status = "running",
           job[j].inputs # None => row.inputs = job[j].inputs /\ row.expected = job[j].expected,
           job[j].candidate # None => row.candidate = job[j].candidate
    PROVE  LeasesRun' /\ \A k \in Jobs : RowStands(k)
<1>1. job'[j] = row /\ \A k \in Jobs : k # j => job'[k] = job[k]
  BY DEF TypeOK
<1> QED
  BY <1>1 DEF RowStands, LeasesRun

LEMMA NoWriteStands ==
    ASSUME LeasesRun, UNCHANGED job
    PROVE  LeasesRun' /\ \A k \in Jobs : RowStands(k)
BY DEF LeasesRun, RowStands

(* Releasing a row that runs, under any status and failure kind.           *)
LEMMA ReleaseStands ==
    ASSUME TypeOK, LeasesRun, NEW j \in Jobs, job[j].status \in {"queued", "running"},
           NEW status \in {"queued"} \cup Terminal,
           NEW kind \in {"none", "retryable", "permanent"},
           \/ job' = [job EXCEPT ![j] = Release(job[j], status)]
           \/ job' = [job EXCEPT ![j] = [Release(job[j], status) EXCEPT !.kind = kind]]
    PROVE  LeasesRun' /\ \A k \in Jobs : RowStands(k)
<1> DEFINE free == Release(job[j], status)
           kinded == [free EXCEPT !.kind = kind]
<1>1. job[j] \in JobRows
  BY DEF TypeOK
<1>2. /\ free \in JobRows /\ free.live = FALSE /\ free.inputs = job[j].inputs
      /\ free.expected = job[j].expected /\ free.candidate = job[j].candidate
  BY <1>1, ReleasedRow
<1>3. PICK row : job' = [job EXCEPT ![j] = row] /\ (row = free \/ row = kinded)
  OBVIOUS
<1> HIDE DEF free
<1>4. /\ kinded.live = FALSE /\ kinded.inputs = job[j].inputs
      /\ kinded.expected = job[j].expected /\ kinded.candidate = job[j].candidate
  BY <1>2 DEF JobRows
<1> HIDE DEF kinded
<1>5. /\ ~row.live /\ row.inputs = job[j].inputs
      /\ row.expected = job[j].expected /\ row.candidate = job[j].candidate
  BY <1>2, <1>3, <1>4
<1>6. ~Settled(j)
  BY DEF Settled
<1> QED
  BY <1>3, <1>5, <1>6, WriteStands

(* Commands and the clock write no artifact of a row that has one.         *)
LEMMA CommandStands ==
    ASSUME IInv, LeasesRun, NEW j \in Jobs,
           \/ \E mode \in {"prepare", "publish"}, outcome \in {"pinned", "awaiting", "broken"} :
                 Submit(j, mode, outcome)
           \/ RequestCancel(j) \/ Retry(j) \/ Expire(j)
           \/ \E w \in Workers : Run(w, j)
    PROVE  LeasesRun' /\ \A k \in Jobs : RowStands(k)
<1>1. /\ TypeOK /\ job[j] \in JobRows /\ (job[j].status = "absent" => job[j] = AbsentJob)
      /\ (job[j].live => job[j].status = "running")
  BY DEF IInv, TypeOK, JobOK, LeasesRun
<1>2. CASE \E mode \in {"prepare", "publish"}, outcome \in {"pinned", "awaiting", "broken"} :
             Submit(j, mode, outcome)
  <2>1. PICK row : job' = [job EXCEPT ![j] = row] /\ row.live = FALSE
    <3>1. PICK mode \in {"prepare", "publish"}, outcome \in {"pinned", "awaiting", "broken"} :
            Submit(j, mode, outcome)
      BY <1>2
    <3> DEFINE pin == IF outcome = "pinned" THEN [source |-> source, lineage |-> lineage] ELSE None
               row == [AbsentJob EXCEPT !.status = "queued", !.max = MaxAttempts, !.mode = mode,
                         !.awaiting = (outcome = "awaiting"), !.identity = pin, !.inputs = pin,
                         !.expected = IF outcome = "pinned" THEN Active ELSE 0,
                         !.stage = IF outcome = "pinned" THEN "prepared" ELSE "waiting"]
    <3>2. job' = [job EXCEPT ![j] = row]
      BY <3>1 DEF Submit
    <3>3. row.live = FALSE
      BY DEF AbsentJob
    <3> QED
      BY <3>2, <3>3
  <2>2. job[j].inputs = None /\ job[j].candidate = None /\ ~Settled(j)
    BY <1>1, <1>2 DEF Submit, AbsentJob, Settled
  <2> QED
    BY <1>1, <2>1, <2>2, WriteStands
<1>3. CASE RequestCancel(j)
  BY <1>1, <1>3, ReleaseStands DEF RequestCancel, Terminal
<1>4. CASE Retry(j)
  <2> DEFINE row == [job[j] EXCEPT !.status = "queued", !.max = @ + RetryGrant]
  <2>1. job' = [job EXCEPT ![j] = row] /\ ~Settled(j) /\ ~job[j].live
    BY <1>1, <1>4 DEF Retry, Settled
  <2>2. /\ row.inputs = job[j].inputs /\ row.expected = job[j].expected
        /\ row.candidate = job[j].candidate /\ row.live = job[j].live
    BY <1>1 DEF JobRows
  <2> QED
    BY <1>1, <2>1, <2>2, WriteStands
<1>5. CASE Expire(j)
  <2> DEFINE row == [job[j] EXCEPT !.live = FALSE]
  <2>1. job' = [job EXCEPT ![j] = row] /\ ~Settled(j)
    BY <1>1, <1>5 DEF Expire, Settled
  <2>2. /\ row.inputs = job[j].inputs /\ row.expected = job[j].expected
        /\ row.candidate = job[j].candidate /\ row.live = FALSE
    BY <1>1 DEF JobRows
  <2> QED
    BY <1>1, <2>1, <2>2, WriteStands
<1>6. CASE \E w \in Workers : Run(w, j)
  <2>1. CASE UNCHANGED job
    BY <2>1, NoWriteStands
  <2>2. CASE ~UNCHANGED job
    <3>1. /\ job' = [job EXCEPT ![j] = [Release(job[j], "failed") EXCEPT !.kind = "retryable"]]
          /\ job[j].status = "running"
      BY <1>6, <2>2 DEF Run, Exhausted
    <3> QED
      BY <1>1, <3>1, ReleaseStands DEF Terminal
  <2> QED
    BY <2>1, <2>2
<1> QED
  BY <1>2, <1>3, <1>4, <1>5, <1>6

(* A process writes a row under its claim, or leaves the rows alone.       *)
LEMMA ClaimStepStands ==
    ASSUME IInv, LeasesRun, NEW w \in Workers, Claim(w)
    PROVE  LeasesRun' /\ \A k \in Jobs : RowStands(k)
<1>1. CASE UNCHANGED job
  BY <1>1, NoWriteStands
<1>2. CASE ~UNCHANGED job
  <2> DEFINE j == worker[w].job
             row == [job[j] EXCEPT !.status = "running", !.attempts = job[j].attempts + 1,
                                   !.owner = job[j].attempts + 1, !.live = TRUE]
  <2>1. j \in Jobs /\ job[j] \in JobRows /\ TypeOK
    BY <1>2, Busy DEF Claim, IInv, TypeOK
  <2>2. job' = [job EXCEPT ![j] = row] /\ ~Settled(j)
    BY <1>2 DEF Claim, Claimable, Settled
  <2>3. /\ row.inputs = job[j].inputs /\ row.expected = job[j].expected
        /\ row.candidate = job[j].candidate /\ row.status = "running"
    BY <2>1 DEF JobRows
  <2> HIDE DEF j, row
  <2> QED
    BY <2>1, <2>2, <2>3, WriteStands
<1> QED
  BY <1>1, <1>2

LEMMA OwnerStands ==
    ASSUME IInv, LeasesRun, NEW w \in Workers, Step(w), ~Claim(w)
    PROVE  LeasesRun' /\ \A k \in Jobs : RowStands(k)
<1>1. CASE UNCHANGED job
  BY <1>1, NoWriteStands
<1>2. CASE ~UNCHANGED job
  <2>1. Owned(w)
    BY <1>2 DEF Step, ReadInputs, InsertInputs, ReadCandidate, Reuse, Transition, Fit, Verify,
       Match, Announce, Activate, Published, Readback, Complete, Hold, Abort, Unavailable, Fail,
       Guarded
  <2>2. PICK j \in Jobs : j = worker[w].job /\ Fields(w) = job[j] /\ job[j].status = "running"
    BY <2>1 DEF Owned, Fields
  <2>3. TypeOK /\ job[j] \in JobRows /\ ~Settled(j) /\ WorkerOK(w) /\ Knows(w)
    BY <2>1, <2>2 DEF IInv, TypeOK, Settled, WorkerOK
  <2>4. CASE Complete(w) \/ Abort(w) \/ Fail(w)
    <3>1. PICK status \in {"queued", "failed", "succeeded"}, kind \in {"retryable", "permanent"} :
            \/ job' = [job EXCEPT ![j] = Release(job[j], status)]
            \/ job' = [job EXCEPT ![j] = [Release(job[j], status) EXCEPT !.kind = kind]]
      BY <1>2, <2>2, <2>4 DEF Complete, Abort, Fail
    <3> QED
      BY <2>2, <2>3, <3>1, ReleaseStands DEF Terminal
  <2>5. CASE InsertInputs(w)
    <3> DEFINE row == [job[j] EXCEPT !.inputs = worker[w].pinned, !.expected = worker[w].expected]
    <3>1. job' = [job EXCEPT ![j] = row] /\ job[j].inputs = None
      BY <2>2, <2>3, <2>5 DEF InsertInputs, Knows
    <3>2. row.candidate = job[j].candidate /\ row.status = "running"
      BY <2>2, <2>3 DEF JobRows
    <3> QED
      BY <2>3, <3>1, <3>2, WriteStands
  <2>6. CASE Reuse(w) \/ Fit(w)
    <3>1. PICK c : job' = [job EXCEPT ![j].candidate = c]
      BY <1>2, <2>2, <2>6 DEF Reuse, Fit
    <3>2. job[j].candidate = None
      BY <2>2, <2>3, <2>6 DEF Reuse, Fit, Knows
    <3> DEFINE row == [job[j] EXCEPT !.candidate = c]
    <3>3. /\ row.inputs = job[j].inputs /\ row.expected = job[j].expected
          /\ row.status = "running" /\ job' = [job EXCEPT ![j] = row]
      BY <2>2, <2>3, <3>1 DEF JobRows
    <3> HIDE DEF row
    <3> QED
      BY <2>3, <3>2, <3>3, WriteStands
  <2>7. CASE ~(\/ Complete(w) \/ Abort(w) \/ Fail(w) \/ InsertInputs(w) \/ Reuse(w) \/ Fit(w))
    <3>1. (\E stage : SetStage(w, stage)) \/ Published(w)
      <4>1. CASE Announce(w)
        BY <4>1 DEF Announce
      <4>2. CASE Hold(w)
        BY <1>2, <4>2 DEF Hold
      <4>3. CASE Unavailable(w)
        BY <1>2, <4>3 DEF Unavailable
      <4>4. ASSUME NEW from, NEW to, NEW stage, Transition(w, from, to, stage)
            PROVE  \E s : SetStage(w, s)
        BY <4>4 DEF Transition
      <4>5. CASE ReadInputs(w) \/ ReadCandidate(w) \/ Verify(w) \/ Match(w) \/ Activate(w) \/ Readback(w)
        BY <1>2, <4>5 DEF ReadInputs, ReadCandidate, Verify, Match, Activate, Readback
      <4> QED
        BY <2>7, <4>1, <4>2, <4>3, <4>4, <4>5 DEF Step
    <3>2. PICK stage, pub : job' = [job EXCEPT ![j] = [job[j] EXCEPT !.stage = stage, !.pub = pub]]
      <4>1. CASE Published(w)
        BY <2>2, <4>1 DEF Published
      <4>2. ASSUME NEW stage, SetStage(w, stage)
            PROVE  job' = [job EXCEPT ![j] = [job[j] EXCEPT !.stage = stage, !.pub = job[j].pub]]
        <5>1. job' = [job EXCEPT ![j] = [job[j] EXCEPT !.stage = stage]]
          BY <2>2, <4>2 DEF SetStage
        <5>2. [job[j] EXCEPT !.stage = stage] = [job[j] EXCEPT !.stage = stage, !.pub = job[j].pub]
          BY <2>3 DEF JobRows
        <5> QED
          BY <5>1, <5>2
      <4> QED
        BY <3>1, <4>1, <4>2
    <3> DEFINE row == [job[j] EXCEPT !.stage = stage, !.pub = pub]
    <3>3. /\ row.inputs = job[j].inputs /\ row.expected = job[j].expected
          /\ row.candidate = job[j].candidate /\ row.status = "running"
      BY <2>2, <2>3 DEF JobRows
    <3> HIDE DEF row
    <3> QED
      BY <2>3, <3>2, <3>3, WriteStands DEF row
  <2> QED
    BY <2>4, <2>5, <2>6, <2>7
<1> QED
  BY <1>1, <1>2

LEMMA StepStands ==
    ASSUME IInv, LeasesRun, [Next]_vars
    PROVE  LeasesRun' /\ \A k \in Jobs : RowStands(k)
<1>1. CASE UNCHANGED job
  BY <1>1, NoWriteStands
<1>2. CASE ~UNCHANGED job
  <2>1. \/ \E j \in Jobs :
             \/ \E mode \in {"prepare", "publish"}, outcome \in {"pinned", "awaiting", "broken"} :
                   Submit(j, mode, outcome)
             \/ RequestCancel(j) \/ Retry(j) \/ Expire(j)
             \/ \E w \in Workers : Run(w, j)
        \/ \E w \in Workers : Step(w)
    BY <1>2 DEF Next, vars, SourceMoves, LineageMoves, OtherPublishes, Refuse, Crash
  <2> QED
    BY <2>1, CommandStands, ClaimStepStands, OwnerStands
<1> QED
  BY <1>1, <1>2

(* A revision is added for no settled job.                                 *)
LEMMA SettledPublishNothing ==
    ASSUME IInv, [Next]_vars, NEW j \in Jobs, Settled(j), NEW p \in DOMAIN pubs', pubs'[p].job = j
    PROVE  p \in DOMAIN pubs
<1>1. CASE pubs' = pubs
  BY <1>1
<1>2. CASE pubs' # pubs
  <2>1. /\ pubs \in Seq(Publications) /\ Len(pubs) \in Nat
        /\ OtherPublishes \/ \E w \in Workers : Activate(w)
    BY <1>2, OthersPublishNothing DEF IInv, TypeOK, vars
  <2>2. PICK new : pubs' = Append(pubs, new) /\ new.job # j
    <3>1. CASE OtherPublishes
      BY <3>1, NullAssumption DEF OtherPublishes
    <3>2. ASSUME NEW w \in Workers, Activate(w)
          PROVE  \E new : pubs' = Append(pubs, new) /\ new.job # j
      <4>1. PICK i \in Jobs : i = worker[w].job /\ Fields(w) = job[i] /\ Owned(w)
        BY <3>2, AboutToPublish
      <4>2. i # j
        BY <4>1 DEF Owned, Settled
      <4>3. pubs' = Append(pubs, [job |-> i, token |-> worker[w].token, cert |-> job[i].candidate])
        BY <1>2, <3>2, <4>1 DEF Activate
      <4> QED
        BY <4>2, <4>3
    <3> QED
      BY <2>1, <3>1, <3>2
  <2>3. p \in 1 .. Len(pubs) + 1 /\ (p = Len(pubs) + 1 => pubs'[p] = new)
    BY <2>1, <2>2
  <2> QED
    BY <2>1, <2>2, <2>3
<1> QED
  BY <1>1, <1>2

(* Inputs, the revision pinned with them and a candidate are saved once,   *)
(* and a job that succeeded, was cancelled or was held keeps its row and   *)
(* its revisions, whatever the processes that lost it still try.           *)
THEOREM WhatIsSavedStands == Spec => SavedStands
<1>1. Init => IInv /\ LeasesRun
  BY InitInv DEF Init, LeasesRun, AbsentJob
<1>2. ASSUME IInv, LeasesRun, [Next]_vars
      PROVE  /\ IInv' /\ LeasesRun'
             /\ \A j \in Jobs :
                  /\ job[j].inputs # None =>
                       job'[j].inputs = job[j].inputs /\ job'[j].expected = job[j].expected
                  /\ job[j].candidate # None => job'[j].candidate = job[j].candidate
                  /\ Settled(j) =>
                       /\ job'[j] = job[j]
                       /\ \A p \in DOMAIN pubs' : pubs'[p].job = j => p \in DOMAIN pubs
  <2>1. IInv' /\ LeasesRun' /\ \A j \in Jobs : RowStands(j)
    BY <1>2, Inductive, StepStands
  <2> QED
    BY <1>2, <2>1, SettledPublishNothing DEF RowStands
<1> QED
  BY <1>1, <1>2, PTL DEF Spec, SavedStands

(* What is activated was fitted to the source and to the preceding         *)
(* publication as they are at that moment.                                 *)
THEOREM ActivationIsCurrent == Spec => CurrentActivation
<1>1. ASSUME IInv, [Next]_vars, Len(pubs') > Len(pubs), pubs'[Len(pubs')].job # NoJob
      PROVE  pubs'[Len(pubs')].cert = [source |-> source, lineage |-> lineage]
  <2>1. PICK j \in Jobs : /\ SourceUnchanged(j) /\ job[j].inputs \in Identities
                          /\ pubs'[Len(pubs')].cert = job[j].inputs
    BY <1>1, ActivationEffect
  <2> QED
    BY <2>1 DEF SourceUnchanged, Identities
<1> QED
  BY <1>1, InitInv, Inductive, PTL DEF Spec, CurrentActivation
=============================================================================
