------------------------ MODULE SettlementWorkerProofs ------------------------
(***************************************************************************)
(* Theorems about SettlementWorker, and about the alerts computed over it, *)
(* for any dates, snapshots, processes and bounds.  As in DailyRunProofs,  *)
(* what a process at some step knows of its job holds as long as the row   *)
(* carries its claim, and every transaction asks for that again.           *)
(***************************************************************************)
EXTENDS SettlementAlerts, FiniteSetTheorems, TLAPS

-----------------------------------------------------------------------------
(* Constants and rows.                                                     *)

LEMMA Bounds ==
    /\ MostAttempts \in Nat /\ MaxAttempts \in 0 .. MostAttempts /\ MaxAttempts > 0
    /\ 0 \in 0 .. MostAttempts /\ RetryGrant \in Nat
    /\ Targets \in Nat /\ Targets > 0 /\ Candidate = Targets + 1 /\ Skipped = Targets + 2
    /\ 0 \in 0 .. Skipped /\ Candidate \in 0 .. Skipped /\ Skipped \in 0 .. Skipped
<1>1. RetryGrant * MaxRetries \in Nat
  BY BoundsAssumption
<1> QED
  BY <1>1, BoundsAssumption DEF MostAttempts, Candidate, Skipped

LEMMA BlankRows == AbsentJob \in JobRows /\ Idle \in Processes
<1>1. AbsentJob \in JobRows
  BY Bounds DEF AbsentJob, JobRows, Terminal, Revisions
<1>2. Idle \in Processes
  BY Bounds DEF Idle, Processes, Revisions
<1> QED
  BY <1>1, <1>2

(* The jobs of one mode are as many as dates and versions.                 *)
LEMMA JobsOfMode ==
    ASSUME NEW mode, NEW V \in SUBSET (1 .. MaxVersion)
    PROVE  IsFiniteSet([cob : Cobs, mode : {mode}, version : V])
<1> DEFINE T == [cob : Cobs, mode : {mode}, version : V]
           f == [p \in Cobs \X V |-> [cob |-> p[1], mode |-> mode, version |-> p[2]]]
<1>1. IsFiniteSet(1 .. MaxVersion)
  BY BoundsAssumption, FS_Interval
<1>2. IsFiniteSet(V)
  BY <1>1, FS_Subset
<1>3. IsFiniteSet(Cobs \X V)
  BY <1>2, CobsAssumption, FS_Product
<1>4. f \in Surjection(Cobs \X V, T)
  <2>1. \A p \in Cobs \X V : f[p] \in T
    OBVIOUS
  <2>2. ASSUME NEW t \in T PROVE \E p \in Cobs \X V : f[p] = t
    <3>1. <<t.cob, t.version>> \in Cobs \X V
      OBVIOUS
    <3>2. f[<<t.cob, t.version>>] = t
      BY <3>1
    <3> QED
      BY <3>1, <3>2
  <2> QED
    BY <2>1, <2>2 DEF Surjection
<1> QED
  BY <1>3, <1>4, FS_Surjection

LEMMA JobsFinite == IsFiniteSet(Jobs)
<1>1. ShadowVersions \in SUBSET (1 .. MaxVersion) /\ PublishVersions \in SUBSET (1 .. MaxVersion)
  BY VersionsAssumption
<1>2. /\ IsFiniteSet([cob : Cobs, mode : {"shadow"}, version : ShadowVersions])
      /\ IsFiniteSet([cob : Cobs, mode : {"publish"}, version : PublishVersions])
  BY <1>1, JobsOfMode
<1> QED
  BY <1>2, FS_Union DEF Jobs

LEMMA JobFields ==
    ASSUME NEW k \in Jobs
    PROVE  /\ k.cob \in Cobs /\ k.mode \in Modes /\ k.version \in 1 .. MaxVersion
           /\ \A l \in Jobs : l.cob = k.cob /\ l.mode = k.mode /\ l.version = k.version => l = k
BY VersionsAssumption DEF Jobs, Modes

-----------------------------------------------------------------------------
(* The invariant.                                                          *)

Executing == Working \cup {"hold", "heartbeat", "abort"}

(* Revision p of its date is the one the job made.                         *)
Names(k, p) == p \in DOMAIN pubs[k.cob] /\ pubs[k.cob][p] = k

Recorded(k) ==
    IF k.mode = "shadow" THEN job[k].state = "shadow"
    ELSE job[k].state = "published" /\ Names(k, job[k].pub)

JobOK(k) ==
    /\ job[k].status = "absent" => job[k] = AbsentJob
    /\ job[k].status # "absent" => k.version <= source[k.cob]
    /\ job[k].status = "running" => job[k].owner > 0
    /\ job[k].kind = "permanent" => job[k].status = "failed" /\ job[k].state = "held"
    /\ job[k].status = "succeeded" => job[k].done = Skipped /\ Recorded(k)

(* Automatic revisions are of publishing jobs, under their own date.       *)
PubsOK ==
    \A c \in Cobs : \A p \in DOMAIN pubs[c] :
        pubs[c][p] # NoJob => pubs[c][p].cob = c /\ pubs[c][p].mode = "publish"

(* The steps of a claim that find the certified candidate saved.           *)
Certified == {"skip", "recheck", "activate", "record", "published"}

(* What the owner of a job knows at each step.                             *)
Knows(w) ==
    LET pc == worker[w].pc
        k == worker[w].job
    IN  /\ pc = "fit" => job[k].done < Targets
        /\ pc = "save" => job[k].done <= Targets
        /\ pc \in Certified => job[k].done >= Candidate
        /\ pc = "shadow" => k.mode = "shadow"
        /\ pc = "activate" => k.mode = "publish"
        /\ pc \in {"record", "published"} => k.mode = "publish" /\ Names(k, worker[w].pub)
        /\ pc = "complete" => Recorded(k)
        /\ pc = "abort" => job[k].state = "held"

WorkerOK(w) ==
    /\ worker[w].pc # "idle" => worker[w].job \in Jobs
    /\ worker[w].pc \in Executing =>
         worker[w].token > 0 /\ worker[w].token <= job[worker[w].job].attempts
    /\ worker[w].pc \notin Executing => worker[w].token = 0
    /\ worker[w].pc = "submit" => worker[w].job.version <= source[worker[w].job.cob]
    /\ Owned(w) => Knows(w)

TokensUnique ==
    \A v, w \in Workers :
        /\ worker[v].pc \in Executing /\ worker[w].pc \in Executing
        /\ worker[v].job = worker[w].job /\ worker[v].token = worker[w].token
        => v = w

(* The order of creation is strict.                                        *)
Present == {k \in Jobs : job[k].status # "absent"}
RanksOK ==
    /\ \A k \in Present : job[k].born <= Cardinality(Present)
    /\ \A k, l \in Present : job[k].born = job[l].born => k = l

IInv ==
    /\ TypeOK
    /\ \A k \in Jobs : JobOK(k)
    /\ PubsOK
    /\ \A w \in Workers : WorkerOK(w)
    /\ TokensUnique
    /\ RanksOK

-----------------------------------------------------------------------------
(* What a step does to one job and to one process.                         *)

SameRow(k) ==
    job'[k].done = job[k].done /\ job'[k].state = job[k].state /\ job'[k].pub = job[k].pub

Stays(k) ==
    /\ job'[k].born = job[k].born
    /\ job'[k].status = "absent" <=> job[k].status = "absent"
    /\ job[k].attempts <= job'[k].attempts

(* A step of somebody who does not own the job.                            *)
Kept(k) ==
    /\ Stays(k) /\ SameRow(k)
    /\ job'[k].status = "absent" => job'[k] = job[k]
    /\ job'[k].status = "succeeded" => job[k].status = "succeeded"
    /\ job'[k].kind = "permanent" => job[k].kind = "permanent" /\ job'[k].status = job[k].status
    /\ job'[k].status = "running" =>
         \/ job[k].status = "running" /\ job'[k].owner = job[k].owner
         \/ job'[k].owner > job[k].attempts

(* A step of the owner.                                                    *)
Grows(k) ==
    /\ Stays(k)
    /\ job'[k].status = "running" => job'[k].owner = job[k].owner

(* The world goes on: snapshots and revisions are added.                   *)
WorldGrows ==
    /\ TypeOK' /\ PubsOK'
    /\ \A c \in Cobs : source[c] <= source'[c]
    /\ \A c \in Cobs : \A p \in DOMAIN pubs[c] : p \in DOMAIN pubs'[c] /\ pubs'[c][p] = pubs[c][p]

LEMMA BecomesEffect ==
    ASSUME TypeOK, NEW w \in Workers, NEW r \in Processes, Becomes(w, r)
    PROVE  /\ worker' \in [Workers -> Processes] /\ worker'[w] = r
           /\ \A x \in Workers : x # w => worker'[x] = worker[x]
BY DEF TypeOK, Becomes

LEMMA GotoEffect ==
    ASSUME TypeOK, NEW w \in Workers, NEW pc \in Executing, Goto(w, pc)
    PROVE  /\ worker' \in [Workers -> Processes] /\ worker'[w].pc = pc
           /\ worker'[w].job = worker[w].job /\ worker'[w].token = worker[w].token
           /\ worker'[w].pub = worker[w].pub
           /\ \A x \in Workers : x # w => worker'[x] = worker[x]
<1> DEFINE r == [worker[w] EXCEPT !.pc = pc]
<1>1. worker[w] \in Processes
  BY DEF TypeOK
<1>2. /\ r \in Processes /\ r.pc = pc /\ r.job = worker[w].job /\ r.token = worker[w].token
      /\ r.pub = worker[w].pub
  BY <1>1 DEF Processes, Executing
<1> QED
  BY <1>2, BecomesEffect DEF Goto

LEMMA RowEffect ==
    ASSUME TypeOK, NEW k \in Jobs, NEW row \in JobRows, job' = [job EXCEPT ![k] = row]
    PROVE  /\ job' \in [Jobs -> JobRows] /\ job'[k] = row
           /\ \A l \in Jobs : l # k => job'[l] = job[l]
BY DEF TypeOK

LEMMA UnchangedKept ==
    ASSUME TypeOK, NEW k \in Jobs, job'[k] = job[k]
    PROVE  Kept(k)
<1>1. job[k] \in JobRows
  BY DEF TypeOK
<1>2. job[k].attempts <= job'[k].attempts
  BY <1>1, Bounds DEF JobRows
<1> QED
  BY <1>1, <1>2 DEF Kept, Stays, SameRow

LEMMA VersionsCovered ==
    ASSUME IInv, WorldGrows, NEW k \in Jobs, k.version <= source[k.cob]
    PROVE  k.version <= source'[k.cob]
<1>1. k.cob \in Cobs /\ k.version \in Nat
  BY JobFields
<1>2. source[k.cob] \in Nat /\ source'[k.cob] \in Nat
  BY <1>1 DEF IInv, WorldGrows, TypeOK
<1>3. source[k.cob] <= source'[k.cob]
  BY <1>1 DEF WorldGrows
<1> QED
  BY <1>1, <1>2, <1>3

LEMMA NamesStay ==
    ASSUME WorldGrows, NEW k \in Jobs, NEW p, Names(k, p)
    PROVE  Names(k, p)'
BY JobFields DEF WorldGrows, Names

LEMMA KeptJobOK ==
    ASSUME IInv, WorldGrows, NEW k \in Jobs, Kept(k)
    PROVE  JobOK(k)'
<1>1. job[k] \in JobRows /\ job'[k] \in JobRows /\ JobOK(k)
  BY DEF IInv, WorldGrows, TypeOK
<1>2. ASSUME job'[k].status = "running" PROVE job'[k].owner > 0
  <2>1. CASE job[k].status = "running" /\ job'[k].owner = job[k].owner
    BY <1>1, <2>1 DEF JobOK
  <2>2. CASE job'[k].owner > job[k].attempts
    <3>1. job[k].attempts \in Nat /\ job'[k].owner \in Nat
      BY <1>1, Bounds DEF JobRows
    <3> QED
      BY <2>2, <3>1
  <2> QED
    BY <1>2, <2>1, <2>2 DEF Kept
<1>3. job'[k].status # "absent" => k.version <= source'[k.cob]
  BY <1>1, VersionsCovered DEF JobOK, Kept, Stays
<1>4. Recorded(k) => Recorded(k)'
  BY NamesStay DEF Recorded, Kept, SameRow
<1>5. /\ job'[k].status = "absent" => job'[k] = AbsentJob
      /\ job'[k].kind = "permanent" => job'[k].status = "failed" /\ job'[k].state = "held"
      /\ job'[k].status = "succeeded" => job'[k].done = Skipped /\ Recorded(k)
  BY <1>1 DEF JobOK, Kept, Stays, SameRow
<1> QED
  BY <1>2, <1>3, <1>4, <1>5 DEF JobOK

LEMMA RanksKept ==
    ASSUME IInv, \A k \in Jobs : Stays(k)
    PROVE  RanksOK'
<1>1. Present' = Present
  BY DEF Present, Stays
<1>2. \A k \in Present : job'[k].born = job[k].born
  BY DEF Present, Stays
<1> QED
  BY <1>1, <1>2 DEF IInv, RanksOK

-----------------------------------------------------------------------------
(* One step of one process, or of nobody.                                  *)

(* The owner of a job is a process that claimed it.                        *)
LEMMA OwnersClaim ==
    ASSUME IInv, NEW x \in Workers, Owned(x)
    PROVE  worker[x].pc \in Executing
<1>1. WorkerOK(x) /\ JobOK(worker[x].job)
  BY DEF IInv, Owned
<1> QED
  BY <1>1 DEF WorkerOK, JobOK, Owned, Row

(* A step that keeps the row makes nobody its owner.                       *)
LEMMA StillOwner ==
    ASSUME IInv, NEW x \in Workers, worker'[x] = worker[x], Owned(x)', Kept(worker[x].job)
    PROVE  Owned(x)
<1> DEFINE k == worker[x].job
<1>1. k \in Jobs /\ job'[k].status = "running" /\ job'[k].owner = worker[x].token
  BY DEF Owned, Row
<1>2. \/ job[k].status = "running" /\ job'[k].owner = job[k].owner
      \/ job'[k].owner > job[k].attempts
  BY <1>1 DEF Kept
<1>3. ~(job'[k].owner > job[k].attempts)
  <2>1. job[k] \in JobRows /\ worker[x] \in Processes /\ WorkerOK(x)
    BY <1>1 DEF IInv, TypeOK
  <2>2. job[k].attempts \in Nat /\ worker[x].token \in Nat
    BY <2>1, Bounds DEF JobRows, Processes
  <2>3. worker[x].token <= job[k].attempts
    BY <2>1, <2>2 DEF WorkerOK
  <2> QED
    BY <1>1, <2>2, <2>3
<1> QED
  BY <1>1, <1>2, <1>3 DEF Owned, Row

(* A process that makes no step keeps what it knows, unless it is not the  *)
(* owner any more.                                                         *)
LEMMA Bystander ==
    ASSUME IInv, WorldGrows, NEW x \in Workers, worker'[x] = worker[x],
           \A k \in Jobs : job[k].attempts <= job'[k].attempts,
           Owned(x)' => Owned(x) /\ SameRow(worker[x].job)
    PROVE  WorkerOK(x)'
<1> DEFINE k == worker[x].job
<1>1. WorkerOK(x) /\ TypeOK /\ TypeOK' /\ worker[x] \in Processes
  BY DEF IInv, TypeOK, WorldGrows
<1>2. CASE k \notin Jobs
  <2>1. worker[x].pc = "idle" /\ ~Owned(x)'
    BY <1>1, <1>2 DEF WorkerOK, Owned
  <2> QED
    BY <1>1, <2>1 DEF WorkerOK, Executing, Working
<1>3. CASE k \in Jobs
  <2>1. worker[x].pc \in Executing =>
          worker[x].token > 0 /\ worker[x].token <= job'[k].attempts
    <3>1. job[k].attempts \in Nat /\ job'[k].attempts \in Nat /\ worker[x].token \in Nat
      BY <1>1, <1>3, Bounds DEF TypeOK, JobRows, Processes
    <3> QED
      BY <1>1, <1>3, <3>1 DEF WorkerOK
  <2>2. worker[x].pc = "submit" => k.version <= source'[k.cob]
    BY <1>1, <1>3, VersionsCovered DEF WorkerOK
  <2>3. ASSUME Owned(x)' PROVE Knows(x)'
    <3>1. Knows(x) /\ SameRow(k)
      BY <1>1, <2>3 DEF WorkerOK
    <3>2. Recorded(k) => Recorded(k)'
      BY <1>3, <3>1, NamesStay DEF Recorded, SameRow
    <3>3. \A p : Names(k, p) => Names(k, p)'
      BY <1>3, NamesStay
    <3> QED
      BY <3>1, <3>2, <3>3 DEF Knows, SameRow
  <2> QED
    BY <1>1, <1>3, <2>1, <2>2, <2>3 DEF WorkerOK
<1> QED
  BY <1>2, <1>3


(* A step of process w, or of nobody: jobs it does not own are kept, and   *)
(* it stays with its claim or has none.                                    *)
LEMMA WorkerStep ==
    ASSUME IInv, WorldGrows, NEW w,
           \A x \in Workers : x # w => worker'[x] = worker[x],
           w \in Workers =>
             /\ WorkerOK(w)'
             /\ worker'[w].pc \in Executing => /\ worker[w].pc \in Executing
                                               /\ worker'[w].job = worker[w].job
                                               /\ worker'[w].token = worker[w].token,
           \A k \in Jobs : \/ Kept(k)
                           \/ /\ w \in Workers /\ Owned(w) /\ k = worker[w].job
                              /\ Grows(k) /\ JobOK(k)'
    PROVE  IInv'
<1>1. \A k \in Jobs : JobOK(k)'
  BY KeptJobOK
<1>2. \A k \in Jobs : Stays(k)
  BY DEF Kept, Grows
<1>3. ASSUME NEW x \in Workers, x # w PROVE WorkerOK(x)'
  <2>1. worker'[x] = worker[x]
    BY <1>3
  <2>2. ASSUME Owned(x)' PROVE Owned(x) /\ SameRow(worker[x].job)
    <3>1. PICK k \in Jobs : /\ k = worker[x].job /\ job'[k].status = "running"
                            /\ job'[k].owner = worker[x].token
      BY <2>1, <2>2 DEF Owned, Row
    <3>2. CASE Kept(k)
      BY <2>1, <2>2, <3>1, <3>2, StillOwner DEF Kept
    <3>3. CASE w \in Workers /\ Owned(w) /\ k = worker[w].job /\ Grows(k)
      <4>1. /\ job[k].owner = worker[w].token /\ job'[k].owner = job[k].owner
            /\ job[k].status = "running"
        BY <3>1, <3>3 DEF Owned, Row, Grows
      <4>2. Owned(x)
        BY <3>1, <4>1 DEF Owned, Row
      <4>3. worker[w].pc \in Executing /\ worker[x].pc \in Executing
        BY <1>3, <3>3, <4>2, OwnersClaim
      <4> QED
        BY <1>3, <3>1, <3>3, <4>1, <4>3 DEF IInv, TokensUnique
    <3> QED
      BY <3>1, <3>2, <3>3
  <2> QED
    BY <1>2, <2>1, <2>2, Bystander DEF Stays
<1>4. TokensUnique'
  <2>1. ASSUME NEW v \in Workers, worker'[v].pc \in Executing
        PROVE  /\ worker[v].pc \in Executing
               /\ worker'[v].job = worker[v].job /\ worker'[v].token = worker[v].token
    BY <2>1
  <2> QED
    BY <2>1 DEF IInv, TokensUnique
<1>5. \A x \in Workers : WorkerOK(x)'
  BY <1>3
<1>6. RanksOK'
  BY <1>2, RanksKept
<1> QED
  BY <1>1, <1>4, <1>5, <1>6 DEF IInv, WorldGrows

(* Where the world stands still.                                           *)
LEMMA WorldSame ==
    ASSUME IInv, UNCHANGED <<source, phase, reviewed, pubs>>,
           gate' \in [approved : BOOLEAN, evidence : SUBSET Jobs], faults' \in 0 .. MaxFaults,
           job' \in [Jobs -> JobRows], worker' \in [Workers -> Processes]
    PROVE  WorldGrows
<1>1. TypeOK' /\ PubsOK'
  BY DEF IInv, TypeOK, PubsOK
<1>2. \A c \in Cobs : source[c] <= source'[c]
  BY BoundsAssumption DEF IInv, TypeOK
<1> QED
  BY <1>1, <1>2 DEF WorldGrows

LEMMA FaultsCounted ==
    ASSUME IInv, NoFault \/ Fault
    PROVE  faults' \in 0 .. MaxFaults
BY BoundsAssumption DEF IInv, TypeOK, NoFault, Fault

LEMMA RowsAlone ==
    ASSUME IInv, UNCHANGED job
    PROVE  job' \in [Jobs -> JobRows] /\ \A k \in Jobs : Kept(k)
BY UnchangedKept DEF IInv, TypeOK

LEMMA NobodyActs ==
    ASSUME IInv, WorldGrows, UNCHANGED worker, \A k \in Jobs : Kept(k)
    PROVE  IInv'
<1>1. PICK w : w \notin Workers
  BY NoSetContainsEverything
<1> QED
  BY <1>1, WorkerStep

(* A process that is doing something has a job.                            *)
LEMMA Busy ==
    ASSUME IInv, NEW w \in Workers, worker[w].pc # "idle"
    PROVE  /\ worker[w] \in Processes /\ worker[w].job \in Jobs
           /\ Row(w) = job[worker[w].job] /\ Row(w) \in JobRows
BY DEF IInv, TypeOK, WorkerOK, Row

(* The process leaves the job.                                             *)
LEMMA Leave ==
    ASSUME IInv, NEW w \in Workers, Exit(w), NoFault \/ Fault,
           UNCHANGED <<source, phase, reviewed, gate, pubs>>, job' \in [Jobs -> JobRows],
           \A k \in Jobs : \/ Kept(k)
                           \/ Owned(w) /\ k = worker[w].job /\ Grows(k) /\ JobOK(k)'
    PROVE  IInv'
<1>1. TypeOK
  BY DEF IInv
<1>2. /\ worker' \in [Workers -> Processes] /\ worker'[w] = Idle
      /\ \A x \in Workers : x # w => worker'[x] = worker[x]
  BY <1>1, BlankRows, BecomesEffect DEF Exit
<1>3. WorldGrows
  BY <1>1, <1>2, FaultsCounted, WorldSame DEF TypeOK
<1>4. WorkerOK(w)' /\ worker'[w].pc \notin Executing
  BY <1>2, NullAssumption DEF WorkerOK, Idle, Owned, Executing, Working
<1> QED
  BY <1>2, <1>3, <1>4, WorkerStep

(* The process goes on with it.                                            *)
LEMMA Advance ==
    ASSUME IInv, NEW w \in Workers, WorldGrows,
           \A x \in Workers : x # w => worker'[x] = worker[x],
           worker[w].pc \in Executing, worker'[w].pc \in Executing,
           worker'[w].job = worker[w].job, worker'[w].token = worker[w].token,
           Owned(w)' => Knows(w)',
           \A k \in Jobs : \/ Kept(k)
                           \/ Owned(w) /\ k = worker[w].job /\ Grows(k) /\ JobOK(k)'
    PROVE  IInv'
<1>1. worker[w].pc # "idle" /\ worker[w].pc # "submit" /\ worker'[w].pc # "submit"
  BY DEF Executing, Working
<1>2. PICK k \in Jobs : k = worker[w].job
  BY <1>1, Busy
<1>3. job[k] \in JobRows /\ job'[k] \in JobRows /\ worker[w] \in Processes
  BY DEF IInv, WorldGrows, TypeOK
<1>4. worker[w].token > 0 /\ worker[w].token <= job'[k].attempts
  <2>1. worker[w].token > 0 /\ worker[w].token <= job[k].attempts
    BY <1>2 DEF IInv, WorkerOK
  <2>2. job[k].attempts <= job'[k].attempts
    BY DEF Kept, Grows, Stays
  <2>3. worker[w].token \in Nat /\ job[k].attempts \in Nat /\ job'[k].attempts \in Nat
    BY <1>3, Bounds DEF Processes, JobRows
  <2> QED
    BY <2>1, <2>2, <2>3
<1>5. WorkerOK(w)'
  BY <1>1, <1>2, <1>4 DEF WorkerOK
<1> QED
  BY <1>5, WorkerStep

LEMMA AdvanceByGoto ==
    ASSUME IInv, NEW w \in Workers, worker[w].pc \in Executing,
           NEW pc \in Executing, Goto(w, pc), NoFault \/ Fault,
           UNCHANGED <<source, phase, reviewed, gate, pubs>>, job' \in [Jobs -> JobRows],
           Owned(w)' => Knows(w)',
           \A k \in Jobs : \/ Kept(k)
                           \/ Owned(w) /\ k = worker[w].job /\ Grows(k) /\ JobOK(k)'
    PROVE  IInv'
<1>1. TypeOK
  BY DEF IInv
<1>2. /\ worker' \in [Workers -> Processes] /\ worker'[w].pc = pc
      /\ worker'[w].job = worker[w].job /\ worker'[w].token = worker[w].token
      /\ \A x \in Workers : x # w => worker'[x] = worker[x]
  BY <1>1, GotoEffect
<1>3. WorldGrows
  BY <1>1, <1>2, FaultsCounted, WorldSame DEF TypeOK
<1> QED
  BY <1>2, <1>3, Advance

(* The rows are as they were.                                              *)
LEMMA GoesOn ==
    ASSUME IInv, NEW w \in Workers, worker[w].pc \in Executing,
           NEW pc \in Executing, Goto(w, pc), NoFault \/ Fault,
           UNCHANGED <<source, phase, reviewed, gate, pubs, job>>, Owned(w)' => Knows(w)'
    PROVE  IInv'
BY RowsAlone, AdvanceByGoto

(* The owner writes its row.                                               *)
LEMMA OwnerWrites ==
    ASSUME IInv, NEW w \in Workers, NEW k \in Jobs, k = worker[w].job, Owned(w),
           NEW row \in JobRows, job' = [job EXCEPT ![k] = row], UNCHANGED source,
           row.status = "running", row.owner = job[k].owner, row.attempts = job[k].attempts,
           row.born = job[k].born, row.kind = job[k].kind
    PROVE  /\ job' \in [Jobs -> JobRows] /\ job'[k] = row
           /\ \A l \in Jobs : Kept(l) \/ (l = worker[w].job /\ Grows(l) /\ JobOK(l)')
<1>1. /\ job[k].status = "running" /\ job[k] \in JobRows /\ JobOK(k) /\ TypeOK
  BY DEF Owned, Row, IInv, TypeOK
<1>2. /\ job' \in [Jobs -> JobRows] /\ job'[k] = row
      /\ \A l \in Jobs : l # k => job'[l] = job[l]
  BY <1>1, RowEffect
<1>3. Grows(k)
  <2>1. job[k].attempts <= job[k].attempts
    BY <1>1, Bounds DEF JobRows
  <2> QED
    BY <1>1, <1>2, <2>1 DEF Grows, Stays
<1>4. JobOK(k)'
  BY <1>1, <1>2 DEF JobOK
<1>5. ASSUME NEW l \in Jobs, l # k PROVE Kept(l)
  BY <1>1, <1>2, <1>5, UnchangedKept
<1> QED
  BY <1>2, <1>3, <1>4, <1>5


-----------------------------------------------------------------------------
(* Operators, the clock and the world.                                     *)

(* A row is written by somebody who is not its owner.                      *)
LEMMA KeptRow ==
    ASSUME IInv, NEW k \in Jobs, NEW row \in JobRows, job' = [job EXCEPT ![k] = row],
           row.born = job[k].born, row.done = job[k].done, row.state = job[k].state,
           row.pub = job[k].pub, job[k].attempts <= row.attempts,
           job[k].status # "absent", row.status # "absent",
           row.status = "succeeded" => job[k].status = "succeeded",
           row.kind = "permanent" => job[k].kind = "permanent" /\ row.status = job[k].status,
           row.status = "running" => \/ job[k].status = "running" /\ row.owner = job[k].owner
                                     \/ row.owner > job[k].attempts
    PROVE  job' \in [Jobs -> JobRows] /\ job'[k] = row /\ \A l \in Jobs : Kept(l)
<1>1. TypeOK
  BY DEF IInv
<1>2. /\ job' \in [Jobs -> JobRows] /\ job'[k] = row
      /\ \A l \in Jobs : l # k => job'[l] = job[l]
  BY <1>1, RowEffect
<1>3. Kept(k)
  BY <1>2 DEF Kept, Stays, SameRow
<1>4. ASSUME NEW l \in Jobs, l # k PROVE Kept(l)
  BY <1>1, <1>2, <1>4, UnchangedKept
<1> QED
  BY <1>2, <1>3, <1>4

LEMMA ReleasedRow ==
    ASSUME NEW row \in JobRows, NEW status \in {"queued", "succeeded", "failed", "cancelled"}
    PROVE  /\ Release(row, status) \in JobRows /\ Release(row, status).status = status
           /\ Release(row, status).attempts = row.attempts
           /\ Release(row, status).born = row.born /\ Release(row, status).done = row.done
           /\ Release(row, status).state = row.state /\ Release(row, status).pub = row.pub
           /\ Release(row, status).timely = row.timely
BY Bounds DEF Release, JobRows, Terminal

(* A claim ends, or a job is cancelled.                                    *)
LEMMA ReleasedKept ==
    ASSUME IInv, NEW k \in Jobs, job[k].status \in {"queued", "running"},
           NEW status \in {"queued", "failed", "cancelled"}, NEW kind \in {"none", "retryable"},
           job' = [job EXCEPT ![k] = [Release(job[k], status) EXCEPT !.kind = kind]]
    PROVE  job' \in [Jobs -> JobRows] /\ \A l \in Jobs : Kept(l)
<1>1. job[k] \in JobRows
  BY DEF IInv, TypeOK
<1> DEFINE row == [Release(job[k], status) EXCEPT !.kind = kind]
<1>2. /\ row \in JobRows /\ row.status = status /\ row.kind = kind
      /\ row.attempts = job[k].attempts /\ row.born = job[k].born /\ row.done = job[k].done
      /\ row.state = job[k].state /\ row.pub = job[k].pub
  <2>1. status \in {"queued", "succeeded", "failed", "cancelled"}
    OBVIOUS
  <2>2. /\ Release(job[k], status) \in JobRows /\ Release(job[k], status).status = status
        /\ Release(job[k], status).attempts = job[k].attempts
        /\ Release(job[k], status).born = job[k].born
        /\ Release(job[k], status).done = job[k].done
        /\ Release(job[k], status).state = job[k].state
        /\ Release(job[k], status).pub = job[k].pub
    BY <1>1, <2>1, ReleasedRow
  <2> QED
    BY <2>2 DEF JobRows
<1>3. job' = [job EXCEPT ![k] = row]
  OBVIOUS
<1> HIDE DEF row
<1>4. job[k].attempts <= row.attempts
  BY <1>1, <1>2, Bounds DEF JobRows
<1> QED
  BY <1>2, <1>3, <1>4, KeptRow

(* A job that still runs or waits is not held.                             *)
LEMMA NotHeld ==
    ASSUME IInv, NEW k \in Jobs, job[k].status # "failed"
    PROVE  job[k].kind \in {"none", "retryable"} /\ job[k] \in JobRows
BY DEF IInv, TypeOK, JobOK, JobRows

LEMMA WorldFrame ==
    ASSUME IInv, UNCHANGED <<source, phase, reviewed, gate, pubs, worker>>, NoFault \/ Fault,
           job' \in [Jobs -> JobRows], \A k \in Jobs : Kept(k)
    PROVE  IInv'
<1>1. WorldGrows
  BY FaultsCounted, WorldSame DEF IInv, TypeOK
<1> QED
  BY <1>1, NobodyActs

LEMMA CancelInv ==
    ASSUME IInv, NEW k \in Jobs, RequestCancel(k)
    PROVE  IInv'
<1>1. job[k].status \in {"queued", "running"} /\ Fault
      /\ UNCHANGED <<source, phase, reviewed, gate, pubs, worker>>
  BY DEF RequestCancel
<1>2. job[k].kind \in {"none", "retryable"} /\ job[k] \in JobRows
  BY <1>1, NotHeld
<1>3. job' = [job EXCEPT ![k] = [Release(job[k], "cancelled") EXCEPT !.kind = job[k].kind]]
  BY <1>2 DEF RequestCancel, Release, JobRows
<1>4. job' \in [Jobs -> JobRows] /\ \A l \in Jobs : Kept(l)
  BY <1>1, <1>2, <1>3, ReleasedKept
<1> QED
  BY <1>1, <1>4, WorldFrame

LEMMA RetryInv ==
    ASSUME IInv, NEW k \in Jobs, RetrySettlement(k)
    PROVE  IInv'
<1> DEFINE row == [job[k] EXCEPT !.status = "queued", !.max = @ + RetryGrant]
<1>1. /\ job[k] \in JobRows /\ job[k].status = "failed" /\ job[k].kind = "retryable"
      /\ NoFault /\ UNCHANGED <<source, phase, reviewed, gate, pubs, worker>>
  BY DEF RetrySettlement, Retryable, IInv, TypeOK
<1>2. job[k].max + RetryGrant \in 0 .. MostAttempts
  BY <1>1, Bounds DEF RetrySettlement, JobRows
<1>3. job' = [job EXCEPT ![k] = row]
  BY <1>1 DEF RetrySettlement, IInv, TypeOK, JobRows
<1> HIDE DEF row
<1>4. /\ row \in JobRows /\ row.status = "queued" /\ row.kind = job[k].kind
      /\ row.attempts = job[k].attempts /\ row.born = job[k].born /\ row.done = job[k].done
      /\ row.state = job[k].state /\ row.pub = job[k].pub
  BY <1>1, <1>2 DEF row, JobRows
<1>5. job[k].attempts <= row.attempts
  BY <1>1, <1>4, Bounds DEF JobRows
<1>6. job' \in [Jobs -> JobRows] /\ \A l \in Jobs : Kept(l)
  BY <1>1, <1>3, <1>4, <1>5, KeptRow
<1> QED
  BY <1>1, <1>6, WorldFrame

LEMMA ExpireInv ==
    ASSUME IInv, NEW k \in Jobs, Expire(k)
    PROVE  IInv'
<1> DEFINE row == [job[k] EXCEPT !.live = FALSE]
<1>1. /\ job[k] \in JobRows /\ job[k].live /\ (NoFault \/ Fault) /\ JobOK(k)
      /\ UNCHANGED <<source, phase, reviewed, gate, pubs, worker>>
  BY DEF Expire, IInv, TypeOK
<1>2. job[k].status # "absent"
  BY <1>1 DEF JobOK, AbsentJob
<1>3. job' = [job EXCEPT ![k] = row]
  BY DEF Expire
<1> HIDE DEF row
<1>4. /\ row \in JobRows /\ row.status = job[k].status /\ row.kind = job[k].kind
      /\ row.attempts = job[k].attempts /\ row.born = job[k].born /\ row.done = job[k].done
      /\ row.state = job[k].state /\ row.pub = job[k].pub /\ row.owner = job[k].owner
  BY <1>1 DEF row, JobRows
<1>5. job[k].attempts <= row.attempts
  BY <1>1, <1>4, Bounds DEF JobRows
<1>6. job' \in [Jobs -> JobRows] /\ \A l \in Jobs : Kept(l)
  BY <1>2, <1>3, <1>4, <1>5, KeptRow
<1> QED
  BY <1>1, <1>6, WorldFrame

LEMMA SnapshotInv ==
    ASSUME IInv, NEW c \in Cobs, SnapshotArrives(c)
    PROVE  IInv'
<1>1. UNCHANGED <<phase, reviewed, gate, pubs, job, worker, faults>> /\ TypeOK
  BY DEF SnapshotArrives, NoFault, IInv
<1>2. source' \in [Cobs -> 0 .. MaxVersion] /\ \A d \in Cobs : source[d] <= source'[d]
  BY <1>1, BoundsAssumption DEF SnapshotArrives, TypeOK
<1>3. WorldGrows
  BY <1>1, <1>2 DEF WorldGrows, IInv, TypeOK, PubsOK
<1> QED
  BY <1>1, <1>3, RowsAlone, NobodyActs

LEMMA OperatorInv ==
    ASSUME IInv, ApprovePromotion \/ \E c \in Cobs : ImportCalendar(c) \/ ClockMoves(c)
    PROVE  IInv'
<1>1. UNCHANGED <<source, pubs, job, worker, faults>> /\ TypeOK
  BY DEF ApprovePromotion, ImportCalendar, ClockMoves, NoFault, IInv
<1>2. /\ phase' \in [Cobs -> {"before", "open", "closed"}] /\ reviewed' \subseteq Cobs
      /\ gate' \in [approved : BOOLEAN, evidence : SUBSET Jobs]
  <2>1. CASE ApprovePromotion
    <3>1. Evidence \in SUBSET Jobs
      BY DEF Evidence
    <3> QED
      BY <1>1, <2>1, <3>1 DEF ApprovePromotion, TypeOK
  <2>2. ASSUME NEW c \in Cobs, ImportCalendar(c)
        PROVE  reviewed' \subseteq Cobs /\ UNCHANGED <<phase, gate>>
    BY <1>1, <2>2 DEF ImportCalendar, TypeOK
  <2>3. ASSUME NEW c \in Cobs, ClockMoves(c)
        PROVE  phase' \in [Cobs -> {"before", "open", "closed"}] /\ UNCHANGED <<reviewed, gate>>
    BY <1>1, <2>3 DEF ClockMoves, TypeOK
  <2> QED
    BY <1>1, <2>1, <2>2, <2>3 DEF TypeOK
<1>3. WorldGrows
  BY <1>1, <1>2, BoundsAssumption DEF WorldGrows, IInv, TypeOK, PubsOK
<1> QED
  BY <1>1, <1>3, RowsAlone, NobodyActs

(* A revision is added: by hand, or by a publishing job of that date.      *)
LEMMA RevisionAdded ==
    ASSUME IInv, NEW c \in Cobs, NEW k \in Jobs \cup {NoJob},
           k # NoJob => k.cob = c /\ k.mode = "publish",
           pubs' = [pubs EXCEPT ![c] = Append(@, k)],
           UNCHANGED <<source, phase, reviewed, gate, job, faults>>,
           worker' \in [Workers -> Processes]
    PROVE  /\ WorldGrows /\ pubs'[c] = Append(pubs[c], k)
           /\ \A d \in Cobs : d # c => pubs'[d] = pubs[d]
<1>1. TypeOK /\ PubsOK /\ pubs \in [Cobs -> Seq(Jobs \cup {NoJob})]
  BY DEF IInv, TypeOK
<1>2. /\ pubs'[c] = Append(pubs[c], k) /\ pubs[c] \in Seq(Jobs \cup {NoJob})
      /\ \A d \in Cobs : d # c => pubs'[d] = pubs[d]
  BY <1>1
<1>3. /\ pubs'[c] \in Seq(Jobs \cup {NoJob}) /\ Len(pubs[c]) \in Nat
      /\ DOMAIN pubs[c] = 1 .. Len(pubs[c]) /\ DOMAIN pubs'[c] = 1 .. (Len(pubs[c]) + 1)
      /\ pubs'[c][Len(pubs[c]) + 1] = k
      /\ \A p \in DOMAIN pubs[c] : p \in DOMAIN pubs'[c] /\ pubs'[c][p] = pubs[c][p]
  BY <1>2
<1>4. TypeOK'
  BY <1>1, <1>2, <1>3 DEF TypeOK
<1>5. PubsOK'
  <2>1. ASSUME NEW p \in DOMAIN pubs'[c], pubs'[c][p] # NoJob
        PROVE  pubs'[c][p].cob = c /\ pubs'[c][p].mode = "publish"
    <3>1. CASE p = Len(pubs[c]) + 1
      BY <1>3, <2>1, <3>1
    <3>2. CASE p # Len(pubs[c]) + 1
      <4>1. p \in DOMAIN pubs[c] /\ pubs'[c][p] = pubs[c][p]
        BY <1>3, <3>2
      <4> QED
        BY <1>1, <2>1, <4>1 DEF PubsOK
    <3> QED
      BY <3>1, <3>2
  <2> QED
    BY <1>1, <1>2, <2>1 DEF PubsOK
<1>6. \A d \in Cobs : source[d] <= source'[d]
  BY <1>1, BoundsAssumption DEF TypeOK
<1> QED
  BY <1>2, <1>3, <1>4, <1>5, <1>6 DEF WorldGrows

LEMMA OthersPublishInv ==
    ASSUME IInv, NEW c \in Cobs, OthersPublish(c)
    PROVE  IInv'
<1>1. /\ pubs' = [pubs EXCEPT ![c] = Append(@, NoJob)]
      /\ UNCHANGED <<source, phase, reviewed, gate, job, faults, worker>>
      /\ worker' \in [Workers -> Processes]
  BY DEF OthersPublish, NoFault, IInv, TypeOK
<1>2. WorldGrows
  BY <1>1, RevisionAdded
<1> QED
  BY <1>1, <1>2, RowsAlone, NobodyActs


-----------------------------------------------------------------------------
(* Reconciliation and claims.                                              *)

LEMMA LookInv ==
    ASSUME IInv, NEW w \in Workers, NEW k \in Jobs, Look(w, k)
    PROVE  IInv'
<1> DEFINE r == [Idle EXCEPT !.pc = "submit", !.job = k]
<1>1. /\ r \in Processes /\ r.pc = "submit" /\ r.job = k /\ r.token = 0
  BY BlankRows DEF Processes, Idle
<1>2. Becomes(w, r) /\ NoFault /\ UNCHANGED <<source, phase, reviewed, gate, pubs, job>> /\ TypeOK
  BY DEF Look, IInv
<1> HIDE DEF r
<1>3. /\ worker' \in [Workers -> Processes] /\ worker'[w] = r
      /\ \A x \in Workers : x # w => worker'[x] = worker[x]
  BY <1>1, <1>2, BecomesEffect
<1>4. WorldGrows
  BY <1>2, <1>3, FaultsCounted, WorldSame DEF TypeOK
<1>5. WorkerOK(w)'
  <2>1. k.version <= source[k.cob]
    BY <1>2, JobFields DEF Look, Current, TypeOK
  <2>2. ~Owned(w)'
    BY <1>1, <1>2, <1>3 DEF Owned, Row, IInv, JobOK
  <2>3. r.pc \notin Executing
    BY <1>1 DEF Executing, Working
  <2> QED
    BY <1>1, <1>2, <1>3, <2>1, <2>2, <2>3 DEF WorkerOK
<1>6. worker'[w].pc \notin Executing
  BY <1>1, <1>3 DEF Executing, Working
<1> QED
  BY <1>2, <1>3, <1>4, <1>5, <1>6, RowsAlone, WorkerStep

LEMMA WaitInv ==
    ASSUME IInv, NEW w \in Workers, Wait(w) \/ Fenced(w) \/ Crash(w)
    PROVE  IInv'
<1>1. /\ Exit(w) /\ (NoFault \/ Fault)
      /\ UNCHANGED <<source, phase, reviewed, gate, pubs, job>>
  BY DEF Wait, Fenced, Crash
<1> QED
  BY <1>1, RowsAlone, Leave

(* A row takes what a submission fills in.                                 *)
LEMMA SubmittedRow ==
    ASSUME NEW base \in JobRows, NEW max \in 0 .. MostAttempts, NEW born \in Nat,
           NEW timely \in BOOLEAN
    PROVE  [base EXCEPT !.status = "queued", !.max = max, !.born = born,
                        !.timely = timely] \in JobRows
BY DEF JobRows

(* A key that is there keeps its row; a new one is ranked last.            *)
LEMMA SubmitInv ==
    ASSUME IInv, NEW w \in Workers, Submit(w)
    PROVE  IInv'
<1>1. /\ worker[w].pc = "submit" /\ worker[w].pc # "idle" /\ Exit(w) /\ NoFault
      /\ UNCHANGED <<source, phase, reviewed, gate, pubs>> /\ TypeOK /\ WorkerOK(w)
  BY DEF Submit, IInv
<1>2. PICK k \in Jobs : k = worker[w].job
  BY <1>1, Busy
<1>3. CASE job[k].status # "absent"
  <2>1. UNCHANGED job
    BY <1>2, <1>3 DEF Submit
  <2> QED
    BY <1>1, <2>1, RowsAlone, Leave
<1>4. CASE job[k].status = "absent"
  <2> DEFINE timely == phase[k.cob] # "before"
             row == [AbsentJob EXCEPT !.status = "queued", !.max = MaxAttempts, !.born = Rank,
                                      !.timely = timely]
  <2>1. Present \in SUBSET Jobs /\ IsFiniteSet(Present) /\ k \notin Present
    BY <1>4, JobsFinite, FS_Subset DEF Present
  <2>2. Cardinality(Present) \in Nat /\ Rank = Cardinality(Present) + 1
    BY <2>1, FS_CardinalityType DEF Rank, Present
  <2>3. timely \in BOOLEAN
    OBVIOUS
  <2>4. job' = [job EXCEPT ![k] = row]
    BY <1>2, <1>4 DEF Submit
  <2> HIDE DEF timely
  <2>5. row \in JobRows
    <3>1. PICK rank \in Nat : rank = Rank
      BY <2>2
    <3>2. AbsentJob \in JobRows /\ MaxAttempts \in 0 .. MostAttempts
      BY Bounds, BlankRows
    <3>3. [AbsentJob EXCEPT !.status = "queued", !.max = MaxAttempts, !.born = rank,
                            !.timely = timely] \in JobRows
      BY ONLY <2>3, <3>1, <3>2, SubmittedRow
    <3> QED
      BY <3>1, <3>3
  <2>6. /\ row.status = "queued" /\ row.attempts = 0 /\ row.born = Rank /\ row.kind = "none"
        /\ row.done = 0 /\ row.state = "none" /\ row.pub = 0
    BY DEF AbsentJob
  <2> HIDE DEF row
  <2>7. /\ job' \in [Jobs -> JobRows] /\ job'[k] = row
        /\ \A l \in Jobs : l # k => job'[l] = job[l]
    BY <1>1, <2>4, <2>5, RowEffect
  <2>8. job[k] = AbsentJob
    BY <1>4 DEF IInv, JobOK
  <2>9. /\ worker' \in [Workers -> Processes] /\ worker'[w] = Idle
        /\ \A x \in Workers : x # w => worker'[x] = worker[x]
    BY <1>1, BlankRows, BecomesEffect DEF Exit
  <2>10. WorldGrows
    BY <1>1, <2>7, <2>9, FaultsCounted, WorldSame DEF TypeOK
  <2>11. ASSUME NEW l \in Jobs PROVE JobOK(l)'
    <3>1. CASE l = k
      BY <1>1, <1>2, <2>6, <2>7, <3>1 DEF JobOK, WorkerOK
    <3>2. CASE l # k
      BY <1>1, <2>7, <2>10, <3>2, UnchangedKept, KeptJobOK
    <3> QED
      BY <3>1, <3>2
  <2>12. ASSUME NEW x \in Workers PROVE WorkerOK(x)'
    <3>1. CASE x = w
      BY <2>9, <3>1, NullAssumption DEF WorkerOK, Idle, Owned, Executing, Working
    <3>2. CASE x # w
      <4>1. worker'[x] = worker[x]
        BY <2>9, <3>2
      <4>2. ASSUME NEW l \in Jobs PROVE job[l].attempts <= job'[l].attempts
        <5>1. CASE l = k
          BY <2>6, <2>7, <2>8, <5>1 DEF AbsentJob
        <5>2. CASE l # k
          BY <1>1, <2>7, <5>2, UnchangedKept DEF Kept, Stays
        <5> QED
          BY <5>1, <5>2
      <4>3. ASSUME Owned(x)' PROVE Owned(x) /\ SameRow(worker[x].job)
        BY <2>6, <2>7, <4>1, <4>3 DEF Owned, Row, SameRow
      <4> QED
        BY <2>10, <4>1, <4>2, <4>3, Bystander
    <3> QED
      BY <3>1, <3>2
  <2>13. TokensUnique'
    <3>1. worker'[w].pc \notin Executing
      BY <2>9 DEF Idle, Executing, Working
    <3> QED
      BY <2>9, <3>1 DEF IInv, TokensUnique
  <2>14. RanksOK'
    <3>1. Present' = Present \cup {k}
      BY <2>6, <2>7 DEF Present
    <3>2. Cardinality(Present') = Cardinality(Present) + 1
      BY <2>1, <3>1, FS_AddElement
    <3>3. ASSUME NEW l \in Present
          PROVE  /\ job'[l].born = job[l].born /\ job[l].born \in Nat
                 /\ job[l].born <= Cardinality(Present)
      <4>1. l \in Jobs /\ l # k
        BY <2>1
      <4> QED
        BY <1>1, <2>7, <4>1 DEF IInv, RanksOK, TypeOK, JobRows
    <3>4. job'[k].born = Cardinality(Present) + 1
      BY <2>2, <2>6, <2>7
    <3>5. ASSUME NEW l \in Present' PROVE job'[l].born <= Cardinality(Present')
      <4>1. CASE l = k
        BY <2>2, <3>2, <3>4, <4>1
      <4>2. CASE l \in Present
        BY <2>2, <3>2, <3>3, <4>2
      <4> QED
        BY <3>1, <4>1, <4>2
    <3>6. ASSUME NEW l \in Present', NEW m \in Present', job'[l].born = job'[m].born
          PROVE  l = m
      <4>1. CASE l \in Present /\ m \in Present
        BY <3>3, <3>6, <4>1 DEF IInv, RanksOK
      <4>2. CASE l = k /\ m = k
        BY <4>2
      <4>3. CASE (l = k /\ m \in Present) \/ (m = k /\ l \in Present)
        BY <2>2, <3>3, <3>4, <3>6, <4>3
      <4> QED
        BY <3>1, <4>1, <4>2, <4>3
    <3> QED
      BY <3>5, <3>6 DEF RanksOK
  <2> QED
    BY <2>10, <2>11, <2>12, <2>13, <2>14 DEF IInv, WorldGrows
<1> QED
  BY <1>3, <1>4

(* The sweep keeps every row it does not fail, and what a failed one says. *)
Swept(k) ==
    IF Exhausted(k) THEN [job[k] EXCEPT !.status = "failed", !.kind = "retryable"] ELSE job[k]

LEMMA SweptRow ==
    ASSUME IInv, NEW k \in Jobs
    PROVE  /\ Swept(k) \in JobRows
           /\ job'[k] = Swept(k) => Kept(k)
<1>1. job[k] \in JobRows /\ TypeOK
  BY DEF IInv, TypeOK
<1>2. CASE Exhausted(k)
  <2>1. job[k].attempts <= job[k].attempts
    BY <1>1, Bounds DEF JobRows
  <2> DEFINE row == [job[k] EXCEPT !.status = "failed", !.kind = "retryable"]
  <2>2. /\ row \in JobRows /\ row.status = "failed" /\ row.kind = "retryable"
        /\ row.attempts = job[k].attempts /\ row.born = job[k].born /\ row.done = job[k].done
        /\ row.state = job[k].state /\ row.pub = job[k].pub
    BY <1>1 DEF JobRows, Terminal
  <2>3. Swept(k) = row /\ job[k].status = "running"
    BY <1>2 DEF Swept, Exhausted
  <2> HIDE DEF row
  <2> QED
    BY <2>1, <2>2, <2>3 DEF Kept, Stays, SameRow
<1>3. CASE ~Exhausted(k)
  BY <1>1, <1>3, UnchangedKept DEF Swept
<1> QED
  BY <1>2, <1>3

(* A claim that is granted takes the next token, which no process holds.   *)
LEMMA GrantedInv ==
    ASSUME IInv, NEW w \in Workers, NEW k \in Jobs, Claimable(k),
           worker[w].pc = "idle", NoFault, UNCHANGED <<source, phase, reviewed, gate, pubs>>,
           NEW swept, swept = [l \in Jobs |-> Swept(l)],
           job' = [swept EXCEPT ![k] = Claimed(k)],
           NEW pc \in {"hold", "skip", "save", "fit"}, pc = "fit" => job[k].done < Targets,
           pc = "save" => job[k].done <= Targets, pc = "skip" => job[k].done >= Candidate,
           Becomes(w, [Idle EXCEPT !.job = k, !.token = job[k].attempts + 1, !.pc = pc])
    PROVE  IInv'
<1>1. /\ job[k] \in JobRows /\ job[k].attempts \in Nat /\ job[k].max \in 0 .. MostAttempts
      /\ job[k].attempts < job[k].max /\ job[k].status \in {"queued", "running"}
      /\ TypeOK /\ JobOK(k)
  <2>1. TypeOK /\ JobOK(k) /\ job[k] \in JobRows
    BY DEF IInv, TypeOK
  <2>2. job[k].attempts \in Nat /\ job[k].max \in 0 .. MostAttempts
    BY <2>1, Bounds DEF JobRows
  <2> QED
    BY <2>1, <2>2 DEF Claimable
<1>2. PICK token \in Nat : token = job[k].attempts + 1
  BY <1>1
<1>3. token \in 0 .. MostAttempts /\ token > job[k].attempts /\ job[k].attempts <= token /\ token > 0
  BY <1>1, <1>2, Bounds
<1> DEFINE row == [job[k] EXCEPT !.status = "running", !.attempts = token, !.owner = token,
                                 !.live = TRUE]
           r == [Idle EXCEPT !.job = k, !.token = token, !.pc = pc]
<1>4. job' = [swept EXCEPT ![k] = row] /\ Becomes(w, r)
  BY <1>1, <1>2 DEF Claimed, JobRows
<1>5. /\ row \in JobRows /\ row.status = "running" /\ row.attempts = token /\ row.owner = token
      /\ row.born = job[k].born /\ row.done = job[k].done /\ row.state = job[k].state
      /\ row.pub = job[k].pub /\ row.kind = job[k].kind
  BY <1>1, <1>3 DEF JobRows
<1>6. r \in Processes /\ r.pc = pc /\ r.job = k /\ r.token = token
  BY <1>3, BlankRows DEF Processes, Idle, Working
<1> HIDE DEF row, r
<1>7. /\ job' \in [Jobs -> JobRows] /\ job'[k] = row
      /\ \A l \in Jobs : l # k => job'[l] = Swept(l)
  BY <1>4, <1>5, SweptRow
<1>8. \A l \in Jobs : Kept(l)
  <2>1. row.kind # "permanent"
    BY <1>1, <1>5, NotHeld
  <2>2. Kept(k)
    BY <1>1, <1>3, <1>5, <1>7, <2>1 DEF Kept, Stays, SameRow
  <2>3. ASSUME NEW l \in Jobs, l # k PROVE Kept(l)
    BY <1>7, <2>3, SweptRow
  <2> QED
    BY <2>2, <2>3
<1>9. /\ worker' \in [Workers -> Processes] /\ worker'[w] = r
      /\ \A x \in Workers : x # w => worker'[x] = worker[x]
  BY <1>1, <1>4, <1>6, BecomesEffect
<1>10. WorldGrows
  BY <1>1, <1>7, <1>9, FaultsCounted, WorldSame DEF TypeOK
<1>11. \A l \in Jobs : JobOK(l)'
  BY <1>8, <1>10, KeptJobOK
<1>12. pc \in Executing /\ pc # "submit"
  BY DEF Executing, Working
<1>13. ASSUME NEW x \in Workers PROVE WorkerOK(x)'
  <2>1. CASE x = w
    <3>1. Knows(w)'
      BY <1>5, <1>6, <1>7, <1>9 DEF Knows, Certified
    <3>2. token <= job'[k].attempts
      BY <1>5, <1>7, Bounds
    <3> QED
      BY <1>3, <1>6, <1>9, <1>12, <2>1, <3>1, <3>2 DEF WorkerOK
  <2>2. CASE x # w
    <3>1. worker'[x] = worker[x]
      BY <1>9, <2>2
    <3>2. ASSUME Owned(x)' PROVE Owned(x) /\ SameRow(worker[x].job)
      <4>1. worker[x].job \in Jobs
        BY <3>1, <3>2 DEF Owned
      <4> QED
        BY <1>8, <3>1, <3>2, <4>1, StillOwner DEF Kept
    <3> QED
      BY <1>8, <1>10, <3>1, <3>2, Bystander DEF Kept, Stays
  <2> QED
    BY <2>1, <2>2
<1>14. TokensUnique'
  <2>1. ASSUME NEW x \in Workers, x # w, worker'[x].pc \in Executing, worker'[x].job = k
        PROVE  worker'[x].token # token
    <3>1. WorkerOK(x) /\ worker'[x] = worker[x] /\ worker[x] \in Processes
      BY <1>1, <1>9, <2>1 DEF IInv, TypeOK
    <3>2. worker[x].token <= job[k].attempts /\ worker[x].token \in Nat
      BY <2>1, <3>1, Bounds DEF WorkerOK, Processes
    <3> QED
      BY <1>1, <1>3, <3>1, <3>2
  <2> QED
    BY <1>6, <1>9, <2>1 DEF IInv, TokensUnique
<1>15. RanksOK'
  BY <1>8, RanksKept DEF Kept
<1> QED
  BY <1>10, <1>11, <1>13, <1>14, <1>15 DEF IInv, WorldGrows

LEMMA ClaimInv ==
    ASSUME IInv, NEW w \in Workers, Claim(w)
    PROVE  IInv'
<1> DEFINE swept == [k \in Jobs |-> Swept(k)]
<1>1. /\ worker[w].pc = "idle" /\ NoFault /\ UNCHANGED <<source, phase, reviewed, gate, pubs>>
      /\ TypeOK
  BY DEF Claim, IInv
<1>2. \/ job' = swept /\ UNCHANGED worker
      \/ \E k \in Jobs :
           /\ Claimable(k)
           /\ job' = [swept EXCEPT ![k] = Claimed(k)]
           /\ Becomes(w, [Idle EXCEPT !.job = k, !.token = job[k].attempts + 1,
                 !.pc = IF ~Current(k) THEN "hold"
                        ELSE IF job[k].done >= Candidate THEN "skip"
                        ELSE IF job[k].done = Targets THEN "save" ELSE "fit"])
  BY DEF Claim, Swept
<1>3. CASE job' = swept /\ UNCHANGED worker
  <2>1. job' \in [Jobs -> JobRows] /\ \A k \in Jobs : job'[k] = Swept(k)
    BY <1>3, SweptRow
  <2> QED
    BY <1>1, <1>3, <2>1, SweptRow, WorldFrame
<1>4. ASSUME NEW k \in Jobs, Claimable(k), job' = [swept EXCEPT ![k] = Claimed(k)],
             NEW pc, pc = IF ~Current(k) THEN "hold"
                          ELSE IF job[k].done >= Candidate THEN "skip"
                          ELSE IF job[k].done = Targets THEN "save" ELSE "fit",
             Becomes(w, [Idle EXCEPT !.job = k, !.token = job[k].attempts + 1, !.pc = pc])
      PROVE  IInv'
  <2>1. pc \in {"hold", "skip", "save", "fit"}
    BY <1>4
  <2>2. /\ pc = "fit" => job[k].done < Targets
        /\ pc = "save" => job[k].done <= Targets
        /\ pc = "skip" => job[k].done >= Candidate
    <3>1. job[k].done \in 0 .. Skipped
      BY <1>1 DEF TypeOK, JobRows
    <3> QED
      BY <1>4, <3>1, Bounds
  <2> HIDE DEF swept
  <2>3. swept = [l \in Jobs |-> Swept(l)]
    BY DEF swept
  <2> QED
    BY <1>1, <1>4, <2>1, <2>2, <2>3, GrantedInv
<1> QED
  BY <1>2, <1>3, <1>4


-----------------------------------------------------------------------------
(* Steps of the owner.                                                     *)

(* A guarded write of the row, and what the process knows after it.        *)
LEMMA WritesInv ==
    ASSUME IInv, NEW w \in Workers, worker[w].pc \in Executing, Guarded(w),
           NEW k \in Jobs, k = worker[w].job,
           NEW row \in JobRows, Change(w, row),
           row.status = "running", row.owner = job[k].owner, row.attempts = job[k].attempts,
           row.born = job[k].born, row.kind = job[k].kind,
           NEW to \in Executing, Goto(w, to),
           NoFault, UNCHANGED <<source, phase, reviewed, gate, pubs>>,
           /\ job'[k] = row /\ worker'[w].pc = to /\ worker'[w].job = k
           /\ worker'[w].pub = worker[w].pub
           => Knows(w)'
    PROVE  IInv'
<1>1. TypeOK /\ Owned(w)
  BY DEF IInv, Guarded
<1>2. job' = [job EXCEPT ![k] = row]
  BY DEF Change
<1>3. /\ job' \in [Jobs -> JobRows] /\ job'[k] = row
      /\ \A l \in Jobs : Kept(l) \/ (l = worker[w].job /\ Grows(l) /\ JobOK(l)')
  BY <1>1, <1>2, OwnerWrites
<1>4. worker'[w].pc = to /\ worker'[w].job = k /\ worker'[w].pub = worker[w].pub
  BY <1>1, GotoEffect
<1>5. Knows(w)'
  BY <1>3, <1>4
<1> QED
  BY <1>1, <1>3, <1>5, AdvanceByGoto

(* The row a guarded process reads.                                        *)
LEMMA GuardedRow ==
    ASSUME IInv, NEW w \in Workers, Guarded(w)
    PROVE  /\ worker[w].job \in Jobs /\ Row(w) = job[worker[w].job] /\ Row(w) \in JobRows
           /\ Row(w).status = "running" /\ Owned(w) /\ Knows(w) /\ worker[w] \in Processes
           /\ Row(w).done \in Nat /\ Row(w).done <= Skipped /\ TypeOK
<1>1. worker[w].job \in Jobs /\ Row(w) = job[worker[w].job] /\ Row(w).status = "running" /\ Owned(w)
  BY DEF Guarded, Owned, Row
<1>2. WorkerOK(w) /\ Row(w) \in JobRows /\ worker[w] \in Processes /\ TypeOK
  BY <1>1 DEF IInv, TypeOK
<1>3. Row(w).done \in 0 .. Skipped
  BY <1>2 DEF JobRows
<1>4. Row(w).done \in Nat /\ Row(w).done <= Skipped
  BY <1>3, Bounds
<1> QED
  BY <1>1, <1>2, <1>4 DEF WorkerOK

LEMMA FitInv ==
    ASSUME IInv, NEW w \in Workers, Fit(w)
    PROVE  IInv'
<1>1. /\ worker[w].pc = "fit" /\ Guarded(w) /\ NoFault
      /\ UNCHANGED <<source, phase, reviewed, gate, pubs>>
  BY DEF Fit
<1>2. PICK k \in Jobs : k = worker[w].job
  BY <1>1, GuardedRow
<1>3. /\ Row(w) = job[k] /\ Row(w) \in JobRows /\ Row(w).status = "running"
      /\ Row(w).done \in Nat /\ Row(w).done < Targets
  BY <1>1, <1>2, GuardedRow DEF Knows
<1>4. PICK done \in 0 .. Skipped : done = Row(w).done + 1
  BY <1>3, Bounds
<1> DEFINE row == [Row(w) EXCEPT !.done = done]
<1>5. Change(w, row)
  BY <1>3, <1>4 DEF Fit, JobRows
<1>6. /\ row \in JobRows /\ row.done = done /\ row.status = "running" /\ row.owner = job[k].owner
      /\ row.attempts = job[k].attempts /\ row.born = job[k].born /\ row.kind = job[k].kind
  BY <1>3 DEF JobRows
<1> HIDE DEF row
<1>7. PICK next \in {"fit", "save"} : (done = Targets => next = "save") /\ Goto(w, next)
  BY <1>4 DEF Fit
<1>8. (next = "fit" => done < Targets) /\ (next = "save" => done <= Targets)
  BY <1>3, <1>4, <1>7, Bounds
<1>9. /\ job'[k] = row /\ worker'[w].pc = next /\ worker'[w].job = k
      /\ worker'[w].pub = worker[w].pub
      => Knows(w)'
  BY <1>6, <1>7, <1>8 DEF Knows, Certified
<1>10. next \in Executing /\ worker[w].pc \in Executing
  BY <1>1, <1>7 DEF Executing, Working
<1> QED
  BY <1>1, <1>2, <1>5, <1>6, <1>7, <1>9, <1>10, WritesInv

(* A write under the fence that leaves the claim alone.                    *)
SameClaim(row, old) ==
    /\ row \in JobRows /\ row.status = "running" /\ row.owner = old.owner
    /\ row.attempts = old.attempts /\ row.born = old.born /\ row.kind = old.kind

LEMMA SavesInv ==
    ASSUME IInv, NEW w \in Workers, NEW from \in Executing, NEW to \in Executing,
           NEW row, Save(w, from, row, to), SameClaim(row, Row(w)),
           /\ job'[worker[w].job] = row /\ worker'[w].pc = to
           /\ worker'[w].job = worker[w].job /\ worker'[w].pub = worker[w].pub
           => Knows(w)'
    PROVE  IInv'
<1>1. /\ worker[w].pc = from /\ Guarded(w) /\ Change(w, row) /\ Goto(w, to) /\ NoFault
      /\ UNCHANGED <<source, phase, reviewed, gate, pubs>>
  BY DEF Save
<1>2. PICK k \in Jobs : k = worker[w].job
  BY <1>1, GuardedRow
<1>3. Row(w) = job[k]
  BY <1>2 DEF Row
<1>4. /\ row \in JobRows /\ row.status = "running" /\ row.owner = job[k].owner
      /\ row.attempts = job[k].attempts /\ row.born = job[k].born /\ row.kind = job[k].kind
  BY <1>3 DEF SameClaim
<1>5. /\ job'[k] = row /\ worker'[w].pc = to /\ worker'[w].job = k
      /\ worker'[w].pub = worker[w].pub
      => Knows(w)'
  BY <1>2
<1> QED
  BY <1>1, <1>2, <1>4, <1>5, WritesInv

LEMMA SaveCandidateInv ==
    ASSUME IInv, NEW w \in Workers, SaveCandidate(w)
    PROVE  IInv'
<1> DEFINE row == [Row(w) EXCEPT !.done = Candidate, !.state = "prepared", !.pub = 0]
<1>1. Save(w, "save", row, "skip")
  BY DEF SaveCandidate
<1>2. Row(w) \in JobRows /\ Row(w).status = "running"
  BY <1>1, GuardedRow DEF Save
<1>3. SameClaim(row, Row(w))
  BY <1>2, Bounds DEF SameClaim, JobRows, Revisions
<1>4. row.done >= Candidate
  <2>1. row.done = Candidate
    BY <1>2 DEF JobRows
  <2> HIDE DEF row
  <2> QED
    BY <2>1, Bounds
<1> HIDE DEF row
<1>5. /\ job'[worker[w].job] = row /\ worker'[w].pc = "skip" /\ worker'[w].job = worker[w].job
      => Knows(w)'
  BY <1>4 DEF Knows, Certified
<1>6. "save" \in Executing /\ "skip" \in Executing
  BY DEF Executing, Working
<1> QED
  BY <1>1, <1>3, <1>5, <1>6, SavesInv

LEMMA SkipRemainingInv ==
    ASSUME IInv, NEW w \in Workers, SkipRemaining(w)
    PROVE  IInv'
<1> DEFINE row == [Row(w) EXCEPT !.done = Skipped]
<1>1. Save(w, "skip", row, "recheck")
  BY DEF SkipRemaining
<1>2. Row(w) \in JobRows /\ Row(w).status = "running"
  BY <1>1, GuardedRow DEF Save
<1>3. SameClaim(row, Row(w)) /\ row.done >= Candidate
  BY <1>2, Bounds DEF SameClaim, JobRows
<1> HIDE DEF row
<1>4. /\ job'[worker[w].job] = row /\ worker'[w].pc = "recheck" /\ worker'[w].job = worker[w].job
      => Knows(w)'
  BY <1>3 DEF Knows, Certified
<1>5. "skip" \in Executing /\ "recheck" \in Executing
  BY DEF Executing, Working
<1> QED
  BY <1>1, <1>3, <1>4, <1>5, SavesInv

LEMMA SaveShadowInv ==
    ASSUME IInv, NEW w \in Workers, SaveShadow(w)
    PROVE  IInv'
<1> DEFINE row == [Row(w) EXCEPT !.state = "shadow", !.pub = 0]
<1>1. Save(w, "shadow", row, "complete")
  BY DEF SaveShadow
<1>2. Guarded(w) /\ worker[w].pc = "shadow"
  BY <1>1 DEF Save
<1>3. PICK k \in Jobs : k = worker[w].job /\ k.mode = "shadow"
  BY <1>2, GuardedRow DEF Knows
<1>4. Row(w) \in JobRows /\ Row(w).status = "running"
  BY <1>2, GuardedRow
<1>5. SameClaim(row, Row(w)) /\ row.state = "shadow"
  BY <1>4, Bounds DEF SameClaim, JobRows, Revisions
<1> HIDE DEF row
<1>6. job'[k] = row /\ worker'[w].pc = "complete" /\ worker'[w].job = k => Knows(w)'
  BY <1>3, <1>5 DEF Knows, Recorded, Certified
<1>7. "shadow" \in Executing /\ "complete" \in Executing
  BY DEF Executing, Working
<1> QED
  BY <1>1, <1>3, <1>5, <1>6, <1>7, SavesInv

LEMMA HoldInv ==
    ASSUME IInv, NEW w \in Workers, Hold(w)
    PROVE  IInv'
<1> DEFINE row == [Row(w) EXCEPT !.state = "held", !.pub = 0]
<1>1. PICK from \in {"hold", "heartbeat"} : from = worker[w].pc
  BY DEF Hold
<1>2. Save(w, from, row, "abort")
  BY <1>1 DEF Hold
<1>3. Row(w) \in JobRows /\ Row(w).status = "running"
  BY <1>2, GuardedRow DEF Save
<1>4. SameClaim(row, Row(w)) /\ row.state = "held"
  BY <1>3, Bounds DEF SameClaim, JobRows, Revisions
<1> HIDE DEF row
<1>5. /\ job'[worker[w].job] = row /\ worker'[w].pc = "abort" /\ worker'[w].job = worker[w].job
      => Knows(w)'
  BY <1>4 DEF Knows, Certified
<1>6. from \in Executing /\ "abort" \in Executing
  BY DEF Executing
<1> QED
  BY <1>2, <1>4, <1>5, <1>6, SavesInv

(* The revision was named by the process that committed or found it.       *)
LEMMA RecordInv ==
    ASSUME IInv, NEW w \in Workers, Record(w) \/ SavePublished(w)
    PROVE  IInv'
<1>1. /\ worker[w].pc \in {"record", "published"} /\ Guarded(w) /\ UNCHANGED pubs
  BY DEF Record, SavePublished, Save
<1>2. PICK k \in Jobs : /\ k = worker[w].job /\ k.mode = "publish"
                        /\ Names(k, worker[w].pub) /\ Row(w).done >= Candidate
  BY <1>1, GuardedRow DEF Knows, Certified
<1>3. /\ worker[w].pub \in Nat /\ Row(w) \in JobRows /\ Row(w).status = "running"
  BY <1>1, GuardedRow DEF Processes, Revisions
<1>4. "record" \in Executing /\ "published" \in Executing /\ "complete" \in Executing
  BY DEF Executing, Working
<1>5. CASE Record(w)
  <2> DEFINE row == [Row(w) EXCEPT !.state = "prepared", !.pub = worker[w].pub]
  <2>1. Save(w, "record", row, "published")
    BY <1>5 DEF Record
  <2>2. SameClaim(row, Row(w)) /\ row.done = Row(w).done
    BY <1>3 DEF SameClaim, JobRows, Revisions
  <2> HIDE DEF row
  <2>3. /\ job'[k] = row /\ worker'[w].pc = "published" /\ worker'[w].job = k
        /\ worker'[w].pub = worker[w].pub
        => Knows(w)'
    BY <1>1, <1>2, <2>2 DEF Knows, Names, Certified
  <2> QED
    BY <1>2, <1>4, <2>1, <2>2, <2>3, SavesInv
<1>6. CASE SavePublished(w)
  <2> DEFINE row == [Row(w) EXCEPT !.state = "published", !.pub = worker[w].pub]
  <2>1. Save(w, "published", row, "complete")
    BY <1>6 DEF SavePublished
  <2>2. SameClaim(row, Row(w)) /\ row.state = "published" /\ row.pub = worker[w].pub
    BY <1>3 DEF SameClaim, JobRows, Revisions
  <2> HIDE DEF row
  <2>3. job'[k] = row /\ worker'[w].pc = "complete" /\ worker'[w].job = k => Knows(w)'
    BY <1>1, <1>2, <2>2 DEF Knows, Recorded, Names, Certified
  <2> QED
    BY <1>2, <1>4, <2>1, <2>2, <2>3, SavesInv
<1> QED
  BY <1>5, <1>6

(* Steps that write no row and learn nothing.                              *)
LEMMA TurnsInv ==
    ASSUME IInv, NEW w \in Workers, worker[w].pc \in Executing,
           NEW pc \in {"hold", "heartbeat", "shadow", "activate"}, Goto(w, pc), NoFault \/ Fault,
           pc = "shadow" => worker[w].job.mode = "shadow",
           pc = "activate" =>
             worker[w].job.mode = "publish" /\ (Owned(w) => job[worker[w].job].done >= Candidate),
           UNCHANGED <<source, phase, reviewed, gate, pubs, job>>
    PROVE  IInv'
<1>1. pc \in Executing /\ TypeOK
  BY DEF Executing, Working, IInv
<1>2. worker'[w].pc = pc /\ worker'[w].job = worker[w].job
  BY <1>1, GotoEffect
<1>3. Owned(w)' => Owned(w)
  <2>1. worker'[w].token = worker[w].token
    BY <1>1, GotoEffect
  <2> QED
    BY <1>2, <2>1 DEF Owned, Row
<1>4. Owned(w)' => Knows(w)'
  BY <1>2, <1>3 DEF Knows, Certified
<1> QED
  BY <1>1, <1>4, GoesOn

(* A revision with the certificate of a job is the job's.                  *)
LEMMA CommittedNames ==
    ASSUME IInv, NEW w \in Workers, worker[w].job \in Jobs, worker[w].job.mode = "publish",
           NEW p \in Committed(w)
    PROVE  Names(worker[w].job, p)
<1>1. PICK k \in Jobs : k = worker[w].job
  OBVIOUS
<1>2. Committed(w) = {q \in DOMAIN pubs[k.cob] : pubs[k.cob][q] # NoJob
                                                  /\ pubs[k.cob][q].version = k.version}
  BY <1>1 DEF Committed
<1>3. k.cob \in Cobs /\ k.mode \in Modes
  BY JobFields
<1>4. pubs[k.cob] \in Seq(Jobs \cup {NoJob}) /\ p \in DOMAIN pubs[k.cob]
      /\ pubs[k.cob][p] # NoJob /\ pubs[k.cob][p].version = k.version
  BY <1>2, <1>3 DEF IInv, TypeOK
<1>5. PICK l \in Jobs : l = pubs[k.cob][p]
  BY <1>4
<1>6. l.cob = k.cob /\ l.mode = "publish" /\ l.version = k.version
  BY <1>3, <1>4, <1>5 DEF IInv, PubsOK
<1>7. l = k
  BY <1>1, <1>6, JobFields
<1> QED
  BY <1>1, <1>4, <1>5, <1>6, <1>7 DEF Names

LEMMA RecheckInv ==
    ASSUME IInv, NEW w \in Workers, Recheck(w)
    PROVE  IInv'
<1>1. /\ worker[w].pc = "recheck" /\ worker[w].pc # "idle" /\ worker[w].pc \in Executing
      /\ NoFault /\ UNCHANGED <<source, phase, reviewed, gate, pubs, job>> /\ TypeOK
  BY DEF Recheck, Executing, Working, IInv
<1>2. PICK k \in Jobs : k = worker[w].job
  BY <1>1, Busy
<1>3. /\ k.mode \in {"shadow", "publish"} /\ k.cob \in Cobs
      /\ Owned(w) => job[k].done >= Candidate
  <2>1. Owned(w) => Knows(w)
    BY DEF IInv, WorkerOK
  <2> QED
    BY <1>1, <1>2, <2>1, JobFields DEF Modes, Knows, Certified
<1>4. CASE \E pc \in {"hold", "shadow", "activate"} :
             /\ Goto(w, pc)
             /\ pc = "shadow" => k.mode = "shadow"
             /\ pc = "activate" => k.mode = "publish"
  BY <1>1, <1>2, <1>3, <1>4, TurnsInv
<1>5. CASE /\ k.mode = "publish" /\ Active(k.cob) \in Committed(w)
           /\ Becomes(w, [worker[w] EXCEPT !.pc = "record", !.pub = Active(k.cob)])
  <2>1. PICK p \in Nat : p = Active(k.cob)
    BY <1>1, <1>3 DEF Active, TypeOK
  <2> DEFINE r == [worker[w] EXCEPT !.pc = "record", !.pub = p]
  <2>2. Becomes(w, r) /\ worker[w] \in Processes
    BY <1>1, <1>5, <2>1 DEF TypeOK
  <2>3. /\ r \in Processes /\ r.pc = "record" /\ r.pub = p /\ r.job = worker[w].job
        /\ r.token = worker[w].token
    BY <2>2 DEF Processes, Revisions, Working
  <2> HIDE DEF r
  <2>4. /\ worker' \in [Workers -> Processes] /\ worker'[w] = r
        /\ \A x \in Workers : x # w => worker'[x] = worker[x]
    BY <1>1, <2>2, <2>3, BecomesEffect
  <2>5. WorldGrows
    BY <1>1, <2>4, FaultsCounted, WorldSame DEF TypeOK
  <2>6. Names(k, p)
    BY <1>2, <1>5, <2>1, CommittedNames
  <2>7. Owned(w)' => Knows(w)'
    <3>1. Owned(w)' => Owned(w)
      BY <1>1, <2>3, <2>4 DEF Owned, Row
    <3> QED
      BY <1>1, <1>2, <1>3, <1>5, <2>3, <2>4, <2>6, <3>1 DEF Knows, Names, Certified
  <2>8. worker'[w].pc \in Executing
    BY <2>3, <2>4 DEF Executing, Working
  <2> QED
    BY <1>1, <2>3, <2>4, <2>5, <2>7, <2>8, RowsAlone, Advance
<1> QED
  BY <1>2, <1>3, <1>4, <1>5 DEF Recheck

(* The revision of an activation is the job's.                             *)
LEMMA ActivateInv ==
    ASSUME IInv, NEW w \in Workers, Activate(w)
    PROVE  IInv'
<1>1. /\ worker[w].pc = "activate" /\ worker[w].pc \in Executing /\ Guarded(w) /\ NoFault
      /\ UNCHANGED <<source, phase, reviewed, gate, job, faults>> /\ TypeOK
  BY DEF Activate, Executing, Working, IInv, NoFault
<1>2. PICK k \in Jobs : /\ k = worker[w].job /\ k.mode = "publish"
                        /\ job[k].done >= Candidate
  BY <1>1, GuardedRow DEF Knows, Certified
<1>3. k.cob \in Cobs /\ k # NoJob
  BY JobFields, NullAssumption
<1>4. CASE \E pc \in {"hold", "heartbeat"} : Goto(w, pc) /\ UNCHANGED pubs
  BY <1>1, <1>4, TurnsInv
<1>5. CASE /\ pubs' = [pubs EXCEPT ![k.cob] = Append(@, k)]
           /\ Becomes(w, [worker[w] EXCEPT !.pc = "record", !.pub = Active(k.cob) + 1])
  <2>1. pubs[k.cob] \in Seq(Jobs \cup {NoJob})
    BY <1>1, <1>3 DEF TypeOK
  <2>2. PICK p \in Nat : p = Active(k.cob) + 1
    BY <2>1 DEF Active
  <2> DEFINE r == [worker[w] EXCEPT !.pc = "record", !.pub = p]
  <2>3. Becomes(w, r) /\ worker[w] \in Processes
    BY <1>1, <1>5, <2>2 DEF TypeOK
  <2>4. /\ r \in Processes /\ r.pc = "record" /\ r.pub = p /\ r.job = worker[w].job
        /\ r.token = worker[w].token
    BY <2>3 DEF Processes, Revisions, Working
  <2> HIDE DEF r
  <2>5. /\ worker' \in [Workers -> Processes] /\ worker'[w] = r
        /\ \A x \in Workers : x # w => worker'[x] = worker[x]
    BY <1>1, <2>3, <2>4, BecomesEffect
  <2>6. WorldGrows /\ pubs'[k.cob] = Append(pubs[k.cob], k)
    <3>1. /\ k \in Jobs \cup {NoJob} /\ pubs' = [pubs EXCEPT ![k.cob] = Append(@, k)]
          /\ k # NoJob => k.cob = k.cob /\ k.mode = "publish"
      BY <1>2, <1>5
    <3> QED
      BY <1>1, <1>3, <2>5, <3>1, RevisionAdded
  <2>7. p \in DOMAIN pubs'[k.cob] /\ pubs'[k.cob][p] = k
    BY <2>1, <2>2, <2>6 DEF Active
  <2>8. Knows(w)'
    BY <1>1, <1>2, <2>4, <2>5, <2>7 DEF Knows, Names, Certified
  <2>9. worker'[w].pc \in Executing
    BY <2>4, <2>5 DEF Executing, Working
  <2> QED
    BY <1>1, <2>4, <2>5, <2>6, <2>8, <2>9, RowsAlone, Advance
<1> QED
  BY <1>2, <1>4, <1>5 DEF Activate

LEMMA RefuseInv ==
    ASSUME IInv, NEW w \in Workers, Refuse(w)
    PROVE  IInv'
<1>1. /\ worker[w].pc \in Executing /\ Goto(w, "hold") /\ Fault
      /\ UNCHANGED <<source, phase, reviewed, gate, pubs, job>>
  BY DEF Refuse, Executing
<1> QED
  BY <1>1, TurnsInv

(* The flag of the heartbeat is nothing the process knows.                 *)
LEMMA BeatFailsInv ==
    ASSUME IInv, NEW w \in Workers, BeatFails(w)
    PROVE  IInv'
<1>1. /\ worker[w].pc \in Executing /\ Fault /\ TypeOK /\ worker[w] \in Processes
      /\ UNCHANGED <<source, phase, reviewed, gate, pubs, job>>
  BY DEF BeatFails, Executing, IInv, TypeOK
<1> DEFINE r == [worker[w] EXCEPT !.lost = TRUE]
<1>2. Becomes(w, r)
  BY DEF BeatFails
<1>3. /\ r \in Processes /\ r.pc = worker[w].pc /\ r.pub = worker[w].pub
      /\ r.job = worker[w].job /\ r.token = worker[w].token
  BY <1>1 DEF Processes
<1> HIDE DEF r
<1>4. /\ worker' \in [Workers -> Processes] /\ worker'[w] = r
      /\ \A x \in Workers : x # w => worker'[x] = worker[x]
  BY <1>1, <1>2, <1>3, BecomesEffect
<1>5. WorldGrows
  BY <1>1, <1>4, FaultsCounted, WorldSame DEF TypeOK
<1>6. Owned(w)' => Knows(w)'
  BY <1>1, <1>3, <1>4 DEF IInv, WorkerOK, Owned, Row, Knows, Recorded, Names, Certified
<1> QED
  BY <1>1, <1>3, <1>4, <1>5, <1>6, RowsAlone, Advance


-----------------------------------------------------------------------------
(* The end of a claim.                                                     *)

(* A flag of a row is rewritten.                                           *)
LEMMA FinishedRow ==
    ASSUME NEW row \in JobRows, NEW timely \in BOOLEAN
    PROVE  /\ [row EXCEPT !.timely = timely] \in JobRows
           /\ [row EXCEPT !.timely = timely].status = row.status
           /\ [row EXCEPT !.timely = timely].kind = row.kind
           /\ [row EXCEPT !.timely = timely].attempts = row.attempts
           /\ [row EXCEPT !.timely = timely].born = row.born
           /\ [row EXCEPT !.timely = timely].done = row.done
           /\ [row EXCEPT !.timely = timely].state = row.state
           /\ [row EXCEPT !.timely = timely].pub = row.pub
BY DEF JobRows

(* The owner leaves a last row behind.                                     *)
LEMMA EndsInv ==
    ASSUME IInv, NEW w \in Workers, Owned(w), Exit(w), NoFault \/ Fault,
           UNCHANGED <<source, phase, reviewed, gate, pubs>>,
           NEW k \in Jobs, k = worker[w].job, NEW row \in JobRows, job' = [job EXCEPT ![k] = row],
           row.status \in Terminal, row.attempts = job[k].attempts, row.born = job[k].born,
           row.kind = "permanent" => row.status = "failed" /\ row.state = "held",
           row.status = "succeeded" => /\ row.done = Skipped /\ Recorded(k)
                                       /\ row.state = job[k].state /\ row.pub = job[k].pub
    PROVE  IInv'
<1>1. /\ TypeOK /\ job[k].status = "running" /\ job[k] \in JobRows /\ JobOK(k)
      /\ row.status \notin {"absent", "running"}
  BY DEF IInv, TypeOK, Owned, Row, Terminal
<1>2. /\ job' \in [Jobs -> JobRows] /\ job'[k] = row
      /\ \A l \in Jobs : l # k => job'[l] = job[l]
  BY <1>1, RowEffect
<1>3. Grows(k)
  <2>1. job[k].attempts <= row.attempts
    BY <1>1, Bounds DEF JobRows
  <2> QED
    BY <1>1, <1>2, <2>1 DEF Grows, Stays
<1>4. JobOK(k)'
  <2>1. row.status = "succeeded" => Recorded(k)'
    BY <1>2 DEF Recorded, Names
  <2> QED
    BY <1>1, <1>2, <2>1 DEF JobOK
<1>5. ASSUME NEW l \in Jobs, l # k PROVE Kept(l)
  BY <1>1, <1>2, <1>5, UnchangedKept
<1> QED
  BY <1>2, <1>3, <1>4, <1>5, Leave

LEMMA CompleteInv ==
    ASSUME IInv, NEW w \in Workers, Complete(w)
    PROVE  IInv'
<1>1. /\ worker[w].pc = "complete" /\ Guarded(w) /\ Row(w).done = Skipped /\ Exit(w) /\ NoFault
      /\ UNCHANGED <<source, phase, reviewed, gate, pubs>>
  BY DEF Complete
<1>2. PICK k \in Jobs : k = worker[w].job
  BY <1>1, GuardedRow
<1>3. /\ Row(w) = job[k] /\ job[k] \in JobRows /\ job[k].status = "running" /\ Owned(w)
      /\ Recorded(k)
  BY <1>1, <1>2, GuardedRow DEF Knows
<1>4. job[k].kind # "permanent"
  BY <1>3, NotHeld
<1> DEFINE base == Release(job[k], "succeeded")
           timely == base.timely /\ phase[k.cob] # "closed"
           row == [base EXCEPT !.timely = timely]
<1>5. /\ base \in JobRows /\ base.status = "succeeded" /\ base.attempts = job[k].attempts
      /\ base.born = job[k].born /\ base.done = job[k].done /\ base.state = job[k].state
      /\ base.pub = job[k].pub /\ base.kind = job[k].kind
  <2>1. base.kind = job[k].kind
    BY <1>3 DEF Release, JobRows
  <2>2. "succeeded" \in {"queued", "succeeded", "failed", "cancelled"}
    OBVIOUS
  <2> HIDE DEF base
  <2>3. base = Release(job[k], "succeeded")
    BY DEF base
  <2> QED
    BY <1>3, <2>1, <2>2, <2>3, ReleasedRow
<1>6. job' = [job EXCEPT ![k] = row]
  BY <1>2, <1>3 DEF Complete, Change
<1>7. timely \in BOOLEAN
  OBVIOUS
<1> HIDE DEF base, timely
<1>8. /\ row \in JobRows /\ row.status = "succeeded" /\ row.attempts = job[k].attempts
      /\ row.born = job[k].born /\ row.done = job[k].done /\ row.state = job[k].state
      /\ row.pub = job[k].pub /\ row.kind = job[k].kind
  <2>1. /\ [base EXCEPT !.timely = timely] \in JobRows
        /\ [base EXCEPT !.timely = timely].status = base.status
        /\ [base EXCEPT !.timely = timely].kind = base.kind
        /\ [base EXCEPT !.timely = timely].attempts = base.attempts
        /\ [base EXCEPT !.timely = timely].born = base.born
        /\ [base EXCEPT !.timely = timely].done = base.done
        /\ [base EXCEPT !.timely = timely].state = base.state
        /\ [base EXCEPT !.timely = timely].pub = base.pub
    BY ONLY <1>5, <1>7, FinishedRow
  <2> QED
    BY <1>5, <2>1
<1> HIDE DEF row
<1>9. row.status \in Terminal
  BY <1>8 DEF Terminal
<1> QED
  BY <1>1, <1>2, <1>3, <1>4, <1>6, <1>8, <1>9, EndsInv

(* The abort of a held job.                                                *)
LEMMA AbortInv ==
    ASSUME IInv, NEW w \in Workers, Abort(w)
    PROVE  IInv'
<1>1. /\ worker[w].pc = "abort" /\ Guarded(w) /\ Exit(w) /\ NoFault
      /\ UNCHANGED <<source, phase, reviewed, gate, pubs>>
  BY DEF Abort
<1>2. PICK k \in Jobs : k = worker[w].job
  BY <1>1, GuardedRow
<1>3. Row(w) = job[k] /\ job[k] \in JobRows /\ Owned(w) /\ job[k].state = "held"
  BY <1>1, <1>2, GuardedRow DEF Knows
<1> DEFINE row == [Release(job[k], "failed") EXCEPT !.kind = "permanent"]
<1>4. /\ row \in JobRows /\ row.status = "failed" /\ row.attempts = job[k].attempts
      /\ row.born = job[k].born /\ row.state = "held" /\ row.kind = "permanent"
  BY <1>3, Bounds DEF Release, JobRows, Terminal
<1>5. job' = [job EXCEPT ![k] = row]
  BY <1>2, <1>3 DEF Abort, Change
<1> HIDE DEF row
<1>6. row.status \in Terminal
  BY <1>4 DEF Terminal
<1> QED
  BY <1>1, <1>2, <1>3, <1>4, <1>5, <1>6, EndsInv

LEMMA FailInv ==
    ASSUME IInv, NEW w \in Workers, Fail(w)
    PROVE  IInv'
<1>1. /\ worker[w].pc \in Working /\ Exit(w) /\ Fault
      /\ UNCHANGED <<source, phase, reviewed, gate, pubs>>
  BY DEF Fail
<1>2. CASE ~Owned(w)
  <2>1. UNCHANGED job
    BY <1>2 DEF Fail
  <2> QED
    BY <1>1, <2>1, RowsAlone, Leave
<1>3. CASE Owned(w)
  <2>1. PICK k \in Jobs : k = worker[w].job /\ job[k].status = "running" /\ Row(w) = job[k]
    BY <1>3 DEF Owned, Row
  <2>2. PICK status \in {"queued", "failed", "cancelled"} :
          job' = [job EXCEPT ![k] = [Release(job[k], status) EXCEPT !.kind = "retryable"]]
    BY <1>3, <2>1 DEF Fail, Change
  <2>3. job' \in [Jobs -> JobRows] /\ \A l \in Jobs : Kept(l)
    BY <2>1, <2>2, ReleasedKept
  <2> QED
    BY <1>1, <2>3, Leave
<1> QED
  BY <1>2, <1>3


-----------------------------------------------------------------------------
(* The specification.                                                      *)

LEMMA InitInv ==
    ASSUME Init
    PROVE  IInv
<1>1. TypeOK
  <2>1. /\ 0 \in 0 .. MaxVersion /\ 0 \in 0 .. MaxFaults
    BY BoundsAssumption
  <2>2. <<>> \in Seq(Jobs \cup {NoJob})
    OBVIOUS
  <2> QED
    BY <2>1, <2>2, BlankRows DEF Init, TypeOK
<1>2. \A k \in Jobs : JobOK(k)
  BY DEF Init, JobOK, AbsentJob
<1>3. PubsOK
  BY DEF Init, PubsOK
<1>4. \A w \in Workers : worker[w].pc \notin Executing /\ WorkerOK(w)
  BY NullAssumption DEF Init, WorkerOK, Idle, Owned, Executing, Working
<1>5. TokensUnique
  BY <1>4 DEF TokensUnique
<1>6. RanksOK
  <2>1. Present = {}
    BY DEF Present, Init, AbsentJob
  <2> QED
    BY <2>1 DEF RanksOK
<1> QED
  BY <1>1, <1>2, <1>3, <1>4, <1>5, <1>6 DEF IInv

LEMMA StepInv ==
    ASSUME IInv, NEW w \in Workers, Step(w)
    PROVE  IInv'
BY SubmitInv, ClaimInv, FitInv, SaveCandidateInv, SkipRemainingInv, RecheckInv, SaveShadowInv,
   ActivateInv, RecordInv, CompleteInv, WaitInv, HoldInv, AbortInv
   DEF Step

LEMMA Inductive ==
    ASSUME IInv, [Next]_vars
    PROVE  IInv'
<1>1. CASE UNCHANGED vars
  <2>1. UNCHANGED <<source, phase, reviewed, gate, pubs, job, worker, faults>> /\ WorldGrows
    <3>1. UNCHANGED <<source, phase, reviewed, gate, pubs, job, worker, faults>>
      BY <1>1 DEF vars
    <3> QED
      BY <3>1, WorldSame DEF IInv, TypeOK
  <2> QED
    BY <2>1, RowsAlone, NobodyActs
<1>2. ASSUME NEW w \in Workers, \E k \in Jobs : Look(w, k) PROVE IInv'
  BY <1>2, LookInv
<1>3. ASSUME NEW w \in Workers,
             Step(w) \/ Wait(w) \/ Refuse(w) \/ Fail(w) \/ BeatFails(w) \/ Crash(w)
      PROVE  IInv'
  BY <1>3, StepInv, WaitInv, RefuseInv, FailInv, BeatFailsInv
<1>4. ASSUME NEW k \in Jobs, RetrySettlement(k) \/ RequestCancel(k) \/ Expire(k) PROVE IInv'
  BY <1>4, RetryInv, CancelInv, ExpireInv
<1>5. ASSUME NEW c \in Cobs,
             ImportCalendar(c) \/ SnapshotArrives(c) \/ ClockMoves(c) \/ OthersPublish(c)
      PROVE  IInv'
  BY <1>5, OperatorInv, SnapshotInv, OthersPublishInv
<1>6. CASE ApprovePromotion
  BY <1>6, OperatorInv
<1> QED
  BY <1>1, <1>2, <1>3, <1>4, <1>5, <1>6 DEF Next

(* The state of automatic settlement has its type, whatever processes,     *)
(* operators and publishers by hand do.                                    *)
THEOREM TypeCorrect == Spec => []TypeOK
<1>1. IInv => TypeOK
  BY DEF IInv
<1> QED
  BY <1>1, InitInv, Inductive, PTL DEF Spec

(* The success of a job speaks of what it left: all targets accounted for, *)
(* nothing published by a shadow job, a revision of its own by another.    *)
THEOREM SuccessIsRecorded == Spec => []SuccessRecorded
<1>1. ASSUME IInv PROVE SuccessRecorded
  <2>1. ASSUME NEW k \in Jobs, job[k].status = "succeeded"
        PROVE  job[k].done = Skipped /\ Recorded(k)
    BY <1>1, <2>1 DEF IInv, JobOK
  <2> QED
    BY <2>1 DEF SuccessRecorded, Recorded, Names
<1> QED
  BY <1>1, InitInv, Inductive, PTL DEF Spec

-----------------------------------------------------------------------------
(* Steps.                                                                  *)

(* An automatic publication is the first of its date, so the revision a    *)
(* job recorded is the one any later claim of it finds.                    *)
RevisionsFirst == \A c \in Cobs : \A p \in DOMAIN pubs[c] : pubs[c][p] # NoJob => p = 1
RecordOK(k) ==
    job[k].pub # 0 => job[k].pub = 1 /\ k.mode = "publish" /\ job[k].done >= Candidate

RInv == RevisionsFirst /\ \A k \in Jobs : RecordOK(k)

(* What the property says of one row.                                      *)
Finished == {"succeeded", "cancelled"}
RowKept(k) ==
    /\ job[k].pub # 0 => job'[k].pub = job[k].pub \/ job'[k].state = "held"
    /\ job[k].status \in Finished =>
         /\ job'[k].status = job[k].status
         /\ job'[k].state = job[k].state /\ job'[k].pub = job[k].pub

(* A step that leaves outcomes alone.                                      *)
LEMMA OutcomesAlone ==
    ASSUME RInv, \A k \in Jobs : SameRow(k) /\ (job[k].status \in Finished => job'[k].status = job[k].status)
    PROVE  \A k \in Jobs : RecordOK(k)' /\ RowKept(k)
BY DEF RInv, SameRow, RecordOK, RowKept

(* A step that writes one row that is not finished.                        *)
LEMMA OutcomeWritten ==
    ASSUME TypeOK, RInv, NEW k \in Jobs, job[k].status \notin Finished,
           NEW row, job' = [job EXCEPT ![k] = row],
           row.pub # 0 => row.pub = 1 /\ k.mode = "publish" /\ row.done >= Candidate,
           job[k].pub # 0 => row.pub = job[k].pub \/ row.state = "held"
    PROVE  \A l \in Jobs : RecordOK(l)' /\ RowKept(l)
<1>1. job'[k] = row /\ \A l \in Jobs : l # k => job'[l] = job[l]
  BY DEF TypeOK
<1> QED
  BY <1>1 DEF RInv, RecordOK, RowKept

(* A step that ends a claim, or asks for another.                          *)
LEMMA ClaimEnded ==
    ASSUME TypeOK, RInv, NEW k \in Jobs, job[k].status \notin Finished,
           NEW row, job' = [job EXCEPT ![k] = row],
           row.pub = job[k].pub, row.done = job[k].done, row.state = job[k].state
    PROVE  \A l \in Jobs : RecordOK(l)' /\ RowKept(l)
<1>1. RecordOK(k)
  BY DEF RInv
<1>2. row.pub # 0 => row.pub = 1 /\ k.mode = "publish" /\ row.done >= Candidate
  BY <1>1 DEF RecordOK
<1> QED
  BY <1>2, OutcomeWritten

(* Commands, the clock and the sweep.                                      *)
LEMMA CommandKeeps ==
    ASSUME IInv, RInv, NEW k \in Jobs, RetrySettlement(k) \/ RequestCancel(k) \/ Expire(k)
    PROVE  \A l \in Jobs : RecordOK(l)' /\ RowKept(l)
<1>1. TypeOK /\ job[k] \in JobRows
  BY DEF IInv, TypeOK
<1>2. CASE RetrySettlement(k)
  <2> DEFINE row == [job[k] EXCEPT !.status = "queued", !.max = @ + RetryGrant]
  <2>1. job' = [job EXCEPT ![k] = row] /\ job[k].status \notin Finished
    BY <1>2 DEF RetrySettlement, Retryable, Finished
  <2>2. row.pub = job[k].pub /\ row.done = job[k].done /\ row.state = job[k].state
    BY <1>1 DEF JobRows
  <2> QED
    BY <1>1, <2>1, <2>2, ClaimEnded
<1>3. CASE RequestCancel(k)
  <2> DEFINE row == Release(job[k], "cancelled")
  <2>1. job' = [job EXCEPT ![k] = row] /\ job[k].status \notin Finished
    BY <1>3 DEF RequestCancel, Finished
  <2>2. row.pub = job[k].pub /\ row.done = job[k].done /\ row.state = job[k].state
    BY <1>1 DEF JobRows, Release
  <2> QED
    BY <1>1, <2>1, <2>2, ClaimEnded
<1>4. CASE Expire(k)
  <2> DEFINE row == [job[k] EXCEPT !.live = FALSE]
  <2>1. job' = [job EXCEPT ![k] = row]
    BY <1>4 DEF Expire
  <2>2. /\ row.pub = job[k].pub /\ row.done = job[k].done /\ row.state = job[k].state
        /\ row.status = job[k].status
    BY <1>1 DEF JobRows
  <2>3. \A l \in Jobs : SameRow(l) /\ job'[l].status = job[l].status
    BY <1>1, <2>1, <2>2 DEF TypeOK, SameRow
  <2> QED
    BY <2>3, OutcomesAlone
<1> QED
  BY <1>2, <1>3, <1>4

LEMMA SubmitKeeps ==
    ASSUME IInv, RInv, NEW w \in Workers, Submit(w)
    PROVE  \A l \in Jobs : RecordOK(l)' /\ RowKept(l)
<1>1. worker[w].job \in Jobs /\ TypeOK
  BY Busy DEF Submit, IInv
<1>2. PICK k \in Jobs : k = worker[w].job /\ JobOK(k)
  BY <1>1 DEF IInv
<1>3. CASE job' = job
  BY <1>3, OutcomesAlone DEF SameRow
<1>4. CASE job' # job
  <2> DEFINE row == [AbsentJob EXCEPT !.status = "queued", !.max = MaxAttempts,
                                      !.born = Rank, !.timely = phase[k.cob] # "before"]
  <2>1. job' = [job EXCEPT ![k] = row] /\ job[k].status = "absent"
    BY <1>2, <1>4 DEF Submit
  <2>2. job[k].pub = 0 /\ row.pub = 0
    BY <1>2, <2>1 DEF JobOK, AbsentJob
  <2>3. job[k].status \notin Finished
    BY <2>1 DEF Finished
  <2> HIDE DEF row
  <2> QED
    BY <1>1, <2>1, <2>2, <2>3, OutcomeWritten
<1> QED
  BY <1>3, <1>4

LEMMA ClaimKeeps ==
    ASSUME IInv, RInv, NEW w \in Workers, Claim(w)
    PROVE  \A l \in Jobs : RecordOK(l)' /\ RowKept(l)
<1> DEFINE swept == [l \in Jobs |-> Swept(l)]
<1>1. \/ job' = swept
      \/ \E k \in Jobs : Claimable(k) /\ job' = [swept EXCEPT ![k] = Claimed(k)]
  BY DEF Claim, Swept
<1>2. ASSUME NEW l \in Jobs
      PROVE  /\ Swept(l).pub = job[l].pub /\ Swept(l).done = job[l].done
             /\ Swept(l).state = job[l].state
             /\ job[l].status \in Finished => Swept(l).status = job[l].status
             /\ Claimed(l).pub = job[l].pub /\ Claimed(l).done = job[l].done
             /\ Claimed(l).state = job[l].state
             /\ Claimable(l) => job[l].status \notin Finished
  <2>1. job[l] \in JobRows
    BY DEF IInv, TypeOK
  <2> QED
    BY <2>1 DEF Swept, Exhausted, Claimed, Claimable, JobRows, Finished
<1>3. ASSUME NEW l \in Jobs
      PROVE  \/ job'[l] = Swept(l)
             \/ job'[l] = Claimed(l) /\ Claimable(l)
  BY <1>1
<1>4. \A l \in Jobs : SameRow(l) /\ (job[l].status \in Finished => job'[l].status = job[l].status)
  BY <1>2, <1>3 DEF SameRow
<1> QED
  BY <1>4, OutcomesAlone

(* The owner's own steps.                                                  *)
LEMMA OwnerKeeps ==
    ASSUME IInv, RInv, NEW w \in Workers, Guarded(w),
           \/ Fit(w) \/ SaveCandidate(w) \/ SkipRemaining(w) \/ SaveShadow(w) \/ Hold(w)
           \/ Complete(w) \/ Abort(w)
    PROVE  \A l \in Jobs : RecordOK(l)' /\ RowKept(l)
<1>1. PICK k \in Jobs : /\ k = worker[w].job /\ Row(w) = job[k] /\ job[k] \in JobRows
                        /\ job[k].status = "running" /\ Knows(w) /\ TypeOK
                        /\ job[k].done \in Nat /\ job[k].done <= Skipped
  BY GuardedRow
<1>2. job[k].status \notin Finished /\ RecordOK(k)
  BY <1>1 DEF Finished, RInv
<1>3. CASE Fit(w)
  <2> DEFINE row == [job[k] EXCEPT !.done = @ + 1]
  <2>1. job' = [job EXCEPT ![k] = row]
    BY <1>1, <1>3 DEF Fit, Change
  <2>2. row.pub = job[k].pub /\ job[k].done < Targets
    BY <1>1, <1>3 DEF Fit, Knows, JobRows
  <2>3. job[k].pub = 0
    BY <1>1, <1>2, <2>2, Bounds DEF RecordOK
  <2> HIDE DEF row
  <2> QED
    BY <1>1, <1>2, <2>1, <2>2, <2>3, OutcomeWritten
<1>4. CASE SaveCandidate(w)
  <2> DEFINE row == [job[k] EXCEPT !.done = Candidate, !.state = "prepared", !.pub = 0]
  <2>1. job' = [job EXCEPT ![k] = row] /\ worker[w].pc = "save"
    BY <1>1, <1>4 DEF SaveCandidate, Save, Change
  <2>2. row.pub = 0 /\ job[k].done <= Targets
    BY <1>1, <2>1 DEF Knows, JobRows
  <2>3. job[k].pub = 0
    BY <1>1, <1>2, <2>2, Bounds DEF RecordOK
  <2> HIDE DEF row
  <2> QED
    BY <1>1, <1>2, <2>1, <2>2, <2>3, OutcomeWritten
<1>5. CASE SkipRemaining(w)
  <2> DEFINE row == [job[k] EXCEPT !.done = Skipped]
  <2>1. job' = [job EXCEPT ![k] = row]
    BY <1>1, <1>5 DEF SkipRemaining, Save, Change
  <2>2. row.pub = job[k].pub /\ row.done >= Candidate
    BY <1>1, Bounds DEF JobRows
  <2>3. row.pub # 0 => row.pub = 1 /\ k.mode = "publish" /\ row.done >= Candidate
    BY <1>2, <2>2 DEF RecordOK
  <2> HIDE DEF row
  <2> QED
    BY <1>1, <1>2, <2>1, <2>2, <2>3, OutcomeWritten
<1>6. CASE SaveShadow(w)
  <2> DEFINE row == [job[k] EXCEPT !.state = "shadow", !.pub = 0]
  <2>1. job' = [job EXCEPT ![k] = row] /\ worker[w].pc = "shadow"
    BY <1>1, <1>6 DEF SaveShadow, Save, Change
  <2>2. row.pub = 0
    BY <1>1 DEF JobRows
  <2>3. job[k].pub = 0
    BY <1>1, <1>2, <2>1 DEF RecordOK, Knows
  <2> HIDE DEF row
  <2> QED
    BY <1>1, <1>2, <2>1, <2>2, <2>3, OutcomeWritten
<1>7. CASE Hold(w)
  <2> DEFINE row == [job[k] EXCEPT !.state = "held", !.pub = 0]
  <2>1. job' = [job EXCEPT ![k] = row]
    BY <1>1, <1>7 DEF Hold, Save, Change
  <2>2. row.pub = 0 /\ row.state = "held"
    BY <1>1 DEF JobRows
  <2> HIDE DEF row
  <2> QED
    BY <1>1, <1>2, <2>1, <2>2, OutcomeWritten
<1>8. CASE Complete(w)
  <2> DEFINE free == Release(job[k], "succeeded")
             row == [free EXCEPT !.timely = @ /\ phase[k.cob] # "closed"]
  <2>1. job' = [job EXCEPT ![k] = row]
    BY <1>1, <1>8 DEF Complete, Change
  <2>2. row.pub = job[k].pub /\ row.done = job[k].done /\ row.state = job[k].state
    BY <1>1 DEF JobRows, Release
  <2> HIDE DEF row
  <2> QED
    BY <1>1, <1>2, <2>1, <2>2, ClaimEnded
<1>9. CASE Abort(w)
  <2> DEFINE row == [Release(job[k], "failed") EXCEPT !.kind = "permanent"]
  <2>1. job' = [job EXCEPT ![k] = row]
    BY <1>1, <1>9 DEF Abort, Change
  <2>2. row.pub = job[k].pub /\ row.done = job[k].done /\ row.state = job[k].state
    BY <1>1 DEF JobRows, Release
  <2> HIDE DEF row
  <2> QED
    BY <1>1, <1>2, <2>1, <2>2, ClaimEnded
<1> QED
  BY <1>3, <1>4, <1>5, <1>6, <1>7, <1>8, <1>9

(* A claim that records a revision records the first of its date, as any   *)
(* claim before it did.                                                    *)
LEMMA RecordKeeps ==
    ASSUME IInv, RInv, NEW w \in Workers, Record(w) \/ SavePublished(w)
    PROVE  \A l \in Jobs : RecordOK(l)' /\ RowKept(l)
<1>1. worker[w].pc \in {"record", "published"} /\ Guarded(w)
  BY DEF Record, SavePublished, Save
<1>2. PICK k \in Jobs : /\ k = worker[w].job /\ Row(w) = job[k] /\ job[k] \in JobRows
                        /\ job[k].status = "running" /\ Knows(w) /\ TypeOK
                        /\ worker[w] \in Processes
  BY <1>1, GuardedRow
<1>3. k.mode = "publish" /\ Names(k, worker[w].pub) /\ job[k].done >= Candidate
  BY <1>1, <1>2 DEF Knows, Certified
<1>4. worker[w].pub = 1
  <2>1. k.cob \in Cobs /\ k # NoJob
    BY JobFields, NullAssumption
  <2> QED
    BY <1>3, <2>1 DEF Names, RInv, RevisionsFirst
<1>5. job[k].status \notin Finished /\ RecordOK(k)
  BY <1>2 DEF Finished, RInv
<1>6. PICK state \in {"prepared", "published"} :
        job' = [job EXCEPT ![k] = [job[k] EXCEPT !.state = state, !.pub = 1]]
  BY <1>2, <1>4 DEF Record, SavePublished, Save, Change
<1> DEFINE row == [job[k] EXCEPT !.state = state, !.pub = 1]
<1>7. row.pub = 1 /\ row.done = job[k].done
  BY <1>2 DEF JobRows
<1>8. job[k].pub # 0 => row.pub = job[k].pub
  BY <1>5, <1>7 DEF RecordOK
<1> HIDE DEF row
<1> QED
  BY <1>2, <1>3, <1>5, <1>6, <1>7, <1>8, OutcomeWritten DEF row

LEMMA FailKeeps ==
    ASSUME IInv, RInv, NEW w \in Workers, Fail(w)
    PROVE  \A l \in Jobs : RecordOK(l)' /\ RowKept(l)
<1>1. CASE UNCHANGED job
  BY <1>1, OutcomesAlone DEF SameRow
<1>2. CASE ~UNCHANGED job
  <2>1. Owned(w)
    BY <1>2 DEF Fail
  <2>2. PICK k \in Jobs : /\ k = worker[w].job /\ Row(w) = job[k] /\ job[k] \in JobRows
                          /\ job[k].status = "running" /\ TypeOK
    BY <2>1 DEF Owned, Row, IInv, TypeOK
  <2>3. job[k].status \notin Finished
    BY <2>2 DEF Finished
  <2>4. PICK status \in {"queued", "failed"} :
          job' = [job EXCEPT ![k] = [Release(job[k], status) EXCEPT !.kind = "retryable"]]
    BY <2>1, <2>2 DEF Fail, Change
  <2> DEFINE row == [Release(job[k], status) EXCEPT !.kind = "retryable"]
  <2>5. row.pub = job[k].pub /\ row.done = job[k].done /\ row.state = job[k].state
    BY <2>2 DEF JobRows, Release
  <2> HIDE DEF row
  <2> QED
    BY <2>2, <2>3, <2>4, <2>5, ClaimEnded DEF row
<1> QED
  BY <1>1, <1>2

(* A job activates only where its date has no publication yet.             *)
LEMMA FirstStays ==
    ASSUME IInv, RInv, [Next]_vars
    PROVE  RevisionsFirst'
<1>1. pubs \in [Cobs -> Seq(Jobs \cup {NoJob})]
  BY DEF IInv, TypeOK
<1>2. CASE UNCHANGED pubs
  BY <1>2 DEF RInv, RevisionsFirst
<1>3. ASSUME NEW c \in Cobs, NEW new, pubs' = [pubs EXCEPT ![c] = Append(@, new)],
             new = NoJob \/ Len(pubs[c]) = 0
      PROVE  RevisionsFirst'
  <2>1. SUFFICES ASSUME NEW d \in Cobs, NEW p \in DOMAIN pubs'[d], pubs'[d][p] # NoJob
                 PROVE  p = 1
    BY DEF RevisionsFirst
  <2>2. CASE d # c
    BY <1>1, <1>3, <2>1, <2>2 DEF RInv, RevisionsFirst
  <2>3. CASE d = c
    <3>1. pubs[c] \in Seq(Jobs \cup {NoJob}) /\ pubs'[c] = Append(pubs[c], new)
      BY <1>1, <1>3
    <3>2. p \in 1 .. Len(pubs[c]) + 1
      BY <2>1, <2>3, <3>1
    <3>3. CASE p = Len(pubs[c]) + 1
      <4>1. pubs'[c][p] = new
        BY <3>1, <3>3
      <4> QED
        BY <1>3, <2>1, <2>3, <3>3, <4>1
    <3>4. CASE p # Len(pubs[c]) + 1
      <4>1. p \in DOMAIN pubs[c] /\ pubs'[c][p] = pubs[c][p]
        BY <3>1, <3>2, <3>4
      <4> QED
        BY <2>1, <2>3, <4>1 DEF RInv, RevisionsFirst
    <3> QED
      BY <3>3, <3>4
  <2> QED
    BY <2>2, <2>3
<1>4. ASSUME NEW c \in Cobs, OthersPublish(c) PROVE RevisionsFirst'
  BY <1>3, <1>4 DEF OthersPublish
<1>5. ASSUME NEW w \in Workers, Activate(w), ~UNCHANGED pubs PROVE RevisionsFirst'
  <2>1. PICK k \in Jobs : k = worker[w].job /\ k.cob \in Cobs
    BY <1>5, GuardedRow, JobFields DEF Activate
  <2>2. pubs' = [pubs EXCEPT ![k.cob] = Append(@, k)] /\ Len(pubs[k.cob]) = 0
    BY <1>5, <2>1 DEF Activate, Active
  <2> QED
    BY <1>3, <2>1, <2>2
<1>6. \/ UNCHANGED pubs
      \/ \E c \in Cobs : OthersPublish(c)
      \/ \E w \in Workers : Activate(w)
  BY DEF Next, vars, Step, Submit, Claim, Fit, SaveCandidate, SkipRemaining, Recheck, SaveShadow,
         Record, SavePublished, Complete, Fenced, Hold, Abort, Save, Look, Wait, Refuse, Fail,
         BeatFails, Crash, RetrySettlement, RequestCancel, Expire, ImportCalendar,
         SnapshotArrives, ClockMoves, ApprovePromotion
<1> QED
  BY <1>2, <1>4, <1>5, <1>6

LEMMA OutcomesKept ==
    ASSUME IInv, RInv, [Next]_vars
    PROVE  \A l \in Jobs : RecordOK(l)' /\ RowKept(l)
<1>1. CASE UNCHANGED job
  BY <1>1, OutcomesAlone DEF SameRow
<1>2. CASE ~UNCHANGED job
  <2>1. \/ \E w \in Workers : Step(w) \/ Fail(w)
        \/ \E k \in Jobs : RetrySettlement(k) \/ RequestCancel(k) \/ Expire(k)
    BY <1>2 DEF Next, vars, Look, Wait, Refuse, BeatFails, Crash, ImportCalendar,
                SnapshotArrives, ClockMoves, OthersPublish, ApprovePromotion
  <2>2. ASSUME NEW w \in Workers, Step(w)
        PROVE  \A l \in Jobs : RecordOK(l)' /\ RowKept(l)
    <3>1. CASE Submit(w) \/ Claim(w)
      BY <3>1, SubmitKeeps, ClaimKeeps
    <3>2. CASE Record(w) \/ SavePublished(w)
      BY <3>2, RecordKeeps
    <3>3. CASE \/ Fit(w) \/ SaveCandidate(w) \/ SkipRemaining(w) \/ SaveShadow(w) \/ Hold(w)
               \/ Complete(w) \/ Abort(w)
      <4>1. Guarded(w)
        BY <3>3 DEF Fit, SaveCandidate, SkipRemaining, SaveShadow, Hold, Complete, Abort, Save
      <4> QED
        BY <3>3, <4>1, OwnerKeeps
    <3>4. CASE Recheck(w) \/ Activate(w) \/ Fenced(w)
      BY <1>2, <3>4 DEF Recheck, Activate, Fenced
    <3> QED
      BY <2>2, <3>1, <3>2, <3>3, <3>4 DEF Step
  <2> QED
    BY <2>1, <2>2, FailKeeps, CommandKeeps
<1> QED
  BY <1>1, <1>2

(* The revision a job recorded is not forgotten until the job is held, and *)
(* a finished or cancelled job keeps what it says of its outcome, however  *)
(* many claims and former owners there are.                                *)
THEOREM RevisionIsKept == Spec => RevisionKept
<1>1. Init => IInv /\ RInv
  BY InitInv DEF Init, RInv, RevisionsFirst, RecordOK, AbsentJob
<1>2. ASSUME IInv, RInv, [Next]_vars
      PROVE  /\ IInv' /\ RInv'
             /\ \A k \in Jobs :
                  /\ job[k].pub # 0 => job'[k].pub = job[k].pub \/ job'[k].state = "held"
                  /\ job[k].status \in {"succeeded", "cancelled"} =>
                       /\ job'[k].status = job[k].status
                       /\ job'[k].state = job[k].state /\ job'[k].pub = job[k].pub
  <2>1. IInv' /\ RevisionsFirst' /\ \A k \in Jobs : RecordOK(k)' /\ RowKept(k)
    BY <1>2, Inductive, FirstStays, OutcomesKept
  <2> QED
    BY <2>1 DEF RInv, RowKept, Finished
<1> QED
  BY <1>1, <1>2, PTL DEF Spec, RevisionKept


(* A row that says failed and permanent is not written any more.           *)
LEMMA HeldRow ==
    ASSUME IInv, Next, NEW k \in Jobs, job[k].kind = "permanent", job[k].status = "failed"
    PROVE  job'[k].state = job[k].state /\ job'[k].status = "failed"
<1>1. TypeOK /\ job[k] \in JobRows
  BY DEF IInv, TypeOK
<1>2. UNCHANGED job => job'[k] = job[k]
  OBVIOUS
<1>3. ASSUME NEW l, l # k, NEW row, job' = [job EXCEPT ![l] = row]
      PROVE  job'[k] = job[k]
  BY <1>1, <1>3 DEF TypeOK
<1>4. ASSUME NEW x \in Workers, NEW row, Owned(x), Change(x, row)
      PROVE  job'[k] = job[k]
  <2>1. worker[x].job # k
    BY <1>4 DEF Owned, Row
  <2> QED
    BY <1>3, <1>4, <2>1 DEF Change
<1>5. ASSUME NEW x \in Workers, Step(x) PROVE job'[k] = job[k]
  <2>1. CASE Submit(x)
    BY <1>3, <2>1 DEF Submit
  <2>2. CASE Claim(x)
    <3>1. Swept(k) = job[k] /\ ~Claimable(k)
      BY DEF Swept, Exhausted, Claimable
    <3> DEFINE swept == [l \in Jobs |-> Swept(l)]
    <3>2. \/ job' = swept
          \/ \E l \in Jobs : Claimable(l) /\ job' = [swept EXCEPT ![l] = Claimed(l)]
      BY <2>2 DEF Claim, Swept
    <3>3. swept[k] = job[k] /\ DOMAIN swept = Jobs
      BY <3>1
    <3> HIDE DEF swept
    <3>4. ASSUME NEW l \in Jobs, Claimable(l), job' = [swept EXCEPT ![l] = Claimed(l)]
          PROVE  job'[k] = job[k]
      <4>1. l # k
        BY <3>1, <3>4
      <4> QED
        BY <3>3, <3>4, <4>1
    <3> QED
      BY <3>2, <3>3, <3>4
  <2>3. CASE Fit(x) \/ Complete(x) \/ Abort(x)
    BY <1>4, <2>3 DEF Fit, Complete, Abort, Guarded
  <2>4. CASE \/ SaveCandidate(x) \/ SkipRemaining(x) \/ SaveShadow(x) \/ Record(x)
             \/ SavePublished(x) \/ Hold(x)
    BY <1>4, <2>4 DEF SaveCandidate, SkipRemaining, SaveShadow, Record, SavePublished, Hold,
                      Save, Guarded
  <2>5. CASE Recheck(x) \/ Activate(x) \/ Fenced(x)
    BY <1>2, <2>5 DEF Recheck, Activate, Fenced
  <2> QED
    BY <1>5, <2>1, <2>2, <2>3, <2>4, <2>5 DEF Step
<1>6. ASSUME NEW x \in Workers,
             \/ \E l \in Jobs : Look(x, l)
             \/ Wait(x) \/ Refuse(x) \/ BeatFails(x) \/ Crash(x)
      PROVE  job'[k] = job[k]
  BY <1>2, <1>6 DEF Look, Wait, Refuse, BeatFails, Crash
<1>7. ASSUME NEW x \in Workers, Fail(x) PROVE job'[k] = job[k]
  BY <1>2, <1>4, <1>7 DEF Fail
<1>8. ASSUME NEW l \in Jobs, RetrySettlement(l) PROVE job'[k] = job[k]
  <2>1. l # k
    BY <1>8 DEF RetrySettlement, Retryable
  <2> QED
    BY <1>1, <1>8, <2>1 DEF RetrySettlement, TypeOK
<1>9. ASSUME NEW l \in Jobs, RequestCancel(l) PROVE job'[k] = job[k]
  <2>1. l # k
    BY <1>9 DEF RequestCancel
  <2> QED
    BY <1>1, <1>9, <2>1 DEF RequestCancel, TypeOK
<1>10. ASSUME NEW l \in Jobs, Expire(l)
       PROVE  job'[k].state = job[k].state /\ job'[k].status = "failed"
  <2>1. CASE l = k
    BY <1>1, <1>10, <2>1 DEF Expire, TypeOK, JobRows
  <2>2. CASE l # k
    BY <1>1, <1>10, <2>2 DEF Expire, TypeOK
  <2> QED
    BY <2>1, <2>2
<1>11. ASSUME ApprovePromotion \/ \E c \in Cobs : \/ ImportCalendar(c) \/ SnapshotArrives(c)
                                                  \/ ClockMoves(c) \/ OthersPublish(c)
       PROVE  job'[k] = job[k]
  BY <1>2, <1>11 DEF ApprovePromotion, ImportCalendar, SnapshotArrives, ClockMoves, OthersPublish
<1> QED
  BY <1>5, <1>6, <1>7, <1>8, <1>9, <1>10, <1>11 DEF Next

(* A job that was held and aborted stays so, whatever former owners still  *)
(* try and operators ask for.                                              *)
THEOREM HoldsStand == Spec => HoldStands
<1>1. ASSUME IInv, [Next]_vars
      PROVE  \A k \in Jobs : job[k].kind = "permanent" /\ job[k].status = "failed" =>
               job'[k].state = "held" /\ job'[k].status = "failed"
  <2>1. ASSUME NEW k \in Jobs, job[k].kind = "permanent", job[k].status = "failed"
        PROVE  job'[k].state = "held" /\ job'[k].status = "failed"
    <3>1. job[k].state = "held"
      BY <1>1, <2>1 DEF IInv, JobOK
    <3>2. CASE Next
      BY <1>1, <2>1, <3>1, <3>2, HeldRow
    <3>3. CASE UNCHANGED vars
      BY <2>1, <3>1, <3>3 DEF vars
    <3> QED
      BY <1>1, <3>2, <3>3
  <2> QED
    BY <2>1
<1> QED
  BY <1>1, InitInv, Inductive, PTL DEF Spec, HoldStands

(* A revision of a job is added by an activation under a promotion.        *)
LEMMA AutomaticRevision ==
    ASSUME IInv, Next, NEW c \in Cobs, Len(pubs'[c]) > Len(pubs[c]),
           pubs'[c][Len(pubs'[c])] # NoJob
    PROVE  Promoted
<1>1. pubs \in [Cobs -> Seq(Jobs \cup {NoJob})] /\ Len(pubs[c]) \in Nat /\ pubs' # pubs
  BY DEF IInv, TypeOK
<1>2. ASSUME NEW d \in Cobs, OthersPublish(d) PROVE FALSE
  <2>1. pubs' = [pubs EXCEPT ![d] = Append(@, NoJob)] /\ c = d
    BY <1>1, <1>2 DEF OthersPublish
  <2>2. pubs'[c] = Append(pubs[c], NoJob) /\ pubs[c] \in Seq(Jobs \cup {NoJob})
    BY <1>1, <2>1
  <2>3. Len(pubs'[c]) = Len(pubs[c]) + 1 /\ pubs'[c][Len(pubs[c]) + 1] = NoJob
    BY <2>2
  <2> QED
    BY <2>3
<1>3. ASSUME NEW w \in Workers, Activate(w) PROVE Promoted
  BY <1>1, <1>3 DEF Activate
<1>4. ASSUME NEW w \in Workers, Step(w) PROVE Activate(w)
  BY <1>1, <1>4 DEF Step, Submit, Claim, Fit, SaveCandidate, SkipRemaining, Recheck, SaveShadow,
                    Record, SavePublished, Complete, Fenced, Hold, Abort, Save
<1>5. \A w \in Workers : /\ \A k \in Jobs : ~Look(w, k)
                         /\ ~Wait(w) /\ ~Refuse(w) /\ ~Fail(w) /\ ~BeatFails(w) /\ ~Crash(w)
  BY <1>1 DEF Look, Wait, Refuse, Fail, BeatFails, Crash
<1>6. /\ \A k \in Jobs : ~RetrySettlement(k) /\ ~RequestCancel(k) /\ ~Expire(k)
      /\ \A d \in Cobs : ~ImportCalendar(d) /\ ~SnapshotArrives(d) /\ ~ClockMoves(d)
      /\ ~ApprovePromotion
  BY <1>1 DEF RetrySettlement, RequestCancel, Expire, ImportCalendar, SnapshotArrives,
              ClockMoves, ApprovePromotion
<1> QED
  BY <1>2, <1>3, <1>4, <1>5, <1>6 DEF Next

(* An automatic publication rests on a promotion whose evidence stands:    *)
(* of each date of the window the job that was approved is still the last  *)
(* shadow job, a success, and made on the source as it is.                 *)
THEOREM PublicationRestsOnEvidence == Spec => PublishedOnEvidence
<1>1. ASSUME IInv, Promoted, NEW d \in Window
      PROVE  \E k \in gate.evidence :
               /\ k.cob = d /\ source[d] = k.version /\ job[k].status = "succeeded"
               /\ \A o \in Jobs : o.cob = d /\ o.mode = "shadow" => job[o].born <= job[k].born
  <2>1. PICK k \in Evidence : k.cob = d
    BY <1>1 DEF Promoted, EvidenceComplete
  <2>2. /\ k \in gate.evidence /\ k \in Jobs /\ Witnessed(k) /\ IsLatest(k)
    BY <1>1, <2>1 DEF Promoted, EvidenceComplete, Evidence
  <2>3. ASSUME NEW o \in Jobs, o.cob = d, o.mode = "shadow" PROVE job[o].born <= job[k].born
    <3>1. CASE job[o].status # "absent"
      BY <2>1, <2>2, <2>3, <3>1 DEF IsLatest, Shadows
    <3>2. CASE job[o].status = "absent"
      <4>1. job[o].born = 0
        BY <1>1, <3>2 DEF IInv, JobOK, AbsentJob
      <4>2. job[k].born \in Nat
        BY <1>1, <2>2 DEF IInv, TypeOK, JobRows
      <4> QED
        BY <4>1, <4>2
    <3> QED
      BY <3>1, <3>2
  <2> QED
    BY <2>1, <2>2, <2>3 DEF Witnessed, Current
<1>2. ASSUME IInv, [Next]_vars
      PROVE  \A c \in Cobs :
               Len(pubs'[c]) > Len(pubs[c]) /\ pubs'[c][Len(pubs'[c])] # NoJob =>
                 \A d \in Window : \E k \in gate.evidence :
                   /\ k.cob = d /\ source[d] = k.version /\ job[k].status = "succeeded"
                   /\ \A o \in Jobs : o.cob = d /\ o.mode = "shadow" => job[o].born <= job[k].born
  <2>1. ASSUME NEW c \in Cobs, Len(pubs'[c]) > Len(pubs[c]), pubs'[c][Len(pubs'[c])] # NoJob
        PROVE  Promoted
    <3>1. Len(pubs[c]) \in Nat
      BY <1>2 DEF IInv, TypeOK
    <3>2. Next
      BY <1>2, <2>1, <3>1 DEF vars
    <3> QED
      BY <1>2, <2>1, <3>2, AutomaticRevision
  <2> QED
    BY <1>1, <1>2, <2>1
<1> QED
  BY <1>2, InitInv, Inductive, PTL DEF Spec, PublishedOnEvidence

-----------------------------------------------------------------------------
(* Alerts.                                                                 *)

(* The last job of a date and mode is one.                                 *)
LEMMA LastJobIsOne ==
    ASSUME IInv, NEW mode, NEW c, NEW k \in LastJobs(mode, c)
    PROVE  LastJobs(mode, c) = {k} /\ k \in Jobs /\ k.mode = mode /\ k.cob = c
           /\ job[k].status # "absent"
<1>1. ASSUME NEW l \in LastJobs(mode, c) PROVE l = k
  <2>1. k \in Submitted(mode, c) /\ l \in Submitted(mode, c) /\ k \in Present /\ l \in Present
    BY DEF LastJobs, Submitted, Present
  <2>2. job[k].born <= job[l].born /\ job[l].born <= job[k].born
    BY <2>1 DEF LastJobs
  <2>3. job[k].born \in Nat /\ job[l].born \in Nat
    BY <2>1 DEF IInv, TypeOK, JobRows, Submitted
  <2> QED
    BY <2>1, <2>2, <2>3 DEF IInv, RanksOK
<1> QED
  BY <1>1 DEF LastJobs, Submitted

(* What is alerted of it.                                                  *)
LEMMA KindIsExact ==
    ASSUME IInv, NEW k \in Jobs, job[k].status # "absent"
    PROVE  LET good == job[k].status = "succeeded" /\ job[k].timely /\ Current(k)
           IN  /\ good => KindOf(k) = {}
               /\ phase[k.cob] = "closed" /\ ~good => KindOf(k) # {}
<1>1. /\ job[k] \in JobRows /\ JobOK(k) /\ k.cob \in Cobs /\ k.mode \in {"shadow", "publish"}
      /\ k.version \in Nat /\ k.version > 0 /\ source[k.cob] \in Nat
  BY JobFields, BoundsAssumption DEF IInv, TypeOK, Modes
<1>2. job[k].status \in {"queued", "running", "succeeded", "failed", "cancelled"}
      /\ job[k].timely \in BOOLEAN
  BY <1>1 DEF JobRows, Terminal
<1>3. source[k.cob] > 0
  BY <1>1 DEF JobOK
<1>4. CASE job[k].status = "succeeded"
  <2>1. job[k].state = (IF k.mode = "shadow" THEN "shadow" ELSE "published")
    BY <1>1, <1>4 DEF JobOK, Recorded
  <2>2. CASE job[k].timely /\ Current(k)
    BY <1>4, <2>1, <2>2 DEF KindOf, Terminal
  <2>3. CASE ~job[k].timely
    BY <1>4, <2>1, <2>3 DEF KindOf
  <2>4. CASE job[k].timely /\ ~Current(k)
    BY <1>3, <1>4, <2>1, <2>4 DEF KindOf
  <2> QED
    BY <1>4, <2>2, <2>3, <2>4
<1>5. CASE job[k].status \in {"failed", "cancelled"}
  BY <1>5 DEF KindOf
<1>6. CASE job[k].status \in {"queued", "running"}
  BY <1>6 DEF KindOf, Terminal
<1> QED
  BY <1>2, <1>4, <1>5, <1>6

(* Of a session that closed, a refresh alerts exactly when its last job is *)
(* no timely success on the current source; a success raises nothing.      *)
THEOREM AlertsAreExact == Spec => []AlertsExact
<1>1. ASSUME IInv, NEW mode \in Modes, NEW c \in Ready
      PROVE  /\ phase[c] = "closed" => (KindsOf(mode, c) = {}) = Settled(mode, c)
             /\ Settled(mode, c) => KindsOf(mode, c) = {}
  <2>1. CASE LastJobs(mode, c) = {}
    BY <2>1 DEF KindsOf, Settled
  <2>2. CASE LastJobs(mode, c) # {}
    <3>1. PICK k \in LastJobs(mode, c) : TRUE
      BY <2>2
    <3>2. /\ LastJobs(mode, c) = {k} /\ k \in Jobs /\ k.cob = c /\ job[k].status # "absent"
      BY <1>1, <3>1, LastJobIsOne
    <3>3. KindsOf(mode, c) = KindOf(k)
      BY <3>2 DEF KindsOf
    <3>4. Settled(mode, c) <=> (job[k].status = "succeeded" /\ job[k].timely /\ Current(k))
      BY <3>2 DEF Settled
    <3>5. /\ phase[c] = "closed" => (KindOf(k) = {} <=> Settled(mode, c))
          /\ Settled(mode, c) => KindOf(k) = {}
      BY <1>1, <3>2, <3>4, KindIsExact
    <3>6. Settled(mode, c) \in BOOLEAN
      BY DEF Settled
    <3> QED
      BY <3>3, <3>5, <3>6
  <2> QED
    BY <2>1, <2>2
<1>2. IInv => AlertsExact
  BY <1>1 DEF AlertsExact
<1> QED
  BY <1>2, InitInv, Inductive, PTL DEF Spec
=============================================================================
