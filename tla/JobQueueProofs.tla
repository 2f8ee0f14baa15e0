--------------------------- MODULE JobQueueProofs ---------------------------
(***************************************************************************)
(* Theorems about JobQueue for every value of its constants.  What each    *)
(* action does to the rows is stated first, in lemmas that the proofs of   *)
(* the invariants cite instead of the action definitions.                  *)
(***************************************************************************)
EXTENDS JobQueue, FiniteSetTheorems, TLAPS

(* Counting items gives a natural number.                                  *)
LEMMA CountsAreNaturals ==
    ASSUME NEW S \in SUBSET Items
    PROVE  IsFiniteSet(S) /\ Cardinality(S) \in Nat
BY ItemsAssumption, FS_Subset, FS_CardinalityType

-----------------------------------------------------------------------------
(* Rows.                                                                   *)

(* Updating one column of a row leaves a row, with the other columns.      *)
LEMMA ReleasedRow ==
    ASSUME TypeOK, NEW j \in Jobs, NEW s \in JobStatus
    PROVE  /\ Released(j, s) \in JobRows
           /\ Released(j, s).status = s
           /\ Released(j, s).owner = NoToken
           /\ Released(j, s).lease = 0
           /\ Released(j, s).attempts = job[j].attempts
           /\ Released(j, s).cancel = job[j].cancel
           /\ Released(j, s).completed = job[j].completed
<1>1. job[j] \in JobRows
  BY DEF TypeOK
<1>2. 0 \in 0 .. LeaseTicks
  BY BoundsAssumption
<1>3. Released(j, s) \in JobRows
  BY <1>1, <1>2 DEF Released, JobRows
<1> QED
  BY <1>1, <1>3 DEF Released, JobRows

LEMMA ClaimedRow ==
    ASSUME TypeOK, NEW j \in Jobs, Claimable(j)
    PROVE  /\ Claimed(j) \in JobRows
           /\ Claimed(j).status = "running"
           /\ job[j].attempts + 1 \in Tokens
           /\ Claimed(j).owner = job[j].attempts + 1
           /\ Claimed(j).attempts = job[j].attempts + 1
           /\ Claimed(j).lease = LeaseTicks
           /\ Claimed(j).completed = job[j].completed - Cardinality(FailedItems(j))
<1>1. job[j] \in JobRows
  BY DEF TypeOK
<1>2. Cardinality(FailedItems(j)) \in Nat
  BY CountsAreNaturals DEF FailedItems
<1>3. job[j].attempts + 1 \in Tokens
  BY <1>1, BoundsAssumption DEF JobRows, Tokens, Claimable
<1>4. job[j].attempts + 1 \in 0 .. MaxAttempts /\ LeaseTicks \in 0 .. LeaseTicks
  BY <1>3, BoundsAssumption DEF Tokens
<1>5. job[j].completed - Cardinality(FailedItems(j)) \in Int
  BY <1>1, <1>2 DEF JobRows
<1>6. "running" \in JobStatus
  BY DEF JobStatus
<1>7. Claimed(j) \in JobRows
  BY <1>1, <1>3, <1>4, <1>5, <1>6 DEF Claimed, JobRows
<1> QED
  BY <1>1, <1>3, <1>7 DEF JobRows, Claimed

(* A failed attempt returns the job, or ends it at the limit.              *)
LEMMA FailureStatus ==
    ASSUME NEW j \in Jobs
    PROVE  StatusAfterFailure(j) \in {"cancelled", "queued", "failed"}
BY DEF StatusAfterFailure

LEMMA BlankRows == AbsentJob \in JobRows /\ QueuedJob \in JobRows
<1>1. AbsentJob \in JobRows
  BY BoundsAssumption DEF AbsentJob, JobRows, JobStatus
<1>2. "queued" \in JobStatus
  BY DEF JobStatus
<1> QED
  BY <1>1, <1>2 DEF QueuedJob, JobRows

LEMMA Statuses ==
    /\ {"queued", "running", "succeeded", "failed", "cancelled"} \subseteq JobStatus
    /\ {"queued", "running"} \subseteq ItemStatus
    /\ Finished \subseteq ItemStatus
    /\ Orphaned \subseteq ItemStatus
BY DEF JobStatus, Terminal, ItemStatus, Finished, Good, Orphaned

(* Timers count down within their range.                                   *)
LEMMA LessInRange ==
    ASSUME NEW bound \in Nat, NEW n \in 0 .. bound
    PROVE  Less(n) \in 0 .. bound /\ Less(n) <= n
BY DEF Less

-----------------------------------------------------------------------------
(* Type correctness.                                                       *)

LEMMA TypeStep == TypeOK /\ [Next]_vars => TypeOK'
<1> SUFFICES ASSUME TypeOK, [Next]_vars PROVE TypeOK'
  OBVIOUS
<1>0. /\ job \in [Jobs -> JobRows]
      /\ item \in [Jobs -> [Items -> ItemStatus]]
      /\ claim \in [Workers -> Claims]
  BY DEF TypeOK
<1>1. CASE UNCHANGED vars
  BY <1>1, <1>0 DEF vars, TypeOK
<1>2. CASE Tick
  <2>1. ASSUME NEW j \in Jobs
        PROVE  [job[j] EXCEPT !.lease = Less(@), !.delay = Less(@)] \in JobRows
    <3>1. job[j] \in JobRows
      BY <1>0
    <3>2. Less(job[j].lease) \in 0 .. LeaseTicks /\ Less(job[j].delay) \in 0 .. RetryTicks
      BY <3>1, LessInRange, BoundsAssumption DEF JobRows
    <3> QED
      BY <3>1, <3>2 DEF JobRows
  <2>2. ASSUME NEW w \in Workers
        PROVE  [claim[w] EXCEPT !.granted = Less(@)] \in Claims
    <3>1. claim[w] \in Claims
      BY <1>0
    <3>2. Less(claim[w].granted) \in 0 .. LeaseTicks
      BY <3>1, LessInRange, BoundsAssumption DEF Claims
    <3> QED
      BY <3>1, <3>2 DEF Claims
  <2> QED
    BY <1>0, <1>2, <2>1, <2>2 DEF Tick, TypeOK
<1>3. ASSUME NEW w \in Workers, Abandon(w) PROVE TypeOK'
  <2>1. NoClaim \in Claims
    BY BoundsAssumption DEF NoClaim, Claims, Tokens
  <2> QED
    BY <1>0, <1>3, <2>1 DEF Abandon, TypeOK
<1>4. ASSUME NEW j \in Jobs, Submit(j) PROVE TypeOK'
  <2>1. QueuedJob \in JobRows
    BY BlankRows
  <2>2. [i \in Items |-> "queued"] \in [Items -> ItemStatus]
    BY Statuses
  <2>3. CASE job[j].status = "absent"
    BY <1>0, <1>4, <2>1, <2>2, <2>3 DEF Submit, TypeOK
  <2>4. CASE job[j].status # "absent"
    BY <1>0, <1>4, <2>4 DEF Submit, TypeOK
  <2> QED
    BY <2>3, <2>4
<1>5. ASSUME NEW j \in Jobs, RequestCancel(j) PROVE TypeOK'
  <2>1. Released(j, "cancelled") \in JobRows
    BY ReleasedRow, Statuses
  <2>2. [Released(j, "cancelled") EXCEPT !.cancel = TRUE] \in JobRows
    BY <2>1 DEF JobRows
  <2> QED
    BY <1>0, <1>5, <2>2 DEF RequestCancel, TypeOK
<1>6. ASSUME NEW j \in Jobs, NEW w \in Workers, Claim(w, j) PROVE TypeOK'
  <2>1. Claimed(j) \in JobRows /\ job[j].attempts + 1 \in Tokens
    BY <1>6, ClaimedRow DEF Claim
  <2>2. [job |-> j, token |-> job[j].attempts + 1,
         item |-> NoItem, granted |-> LeaseTicks] \in Claims
    BY <2>1, BoundsAssumption DEF Claims
  <2> QED
    BY <1>0, <1>6, <2>1, <2>2, Statuses DEF Claim, TypeOK
<1>7. ASSUME NEW j \in Jobs, NEW w \in Workers, Heartbeat(w, j) PROVE TypeOK'
  <2>1. job[j] \in JobRows /\ claim[w] \in Claims /\ LeaseTicks \in 0 .. LeaseTicks
    BY <1>0, BoundsAssumption
  <2>2. [job[j] EXCEPT !.lease = LeaseTicks] \in JobRows
    BY <2>1 DEF JobRows
  <2>3. [claim[w] EXCEPT !.granted = LeaseTicks] \in Claims
    BY <2>1 DEF Claims
  <2> QED
    BY <1>0, <1>7, <2>2, <2>3 DEF Heartbeat, TypeOK
<1>8. ASSUME NEW j \in Jobs, NEW w \in Workers, Complete(w, j) PROVE TypeOK'
  <2>1. [Released(j, "succeeded") EXCEPT !.completed = Cardinality(Items)] \in JobRows
    BY ReleasedRow, Statuses, CountsAreNaturals DEF JobRows
  <2> QED
    BY <1>0, <1>8, <2>1 DEF Complete, TypeOK
<1>9. ASSUME NEW j \in Jobs, NEW w \in Workers, Abort(w, j) PROVE TypeOK'
  <2>1. Released(j, "failed") \in JobRows
    BY ReleasedRow, Statuses
  <2> QED
    BY <1>0, <1>9, <2>1 DEF Abort, TypeOK
<1>10. ASSUME NEW j \in Jobs, NEW w \in Workers, NEW delay \in 0 .. RetryTicks,
              Fail(w, j, delay)
       PROVE TypeOK'
  <2>1. Released(j, StatusAfterFailure(j)) \in JobRows
    BY ReleasedRow, Statuses, FailureStatus
  <2>2. [Released(j, StatusAfterFailure(j)) EXCEPT !.delay = delay] \in JobRows
    BY <2>1 DEF JobRows
  <2>3. [claim[w] EXCEPT !.granted = 0] \in Claims
    BY <1>0, BoundsAssumption DEF Claims
  <2> QED
    BY <1>0, <1>10, <2>2, <2>3 DEF Fail, TypeOK
<1>11. ASSUME NEW j \in Jobs, NEW w \in Workers, NEW i \in Items, ClaimItem(w, j, i)
       PROVE TypeOK'
  <2>1. [claim[w] EXCEPT !.item = i] \in Claims
    BY <1>0 DEF Claims
  <2> QED
    BY <1>0, <1>11, <2>1, Statuses DEF ClaimItem, TypeOK
<1>12. ASSUME NEW j \in Jobs, NEW w \in Workers, NEW i \in Items, InvalidateFrom(w, j, i)
       PROVE TypeOK'
  <2>1. Cardinality(StaleItems(j, i)) \in Nat
    BY CountsAreNaturals DEF StaleItems
  <2>2. [job[j] EXCEPT !.completed = @ - Cardinality(StaleItems(j, i))] \in JobRows
    <3>1. job[j] \in JobRows /\ job[j].completed - Cardinality(StaleItems(j, i)) \in Int
      BY <1>0, <2>1 DEF JobRows
    <3> QED
      BY <3>1 DEF JobRows
  <2>3. [k \in Items |-> IF k \in StaleItems(j, i) THEN "queued" ELSE item[j][k]]
        \in [Items -> ItemStatus]
    <3>1. item[j] \in [Items -> ItemStatus] /\ "queued" \in ItemStatus
      BY <1>0, Statuses
    <3> QED
      BY <3>1
  <2> QED
    BY <1>0, <1>12, <2>2, <2>3 DEF InvalidateFrom, TypeOK
<1>13. ASSUME NEW j \in Jobs, NEW w \in Workers, NEW i \in Items, NEW s \in Finished,
              CompleteItem(w, j, i, s)
       PROVE TypeOK'
  <2>1. [job[j] EXCEPT !.completed = @ + 1] \in JobRows
    BY <1>0 DEF JobRows
  <2>2. [claim[w] EXCEPT !.item = NoItem] \in Claims
    BY <1>0 DEF Claims
  <2> QED
    BY <1>0, <1>13, <2>1, <2>2, Statuses DEF CompleteItem, TypeOK
<1> QED
  BY <1>1, <1>2, <1>3, <1>4, <1>5, <1>6, <1>7, <1>8, <1>9, <1>10, <1>11, <1>12, <1>13 DEF Next

(* Every reachable state is well formed: attempts never exceed the limit   *)
(* of the job and timers stay within their ranges.                         *)
THEOREM TypeCorrect == Spec => []TypeOK
<1>1. Init => TypeOK
  <2>1. AbsentJob \in JobRows
    BY BlankRows
  <2>2. NoClaim \in Claims
    BY BoundsAssumption DEF NoClaim, Claims
  <2> QED
    BY <2>1, <2>2 DEF Init, TypeOK, ItemStatus
<1> QED
  BY <1>1, TypeStep, PTL DEF Spec
-----------------------------------------------------------------------------
(* Effects: what a step leaves alone, and the columns it changes.          *)

OthersKept(j) == \A k \in Jobs : k # j => job'[k] = job[k] /\ item'[k] = item[k]

OtherClaimsKept(w) == \A v \in Workers : v # w => claim'[v] = claim[v]

LEMMA SubmitEffect ==
    ASSUME TypeOK, NEW j \in Jobs, Submit(j)
    PROVE  /\ OthersKept(j) /\ claim' = claim
           /\ \/ job'[j] = job[j] /\ item'[j] = item[j]
              \/ /\ job[j].status = "absent" /\ job'[j].status = "queued"
                 /\ job'[j].attempts = 0 /\ job'[j].completed = 0
                 /\ \A i \in Items : item'[j][i] = "queued"
<1>1. CASE job[j].status = "absent"
  <2>1. QueuedJob.status = "queued" /\ QueuedJob.attempts = 0 /\ QueuedJob.completed = 0
    BY DEF QueuedJob, AbsentJob
  <2>2. job'[j] = QueuedJob /\ item'[j] = [i \in Items |-> "queued"]
    BY <1>1 DEF Submit, TypeOK
  <2> QED
    BY <1>1, <2>1, <2>2 DEF Submit, TypeOK, OthersKept
<1>2. CASE job[j].status # "absent"
  BY <1>2 DEF Submit, OthersKept
<1> QED
  BY <1>1, <1>2

LEMMA CancelEffect ==
    ASSUME TypeOK, NEW j \in Jobs, RequestCancel(j)
    PROVE  /\ OthersKept(j) /\ claim' = claim /\ item' = item
           /\ job'[j].status = "cancelled"
           /\ job'[j].attempts = job[j].attempts
           /\ job'[j].completed = job[j].completed
<1>1. Released(j, "cancelled") \in JobRows
  BY ReleasedRow, Statuses
<1>2. job'[j] = [Released(j, "cancelled") EXCEPT !.cancel = TRUE]
  BY DEF RequestCancel, TypeOK
<1>3. /\ Released(j, "cancelled").status = "cancelled"
      /\ Released(j, "cancelled").attempts = job[j].attempts
      /\ Released(j, "cancelled").completed = job[j].completed
  BY ReleasedRow, Statuses
<1> QED
  BY <1>1, <1>2, <1>3 DEF RequestCancel, TypeOK, OthersKept, JobRows

LEMMA ClaimEffect ==
    ASSUME TypeOK, NEW j \in Jobs, NEW w \in Workers, Claim(w, j)
    PROVE  /\ OthersKept(j) /\ OtherClaimsKept(w)
           /\ Claimable(j)
           /\ job'[j].status = "running"
           /\ job'[j].attempts = job[j].attempts + 1
           /\ job'[j].owner = job[j].attempts + 1
           /\ job'[j].lease = LeaseTicks
           /\ job'[j].completed = job[j].completed - Cardinality(FailedItems(j))
           /\ claim'[w].job = j /\ claim'[w].token = job[j].attempts + 1
           /\ claim'[w].item = NoItem /\ claim'[w].granted = LeaseTicks
           /\ \A i \in Items : item'[j][i] =
                IF item[j][i] \in Orphaned THEN "queued" ELSE item[j][i]
<1>1. job'[j] = Claimed(j) /\ Claimable(j)
  BY DEF Claim, TypeOK
<1>2. claim'[w] = [job |-> j, token |-> job[j].attempts + 1,
                   item |-> NoItem, granted |-> LeaseTicks]
  BY DEF Claim, TypeOK
<1>3. \A i \in Items : item'[j][i] =
         IF item[j][i] \in Orphaned THEN "queued" ELSE item[j][i]
  BY DEF Claim, TypeOK
<1>4. OthersKept(j) /\ OtherClaimsKept(w)
  BY DEF Claim, TypeOK, OthersKept, OtherClaimsKept
<1> QED
  BY <1>1, <1>2, <1>3, <1>4, ClaimedRow

LEMMA HeartbeatEffect ==
    ASSUME TypeOK, NEW j \in Jobs, NEW w \in Workers, Heartbeat(w, j)
    PROVE  /\ OthersKept(j) /\ OtherClaimsKept(w) /\ item' = item /\ OwnsLive(w, j)
           /\ job'[j].status = job[j].status /\ job'[j].owner = job[j].owner
           /\ job'[j].attempts = job[j].attempts /\ job'[j].completed = job[j].completed
           /\ job'[j].lease = LeaseTicks
           /\ claim'[w].job = claim[w].job /\ claim'[w].token = claim[w].token
           /\ claim'[w].item = claim[w].item /\ claim'[w].granted = LeaseTicks
<1>1. job[j] \in JobRows /\ claim[w] \in Claims
  BY DEF TypeOK
<1> QED
  BY <1>1 DEF Heartbeat, TypeOK, JobRows, Claims, OthersKept, OtherClaimsKept

LEMMA ClaimItemEffect ==
    ASSUME TypeOK, NEW j \in Jobs, NEW w \in Workers, NEW i \in Items, ClaimItem(w, j, i)
    PROVE  /\ OthersKept(j) /\ OtherClaimsKept(w) /\ job' = job /\ OwnsLive(w, j)
           /\ claim[w].item = NoItem /\ item[j][i] = "queued"
           /\ \A k \in Items : item'[j][k] = IF k = i THEN "running" ELSE item[j][k]
           /\ claim'[w].job = claim[w].job /\ claim'[w].token = claim[w].token
           /\ claim'[w].item = i /\ claim'[w].granted = claim[w].granted
<1>1. job[j] \in JobRows /\ claim[w] \in Claims
  BY DEF TypeOK
<1> QED
  BY <1>1 DEF ClaimItem, TypeOK, JobRows, Claims, OthersKept, OtherClaimsKept

LEMMA CompleteItemEffect ==
    ASSUME TypeOK, NEW j \in Jobs, NEW w \in Workers, NEW i \in Items, NEW s \in Finished,
           CompleteItem(w, j, i, s)
    PROVE  /\ OthersKept(j) /\ OtherClaimsKept(w) /\ OwnsLive(w, j)
           /\ claim[w].item = i /\ item[j][i] = "running"
           /\ \A k \in Items : item'[j][k] = IF k = i THEN s ELSE item[j][k]
           /\ job'[j].status = job[j].status /\ job'[j].owner = job[j].owner
           /\ job'[j].attempts = job[j].attempts /\ job'[j].lease = job[j].lease
           /\ job'[j].completed = job[j].completed + 1
           /\ claim'[w].job = claim[w].job /\ claim'[w].token = claim[w].token
           /\ claim'[w].item = NoItem /\ claim'[w].granted = claim[w].granted
<1>1. job[j] \in JobRows /\ claim[w] \in Claims
  BY DEF TypeOK
<1> QED
  BY <1>1 DEF CompleteItem, TypeOK, JobRows, Claims, OthersKept, OtherClaimsKept

LEMMA InvalidateEffect ==
    ASSUME TypeOK, NEW j \in Jobs, NEW w \in Workers, NEW d \in Items,
           InvalidateFrom(w, j, d)
    PROVE  /\ OthersKept(j) /\ claim' = claim /\ OwnsLive(w, j)
           /\ \A k \in Items : item'[j][k] =
                IF k \in StaleItems(j, d) THEN "queued" ELSE item[j][k]
           /\ job'[j].status = job[j].status /\ job'[j].owner = job[j].owner
           /\ job'[j].attempts = job[j].attempts /\ job'[j].lease = job[j].lease
           /\ job'[j].completed = job[j].completed - Cardinality(StaleItems(j, d))
<1>1. job[j] \in JobRows
  BY DEF TypeOK
<1> QED
  BY <1>1 DEF InvalidateFrom, StaleItems, TypeOK, JobRows, OthersKept

LEMMA CompleteEffect ==
    ASSUME TypeOK, NEW j \in Jobs, NEW w \in Workers, Complete(w, j)
    PROVE  /\ OthersKept(j) /\ claim' = claim /\ item' = item
           /\ job[j].status = "running" /\ NoItemOpen(j)
           /\ job'[j].status = "succeeded"
           /\ job'[j].attempts = job[j].attempts
           /\ job'[j].completed = Cardinality(Items)
<1>1. Released(j, "succeeded") \in JobRows
  BY ReleasedRow, Statuses
<1>2. job'[j] = [Released(j, "succeeded") EXCEPT !.completed = Cardinality(Items)]
  BY DEF Complete, TypeOK
<1>3. /\ Released(j, "succeeded").status = "succeeded"
      /\ Released(j, "succeeded").attempts = job[j].attempts
  BY ReleasedRow, Statuses
<1> QED
  BY <1>1, <1>2, <1>3 DEF Complete, OwnsLive, Owns, TypeOK, OthersKept, JobRows

LEMMA FailEffect ==
    ASSUME TypeOK, NEW j \in Jobs, NEW w \in Workers, NEW delay \in 0 .. RetryTicks,
           Fail(w, j, delay)
    PROVE  /\ OthersKept(j) /\ OtherClaimsKept(w) /\ item' = item
           /\ Owns(w, j)
           /\ job'[j].status = StatusAfterFailure(j)
           /\ job'[j].attempts = job[j].attempts
           /\ job'[j].completed = job[j].completed
           /\ claim'[w].job = claim[w].job /\ claim'[w].token = claim[w].token
           /\ claim'[w].item = claim[w].item /\ claim'[w].granted = 0
<1> DEFINE r == Released(j, StatusAfterFailure(j))
<1>1. /\ r \in JobRows
      /\ r.status = StatusAfterFailure(j)
      /\ r.attempts = job[j].attempts
      /\ r.completed = job[j].completed
  BY ReleasedRow, Statuses, FailureStatus
<1>2. job'[j] = [r EXCEPT !.delay = delay]
  BY DEF Fail, TypeOK
<1>3. job'[j].status = r.status /\ job'[j].attempts = r.attempts
      /\ job'[j].completed = r.completed
  BY <1>1, <1>2 DEF JobRows
<1>4. claim[w] \in Claims
  BY DEF TypeOK
<1>5. /\ claim'[w].job = claim[w].job /\ claim'[w].token = claim[w].token
      /\ claim'[w].item = claim[w].item /\ claim'[w].granted = 0
  BY <1>4 DEF Fail, TypeOK, Claims
<1> QED
  BY <1>1, <1>3, <1>5 DEF Fail, TypeOK, OthersKept, OtherClaimsKept

LEMMA AbortEffect ==
    ASSUME TypeOK, NEW j \in Jobs, NEW w \in Workers, Abort(w, j)
    PROVE  /\ OthersKept(j) /\ claim' = claim /\ item' = item
           /\ job[j].status = "running"
           /\ job'[j].status = "failed"
           /\ job'[j].attempts = job[j].attempts
           /\ job'[j].completed = job[j].completed
<1>1. job'[j] = Released(j, "failed")
  BY DEF Abort, TypeOK
<1> QED
  BY <1>1, ReleasedRow, Statuses DEF Abort, OwnsLive, Owns, TypeOK, OthersKept

LEMMA AbandonEffect ==
    ASSUME TypeOK, NEW w \in Workers, Abandon(w)
    PROVE  /\ job' = job /\ item' = item /\ OtherClaimsKept(w)
           /\ claim'[w].job = NoJob /\ claim'[w].granted = 0
BY DEF Abandon, NoClaim, TypeOK, OtherClaimsKept

LEMMA TickEffect ==
    ASSUME TypeOK, Tick
    PROVE  /\ item' = item
           /\ \A j \in Jobs :
                /\ job'[j].status = job[j].status /\ job'[j].owner = job[j].owner
                /\ job'[j].attempts = job[j].attempts
                /\ job'[j].completed = job[j].completed
                /\ job'[j].lease = Less(job[j].lease)
           /\ \A w \in Workers :
                /\ claim'[w].job = claim[w].job /\ claim'[w].token = claim[w].token
                /\ claim'[w].item = claim[w].item
                /\ claim'[w].granted = Less(claim[w].granted)
<1>1. \A j \in Jobs : job[j] \in JobRows
  BY DEF TypeOK
<1>2. \A w \in Workers : claim[w] \in Claims
  BY DEF TypeOK
<1>3. \A j \in Jobs : job'[j] = [job[j] EXCEPT !.lease = Less(@), !.delay = Less(@)]
  BY DEF Tick
<1>4. \A w \in Workers : claim'[w] = [claim[w] EXCEPT !.granted = Less(@)]
  BY DEF Tick
<1>5. item' = item
  BY DEF Tick
<1>6. ASSUME NEW j \in Jobs
      PROVE  /\ job'[j].status = job[j].status /\ job'[j].owner = job[j].owner
             /\ job'[j].attempts = job[j].attempts
             /\ job'[j].completed = job[j].completed
             /\ job'[j].lease = Less(job[j].lease)
  BY <1>1, <1>3 DEF JobRows
<1>7. ASSUME NEW w \in Workers
      PROVE  /\ claim'[w].job = claim[w].job /\ claim'[w].token = claim[w].token
             /\ claim'[w].item = claim[w].item
             /\ claim'[w].granted = Less(claim[w].granted)
  BY <1>2, <1>4 DEF Claims
<1> QED
  BY <1>5, <1>6, <1>7
-----------------------------------------------------------------------------
(* Progress.                                                               *)

LEMMA CountWithout ==
    ASSUME NEW S \in SUBSET Items, NEW T \in SUBSET S
    PROVE  Cardinality(S \ T) = Cardinality(S) - Cardinality(T)
<1>1. IsFiniteSet(S) /\ S \cap T = T
  BY CountsAreNaturals
<1> QED
  BY <1>1, FS_Difference

LEMMA CountKept ==
    ASSUME ProgressExact, NEW k \in Jobs, item'[k] = item[k],
           job'[k].completed = job[k].completed
    PROVE  job'[k].completed = Cardinality(FinishedItems(k)')
BY DEF ProgressExact, FinishedItems

LEMMA ProgressStep == TypeOK /\ ProgressExact /\ [Next]_vars => ProgressExact'
<1> SUFFICES ASSUME TypeOK, ProgressExact, [Next]_vars, NEW k \in Jobs
             PROVE  job'[k].completed = Cardinality(FinishedItems(k)')
  BY DEF ProgressExact
<1>0. /\ FinishedItems(k) \in SUBSET Items
      /\ job[k].completed = Cardinality(FinishedItems(k))
  BY DEF ProgressExact, FinishedItems
<1>1. CASE UNCHANGED vars
  BY <1>1, CountKept DEF vars
<1>2. CASE Tick
  BY <1>2, TickEffect, CountKept
<1>3. ASSUME NEW w \in Workers, Abandon(w) PROVE job'[k].completed = Cardinality(FinishedItems(k)')
  BY <1>3, AbandonEffect, CountKept
<1>4. ASSUME NEW j \in Jobs, k # j, OthersKept(j)
      PROVE  job'[k].completed = Cardinality(FinishedItems(k)')
  BY <1>4, CountKept DEF OthersKept
<1>5. ASSUME Submit(k) PROVE job'[k].completed = Cardinality(FinishedItems(k)')
  <2>1. CASE job'[k] = job[k] /\ item'[k] = item[k]
    BY <2>1, CountKept
  <2>2. CASE job'[k].completed = 0 /\ \A i \in Items : item'[k][i] = "queued"
    <3>1. FinishedItems(k)' = {}
      BY <2>2 DEF FinishedItems, Finished, Good
    <3> QED
      BY <2>2, <3>1, FS_EmptySet
  <2> QED
    BY <1>5, <2>1, <2>2, SubmitEffect
<1>6. ASSUME RequestCancel(k) PROVE job'[k].completed = Cardinality(FinishedItems(k)')
  BY <1>6, CancelEffect, CountKept
<1>7. ASSUME NEW w \in Workers, Claim(w, k)
      PROVE  job'[k].completed = Cardinality(FinishedItems(k)')
  <2>1. FinishedItems(k)' = FinishedItems(k) \ FailedItems(k)
    BY <1>7, ClaimEffect DEF FinishedItems, FailedItems, Finished, Good, Orphaned
  <2>2. FailedItems(k) \in SUBSET FinishedItems(k)
    BY DEF FinishedItems, FailedItems, Finished
  <2> QED
    BY <1>0, <1>7, <2>1, <2>2, ClaimEffect, CountWithout
<1>8. ASSUME NEW w \in Workers, Heartbeat(w, k)
      PROVE  job'[k].completed = Cardinality(FinishedItems(k)')
  BY <1>8, HeartbeatEffect, CountKept
<1>9. ASSUME NEW w \in Workers, Complete(w, k)
      PROVE  job'[k].completed = Cardinality(FinishedItems(k)')
  <2>1. FinishedItems(k)' = Items
    BY <1>9, CompleteEffect DEF NoItemOpen, FinishedItems, Finished
  <2> QED
    BY <1>9, <2>1, CompleteEffect
<1>10. ASSUME NEW w \in Workers, Abort(w, k)
       PROVE  job'[k].completed = Cardinality(FinishedItems(k)')
  BY <1>10, AbortEffect, CountKept
<1>11. ASSUME NEW w \in Workers, NEW delay \in 0 .. RetryTicks, Fail(w, k, delay)
       PROVE  job'[k].completed = Cardinality(FinishedItems(k)')
  BY <1>11, FailEffect, CountKept
<1>12. ASSUME NEW w \in Workers, NEW i \in Items, ClaimItem(w, k, i)
       PROVE  job'[k].completed = Cardinality(FinishedItems(k)')
  <2>1. FinishedItems(k)' = FinishedItems(k)
    BY <1>12, ClaimItemEffect DEF FinishedItems, Finished, Good
  <2> QED
    BY <1>0, <1>12, <2>1, ClaimItemEffect
<1>13. ASSUME NEW w \in Workers, NEW i \in Items, InvalidateFrom(w, k, i)
       PROVE  job'[k].completed = Cardinality(FinishedItems(k)')
  <2>1. FinishedItems(k)' = FinishedItems(k) \ StaleItems(k, i)
    BY <1>13, InvalidateEffect DEF FinishedItems, StaleItems, Finished, Good
  <2>2. StaleItems(k, i) \in SUBSET FinishedItems(k)
    BY DEF FinishedItems, StaleItems, Finished
  <2> QED
    BY <1>0, <1>13, <2>1, <2>2, InvalidateEffect, CountWithout
<1>14. ASSUME NEW w \in Workers, NEW i \in Items, NEW s \in Finished, CompleteItem(w, k, i, s)
       PROVE  job'[k].completed = Cardinality(FinishedItems(k)')
  <2>1. FinishedItems(k)' = FinishedItems(k) \cup {i} /\ i \notin FinishedItems(k)
    BY <1>14, CompleteItemEffect DEF FinishedItems, Finished, Good
  <2> QED
    BY <1>0, <1>14, <2>1, CompleteItemEffect, CountsAreNaturals, FS_AddElement
<1> QED
  BY <1>1, <1>2, <1>3, <1>4, <1>5, <1>6, <1>7, <1>8, <1>9, <1>10, <1>11, <1>12, <1>13, <1>14,
     SubmitEffect, CancelEffect, ClaimEffect, HeartbeatEffect, CompleteEffect, AbortEffect,
     FailEffect, ClaimItemEffect, InvalidateEffect, CompleteItemEffect
  DEF Next

(* The progress column counts the finished items in every reachable state. *)
THEOREM ProgressCorrect == Spec => []ProgressExact
<1>1. Init => ProgressExact
  <2> SUFFICES ASSUME Init, NEW j \in Jobs PROVE job[j].completed = Cardinality(FinishedItems(j))
    BY DEF ProgressExact
  <2>1. job[j].completed = 0
    BY DEF Init, AbsentJob
  <2>2. FinishedItems(j) = {}
    BY DEF Init, FinishedItems, Finished, Good
  <2> QED
    BY <2>1, <2>2, FS_EmptySet
<1> QED
  BY <1>1, ProgressStep, TypeCorrect, PTL DEF Spec
-----------------------------------------------------------------------------
(* Ownership.                                                              *)

Ownership ==
    /\ TokensUnique
    /\ GrantsHonoured
    /\ LeaseExclusive
    /\ NoOrphanUnderOwner

(* A step that neither raises a grant nor shortens a lease, and leaves     *)
(* ownership and items as they are, keeps what Ownership says.             *)
LEMMA OwnershipKept ==
    ASSUME TypeOK, Ownership, item' = item,
           \A j \in Jobs :
              /\ job'[j].status = job[j].status /\ job'[j].owner = job[j].owner
              /\ job'[j].attempts = job[j].attempts /\ job'[j].lease = job[j].lease,
           \A w \in Workers :
              \/ claim'[w] = claim[w]
              \/ claim'[w].job = NoJob /\ claim'[w].granted = 0
    PROVE  Ownership'
<1>1. TokensUnique'
  BY NullsAssumption DEF Ownership, TokensUnique
<1>2. GrantsHonoured'
  BY NullsAssumption DEF Ownership, GrantsHonoured, Owns
<1>3. LeaseExclusive'
  BY NullsAssumption DEF Ownership, LeaseExclusive
<1>4. NoOrphanUnderOwner'
  BY NullsAssumption DEF Ownership, NoOrphanUnderOwner, Owns
<1> QED
  BY <1>1, <1>2, <1>3, <1>4 DEF Ownership

(* So does a step that ends a job or returns it to the queue.              *)
LEMMA OwnershipReleased ==
    ASSUME TypeOK, Ownership, NEW j \in Jobs, OthersKept(j), item' = item,
           job'[j].attempts = job[j].attempts,
           job'[j].status \notin {"absent", "running"},
           \A w \in Workers :
              /\ claim'[w].job = claim[w].job /\ claim'[w].token = claim[w].token
              /\ claim'[w].item = claim[w].item
              /\ claim'[w].granted \in {0, claim[w].granted}
              /\ claim[w].job = j /\ claim'[w].granted > 0 => job'[j].status \in Terminal
    PROVE  Ownership'
<1>1. TokensUnique'
  BY DEF Ownership, TokensUnique, OthersKept
<1>2. GrantsHonoured'
  BY DEF Ownership, GrantsHonoured, Owns, OthersKept
<1>3. LeaseExclusive'
  BY DEF Ownership, LeaseExclusive
<1>4. NoOrphanUnderOwner'
  BY DEF Ownership, NoOrphanUnderOwner, Owns, OthersKept
<1> QED
  BY <1>1, <1>2, <1>3, <1>4 DEF Ownership

LEMMA OwnershipStep == TypeOK /\ Ownership /\ [Next]_vars => Ownership'
<1> SUFFICES ASSUME TypeOK, Ownership, [Next]_vars PROVE Ownership'
  OBVIOUS
<1>0. /\ \A w \in Workers : claim[w].granted \in 0 .. LeaseTicks
      /\ \A j \in Jobs : job[j].attempts \in Nat /\ job[j].lease \in 0 .. LeaseTicks
      /\ \A w \in Workers : claim[w].token \in Nat
  BY BoundsAssumption DEF TypeOK, JobRows, Claims, NoToken, Tokens
<1>1. CASE UNCHANGED vars
  BY <1>1, OwnershipKept DEF vars
<1>2. CASE Tick
  <2>1. TokensUnique'
    BY <1>2, TickEffect DEF Ownership, TokensUnique
  <2>2. ASSUME NEW w \in Workers, NEW j \in Jobs, claim[w].job = j, claim'[w].granted > 0
        PROVE  claim[w].granted > 0 /\ claim'[w].granted = claim[w].granted - 1
    BY <1>0, <1>2, <2>2, TickEffect DEF Less
  <2>3. GrantsHonoured'
    BY <1>0, <1>2, <2>2, TickEffect DEF Ownership, GrantsHonoured, Owns, Less
  <2>4. LeaseExclusive'
    BY <1>2, <2>2, TickEffect DEF Ownership, LeaseExclusive
  <2>5. NoOrphanUnderOwner'
    BY <1>2, TickEffect DEF Ownership, NoOrphanUnderOwner, Owns
  <2> QED
    BY <2>1, <2>3, <2>4, <2>5 DEF Ownership
<1>3. ASSUME NEW w \in Workers, Abandon(w) PROVE Ownership'
  BY <1>3, AbandonEffect, OwnershipKept DEF OtherClaimsKept
<1>4. ASSUME NEW j \in Jobs, Submit(j) PROVE Ownership'
  <2>1. CASE job'[j] = job[j] /\ item'[j] = item[j]
    <3>1. \A k \in Jobs : job'[k] = job[k] /\ item'[k] = item[k]
      BY <1>4, <2>1, SubmitEffect DEF OthersKept
    <3>2. claim' = claim
      BY <1>4, SubmitEffect
    <3> QED
      BY <3>1, <3>2 DEF Ownership, TokensUnique, GrantsHonoured, LeaseExclusive,
                        NoOrphanUnderOwner, Owns
  <2>2. CASE /\ job[j].status = "absent" /\ job'[j].status = "queued"
             /\ job'[j].attempts = 0
    <3>1. OthersKept(j) /\ claim' = claim
      BY <1>4, SubmitEffect
    <3>2. \A w \in Workers : claim[w].job # j
      BY <2>2 DEF Ownership, TokensUnique
    <3> QED
      BY <3>1, <3>2 DEF Ownership, TokensUnique, GrantsHonoured, LeaseExclusive,
                        NoOrphanUnderOwner, Owns, OthersKept
  <2> QED
    BY <1>4, <2>1, <2>2, SubmitEffect
<1>5. ASSUME NEW j \in Jobs, RequestCancel(j) PROVE Ownership'
  BY <1>5, CancelEffect, OwnershipReleased DEF Terminal
<1>6. ASSUME NEW j \in Jobs, NEW w \in Workers, Claim(w, j) PROVE Ownership'
  <2>1. ASSUME NEW v \in Workers, v # w, claim[v].job = j
        PROVE  claim[v].granted = 0 /\ claim[v].token # job[j].attempts + 1
    <3>1. claim[v].token <= job[j].attempts
      BY <2>1 DEF Ownership, TokensUnique
    <3>2. job[j].status = "queued" \/ (job[j].status = "running" /\ job[j].lease = 0)
      BY <1>6, ClaimEffect DEF Claimable
    <3>3. ~(claim[v].granted > 0)
      <4> SUFFICES ASSUME claim[v].granted > 0 PROVE FALSE
        OBVIOUS
      <4>1. Owns(v, j) /\ job[j].lease >= claim[v].granted
        BY <2>1, <3>2 DEF Ownership, GrantsHonoured, Terminal
      <4> QED
        BY <1>0, <3>2, <4>1 DEF Owns
    <3> QED
      BY <1>0, <3>1, <3>3
  <2>2. TokensUnique'
    BY <1>0, <1>6, <2>1, ClaimEffect DEF Ownership, TokensUnique, OthersKept, OtherClaimsKept
  <2>3. GrantsHonoured'
    <3>1. ASSUME NEW v \in Workers, NEW k \in Jobs, v # w,
                 claim[v].job = k, claim[v].granted > 0
          PROVE  job'[k] = job[k] /\ claim'[v] = claim[v]
      BY <1>6, <2>1, <3>1, ClaimEffect DEF OthersKept, OtherClaimsKept
    <3>2. ASSUME NEW v \in Workers, NEW k \in Jobs, v # w,
                 claim'[v].job = k, claim'[v].granted > 0
          PROVE  \/ job'[k].status \in Terminal
                 \/ Owns(v, k)' /\ job'[k].lease >= claim'[v].granted
      <4>1. claim'[v] = claim[v]
        BY <1>6, <3>2, ClaimEffect DEF OtherClaimsKept
      <4>2. job'[k] = job[k]
        BY <3>1, <3>2, <4>1
      <4> QED
        BY <3>2, <4>1, <4>2 DEF Ownership, GrantsHonoured, Owns
    <3>3. Owns(w, j)' /\ job'[j].lease >= claim'[w].granted /\ claim'[w].job = j
      BY <1>6, ClaimEffect, BoundsAssumption DEF Owns
    <3> QED
      BY <3>2, <3>3 DEF GrantsHonoured
  <2>4. LeaseExclusive'
    BY <1>6, <2>1, ClaimEffect DEF Ownership, LeaseExclusive, OtherClaimsKept
  <2>5. NoOrphanUnderOwner'
    BY <1>6, <2>1, ClaimEffect
    DEF Ownership, NoOrphanUnderOwner, Owns, OthersKept, OtherClaimsKept, Orphaned
  <2> QED
    BY <2>2, <2>3, <2>4, <2>5 DEF Ownership
<1>7. ASSUME NEW j \in Jobs, NEW w \in Workers, Heartbeat(w, j) PROVE Ownership'
  <2>0. Owns(w, j)
    BY <1>7, HeartbeatEffect DEF OwnsLive
  <2>1. ASSUME NEW v \in Workers, v # w, claim[v].job = j
        PROVE  claim[v].granted = 0 \/ job[j].status \in Terminal
    BY <1>0, <2>0, <2>1 DEF Ownership, GrantsHonoured, TokensUnique, Owns
  <2>2. TokensUnique'
    BY <1>7, HeartbeatEffect DEF Ownership, TokensUnique, OthersKept, OtherClaimsKept
  <2>3. GrantsHonoured'
    <3>1. ASSUME NEW v \in Workers, NEW k \in Jobs, v # w,
                 claim'[v].job = k, claim'[v].granted > 0
          PROVE  \/ job'[k].status \in Terminal
                 \/ Owns(v, k)' /\ job'[k].lease >= claim'[v].granted
      <4>1. claim'[v] = claim[v]
        BY <1>7, <3>1, HeartbeatEffect DEF OtherClaimsKept
      <4>2. CASE k = j
        BY <1>7, <2>0, <2>1, <3>1, <4>1, <4>2, HeartbeatEffect DEF Owns, Terminal
      <4>3. CASE k # j
        BY <1>7, <3>1, <4>1, <4>3, HeartbeatEffect
        DEF Ownership, GrantsHonoured, Owns, OthersKept
      <4> QED
        BY <4>2, <4>3
    <3>2. Owns(w, j)' /\ job'[j].lease >= claim'[w].granted /\ claim'[w].job = j
      BY <1>7, <2>0, HeartbeatEffect, BoundsAssumption DEF Owns
    <3> QED
      BY <3>1, <3>2 DEF GrantsHonoured
  <2>4. LeaseExclusive'
    BY <1>7, <2>0, <2>1, HeartbeatEffect
    DEF Ownership, LeaseExclusive, OtherClaimsKept, Owns, Terminal
  <2>5. NoOrphanUnderOwner'
    BY <1>7, HeartbeatEffect
    DEF Ownership, NoOrphanUnderOwner, Owns, OthersKept, OtherClaimsKept
  <2> QED
    BY <2>2, <2>3, <2>4, <2>5 DEF Ownership
<1>8. ASSUME NEW j \in Jobs, NEW w \in Workers, Complete(w, j) PROVE Ownership'
  BY <1>8, CompleteEffect, OwnershipReleased DEF Terminal
<1>9. ASSUME NEW j \in Jobs, NEW w \in Workers, Abort(w, j) PROVE Ownership'
  BY <1>9, AbortEffect, OwnershipReleased DEF Terminal
<1>10. ASSUME NEW j \in Jobs, NEW w \in Workers, NEW delay \in 0 .. RetryTicks,
              Fail(w, j, delay)
       PROVE Ownership'
  <2>1. Owns(w, j)
    BY <1>10, FailEffect
  <2>2. ASSUME NEW v \in Workers, v # w, claim[v].job = j PROVE claim[v].granted = 0
    BY <1>0, <2>1, <2>2 DEF Ownership, GrantsHonoured, TokensUnique, Owns, Terminal
  <2>3. job'[j].status \notin {"absent", "running"}
    BY <1>10, FailEffect, FailureStatus
  <2> QED
    BY <1>10, <2>2, <2>3, FailEffect, OwnershipReleased DEF OtherClaimsKept
<1>11. ASSUME NEW j \in Jobs, NEW w \in Workers, NEW i \in Items, ClaimItem(w, j, i)
       PROVE Ownership'
  <2>0. Owns(w, j) /\ claim[w].item = NoItem
    BY <1>11, ClaimItemEffect DEF OwnsLive
  <2>1. \A k \in Items : item[j][k] # "running"
    BY <2>0, NullsAssumption DEF Ownership, NoOrphanUnderOwner
  <2>2. TokensUnique'
    BY <1>11, ClaimItemEffect DEF Ownership, TokensUnique, OtherClaimsKept
  <2>3. GrantsHonoured'
    BY <1>11, ClaimItemEffect DEF Ownership, GrantsHonoured, Owns, OtherClaimsKept
  <2>4. LeaseExclusive'
    BY <1>11, ClaimItemEffect DEF Ownership, LeaseExclusive, OtherClaimsKept
  <2>5. \A v \in Workers : Owns(v, j) => v = w
    BY <2>0 DEF Ownership, TokensUnique, Owns
  <2>6. NoOrphanUnderOwner'
    <3> SUFFICES ASSUME NEW v \in Workers, NEW l \in Jobs, Owns(v, l)',
                        NEW k \in Items, item'[l][k] = "running"
                 PROVE  claim'[v].item = k
      BY DEF NoOrphanUnderOwner
    <3>1. Owns(v, l)
      BY <1>11, ClaimItemEffect DEF Owns, OtherClaimsKept
    <3>2. CASE l = j
      BY <1>11, <2>1, <2>5, <3>1, <3>2, ClaimItemEffect
    <3>3. CASE l # j
      <4>1. v # w /\ claim'[v] = claim[v] /\ item'[l] = item[l]
        BY <1>11, <2>0, <3>1, <3>3, ClaimItemEffect DEF Owns, OthersKept, OtherClaimsKept
      <4> QED
        BY <3>1, <4>1 DEF Ownership, NoOrphanUnderOwner
    <3> QED
      BY <3>2, <3>3
  <2> QED
    BY <2>2, <2>3, <2>4, <2>6 DEF Ownership
<1>12. ASSUME NEW j \in Jobs, NEW w \in Workers, NEW i \in Items, InvalidateFrom(w, j, i)
       PROVE Ownership'
  <2>1. TokensUnique'
    BY <1>12, InvalidateEffect DEF Ownership, TokensUnique, OthersKept
  <2>2. GrantsHonoured'
    BY <1>12, InvalidateEffect DEF Ownership, GrantsHonoured, Owns, OthersKept
  <2>3. LeaseExclusive'
    BY <1>12, InvalidateEffect DEF Ownership, LeaseExclusive
  <2>4. NoOrphanUnderOwner'
    BY <1>12, InvalidateEffect DEF Ownership, NoOrphanUnderOwner, Owns, OthersKept
  <2> QED
    BY <2>1, <2>2, <2>3, <2>4 DEF Ownership
<1>13. ASSUME NEW j \in Jobs, NEW w \in Workers, NEW i \in Items, NEW s \in Finished,
              CompleteItem(w, j, i, s)
       PROVE Ownership'
  <2>0. Owns(w, j) /\ claim[w].item = i /\ s # "running"
    BY <1>13, CompleteItemEffect DEF OwnsLive, Finished, Good
  <2>1. \A k \in Items : k # i => item[j][k] # "running"
    BY <2>0 DEF Ownership, NoOrphanUnderOwner
  <2>2. TokensUnique'
    BY <1>13, CompleteItemEffect DEF Ownership, TokensUnique, OthersKept, OtherClaimsKept
  <2>3. GrantsHonoured'
    BY <1>13, CompleteItemEffect
    DEF Ownership, GrantsHonoured, Owns, OthersKept, OtherClaimsKept
  <2>4. LeaseExclusive'
    BY <1>13, CompleteItemEffect DEF Ownership, LeaseExclusive, OtherClaimsKept
  <2>5. NoOrphanUnderOwner'
    BY <1>13, <2>0, <2>1, CompleteItemEffect
    DEF Ownership, NoOrphanUnderOwner, Owns, OthersKept, OtherClaimsKept
  <2> QED
    BY <2>2, <2>3, <2>4, <2>5 DEF Ownership
<1> QED
  BY <1>1, <1>2, <1>3, <1>4, <1>5, <1>6, <1>7, <1>8, <1>9, <1>10, <1>11, <1>12, <1>13 DEF Next
-----------------------------------------------------------------------------
(* History: what is absent was never started, what succeeded stays whole.  *)

History == AbsentBlank /\ SucceededComplete

(* A step that keeps the items and moves no job into "absent" or           *)
(* "succeeded" keeps History.                                              *)
LEMMA HistoryKept ==
    ASSUME History, item' = item,
           \A j \in Jobs :
              /\ job'[j].status = "absent" => job[j].status = "absent"
              /\ job'[j].status = "succeeded" => job[j].status = "succeeded"
              /\ job'[j].attempts = job[j].attempts
    PROVE  History'
BY DEF History, AbsentBlank, SucceededComplete

(* So does a step after which the only job touched is neither.             *)
LEMMA HistoryElsewhere ==
    ASSUME History, NEW j \in Jobs, OthersKept(j),
           job'[j].status \notin {"absent", "succeeded"}
    PROVE  History'
BY DEF History, AbsentBlank, SucceededComplete, OthersKept

LEMMA HistoryStep == TypeOK /\ History /\ [Next]_vars => History'
<1> SUFFICES ASSUME TypeOK, History, [Next]_vars PROVE History'
  OBVIOUS
<1>1. CASE UNCHANGED vars
  BY <1>1, HistoryKept DEF vars
<1>2. CASE Tick
  BY <1>2, TickEffect, HistoryKept
<1>3. ASSUME NEW w \in Workers, Abandon(w) PROVE History'
  BY <1>3, AbandonEffect, HistoryKept
<1>4. ASSUME NEW j \in Jobs, Submit(j) PROVE History'
  <2>1. CASE job'[j] = job[j] /\ item'[j] = item[j]
    BY <1>4, <2>1, SubmitEffect DEF History, AbsentBlank, SucceededComplete, OthersKept
  <2>2. CASE job'[j].status = "queued"
    BY <1>4, <2>2, SubmitEffect, HistoryElsewhere
  <2> QED
    BY <1>4, <2>1, <2>2, SubmitEffect
<1>5. ASSUME NEW j \in Jobs, RequestCancel(j) PROVE History'
  BY <1>5, CancelEffect, HistoryElsewhere
<1>6. ASSUME NEW j \in Jobs, NEW w \in Workers, Claim(w, j) PROVE History'
  BY <1>6, ClaimEffect, HistoryElsewhere
<1>7. ASSUME NEW j \in Jobs, NEW w \in Workers, Heartbeat(w, j) PROVE History'
  BY <1>7, HeartbeatEffect, HistoryElsewhere DEF OwnsLive, Owns
<1>8. ASSUME NEW j \in Jobs, NEW w \in Workers, Complete(w, j) PROVE History'
  BY <1>8, CompleteEffect
  DEF History, AbsentBlank, SucceededComplete, NoItemOpen, OthersKept
<1>9. ASSUME NEW j \in Jobs, NEW w \in Workers, Abort(w, j) PROVE History'
  BY <1>9, AbortEffect, HistoryElsewhere
<1>10. ASSUME NEW j \in Jobs, NEW w \in Workers, NEW delay \in 0 .. RetryTicks,
              Fail(w, j, delay)
       PROVE History'
  BY <1>10, FailEffect, FailureStatus, HistoryElsewhere
<1>11. ASSUME NEW j \in Jobs, NEW w \in Workers, NEW i \in Items, ClaimItem(w, j, i)
       PROVE History'
  BY <1>11, ClaimItemEffect, HistoryElsewhere DEF OwnsLive, Owns
<1>12. ASSUME NEW j \in Jobs, NEW w \in Workers, NEW i \in Items, InvalidateFrom(w, j, i)
       PROVE History'
  BY <1>12, InvalidateEffect, HistoryElsewhere DEF OwnsLive, Owns
<1>13. ASSUME NEW j \in Jobs, NEW w \in Workers, NEW i \in Items, NEW s \in Finished,
              CompleteItem(w, j, i, s)
       PROVE History'
  BY <1>13, CompleteItemEffect, HistoryElsewhere DEF OwnsLive, Owns
<1> QED
  BY <1>1, <1>2, <1>3, <1>4, <1>5, <1>6, <1>7, <1>8, <1>9, <1>10, <1>11, <1>12, <1>13 DEF Next

-----------------------------------------------------------------------------
(* The inductive invariant and what follows from it.                       *)

THEOREM Inductive == Spec => []IInv
<1>1. Init => Ownership /\ History
  <2> SUFFICES ASSUME Init PROVE Ownership /\ History
    OBVIOUS
  <2>1. \A w \in Workers : \A j \in Jobs : claim[w].job # j /\ claim[w].granted = 0
    BY NullsAssumption DEF Init, NoClaim
  <2>2. \A j \in Jobs : job[j].status = "absent" /\ job[j].attempts = 0
    BY DEF Init, AbsentJob
  <2>3. \A j \in Jobs : \A i \in Items : item[j][i] = "absent"
    BY DEF Init
  <2> QED
    BY <2>1, <2>2, <2>3
    DEF Ownership, TokensUnique, GrantsHonoured, LeaseExclusive, NoOrphanUnderOwner, Owns,
        History, AbsentBlank, SucceededComplete
<1>2. Spec => [](Ownership /\ History)
  <2>1. TypeOK /\ Ownership /\ History /\ [Next]_vars => (Ownership /\ History)'
    BY OwnershipStep, HistoryStep
  <2> QED
    BY <1>1, <2>1, TypeCorrect, PTL DEF Spec
<1>3. TypeOK /\ ProgressExact /\ Ownership /\ History => IInv
  BY DEF IInv, Ownership, History
<1> QED
  BY <1>2, <1>3, TypeCorrect, ProgressCorrect, PTL

(* No two worker processes hold a running lease on one job.                *)
THEOREM LeaseCorrect == Spec => []LeaseExclusive
<1>1. IInv => LeaseExclusive
  BY DEF IInv
<1> QED
  BY <1>1, Inductive, PTL

(* No owner ever inherits an item that a former owner left running.        *)
THEOREM OrphanCorrect == Spec => []NoOrphanUnderOwner
<1>1. IInv => NoOrphanUnderOwner
  BY DEF IInv
<1> QED
  BY <1>1, Inductive, PTL

(* A batch that succeeded holds a good result for every expiry.            *)
THEOREM SuccessCorrect == Spec => []SucceededComplete
<1>1. IInv => SucceededComplete
  BY DEF IInv
<1> QED
  BY <1>1, Inductive, PTL

-----------------------------------------------------------------------------
(* The queue implements JobLedger, and keeps its checkpoints.              *)
LedgerVars == <<LedgerPhase, LedgerTries, LedgerDone>>

LedgerItems(j) == {i \in Items : item[j][i] \in Good}

(* How a step on job j alone shows in the ledger.                          *)
LEMMA LedgerChange ==
    ASSUME NEW j \in Jobs, OthersKept(j)
    PROVE  /\ LedgerPhase' = [LedgerPhase EXCEPT ![j] = job'[j].status]
           /\ LedgerTries' = [LedgerTries EXCEPT ![j] = job'[j].attempts]
           /\ LedgerDone' = [LedgerDone EXCEPT ![j] = LedgerItems(j)']
           /\ LedgerPhase[j] = job[j].status
           /\ LedgerTries[j] = job[j].attempts
           /\ LedgerDone[j] = LedgerItems(j)
BY DEF LedgerPhase, LedgerTries, LedgerDone, LedgerItems, OthersKept

(* A column that does not change leaves its ledger entry.                  *)
LEMMA LedgerSame ==
    ASSUME NEW j \in Jobs, OthersKept(j)
    PROVE  /\ job'[j].status = job[j].status => LedgerPhase' = LedgerPhase
           /\ job'[j].attempts = job[j].attempts => LedgerTries' = LedgerTries
           /\ LedgerItems(j)' = LedgerItems(j) => LedgerDone' = LedgerDone
<1>1. ASSUME job'[j].status = job[j].status PROVE LedgerPhase' = LedgerPhase
  BY <1>1 DEF LedgerPhase, OthersKept
<1>2. ASSUME job'[j].attempts = job[j].attempts PROVE LedgerTries' = LedgerTries
  BY <1>2 DEF LedgerTries, OthersKept
<1>3. ASSUME LedgerItems(j)' = LedgerItems(j) PROVE LedgerDone' = LedgerDone
  BY <1>3 DEF LedgerDone, LedgerItems, OthersKept
<1> QED
  BY <1>1, <1>2, <1>3

LEMMA LedgerStep == IInv /\ [Next]_vars => [Ledger!LNext]_LedgerVars
<1> SUFFICES ASSUME IInv, [Next]_vars PROVE Ledger!LNext \/ UNCHANGED LedgerVars
  OBVIOUS
<1>0. TypeOK /\ AbsentBlank
  BY DEF IInv
<1> USE DEF Ledger!Become
<1>1. CASE UNCHANGED vars
  BY <1>1 DEF vars, LedgerVars, LedgerPhase, LedgerTries, LedgerDone
<1>2. CASE Tick
  <2>1. LedgerPhase' = LedgerPhase
    BY <1>0, <1>2, TickEffect DEF LedgerPhase
  <2>2. LedgerTries' = LedgerTries
    BY <1>0, <1>2, TickEffect DEF LedgerTries
  <2>3. LedgerDone' = LedgerDone
    BY <1>0, <1>2, TickEffect DEF LedgerDone
  <2> QED
    BY <2>1, <2>2, <2>3 DEF LedgerVars
<1>3. ASSUME NEW w \in Workers, Abandon(w) PROVE UNCHANGED LedgerVars
  BY <1>0, <1>3, AbandonEffect DEF LedgerVars, LedgerPhase, LedgerTries, LedgerDone
<1>4. ASSUME NEW j \in Jobs, Submit(j) PROVE Ledger!LNext \/ UNCHANGED LedgerVars
  <2>1. OthersKept(j)
    BY <1>0, <1>4, SubmitEffect
  <2>2. CASE job'[j] = job[j] /\ item'[j] = item[j]
    BY <2>1, <2>2, LedgerSame DEF LedgerVars, LedgerItems
  <2>3. CASE /\ job[j].status = "absent" /\ job'[j].status = "queued"
             /\ job'[j].attempts = 0
             /\ \A i \in Items : item'[j][i] = "queued"
    <3>1. job[j].attempts = 0 /\ LedgerItems(j) = {} /\ LedgerItems(j)' = {}
      BY <1>0, <2>3 DEF AbsentBlank, LedgerItems, Good
    <3>2. Ledger!Enter(j)
      BY <2>1, <2>3, <3>1, LedgerChange, LedgerSame DEF Ledger!Enter
    <3> QED
      BY <3>2 DEF Ledger!LNext
  <2> QED
    BY <1>0, <1>4, <2>2, <2>3, SubmitEffect
<1>5. ASSUME NEW j \in Jobs, RequestCancel(j) PROVE Ledger!LNext
  <2>1. OthersKept(j) /\ LedgerItems(j)' = LedgerItems(j)
        /\ job[j].status \in {"queued", "running"}
    BY <1>0, <1>5, CancelEffect DEF LedgerItems, RequestCancel
  <2>2. Ledger!Withdraw(j)
    BY <1>0, <1>5, <2>1, CancelEffect, LedgerChange, LedgerSame DEF Ledger!Withdraw
  <2> QED
    BY <2>2 DEF Ledger!LNext
<1>6. ASSUME NEW j \in Jobs, NEW w \in Workers, Claim(w, j) PROVE Ledger!LNext
  <2>1. OthersKept(j) /\ LedgerItems(j)' = LedgerItems(j)
    BY <1>0, <1>6, ClaimEffect DEF LedgerItems, Orphaned, Good
  <2>2. job[j].status \in {"queued", "running"} /\ job[j].attempts < MaxAttempts
    BY <1>0, <1>6, ClaimEffect DEF Claimable
  <2>3. Ledger!Take(j)
    BY <1>0, <1>6, <2>1, <2>2, ClaimEffect, LedgerChange, LedgerSame DEF Ledger!Take
  <2> QED
    BY <2>3 DEF Ledger!LNext
<1>7. ASSUME NEW j \in Jobs, NEW w \in Workers, Heartbeat(w, j) PROVE UNCHANGED LedgerVars
  <2>1. OthersKept(j) /\ LedgerItems(j)' = LedgerItems(j)
    BY <1>0, <1>7, HeartbeatEffect DEF LedgerItems
  <2> QED
    BY <1>0, <1>7, <2>1, HeartbeatEffect, LedgerSame DEF LedgerVars
<1>8. ASSUME NEW j \in Jobs, NEW w \in Workers, Complete(w, j) PROVE Ledger!LNext
  <2>1. OthersKept(j) /\ LedgerItems(j)' = LedgerItems(j) /\ LedgerItems(j) = Items
    BY <1>0, <1>8, CompleteEffect DEF LedgerItems, NoItemOpen
  <2>2. Ledger!Succeed(j)
    BY <1>0, <1>8, <2>1, CompleteEffect, LedgerChange, LedgerSame DEF Ledger!Succeed
  <2> QED
    BY <2>2 DEF Ledger!LNext
<1>9. ASSUME NEW j \in Jobs, NEW w \in Workers, Abort(w, j) PROVE Ledger!LNext
  <2>1. OthersKept(j) /\ LedgerItems(j)' = LedgerItems(j)
    BY <1>0, <1>9, AbortEffect DEF LedgerItems
  <2>2. Ledger!GiveUp(j)
    BY <1>0, <1>9, <2>1, AbortEffect, LedgerChange, LedgerSame DEF Ledger!GiveUp
  <2> QED
    BY <2>2 DEF Ledger!LNext
<1>10. ASSUME NEW j \in Jobs, NEW w \in Workers, NEW delay \in 0 .. RetryTicks,
              Fail(w, j, delay)
       PROVE  Ledger!LNext
  <2>1. OthersKept(j) /\ LedgerItems(j)' = LedgerItems(j) /\ job[j].status = "running"
    BY <1>0, <1>10, FailEffect DEF LedgerItems, Owns
  <2>2. CASE job'[j].status = "queued"
    <3>1. job[j].attempts < MaxAttempts
      BY <1>0, <1>10, <2>2, FailEffect DEF StatusAfterFailure
    <3>2. Ledger!GiveBack(j)
      BY <1>0, <1>10, <2>1, <2>2, <3>1, FailEffect, LedgerChange, LedgerSame
      DEF Ledger!GiveBack
    <3> QED
      BY <3>2 DEF Ledger!LNext
  <2>3. CASE job'[j].status = "failed"
    <3>1. Ledger!GiveUp(j)
      BY <1>0, <1>10, <2>1, <2>3, FailEffect, LedgerChange, LedgerSame DEF Ledger!GiveUp
    <3> QED
      BY <3>1 DEF Ledger!LNext
  <2>4. CASE job'[j].status = "cancelled"
    <3>1. Ledger!Withdraw(j)
      BY <1>0, <1>10, <2>1, <2>4, FailEffect, LedgerChange, LedgerSame DEF Ledger!Withdraw
    <3> QED
      BY <3>1 DEF Ledger!LNext
  <2> QED
    BY <1>0, <1>10, <2>2, <2>3, <2>4, FailEffect, FailureStatus
<1>11. ASSUME NEW j \in Jobs, NEW w \in Workers, NEW i \in Items, ClaimItem(w, j, i)
       PROVE  UNCHANGED LedgerVars
  <2>1. OthersKept(j) /\ LedgerItems(j)' = LedgerItems(j)
    BY <1>0, <1>11, ClaimItemEffect DEF LedgerItems, Good
  <2> QED
    BY <1>0, <1>11, <2>1, ClaimItemEffect, LedgerSame DEF LedgerVars
<1>12. ASSUME NEW j \in Jobs, NEW w \in Workers, NEW d \in Items, InvalidateFrom(w, j, d)
       PROVE  Ledger!LNext
  <2>1. OthersKept(j) /\ job[j].status = "running"
    BY <1>0, <1>12, InvalidateEffect DEF OwnsLive, Owns
  <2>2. LedgerItems(j)' = {i \in LedgerItems(j) : i < d}
    <3>1. ASSUME NEW i \in Items PROVE i < d <=> ~(i >= d)
      BY ItemsAssumption
    <3>2. \A i \in Items : item'[j][i] =
             IF i \in StaleItems(j, d) THEN "queued" ELSE item[j][i]
      BY <1>0, <1>12, InvalidateEffect
    <3>3. ASSUME NEW i \in Items PROVE item'[j][i] \in Good <=> item[j][i] \in Good /\ i < d
      BY <3>1, <3>2 DEF StaleItems, Good
    <3> QED
      BY <3>3 DEF LedgerItems
  <2>3. LedgerDone' = [LedgerDone EXCEPT ![j] = {i \in LedgerDone[j] : i < d}]
    BY <2>1, <2>2, LedgerChange
  <2>4. Ledger!Discard(j)
    BY <1>0, <1>12, <2>1, <2>3, InvalidateEffect, LedgerChange, LedgerSame DEF Ledger!Discard
  <2> QED
    BY <2>4 DEF Ledger!LNext
<1>13. ASSUME NEW j \in Jobs, NEW w \in Workers, NEW i \in Items, NEW s \in Finished,
              CompleteItem(w, j, i, s)
       PROVE  Ledger!LNext \/ UNCHANGED LedgerVars
  <2>1. OthersKept(j) /\ job[j].status = "running"
    BY <1>0, <1>13, CompleteItemEffect DEF OwnsLive, Owns
  <2>2. CASE s \in Good
    <3>1. i \notin LedgerItems(j) /\ LedgerItems(j)' = LedgerItems(j) \cup {i}
      BY <1>0, <1>13, <2>2, CompleteItemEffect DEF LedgerItems, Good
    <3>2. i \in Items \ LedgerDone[j]
          /\ LedgerDone' = [LedgerDone EXCEPT ![j] = LedgerDone[j] \cup {i}]
      BY <2>1, <3>1, LedgerChange
    <3>3. Ledger!Record(j)
      BY <1>0, <1>13, <2>1, <3>2, CompleteItemEffect, LedgerChange, LedgerSame
      DEF Ledger!Record
    <3> QED
      BY <3>3 DEF Ledger!LNext
  <2>3. CASE s \notin Good
    <3>1. LedgerItems(j)' = LedgerItems(j)
      BY <1>0, <1>13, <2>3, CompleteItemEffect DEF LedgerItems, Good
    <3> QED
      BY <1>0, <1>13, <2>1, <3>1, CompleteItemEffect, LedgerSame DEF LedgerVars
  <2> QED
    BY <2>2, <2>3
<1> QED
  BY <1>1, <1>2, <1>3, <1>4, <1>5, <1>6, <1>7, <1>8, <1>9, <1>10, <1>11, <1>12, <1>13 DEF Next

(* The queue implements the promises of JobLedger, for any numbers of      *)
(* jobs, items, workers and attempts.                                      *)
THEOREM LedgerCorrect == Spec => ImplementsLedger
<1>1. Init => Ledger!LInit
  BY DEF Init, AbsentJob, Ledger!LInit, LedgerPhase, LedgerTries, LedgerDone, Good
<1>2. Ledger!lvars = LedgerVars
  BY DEF Ledger!lvars, LedgerVars
<1>3. IInv /\ [Next]_vars => [Ledger!LNext]_(Ledger!lvars)
  BY <1>2, LedgerStep DEF Ledger!lvars, LedgerVars
<1> QED
  BY <1>1, <1>3, Inductive, PTL DEF Spec, ImplementsLedger, Ledger!LSpec

-----------------------------------------------------------------------------
(* Checkpoints.                                                            *)

Discarded(j, i) == item[j][i] \in Good /\ item'[j][i] \notin Good

LEMMA DiscardStep ==
    ASSUME IInv, [Next]_vars, NEW k \in Jobs, NEW i \in Items, Discarded(k, i)
    PROVE  \E w \in Workers : OwnsLive(w, k)
<1>0. TypeOK /\ AbsentBlank
  BY DEF IInv
<1>1. item' # item
  BY DEF Discarded
<1>2. ASSUME NEW j \in Jobs, OthersKept(j) PROVE j = k
  BY <1>2 DEF OthersKept, Discarded
<1>3. ASSUME NEW j \in Jobs, Submit(j) PROVE FALSE
  <2>1. j = k
    BY <1>0, <1>2, <1>3, SubmitEffect
  <2>2. item[k][i] # "absent" /\ item'[k] # item[k]
    BY DEF Discarded, Good
  <2> QED
    BY <1>0, <1>3, <2>1, <2>2, SubmitEffect DEF AbsentBlank
<1>4. ASSUME NEW j \in Jobs, NEW w \in Workers, Claim(w, j) PROVE FALSE
  BY <1>0, <1>2, <1>4, ClaimEffect DEF Discarded, Good, Orphaned
<1>5. ASSUME NEW j \in Jobs, NEW w \in Workers, NEW d \in Items, ClaimItem(w, j, d)
      PROVE  FALSE
  BY <1>0, <1>2, <1>5, ClaimItemEffect DEF Discarded, Good
<1>6. ASSUME NEW j \in Jobs, NEW w \in Workers, NEW d \in Items, NEW s \in Finished,
             CompleteItem(w, j, d, s)
      PROVE  FALSE
  BY <1>0, <1>2, <1>6, CompleteItemEffect DEF Discarded, Good
<1>7. ASSUME NEW j \in Jobs, NEW w \in Workers, NEW d \in Items, InvalidateFrom(w, j, d)
      PROVE  OwnsLive(w, k)
  BY <1>0, <1>2, <1>7, InvalidateEffect
<1>8. ASSUME NEW j \in Jobs, NEW w \in Workers,
             \/ RequestCancel(j) \/ Heartbeat(w, j) \/ Complete(w, j) \/ Abort(w, j)
             \/ \E delay \in 0 .. RetryTicks : Fail(w, j, delay)
      PROVE  FALSE
  BY <1>0, <1>1, <1>8, CancelEffect, HeartbeatEffect, CompleteEffect, AbortEffect, FailEffect
<1>9. ASSUME NEW j \in Jobs, RequestCancel(j) PROVE FALSE
  BY <1>0, <1>1, <1>9, CancelEffect
<1>10. ~Tick /\ ~(UNCHANGED vars) /\ \A w \in Workers : ~Abandon(w)
  BY <1>0, <1>1, TickEffect, AbandonEffect DEF vars
<1> QED
  BY <1>3, <1>4, <1>5, <1>6, <1>7, <1>8, <1>9, <1>10 DEF Next

(* A good result is discarded only by a worker that owns the job under a   *)
(* live lease, never by a crash, a takeover, a failure or a cancellation.  *)
THEOREM CheckpointsCorrect == Spec => CheckpointsKept
<1>1. ASSUME IInv, [Next]_vars
      PROVE  [\A j \in Jobs : \A i \in Items :
                item[j][i] \in Good /\ item'[j][i] \notin Good
                => \E w \in Workers : OwnsLive(w, j)]_vars
  BY <1>1, DiscardStep DEF Discarded
<1> QED
  BY <1>1, Inductive, PTL DEF Spec, CheckpointsKept
=============================================================================
