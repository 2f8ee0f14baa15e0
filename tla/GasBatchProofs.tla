--------------------------- MODULE GasBatchProofs ---------------------------
(***************************************************************************)
(* The batch worker drives the queue by its statements alone, so what is   *)
(* proved of the queue holds of every batch: the one thing to show is that *)
(* a process only ever speaks of the job it was started for, which needs   *)
(* the type of the processes.  The second half follows the rounds of the   *)
(* engine: what a claim has visited, what it may find stale, and why the   *)
(* source that was reread is the one the batch succeeds on.                *)
(***************************************************************************)
EXTENDS GasBatch, JobQueueProofs

(* A process that runs has a job, the engine is not started again after    *)
(* the last round, and what is to be saved is a result.                    *)
Fitted == {"save", "take", "record"}

Busy(r) ==
    /\ r.pc # "off" => r.job \in Jobs
    /\ r.pc \in Running => r.round <= Cardinality(Items)
    /\ r.pc \in Fitted => r.result \in Outcomes

RunnersOK == runner \in [Workers -> Runners] /\ \A w \in Workers : Busy(runner[w])

LEMMA SomeItems == Cardinality(Items) \in Nat
BY ItemsAssumption, FS_CardinalityType

LEMMA OffRow == Off \in Runners /\ Busy(Off)
BY SomeItems, MaxRunsAssumption, SMT DEF Off, Process, Runners, Busy, Running, Fitted

(* A step changes one process, to a row that is well formed.               *)
LEMMA OneRunner ==
    ASSUME RunnersOK, NEW w \in Workers, NEW r \in Runners, Busy(r),
           Becomes(w, r)
    PROVE  RunnersOK'
BY DEF RunnersOK, Busy, Becomes

(* What a step of one process makes of its row.                            *)
LEMMA RowAt ==
    ASSUME RunnersOK, NEW w \in Workers
    PROVE  /\ runner[w] \in Runners /\ Busy(runner[w])
           /\ runner[w].pc \in {"off"} \cup Running \cup Around
           /\ runner[w].job \in Jobs \cup {NoJob} /\ runner[w].runs \in 0 .. MaxRuns
           /\ runner[w].round \in 0 .. Cardinality(Items) + 1
           /\ runner[w].todo \subseteq Items
           /\ runner[w].result \in {"none"} \cup Outcomes /\ runner[w].lost \in BOOLEAN
BY DEF RunnersOK, Runners

(* The program counter moves, within the loop or out of it.                *)
LEMMA GotoRow ==
    ASSUME RunnersOK, NEW w \in Workers, runner[w].pc # "off",
           NEW pc \in Running \cup Around,
           pc \in Running => runner[w].pc \in Running,
           pc \in Fitted => runner[w].pc \in Fitted,
           Goto(w, pc)
    PROVE  RunnersOK'
<1> DEFINE r == [runner[w] EXCEPT !.pc = pc]
<1>1. runner[w] \in Runners /\ Busy(runner[w])
  BY RowAt
<1>2. r \in Runners
  BY <1>1 DEF Runners
<1>3. /\ r.pc = pc /\ r.job = runner[w].job /\ r.round = runner[w].round
      /\ r.result = runner[w].result
  BY <1>1 DEF Runners
<1>4. pc # "off"
  BY DEF Running, Around
<1>5. Busy(r)
  BY <1>1, <1>3, <1>4 DEF Busy
<1>6. Becomes(w, r)
  BY DEF Goto
<1> QED
  BY <1>2, <1>5, <1>6, OneRunner

(* Rows that a step sets in several fields at once.                        *)
LEMMA ClaimRow ==
    ASSUME NEW j \in Jobs, NEW n \in 1 .. MaxRuns
    PROVE  Process("claim", j, n) \in Runners /\ Busy(Process("claim", j, n))
BY SomeItems, MaxRunsAssumption DEF Process, Runners, Running, Fitted, Around, Busy

(* The steps that move the program counter alone.                          *)
LEMMA GotoSteps ==
    ASSUME RunnersOK, NEW w \in Workers,
           \/ Changed(w) \/ AbortBatch(w) \/ FailBatch(w) \/ Save(w) \/ Take(w)
           \/ EngineEnds(w) \/ EngineCancelled(w) \/ Done(w) \/ CompleteBatch(w) \/ Raise(w)
    PROVE  RunnersOK'
<1>1. /\ {"abort", "again", "failing"} \subseteq Around
      /\ {"take", "record", "done", "recheck"} \subseteq Running
      /\ \A pc \in {"abort", "again", "failing"} : pc \notin Running
      /\ \A pc \in {"abort", "again", "failing", "done", "recheck"} : pc \notin Fitted
      /\ \A pc \in {"save", "take", "record"} : pc \in Fitted
      /\ \A pc \in Running \cup Around : pc # "off"
  BY DEF Running, Around, Fitted
<1>2. CASE Changed(w)
  BY <1>1, <1>2, GotoRow DEF Changed, Running
<1>3. CASE AbortBatch(w)
  BY <1>1, <1>3, GotoRow DEF AbortBatch
<1>4. CASE FailBatch(w)
  BY <1>1, <1>4, GotoRow DEF FailBatch
<1>5. CASE Save(w)
  <2>1. runner[w].pc \in Running
    BY <1>5 DEF Save, Running
  <2> QED
    BY <1>1, <1>5, <2>1, GotoRow DEF Save
<1>6. CASE Take(w)
  <2>1. runner[w].pc \in Running /\ runner[w].pc \in Fitted
    BY <1>6 DEF Take, Running, Fitted
  <2>2. \E pc \in {"record", "failing"} : Goto(w, pc)
    BY <1>6 DEF Take
  <2> QED
    BY <1>1, <2>1, <2>2, GotoRow
<1>7. CASE EngineEnds(w)
  <2>1. runner[w].pc \in Running
    BY <1>7 DEF EngineEnds, Running
  <2> QED
    BY <1>1, <1>7, <2>1, GotoRow DEF EngineEnds
<1>8. CASE EngineCancelled(w)
  BY <1>1, <1>8, GotoRow DEF EngineCancelled, Running
<1>9. CASE Done(w)
  <2>1. runner[w].pc \in Running
    BY <1>9 DEF Done, Running
  <2>2. \E pc \in {"again", "failing", "recheck"} : Goto(w, pc)
    BY <1>9 DEF Done
  <2> QED
    BY <1>1, <2>1, <2>2, GotoRow
<1>10. CASE CompleteBatch(w)
  BY <1>1, <1>10, GotoRow DEF CompleteBatch, Running
<1>11. CASE Raise(w)
  <2>1. runner[w].pc \in Running /\ \E pc \in {"abort", "failing"} : Goto(w, pc)
    BY <1>11 DEF Raise, Running
  <2> QED
    BY <1>1, <2>1, GotoRow
<1> QED
  BY <1>2, <1>3, <1>4, <1>5, <1>6, <1>7, <1>8, <1>9, <1>10, <1>11

(* The steps that set several fields.                                      *)
LEMMA ClaimRunner ==
    ASSUME RunnersOK, NEW w \in Workers, ClaimBatch(w) PROVE RunnersOK'
<1> DEFINE r == [runner[w] EXCEPT !.pc = "check", !.round = 0, !.todo = {}, !.lost = FALSE]
<1>1. runner[w].pc = "claim" /\ runner[w].pc # "off"
  BY DEF ClaimBatch
<1>2. CASE Goto(w, "again")
  BY <1>1, <1>2, GotoRow DEF Running, Fitted, Around
<1>3. CASE Becomes(w, r)
  <2>1. runner[w] \in Runners /\ Busy(runner[w])
    BY RowAt
  <2>0. "check" \in Running /\ "check" \notin Fitted /\ 0 \in 0 .. Cardinality(Items) + 1
    BY SomeItems DEF Running, Fitted
  <2>2. r \in Runners
    BY <2>0, <2>1 DEF Runners
  <2>3. r.pc = "check" /\ r.job = runner[w].job /\ r.round = 0
    BY <2>1 DEF Runners
  <2>4. Busy(r)
    BY <1>1, <2>0, <2>1, <2>3, SomeItems DEF Busy
  <2> QED
    BY <1>3, <2>2, <2>4, OneRunner
<1> QED
  BY <1>2, <1>3 DEF ClaimBatch

LEMMA CheckRunner ==
    ASSUME RunnersOK, NEW w \in Workers, CheckSource(w) PROVE RunnersOK'
<1> DEFINE r == [runner[w] EXCEPT !.pc = "engine", !.todo = Items]
<1>1. runner[w].pc \in Running /\ runner[w].pc # "off"
  BY DEF CheckSource, Running
<1>2. CASE \E pc \in {"again", "changed", "complete"} : Goto(w, pc)
  BY <1>1, <1>2, GotoRow DEF Running, Fitted, Around
<1>3. CASE Becomes(w, r)
  <2>1. runner[w] \in Runners /\ Busy(runner[w])
    BY RowAt
  <2>2. r \in Runners
    BY <2>1 DEF Runners, Running
  <2>3. r.pc = "engine" /\ r.job = runner[w].job /\ r.round = runner[w].round
    BY <2>1 DEF Runners
  <2>4. Busy(r)
    BY <1>1, <2>1, <2>3 DEF Busy, Fitted
  <2> QED
    BY <1>3, <2>2, <2>4, OneRunner
<1> QED
  BY <1>2, <1>3 DEF CheckSource

LEMMA VisitRunner ==
    ASSUME RunnersOK, NEW w \in Workers, NEW i \in Items, Visit(w, i) PROVE RunnersOK'
<1>1. runner[w].pc = "engine" /\ runner[w].pc \in Running /\ runner[w].pc # "off"
  BY DEF Visit, Running
<1>2. runner[w] \in Runners /\ Busy(runner[w])
  BY RowAt
<1>3. CASE Goto(w, "stale")
  BY <1>1, <1>3, GotoRow DEF Running, Fitted
<1>4. ASSUME NEW result \in Outcomes,
             Becomes(w, [runner[w] EXCEPT !.pc = "save", !.result = result])
      PROVE  RunnersOK'
  <2> DEFINE r == [runner[w] EXCEPT !.pc = "save", !.result = result]
  <2>1. r \in Runners
    BY <1>2 DEF Runners, Running
  <2>2. r.job = runner[w].job /\ r.round = runner[w].round /\ r.result = result
    BY <1>2 DEF Runners
  <2>3. Busy(r)
    BY <1>1, <1>2, <2>2 DEF Busy
  <2> QED
    BY <1>4, <2>1, <2>3, OneRunner
<1>5. CASE Becomes(w, [runner[w] EXCEPT !.todo = @ \ {i}])
  <2> DEFINE r == [runner[w] EXCEPT !.todo = @ \ {i}]
  <2>1. r \in Runners
    BY <1>2 DEF Runners
  <2>2. /\ r.pc = runner[w].pc /\ r.job = runner[w].job /\ r.round = runner[w].round
        /\ r.result = runner[w].result
    BY <1>2 DEF Runners
  <2>3. Busy(r)
    BY <1>2, <2>2 DEF Busy
  <2> QED
    BY <1>5, <2>1, <2>3, OneRunner
<1> QED
  BY <1>3, <1>4, <1>5 DEF Visit

LEMMA RecordRunner ==
    ASSUME RunnersOK, NEW w \in Workers, Record(w) PROVE RunnersOK'
<1>1. runner[w].pc = "record" /\ runner[w].pc \in Running /\ runner[w].pc # "off"
  BY DEF Record, Running
<1>2. runner[w] \in Runners /\ Busy(runner[w])
  BY RowAt
<1>3. CASE Goto(w, "again")
  BY <1>1, <1>3, GotoRow DEF Running, Fitted, Around
<1>4. ASSUME NEW i \in Items,
             Becomes(w, [runner[w] EXCEPT !.pc = "engine", !.todo = @ \ {i}, !.result = "none"])
      PROVE  RunnersOK'
  <2> DEFINE r == [runner[w] EXCEPT !.pc = "engine", !.todo = @ \ {i}, !.result = "none"]
  <2>1. r \in Runners
    BY <1>2 DEF Runners, Running
  <2>2. r.pc = "engine" /\ r.job = runner[w].job /\ r.round = runner[w].round
    BY <1>2 DEF Runners
  <2>3. Busy(r)
    BY <1>1, <1>2, <2>2 DEF Busy, Fitted
  <2> QED
    BY <1>4, <2>1, <2>3, OneRunner
<1> QED
  BY <1>3, <1>4 DEF Record

LEMMA RestartRunner ==
    ASSUME RunnersOK, NEW w \in Workers, Restart(w) PROVE RunnersOK'
<1> DEFINE next == IF runner[w].round < Cardinality(Items) THEN "engine" ELSE "failing"
           r == [runner[w] EXCEPT !.round = @ + 1, !.todo = Items, !.pc = next]
<1>1. runner[w].pc = "stale" /\ runner[w].pc \in Running /\ runner[w].pc # "off"
  BY DEF Restart, Running
<1>2. runner[w] \in Runners /\ Busy(runner[w])
  BY RowAt
<1>3. CASE Goto(w, "again")
  BY <1>1, <1>3, GotoRow DEF Running, Fitted, Around
<1>4. CASE Becomes(w, r)
  <2>1. /\ runner[w].round \in 0 .. Cardinality(Items) + 1
        /\ runner[w].round <= Cardinality(Items)
    BY <1>1, <1>2, RowAt DEF Busy
  <2>2. runner[w].round + 1 \in 0 .. Cardinality(Items) + 1
    BY <2>1, SomeItems
  <2>3. next \in Running \cup Around
    BY DEF Running, Around
  <2>4. r \in Runners
    BY <1>2, <2>2, <2>3 DEF Runners
  <2>5. r.pc = next /\ r.job = runner[w].job /\ r.round = runner[w].round + 1
    BY <1>2 DEF Runners
  <2>6. next \in Running => runner[w].round + 1 <= Cardinality(Items)
    BY <2>1, SomeItems DEF Running
  <2>7. Busy(r)
    BY <1>1, <1>2, <2>5, <2>6 DEF Busy, Fitted
  <2> QED
    BY <1>4, <2>4, <2>7, OneRunner
<1> QED
  BY <1>3, <1>4 DEF Restart

LEMMA LostRunner ==
    ASSUME RunnersOK, NEW w \in Workers, BeatFails(w) PROVE RunnersOK'
<1> DEFINE r == [runner[w] EXCEPT !.lost = TRUE]
<1>1. runner[w] \in Runners /\ Busy(runner[w])
  BY RowAt
<1>2. r \in Runners
  BY <1>1 DEF Runners
<1>3. /\ r.pc = runner[w].pc /\ r.job = runner[w].job /\ r.round = runner[w].round
      /\ r.result = runner[w].result
  BY <1>1 DEF Runners
<1>4. Busy(r)
  BY <1>1, <1>3 DEF Busy
<1> QED
  BY <1>2, <1>4, OneRunner DEF BeatFails

LEMMA AgainRunner ==
    ASSUME RunnersOK, NEW w \in Workers, Again(w) PROVE RunnersOK'
<1>1. runner[w].job \in Jobs /\ runner[w].runs \in 0 .. MaxRuns
  BY RowAt DEF Again, Busy
<1>2. CASE Becomes(w, Off)
  BY <1>2, OffRow, OneRunner
<1>3. CASE runner[w].runs < MaxRuns /\ Becomes(w, Process("claim", Batch(w), runner[w].runs + 1))
  <2>1. runner[w].runs + 1 \in 1 .. MaxRuns
    BY <1>1, <1>3, MaxRunsAssumption
  <2> QED
    BY <1>1, <1>3, <2>1, ClaimRow, OneRunner DEF Batch
<1> QED
  BY <1>2, <1>3 DEF Again

LEMMA RunnersStep == RunnersOK /\ [BatchNext]_gvars => RunnersOK'
<1> SUFFICES ASSUME RunnersOK, [BatchNext]_gvars PROVE RunnersOK'
  OBVIOUS
<1>1. CASE UNCHANGED runner
  BY <1>1 DEF RunnersOK, Busy
<1>2. ASSUME NEW j \in Jobs,
             \/ SubmitBatch(j) \/ CancelBatch(j) \/ \E i \in Sources : SourceMoves(j, i)
      PROVE  UNCHANGED runner
  BY <1>2 DEF SubmitBatch, CancelBatch, SourceMoves, batchVars
<1>3. ASSUME NEW j \in Jobs, NEW w \in Workers, Start(w, j) PROVE RunnersOK'
  BY <1>3, ClaimRow, OneRunner, MaxRunsAssumption DEF Start
<1>4. ASSUME NEW w \in Workers, Step(w) PROVE RunnersOK'
  BY <1>4, GotoSteps, ClaimRunner, CheckRunner, VisitRunner, RecordRunner, RestartRunner,
     AgainRunner DEF Step
<1>5. ASSUME NEW w \in Workers, EngineCancelled(w) \/ Raise(w) PROVE RunnersOK'
  BY <1>5, GotoSteps
<1>6. ASSUME NEW w \in Workers, Crash(w) PROVE RunnersOK'
  BY <1>6, OffRow, OneRunner DEF Crash
<1>7. ASSUME NEW w \in Workers, Beat(w) PROVE UNCHANGED runner
  BY <1>7 DEF Beat, batchVars
<1>8. ASSUME NEW w \in Workers, BeatFails(w) PROVE RunnersOK'
  BY <1>8, LostRunner
<1>9. PassTime \/ UNCHANGED gvars => UNCHANGED runner
  BY DEF PassTime, batchVars, gvars
<1> QED
  BY <1>1, <1>2, <1>3, <1>4, <1>5, <1>6, <1>7, <1>8, <1>9 DEF BatchNext

-----------------------------------------------------------------------------
(* Every step is a statement of the queue, or does not touch it.           *)
LEMMA QueueStep == RunnersOK /\ [BatchNext]_gvars => [Next]_vars
<1> SUFFICES ASSUME RunnersOK, BatchNext PROVE [Next]_vars
  BY DEF gvars, vars
<1>1. ASSUME NEW w \in Workers, runner[w].pc # "off" PROVE Batch(w) \in Jobs
  BY <1>1, RowAt DEF Busy, Batch
<1>2. CASE PassTime
  BY <1>2 DEF PassTime, Next
<1>3. ASSUME NEW j \in Jobs,
             \/ SubmitBatch(j) \/ CancelBatch(j) \/ \E i \in Sources : SourceMoves(j, i)
             \/ \E w \in Workers : Start(w, j)
      PROVE  [Next]_vars
  BY <1>3 DEF SubmitBatch, CancelBatch, SourceMoves, Start, Next
<1>4. ASSUME NEW w \in Workers, ClaimBatch(w) PROVE [Next]_vars
  BY <1>1, <1>4 DEF ClaimBatch, Next
<1>5. ASSUME NEW w \in Workers,
             CheckSource(w) \/ (\E i \in Items : Visit(w, i)) \/ Save(w) \/ EngineEnds(w)
             \/ Done(w) \/ EngineCancelled(w) \/ Raise(w) \/ BeatFails(w)
      PROVE  [Next]_vars
  BY <1>5 DEF CheckSource, Visit, Save, EngineEnds, Done, EngineCancelled, Raise, BeatFails
<1>6. ASSUME NEW w \in Workers, Changed(w) PROVE [Next]_vars
  BY <1>1, <1>6 DEF Changed, Next, vars
<1>7. ASSUME NEW w \in Workers, AbortBatch(w) \/ CompleteBatch(w) PROVE [Next]_vars
  BY <1>1, <1>7 DEF AbortBatch, CompleteBatch, Next
<1>8. ASSUME NEW w \in Workers, FailBatch(w) PROVE [Next]_vars
  <2>1. 0 \in 0 .. RetryTicks
    BY BoundsAssumption
  <2> QED
    BY <1>1, <1>8, <2>1 DEF FailBatch, Next
<1>9. ASSUME NEW w \in Workers, Again(w) \/ Crash(w) PROVE [Next]_vars
  BY <1>9 DEF Again, Crash, Next
<1>10. ASSUME NEW w \in Workers, Take(w) PROVE [Next]_vars
  BY <1>1, <1>10 DEF Take, Next
<1>11. ASSUME NEW w \in Workers, Record(w) PROVE [Next]_vars
  <2>1. Batch(w) \in Jobs
    BY <1>1, <1>11 DEF Record
  <2>2. runner[w].result \in Finished
    BY <1>11, RowAt DEF Record, Busy, Fitted, Outcomes, Finished, Good
  <2> QED
    BY <1>11, <2>1, <2>2 DEF Record, Next, vars
<1>12. ASSUME NEW w \in Workers, Restart(w) PROVE [Next]_vars
  BY <1>1, <1>12 DEF Restart, Next, vars
<1>13. ASSUME NEW w \in Workers, Beat(w) PROVE [Next]_vars
  BY <1>1, <1>13 DEF Beat, Next, Running
<1> QED
  BY <1>2, <1>3, <1>4, <1>5, <1>6, <1>7, <1>8, <1>9, <1>10, <1>11, <1>12, <1>13
     DEF BatchNext, Step

(* The statements of worker processes, whatever they crash, lose or find   *)
(* changed, are a behaviour of the queue: what holds of the queue holds of *)
(* the batches.                                                            *)
THEOREM BatchIsQueue == BatchSpec => Spec
<1>1. BatchInit => Init /\ RunnersOK
  BY OffRow DEF BatchInit, RunnersOK
<1> QED
  BY <1>1, RunnersStep, QueueStep, PTL DEF BatchSpec, Spec

(* The progress a page shows for a batch counts its finished expiries      *)
(* exactly, at every step of every worker.                                 *)
THEOREM BatchProgressCorrect == BatchSpec => []ProgressExact
BY BatchIsQueue, ProgressCorrect, PTL

(* No expiry is left running by a worker that is gone, whoever owns the    *)
(* batch now.                                                              *)
THEOREM BatchOrphanCorrect == BatchSpec => []NoOrphanUnderOwner
BY BatchIsQueue, OrphanCorrect, PTL

(* A batch that is reported as succeeded has a good result for every       *)
(* expiry, and keeps it.                                                   *)
THEOREM BatchSuccessCorrect == BatchSpec => []SucceededComplete
BY BatchIsQueue, SuccessCorrect, PTL

(* To whoever submits a batch the detached processes are the ledger: its   *)
(* job ends once, its tries only grow, and what is kept is lost only while *)
(* it runs.                                                                *)
THEOREM BatchLedgerCorrect == BatchSpec => ImplementsLedger
BY BatchIsQueue, LedgerCorrect, PTL


-----------------------------------------------------------------------------
(* The rounds of the engine.  While a process owns its batch nobody else   *)
(* touches the expiries: what the engine has visited has a result, seeded  *)
(* from the good ones before it.  A second round finds every good result   *)
(* so seeded, and none behind an expiry that is still open, so that what   *)
(* it fits is behind all it keeps; and when the source is reread nothing   *)
(* is open, so that a change from then on is not a late one.               *)

Visiting == {"engine", "save", "take", "record", "stale", "done"}

FreshIn(S, j) == \A k \in S : item[j][k] \in Good => ~Stale(j, k)

VisitedOK(r, j) ==
    /\ \A k \in Items \ r.todo : item[j][k] \in Outcomes /\ \A m \in r.todo : k < m
    /\ FreshIn(Items \ r.todo, j)

SecondRoundOK(j) ==
    /\ FreshIn(Items, j)
    /\ \A q, m \in Items : item[j][q] \notin Outcomes /\ q < m => item[j][m] \notin Good

OwnerAt(r, w, j) ==
    Owns(w, j) =>
        /\ r.pc \in Visiting => VisitedOK(r, j) /\ (r.round # 0 => SecondRoundOK(j))
        /\ r.pc = "stale" => r.round = 0 /\ \E i \in Items : First(i, r.todo) /\ Stale(j, i)
        /\ r.pc = "done" => r.todo = {}
        /\ r.pc \in {"recheck", "complete"} => NoItemOpen(j)
        /\ r.pc = "complete" => j \notin late

OwnerOK(w) == runner[w].pc # "off" => OwnerAt(runner[w], w, Batch(w))

RoundOK(r) == r.round <= 1 /\ (r.pc = "check" => r.round = 0)

WorldOK ==
    /\ moved \in [Jobs -> SUBSET Sources]
    /\ basis \in [Jobs -> [Items -> SUBSET Items]]
    /\ late \subseteq Jobs
    /\ \A j \in Jobs : j \in late => moved[j] # {}

EngineInv ==
    /\ WorldOK
    /\ \A w \in Workers : OwnerOK(w) /\ RoundOK(runner[w])
    /\ SucceededFresh

(* What is said of a row, is said of the process that has it.              *)
LEMMA OwnerRow ==
    ASSUME NEW w \in Workers, NEW r, NEW j, runner'[w] = r, r.job = j, OwnerAt(r, w, j)'
    PROVE  OwnerOK(w)'
BY DEF OwnerOK, OwnerAt, VisitedOK, SecondRoundOK, FreshIn, Stale, Earlier, Owns, First,
   NoItemOpen, Batch

(* Nothing is said of a process that is not at the expiries.               *)
LEMMA AwayFromItems ==
    ASSUME NEW w \in Workers, runner'[w].pc \notin Visiting \cup {"recheck", "complete"}
    PROVE  OwnerOK(w)'
BY DEF OwnerOK, OwnerAt, Visiting

(* A step of somebody else: the job is no longer that of w, or nothing of  *)
(* it has changed.                                                         *)
Undisturbed(w, j) ==
    Owns(w, j)' =>
        /\ Owns(w, j) /\ item'[j] = item[j] /\ basis'[j] = basis[j]
        /\ j \in late' => j \in late \/ ~NoItemOpen(j)

LEMMA OwnerStands ==
    ASSUME RunnersOK, NEW w \in Workers, OwnerOK(w), runner'[w] = runner[w],
           \A j \in Jobs : Undisturbed(w, j)
    PROVE  OwnerOK(w)'
<1>1. CASE runner[w].pc = "off"
  BY <1>1, AwayFromItems DEF Visiting
<1>2. CASE runner[w].pc # "off"
  <2>1. PICK r : r = runner[w]
    OBVIOUS
  <2>2. PICK j \in Jobs : j = Batch(w)
    BY <1>2, RowAt DEF Busy, Batch
  <2>3. OwnerAt(r, w, j) /\ Undisturbed(w, j) /\ r.job = j
    BY <1>2, <2>1, <2>2 DEF OwnerOK, Batch
  <2>4. ASSUME Owns(w, j)', Owns(w, j), item'[j] = item[j], basis'[j] = basis[j]
        PROVE  /\ VisitedOK(r, j) => VisitedOK(r, j)'
               /\ SecondRoundOK(j) => SecondRoundOK(j)'
               /\ \A i \in Items : Stale(j, i) => Stale(j, i)'
               /\ NoItemOpen(j) <=> NoItemOpen(j)'
    BY <2>4 DEF VisitedOK, SecondRoundOK, FreshIn, Stale, Earlier, NoItemOpen
  <2>5. OwnerAt(r, w, j)'
    BY <2>3, <2>4 DEF OwnerAt, Undisturbed, First
  <2> QED
    BY <2>1, <2>3, <2>5, OwnerRow
<1> QED
  BY <1>1, <1>2

(* The statements a process makes about its job: those that neither end it *)
(* well nor discard a result, and the two that do.                         *)
Plain(v, j) ==
    \/ Claim(v, j) \/ Heartbeat(v, j) \/ Abort(v, j)
    \/ \E delay \in 0 .. RetryTicks : Fail(v, j, delay)
    \/ \E i \in Items :
         \/ ClaimItem(v, j, i)
         \/ \E status \in Finished : CompleteItem(v, j, i, status)

Statement(v, j) ==
    Plain(v, j) \/ Complete(v, j) \/ \E i \in Items : InvalidateFrom(v, j, i)

(* None of them leaves the job to another owner.                           *)
LEMMA OthersOut ==
    ASSUME IInv, NEW v \in Workers, NEW w \in Workers, w # v,
           NEW j \in Jobs, NEW k \in Jobs, Statement(v, k), Owns(w, j)'
    PROVE  j # k /\ Owns(w, j) /\ item'[j] = item[j]
<1>0. TypeOK /\ TokensUnique
  BY DEF IInv
<1>1. CASE Claim(v, k)
  <2>1. /\ OthersKept(k) /\ OtherClaimsKept(v) /\ job'[k].attempts = job[k].attempts + 1
    BY <1>0, <1>1, ClaimEffect
  <2>2. claim'[w] = claim[w]
    BY <2>1 DEF OtherClaimsKept
  <2>3. j # k
    <3>1. SUFFICES ASSUME j = k PROVE FALSE
      OBVIOUS
    <3>2. claim[w].job = k /\ claim[w].token = job[k].attempts + 1
      BY <2>1, <2>2, <3>1 DEF Owns
    <3>3. claim[w].token <= job[k].attempts /\ job[k].attempts \in Nat
      BY <1>0, <3>2 DEF TokensUnique, TypeOK, JobRows
    <3> QED
      BY <3>2, <3>3
  <2> QED
    BY <2>1, <2>2, <2>3 DEF OthersKept, Owns
<1>2. CASE Complete(v, k) \/ Abort(v, k) \/ \E delay \in 0 .. RetryTicks : Fail(v, k, delay)
  <2>1. OthersKept(k) /\ OtherClaimsKept(v) /\ job'[k].status # "running"
    BY <1>0, <1>2, CompleteEffect, AbortEffect, FailEffect, FailureStatus DEF OtherClaimsKept
  <2> QED
    BY <2>1 DEF OthersKept, OtherClaimsKept, Owns
<1>3. CASE \/ Heartbeat(v, k)
           \/ \E i \in Items :
                \/ ClaimItem(v, k, i) \/ InvalidateFrom(v, k, i)
                \/ \E status \in Finished : CompleteItem(v, k, i, status)
  <2>1. /\ OthersKept(k) /\ OtherClaimsKept(v) /\ OwnsLive(v, k)
        /\ job'[k].status = job[k].status /\ job'[k].owner = job[k].owner
        /\ job'[k].attempts = job[k].attempts
    BY <1>0, <1>3, HeartbeatEffect, ClaimItemEffect, InvalidateEffect, CompleteItemEffect
       DEF OtherClaimsKept
  <2>2. claim'[w] = claim[w]
    BY <2>1 DEF OtherClaimsKept
  <2>3. j # k
    BY <1>0, <2>1, <2>2 DEF TokensUnique, OwnsLive, Owns
  <2> QED
    BY <2>1, <2>2, <2>3 DEF OthersKept, Owns
<1> QED
  BY <1>1, <1>2, <1>3 DEF Statement, Plain

(* What a step of one process can touch: its own row; and, by a statement  *)
(* of the queue or by dying, its own job.                                  *)
Stepped(v) ==
    Step(v) \/ EngineCancelled(v) \/ Raise(v) \/ Crash(v) \/ Beat(v) \/ BeatFails(v)

OtherBases(k) == \A j \in Jobs : j # k => basis'[j] = basis[j]

(* The two places where it discards results.                               *)
Discards(v, i) ==
    /\ InvalidateFrom(v, Batch(v), i)
    /\ \/ runner[v].pc = "changed" /\ First(i, moved[Batch(v)] \cap Items)
       \/ runner[v].pc = "stale" /\ First(i, runner[v].todo)

Completes(v) == runner[v].pc = "complete" /\ Complete(v, Batch(v))

Reach(v) ==
    \/ UNCHANGED <<vars, basis>>
    \/ Abandon(v) /\ UNCHANGED basis
    \/ /\ Batch(v) \in Jobs /\ OtherBases(Batch(v))
       /\ Plain(v, Batch(v)) \/ Completes(v) \/ \E i \in Items : Discards(v, i)

LEMMA StepReach ==
    ASSUME RunnersOK, WorldOK, NEW v \in Workers, Stepped(v)
    PROVE  /\ \A w \in Workers : w # v => runner'[w] = runner[w]
           /\ UNCHANGED <<moved, late>>
           /\ Reach(v)
<1>0. runner[v].pc # "off" => Batch(v) \in Jobs
  BY RowAt DEF Busy, Batch
<1>1. ASSUME NEW r, Becomes(v, r)
      PROVE  \A w \in Workers : w # v => runner'[w] = runner[w]
  BY <1>1 DEF Becomes, RunnersOK
<1>2. CASE CheckSource(v) \/ (\E i \in Items : Visit(v, i)) \/ Save(v) \/ EngineEnds(v)
           \/ Done(v) \/ EngineCancelled(v) \/ Raise(v) \/ BeatFails(v)
  <2>1. UNCHANGED <<vars, moved, late, basis>> /\ \E r : Becomes(v, r)
    BY <1>2 DEF CheckSource, Visit, Save, EngineEnds, Done, EngineCancelled, Raise, BeatFails,
       Goto
  <2> QED
    BY <1>1, <2>1 DEF Reach
<1>3. CASE ClaimBatch(v)
  <2>1. \E r : Becomes(v, r)
    BY <1>3 DEF ClaimBatch, Goto
  <2>2. UNCHANGED <<moved, late, basis>> /\ (UNCHANGED vars \/ Claim(v, Batch(v)))
    BY <1>3 DEF ClaimBatch
  <2>3. Batch(v) \in Jobs
    BY <1>0, <1>3 DEF ClaimBatch
  <2> QED
    BY <1>1, <2>1, <2>2, <2>3 DEF Reach, Plain, OtherBases
<1>4. CASE Changed(v)
  <2>1. (\E r : Becomes(v, r)) /\ UNCHANGED <<moved, late>>
    BY <1>4 DEF Changed, Goto
  <2>2. Batch(v) \in Jobs
    BY <1>0, <1>4 DEF Changed
  <2>3. ASSUME Requeued(Batch(v)) PROVE OtherBases(Batch(v))
    BY <2>2, <2>3 DEF Requeued, OtherBases, WorldOK
  <2>4. \/ UNCHANGED <<vars, basis>>
        \/ \E i \in Items : Discards(v, i) /\ Requeued(Batch(v))
    BY <1>4 DEF Changed, Discards
  <2>5. ASSUME NEW i \in Items, Discards(v, i) /\ Requeued(Batch(v))
        PROVE  Reach(v)
    BY <2>2, <2>3, <2>5 DEF Reach
  <2> QED
    BY <1>1, <2>1, <2>4, <2>5 DEF Reach
<1>5. CASE AbortBatch(v) \/ CompleteBatch(v)
  <2>1. (\E r : Becomes(v, r)) /\ UNCHANGED <<moved, late, basis>>
    BY <1>5 DEF AbortBatch, CompleteBatch, Goto
  <2>2. Batch(v) \in Jobs
    BY <1>0, <1>5 DEF AbortBatch, CompleteBatch
  <2>3. UNCHANGED vars \/ Abort(v, Batch(v)) \/ Completes(v)
    BY <1>5 DEF AbortBatch, CompleteBatch, Completes
  <2> QED
    BY <1>1, <2>1, <2>2, <2>3 DEF Reach, Plain, OtherBases
<1>6. CASE FailBatch(v)
  <2>1. (\E r : Becomes(v, r)) /\ UNCHANGED <<moved, late, basis>>
    BY <1>6 DEF FailBatch, Goto
  <2>2. Batch(v) \in Jobs
    BY <1>0, <1>6 DEF FailBatch
  <2>3. UNCHANGED vars \/ Fail(v, Batch(v), 0)
    BY <1>6 DEF FailBatch
  <2>4. 0 \in 0 .. RetryTicks
    BY BoundsAssumption
  <2> QED
    BY <1>1, <2>1, <2>2, <2>3, <2>4 DEF Reach, Plain, OtherBases
<1>7. CASE Again(v) \/ Crash(v)
  <2>1. (\E r : Becomes(v, r)) /\ UNCHANGED <<moved, late, basis>>
    BY <1>7 DEF Again, Crash
  <2>2. UNCHANGED vars \/ Abandon(v)
    BY <1>7 DEF Again, Crash
  <2> QED
    BY <1>1, <2>1, <2>2 DEF Reach
<1>8. CASE Take(v)
  <2>1. (\E r : Becomes(v, r)) /\ UNCHANGED <<moved, late, basis>>
    BY <1>8 DEF Take, Goto
  <2>2. Batch(v) \in Jobs
    BY <1>0, <1>8 DEF Take
  <2>3. UNCHANGED vars \/ \E i \in Items : ClaimItem(v, Batch(v), i)
    BY <1>8 DEF Take
  <2> QED
    BY <1>1, <2>1, <2>2, <2>3 DEF Reach, Plain, OtherBases
<1>9. CASE Record(v)
  <2>1. (\E r : Becomes(v, r)) /\ UNCHANGED <<moved, late>>
    BY <1>9 DEF Record, Goto
  <2>2. Batch(v) \in Jobs /\ runner[v].result \in Finished
    BY <1>0, <1>9, RowAt DEF Record, Busy, Fitted, Outcomes, Finished, Good
  <2>3. \/ UNCHANGED <<vars, basis>>
        \/ \E i \in Items :
             /\ CompleteItem(v, Batch(v), i, runner[v].result)
             /\ basis' = [basis EXCEPT ![Batch(v)][i] =
                            IF runner[v].result \in Good THEN Earlier(Batch(v), i) ELSE {}]
    BY <1>9 DEF Record
  <2>4. ASSUME NEW i \in Items, NEW b, basis' = [basis EXCEPT ![Batch(v)][i] = b]
        PROVE  OtherBases(Batch(v))
    BY <2>2, <2>4 DEF OtherBases, WorldOK
  <2> QED
    BY <1>1, <2>1, <2>2, <2>3, <2>4 DEF Reach, Plain
<1>10. CASE Restart(v)
  <2>1. (\E r : Becomes(v, r)) /\ UNCHANGED <<moved, late>>
    BY <1>10 DEF Restart, Goto
  <2>2. Batch(v) \in Jobs
    BY <1>0, <1>10 DEF Restart
  <2>3. \/ UNCHANGED <<vars, basis>>
        \/ \E i \in Items : Discards(v, i) /\ Requeued(Batch(v))
    BY <1>10 DEF Restart, Discards
  <2>4. ASSUME Requeued(Batch(v)) PROVE OtherBases(Batch(v))
    BY <2>2, <2>4 DEF Requeued, OtherBases, WorldOK
  <2> QED
    BY <1>1, <2>1, <2>2, <2>3, <2>4 DEF Reach
<1>11. CASE Beat(v)
  <2>1. Batch(v) \in Jobs
    BY <1>0, <1>11 DEF Beat, Running
  <2> QED
    BY <1>11, <2>1 DEF Beat, batchVars, Reach, Plain, OtherBases
<1> QED
  BY <1>2, <1>3, <1>4, <1>5, <1>6, <1>7, <1>8, <1>9, <1>10, <1>11 DEF Stepped, Step

(* What one process does, leaves the others where they are.                *)
LEMMA OthersStand ==
    ASSUME IInv, RunnersOK, EngineInv, NEW v \in Workers, Stepped(v),
           NEW w \in Workers, w # v
    PROVE  OwnerOK(w)' /\ RoundOK(runner[w])'
<1>1. runner'[w] = runner[w] /\ late' = late /\ Reach(v)
  BY StepReach DEF EngineInv
<1>2. OwnerOK(w) /\ RoundOK(runner[w])
  BY DEF EngineInv
<1>3. ASSUME NEW j \in Jobs PROVE Undisturbed(w, j)
  <2>1. CASE UNCHANGED <<vars, basis>>
    BY <1>1, <2>1 DEF Undisturbed, Owns, vars
  <2>2. CASE Abandon(v) /\ UNCHANGED basis
    <3>1. TypeOK
      BY DEF IInv
    <3>2. job' = job /\ item' = item /\ claim'[w] = claim[w]
      BY <2>2, <3>1, AbandonEffect DEF OtherClaimsKept
    <3> QED
      BY <1>1, <2>2, <3>2 DEF Undisturbed, Owns
  <2>3. CASE /\ Batch(v) \in Jobs /\ OtherBases(Batch(v))
             /\ Plain(v, Batch(v)) \/ Completes(v) \/ \E i \in Items : Discards(v, i)
    <3>0. Statement(v, Batch(v))
      BY <2>3 DEF Statement, Completes, Discards
    <3>1. ASSUME Owns(w, j)'
          PROVE  j # Batch(v) /\ Owns(w, j) /\ item'[j] = item[j]
      BY <2>3, <3>0, <3>1, OthersOut
    <3> QED
      BY <1>1, <2>3, <3>1 DEF Undisturbed, OtherBases
  <2> QED
    BY <1>1, <2>1, <2>2, <2>3 DEF Reach
<1>4. OwnerOK(w)'
  BY <1>1, <1>2, <1>3, OwnerStands
<1> QED
  BY <1>1, <1>2, <1>4 DEF RoundOK

(* Nor do the pages, the clock and the world.                              *)
LEMMA PagesStand ==
    ASSUME IInv, RunnersOK, EngineInv, NEW w \in Workers,
           \/ PassTime
           \/ \E j \in Jobs : \/ SubmitBatch(j) \/ CancelBatch(j)
                              \/ \E i \in Sources : SourceMoves(j, i)
                              \/ \E v \in Workers : Start(v, j)
    PROVE  OwnerOK(w)' /\ RoundOK(runner[w])'
<1>0. TypeOK /\ OwnerOK(w) /\ RoundOK(runner[w])
  BY DEF IInv, EngineInv
<1>1. ASSUME runner'[w] = runner[w], \A j \in Jobs : Undisturbed(w, j)
      PROVE  OwnerOK(w)' /\ RoundOK(runner[w])'
  BY <1>0, <1>1, OwnerStands DEF RoundOK
<1>2. CASE PassTime
  <2>1. runner'[w] = runner[w] /\ late' = late /\ basis' = basis /\ Tick
    BY <1>2 DEF PassTime, batchVars
  <2>2. \A j \in Jobs : Undisturbed(w, j)
    BY <1>0, <2>1, TickEffect DEF Undisturbed, Owns
  <2> QED
    BY <1>1, <2>1, <2>2
<1>3. ASSUME NEW k \in Jobs, SubmitBatch(k) \/ CancelBatch(k)
      PROVE  OwnerOK(w)' /\ RoundOK(runner[w])'
  <2>1. runner'[w] = runner[w] /\ late' = late /\ basis' = basis
    BY <1>3 DEF SubmitBatch, CancelBatch, batchVars
  <2>2. /\ OthersKept(k) /\ claim' = claim
        /\ \/ job'[k] = job[k] /\ item'[k] = item[k]
           \/ job'[k].status # "running"
    BY <1>0, <1>3, SubmitEffect, CancelEffect DEF SubmitBatch, CancelBatch
  <2>3. \A j \in Jobs : Undisturbed(w, j)
    BY <2>1, <2>2 DEF Undisturbed, Owns, OthersKept
  <2> QED
    BY <1>1, <2>1, <2>3
<1>4. ASSUME NEW k \in Jobs, NEW i \in Sources, SourceMoves(k, i)
      PROVE  OwnerOK(w)' /\ RoundOK(runner[w])'
  <2>1. /\ runner'[w] = runner[w] /\ UNCHANGED vars /\ basis' = basis
        /\ late' = IF NoItemOpen(k) THEN late ELSE late \cup {k}
    BY <1>4 DEF SourceMoves
  <2>2. \A j \in Jobs : Undisturbed(w, j)
    BY <2>1 DEF Undisturbed, Owns, vars
  <2> QED
    BY <1>1, <2>1, <2>2
<1>5. ASSUME NEW k \in Jobs, NEW v \in Workers, Start(v, k)
      PROVE  OwnerOK(w)' /\ RoundOK(runner[w])'
  <2>1. /\ Becomes(v, Process("claim", k, 1))
        /\ UNCHANGED vars /\ late' = late /\ basis' = basis
    BY <1>5 DEF Start
  <2>2. CASE w = v
    <3>1. runner'[w] = Process("claim", k, 1)
      BY <2>1, <2>2 DEF Becomes, RunnersOK
    <3>2. runner'[w].pc = "claim" /\ runner'[w].round = 0
      BY <3>1 DEF Process
    <3> QED
      BY <3>2, AwayFromItems DEF Visiting, RoundOK
  <2>3. CASE w # v
    <3>1. runner'[w] = runner[w]
      BY <2>1, <2>3 DEF Becomes, RunnersOK
    <3>2. \A j \in Jobs : Undisturbed(w, j)
      BY <2>1 DEF Undisturbed, Owns, vars
    <3> QED
      BY <1>1, <3>1, <3>2
  <2> QED
    BY <2>2, <2>3
<1> QED
  BY <1>2, <1>3, <1>4, <1>5

-----------------------------------------------------------------------------
(* The steps a process takes itself.                                       *)
LEMMA GotoFields ==
    ASSUME RunnersOK, NEW w \in Workers, NEW pc, Goto(w, pc)
    PROVE  /\ runner'[w].pc = pc /\ runner'[w].job = runner[w].job
           /\ runner'[w].round = runner[w].round /\ runner'[w].todo = runner[w].todo
<1>1. runner'[w] = [runner[w] EXCEPT !.pc = pc]
  BY DEF Goto, Becomes, RunnersOK
<1>2. runner[w] \in Runners
  BY RowAt
<1> QED
  BY <1>1, <1>2 DEF Runners

(* It leaves the expiries.                                                 *)
LEMMA Leaves ==
    ASSUME RunnersOK, NEW w \in Workers, RoundOK(runner[w]),
           NEW pc \in {"changed", "abort", "again", "failing"}, Goto(w, pc)
    PROVE  OwnerOK(w)' /\ RoundOK(runner[w])'
<1>1. runner'[w].pc = pc /\ runner'[w].round = runner[w].round
  BY GotoFields
<1>2. runner'[w].pc \notin Visiting \cup {"recheck", "complete"} /\ runner'[w].pc # "check"
  BY <1>1 DEF Visiting
<1> QED
  BY <1>1, <1>2, AwayFromItems DEF RoundOK

(* It moves on among them, and touches nothing of them.                    *)
LEMMA MovesOn ==
    ASSUME UNCHANGED <<vars, late, basis>>, NEW w \in Workers, NEW r, NEW j,
           runner'[w] = r, r.job = j, OwnerAt(r, w, j), r.round <= 1, r.pc # "check"
    PROVE  OwnerOK(w)' /\ RoundOK(runner[w])'
<1>1. OwnerAt(r, w, j)'
  BY DEF OwnerAt, VisitedOK, SecondRoundOK, FreshIn, Stale, Earlier, Owns, First, NoItemOpen,
     vars
<1>2. OwnerOK(w)'
  BY <1>1, OwnerRow
<1> QED
  BY <1>2 DEF RoundOK

(* What the invariant says of a process that runs.                         *)
LEMMA OwnerNow ==
    ASSUME RunnersOK, EngineInv, NEW w \in Workers, runner[w].pc # "off"
    PROVE  /\ Batch(w) \in Jobs /\ OwnerAt(runner[w], w, Batch(w))
           /\ RoundOK(runner[w]) /\ runner[w].round \in Nat
           /\ runner[w].todo \subseteq Items /\ Batch(w) = runner[w].job
BY RowAt, SomeItems DEF EngineInv, OwnerOK, Busy, Batch

LEMMA ItemOrder ==
    /\ Items \subseteq Nat
    /\ Good \subseteq Outcomes /\ Outcomes \ Good = {"failed"}
    /\ "queued" \notin Outcomes /\ "running" \notin Outcomes
BY ItemsAssumption DEF Good, Outcomes

LEMMA CheckStands ==
    ASSUME RunnersOK, EngineInv, NEW w \in Workers, CheckSource(w)
    PROVE  OwnerOK(w)' /\ RoundOK(runner[w])'
<1>1. runner[w].pc \in {"check", "recheck"} /\ UNCHANGED <<vars, moved, late, basis>>
  BY DEF CheckSource
<1>2. PICK j \in Jobs : j = Batch(w)
  BY <1>1, OwnerNow
<1>3. /\ OwnerAt(runner[w], w, j) /\ RoundOK(runner[w]) /\ runner[w].round \in Nat
      /\ runner[w].job = j /\ runner[w] \in Runners
  BY <1>1, <1>2, OwnerNow, RowAt
<1>4. CASE \E pc \in {"again", "changed"} : Goto(w, pc)
  BY <1>3, <1>4, Leaves
<1>5. CASE runner[w].pc = "check"
           /\ Becomes(w, [runner[w] EXCEPT !.pc = "engine", !.todo = Items])
  <2>1. PICK r : r = [runner[w] EXCEPT !.pc = "engine", !.todo = Items]
    OBVIOUS
  <2>2. /\ r.pc = "engine" /\ r.todo = Items /\ r.job = j /\ r.round = runner[w].round
        /\ runner'[w] = r
    BY <1>3, <1>5, <2>1 DEF Runners, Becomes, RunnersOK
  <2>3. r.round = 0
    BY <1>3, <1>5, <2>2 DEF RoundOK
  <2>4. VisitedOK(r, j)
    BY <2>2 DEF VisitedOK, FreshIn
  <2>5. OwnerAt(r, w, j)
    BY <2>2, <2>3, <2>4 DEF OwnerAt
  <2> QED
    BY <1>1, <2>2, <2>3, <2>5, MovesOn
<1>6. CASE runner[w].pc = "recheck" /\ Alive(w) /\ Unchanged(Batch(w)) /\ Goto(w, "complete")
  <2>1. PICK r : r = runner'[w]
    OBVIOUS
  <2>2. r.pc = "complete" /\ r.job = j /\ r.round = runner[w].round
    BY <1>3, <1>6, <2>1, GotoFields
  <2>3. Owns(w, j) /\ j \notin late
    BY <1>2, <1>6 DEF Alive, Unchanged, EngineInv, WorldOK
  <2>4. NoItemOpen(j)
    BY <1>3, <1>6, <2>3 DEF OwnerAt
  <2>5. OwnerAt(r, w, j)
    BY <2>2, <2>3, <2>4 DEF OwnerAt, Visiting
  <2> QED
    BY <1>1, <1>3, <2>1, <2>2, <2>5, MovesOn DEF RoundOK
<1> QED
  BY <1>1, <1>4, <1>5, <1>6 DEF CheckSource

LEMMA VisitStands ==
    ASSUME RunnersOK, EngineInv, NEW w \in Workers, NEW i \in Items, Visit(w, i)
    PROVE  OwnerOK(w)' /\ RoundOK(runner[w])'
<1>1. /\ runner[w].pc = "engine" /\ First(i, runner[w].todo)
      /\ UNCHANGED <<vars, moved, late, basis>>
  BY DEF Visit
<1>2. PICK j \in Jobs : j = Batch(w)
  BY <1>1, OwnerNow
<1>3. /\ OwnerAt(runner[w], w, j) /\ runner[w].round <= 1 /\ runner[w].round \in Nat
      /\ runner[w].job = j /\ runner[w] \in Runners /\ runner[w].todo \subseteq Items
  BY <1>1, <1>2, OwnerNow, RowAt DEF RoundOK
<1>4. Owns(w, j) => /\ VisitedOK(runner[w], j)
                    /\ runner[w].round # 0 => SecondRoundOK(j)
  BY <1>1, <1>3 DEF OwnerAt, Visiting
<1>5. ASSUME NEW r, runner'[w] = r, r.job = j, r.round = runner[w].round, r.pc \in Visiting,
             r.pc \in {"stale", "done"} => OwnerAt(r, w, j),
             r.todo = runner[w].todo
             \/ (Owns(w, j) => VisitedOK(r, j))
      PROVE  OwnerOK(w)' /\ RoundOK(runner[w])'
  <2>1. OwnerAt(r, w, j)
    BY <1>4, <1>5 DEF OwnerAt, VisitedOK, Visiting
  <2>2. r.pc # "check"
    BY <1>5 DEF Visiting
  <2> QED
    BY <1>1, <1>3, <1>5, <2>1, <2>2, MovesOn
<1>6. ASSUME NEW result \in Outcomes,
             Becomes(w, [runner[w] EXCEPT !.pc = "save", !.result = result])
      PROVE  OwnerOK(w)' /\ RoundOK(runner[w])'
  <2>1. PICK r : r = [runner[w] EXCEPT !.pc = "save", !.result = result]
    OBVIOUS
  <2>2. /\ r.pc = "save" /\ r.todo = runner[w].todo /\ r.job = j
        /\ r.round = runner[w].round /\ runner'[w] = r
    BY <1>3, <1>6, <2>1 DEF Runners, Becomes, RunnersOK
  <2> QED
    BY <1>5, <2>2 DEF Visiting
<1>7. CASE item[j][i] \in Good /\ Stale(j, i) /\ Goto(w, "stale")
  <2>1. PICK r : r = runner'[w]
    OBVIOUS
  <2>2. /\ r.pc = "stale" /\ r.job = j /\ r.round = runner[w].round
        /\ r.todo = runner[w].todo
    BY <1>3, <1>7, <2>1, GotoFields
  <2>3. ASSUME Owns(w, j) PROVE r.round = 0
    <3>1. ~SecondRoundOK(j)
      BY <1>7 DEF SecondRoundOK, FreshIn
    <3> QED
      BY <1>4, <2>2, <2>3, <3>1
  <2>4. VisitedOK(runner[w], j) => VisitedOK(r, j)
    BY <2>2 DEF VisitedOK
  <2>5. OwnerAt(r, w, j)
    BY <1>1, <1>4, <1>7, <2>2, <2>3, <2>4 DEF OwnerAt
  <2> QED
    BY <1>5, <2>1, <2>2, <2>5 DEF Visiting
<1>8. CASE item[j][i] \in Good /\ ~Stale(j, i)
           /\ Becomes(w, [runner[w] EXCEPT !.todo = @ \ {i}])
  <2>1. PICK r : r = [runner[w] EXCEPT !.todo = @ \ {i}]
    OBVIOUS
  <2>2. /\ r.pc = "engine" /\ r.todo = runner[w].todo \ {i} /\ r.job = j
        /\ r.round = runner[w].round /\ runner'[w] = r
    BY <1>1, <1>3, <1>8, <2>1 DEF Runners, Becomes, RunnersOK
  <2>3. ASSUME Owns(w, j) PROVE VisitedOK(r, j)
    <3>1. VisitedOK(runner[w], j)
      BY <1>4, <2>3
    <3>2. \A m \in r.todo : i < m
      BY <1>1, <1>3, <2>2, ItemOrder DEF First
    <3>3. \A k \in Items \ r.todo : k = i \/ k \in Items \ runner[w].todo
      BY <2>2
    <3>4. item[j][i] \in Outcomes
      BY <1>8, ItemOrder
    <3> QED
      BY <1>8, <2>2, <3>1, <3>2, <3>3, <3>4 DEF VisitedOK, FreshIn
  <2> QED
    BY <1>5, <2>2, <2>3 DEF Visiting
<1> QED
  BY <1>2, <1>6, <1>7, <1>8 DEF Visit

LEMMA SaveStands ==
    ASSUME RunnersOK, EngineInv, NEW w \in Workers, Save(w) \/ EngineEnds(w) \/ Done(w)
    PROVE  OwnerOK(w)' /\ RoundOK(runner[w])'
<1>1. /\ runner[w].pc \in Visiting
      /\ UNCHANGED <<vars, moved, late, basis>>
  BY DEF Save, EngineEnds, Done, Visiting
<1>2. PICK j \in Jobs : j = Batch(w)
  BY <1>1, OwnerNow DEF Visiting
<1>3. /\ OwnerAt(runner[w], w, j) /\ RoundOK(runner[w]) /\ runner[w].job = j
      /\ runner[w].todo \subseteq Items
  BY <1>1, <1>2, OwnerNow DEF Visiting
<1>4. Owns(w, j) => /\ VisitedOK(runner[w], j)
                    /\ runner[w].round # 0 => SecondRoundOK(j)
  BY <1>1, <1>3 DEF OwnerAt
<1>5. PICK r : r = runner'[w]
  OBVIOUS
<1>6. ASSUME NEW pc, Goto(w, pc)
      PROVE  /\ r.pc = pc /\ r.job = j /\ r.round = runner[w].round
             /\ r.todo = runner[w].todo
  BY <1>3, <1>5, <1>6, GotoFields
<1>7. CASE \E pc \in {"again", "failing"} : Goto(w, pc)
  BY <1>3, <1>7, Leaves
<1>8. CASE Goto(w, "take")
  <2>1. VisitedOK(runner[w], j) => VisitedOK(r, j)
    BY <1>6, <1>8 DEF VisitedOK
  <2>2. OwnerAt(r, w, j)
    BY <1>4, <1>6, <1>8, <2>1 DEF OwnerAt
  <2> QED
    BY <1>1, <1>3, <1>5, <1>6, <1>8, <2>2, MovesOn DEF RoundOK
<1>9. CASE runner[w].todo = {} /\ Goto(w, "done")
  <2>1. VisitedOK(runner[w], j) => VisitedOK(r, j)
    BY <1>6, <1>9 DEF VisitedOK
  <2>2. OwnerAt(r, w, j)
    BY <1>4, <1>6, <1>9, <2>1 DEF OwnerAt
  <2> QED
    BY <1>1, <1>3, <1>5, <1>6, <1>9, <2>2, MovesOn DEF RoundOK
<1>10. CASE /\ runner[w].pc = "done" /\ Goto(w, "recheck")
            /\ ~ \E i \in Items : item[Batch(w)][i] = "failed"
  <2>1. ASSUME Owns(w, j) PROVE NoItemOpen(j)
    <3>1. runner[w].todo = {}
      BY <1>3, <1>10, <2>1 DEF OwnerAt
    <3>2. \A i \in Items : item[j][i] \in Outcomes
      BY <1>4, <2>1, <3>1 DEF VisitedOK
    <3> QED
      BY <1>2, <1>10, <3>2, ItemOrder DEF NoItemOpen
  <2>2. OwnerAt(r, w, j)
    BY <1>6, <1>10, <2>1 DEF OwnerAt, Visiting
  <2> QED
    BY <1>1, <1>3, <1>5, <1>6, <1>10, <2>2, MovesOn DEF RoundOK
<1> QED
  BY <1>7, <1>8, <1>9, <1>10 DEF Save, EngineEnds, Done

(* A statement about an item leaves the lease with its owner.              *)
LEMMA StillOwned ==
    ASSUME TypeOK, NEW w \in Workers, NEW j \in Jobs,
           \E i \in Items : \/ ClaimItem(w, j, i) \/ InvalidateFrom(w, j, i)
                            \/ \E s \in Finished : CompleteItem(w, j, i, s)
    PROVE  Owns(w, j)
BY DEF ClaimItem, InvalidateFrom, CompleteItem, OwnsLive

LEMMA TakeStands ==
    ASSUME IInv, RunnersOK, EngineInv, NEW w \in Workers, Take(w)
    PROVE  OwnerOK(w)' /\ RoundOK(runner[w])'
<1>1. runner[w].pc = "take" /\ UNCHANGED <<moved, late, basis>>
  BY DEF Take
<1>2. PICK j \in Jobs : j = Batch(w)
  BY <1>1, OwnerNow
<1>3. /\ OwnerAt(runner[w], w, j) /\ RoundOK(runner[w]) /\ runner[w].job = j
      /\ runner[w].todo \subseteq Items /\ TypeOK
  BY <1>1, <1>2, OwnerNow DEF IInv
<1>4. CASE Goto(w, "failing")
  BY <1>3, <1>4, Leaves
<1>5. ASSUME NEW i \in Items, ClaimItem(w, Batch(w), i), Goto(w, "record")
      PROVE  OwnerOK(w)' /\ RoundOK(runner[w])'
  <2>1. PICK r : r = runner'[w]
    OBVIOUS
  <2>2. /\ r.pc = "record" /\ r.job = j /\ r.round = runner[w].round
        /\ r.todo = runner[w].todo
    BY <1>3, <1>5, <2>1, GotoFields
  <2>3. /\ item[j][i] = "queued" /\ Owns(w, j) /\ basis' = basis
        /\ \A k \in Items : item'[j][k] = IF k = i THEN "running" ELSE item[j][k]
    BY <1>1, <1>2, <1>3, <1>5, ClaimItemEffect DEF OwnsLive
  <2>4. VisitedOK(runner[w], j) /\ (runner[w].round # 0 => SecondRoundOK(j))
    BY <1>1, <1>3, <2>3 DEF OwnerAt, Visiting
  <2>5. \A k \in Items : /\ item'[j][k] \in Good <=> item[j][k] \in Good
                         /\ item'[j][k] \in Outcomes <=> item[j][k] \in Outcomes
    BY <2>3, ItemOrder
  <2>6. \A k \in Items : Stale(j, k) <=> Stale(j, k)'
    BY <2>3, <2>5 DEF Stale, Earlier
  <2>7. VisitedOK(r, j)'
    BY <2>2, <2>4, <2>5, <2>6 DEF VisitedOK, FreshIn
  <2>8. SecondRoundOK(j) => SecondRoundOK(j)'
    BY <2>5, <2>6 DEF SecondRoundOK, FreshIn
  <2>9. OwnerAt(r, w, j)'
    BY <2>2, <2>4, <2>7, <2>8 DEF OwnerAt
  <2>10. OwnerOK(w)'
    BY <2>1, <2>2, <2>9, OwnerRow
  <2> QED
    BY <1>3, <2>1, <2>2, <2>10 DEF RoundOK
<1> QED
  BY <1>4, <1>5 DEF Take

LEMMA RecordStands ==
    ASSUME IInv, RunnersOK, EngineInv, NEW w \in Workers, Record(w)
    PROVE  OwnerOK(w)' /\ RoundOK(runner[w])'
<1>1. runner[w].pc = "record" /\ UNCHANGED <<moved, late>>
  BY DEF Record
<1>2. PICK j \in Jobs : j = Batch(w)
  BY <1>1, OwnerNow
<1>3. /\ OwnerAt(runner[w], w, j) /\ RoundOK(runner[w]) /\ runner[w].job = j
      /\ runner[w].todo \subseteq Items /\ TypeOK /\ runner[w] \in Runners
      /\ runner[w].result \in Outcomes
  BY <1>1, <1>2, OwnerNow, RowAt DEF IInv, Busy, Fitted
<1>4. CASE Goto(w, "again")
  BY <1>3, <1>4, Leaves
<1>5. ASSUME NEW i \in Items, First(i, runner[w].todo),
             CompleteItem(w, Batch(w), i, runner[w].result),
             basis' = [basis EXCEPT ![Batch(w)][i] =
                         IF runner[w].result \in Good THEN Earlier(Batch(w), i) ELSE {}],
             Becomes(w, [runner[w] EXCEPT !.pc = "engine", !.todo = @ \ {i},
                                          !.result = "none"])
      PROVE  OwnerOK(w)' /\ RoundOK(runner[w])'
  <2>1. PICK r : r = [runner[w] EXCEPT !.pc = "engine", !.todo = @ \ {i}, !.result = "none"]
    OBVIOUS
  <2>2. /\ r.pc = "engine" /\ r.job = j /\ r.round = runner[w].round
        /\ r.todo = runner[w].todo \ {i} /\ runner'[w] = r
    BY <1>3, <1>5, <2>1 DEF Runners, Becomes, RunnersOK
  <2>3. PICK res \in Outcomes : res = runner[w].result
    BY <1>3
  <2>4. res \in Finished
    BY DEF Outcomes, Finished, Good
  <2>5. /\ item[j][i] = "running" /\ Owns(w, j)
        /\ \A k \in Items : item'[j][k] = IF k = i THEN res ELSE item[j][k]
    BY <1>2, <1>3, <1>5, <2>3, <2>4, CompleteItemEffect DEF OwnsLive
  <2>6. /\ basis'[j][i] = IF res \in Good THEN Earlier(j, i) ELSE {}
        /\ \A k \in Items : k # i => basis'[j][k] = basis[j][k]
    BY <1>2, <1>5, <2>3 DEF EngineInv, WorldOK
  <2>7. VisitedOK(runner[w], j) /\ (runner[w].round # 0 => SecondRoundOK(j))
    BY <1>1, <1>3, <2>5 DEF OwnerAt, Visiting
  <2>8. i \in runner[w].todo /\ \A m \in runner[w].todo \ {i} : i < m
    BY <1>3, <1>5, ItemOrder DEF First
  <2>9. \A k \in Items : k <= i => Earlier(j, k)' = Earlier(j, k)
    <3>1. SUFFICES ASSUME NEW k \in Items, k <= i PROVE Earlier(j, k)' = Earlier(j, k)
      OBVIOUS
    <3>2. \A m \in Items : m < k => m # i
      BY <3>1, ItemOrder
    <3> QED
      BY <2>5, <3>2 DEF Earlier
  <2>10. \A k \in Items \ runner[w].todo : k < i /\ k # i
    BY <2>7, <2>8, ItemOrder DEF VisitedOK
  <2>11. item'[j][i] \in Good => ~Stale(j, i)'
    BY <2>5, <2>6, <2>9, ItemOrder DEF Stale
  <2>12. \A k \in Items : k < i => (Stale(j, k)' <=> Stale(j, k))
    BY <2>6, <2>9, ItemOrder DEF Stale
  <2>13. \A k \in Items \ r.todo : k = i \/ k \in Items \ runner[w].todo
    BY <2>2
  <2>14. VisitedOK(r, j)'
    BY <2>2, <2>5, <2>7, <2>8, <2>10, <2>11, <2>12, <2>13 DEF VisitedOK, FreshIn
  <2>15. ASSUME SecondRoundOK(j) PROVE SecondRoundOK(j)'
    <3>1. \A m \in Items : i < m => item'[j][m] \notin Good
      BY <2>5, <2>15, ItemOrder DEF SecondRoundOK
    <3>2. \A k \in Items : k = i \/ k < i \/ i < k
      BY ItemOrder
    <3>3. FreshIn(Items, j)'
      BY <2>5, <2>11, <2>12, <2>15, <3>1, <3>2 DEF SecondRoundOK, FreshIn
    <3>4. ASSUME NEW q \in Items, NEW m \in Items, item'[j][q] \notin Outcomes, q < m
          PROVE  item'[j][m] \notin Good
      <4>1. q # i /\ item[j][q] \notin Outcomes
        BY <2>5, <3>4
      <4>2. m # i
        <5>1. q \in runner[w].todo
          BY <2>7, <4>1 DEF VisitedOK
        <5>2. i < q
          BY <2>8, <4>1, <5>1
        <5> QED
          BY <3>4, <5>2, ItemOrder
      <4> QED
        BY <2>5, <2>15, <3>4, <4>1, <4>2 DEF SecondRoundOK
    <3> QED
      BY <3>3, <3>4 DEF SecondRoundOK
  <2>16. OwnerAt(r, w, j)'
    BY <2>2, <2>7, <2>14, <2>15 DEF OwnerAt
  <2>17. OwnerOK(w)'
    BY <2>2, <2>16, OwnerRow
  <2> QED
    BY <1>3, <2>2, <2>17 DEF RoundOK
<1> QED
  BY <1>4, <1>5 DEF Record

LEMMA RestartStands ==
    ASSUME IInv, RunnersOK, EngineInv, NEW w \in Workers, Restart(w)
    PROVE  OwnerOK(w)' /\ RoundOK(runner[w])'
<1>1. runner[w].pc = "stale" /\ UNCHANGED <<moved, late>>
  BY DEF Restart
<1>2. PICK j \in Jobs : j = Batch(w)
  BY <1>1, OwnerNow
<1>3. /\ OwnerAt(runner[w], w, j) /\ RoundOK(runner[w]) /\ runner[w].job = j
      /\ runner[w].todo \subseteq Items /\ TypeOK /\ runner[w] \in Runners
  BY <1>1, <1>2, OwnerNow, RowAt DEF IInv
<1>4. CASE Goto(w, "again")
  BY <1>3, <1>4, Leaves
<1>5. ASSUME NEW i \in Items, First(i, runner[w].todo), InvalidateFrom(w, Batch(w), i),
             Requeued(Batch(w)), NEW pc \in {"engine", "failing"},
             Becomes(w, [runner[w] EXCEPT !.round = @ + 1, !.todo = Items, !.pc = pc])
      PROVE  OwnerOK(w)' /\ RoundOK(runner[w])'
  <2>1. PICK r : r = [runner[w] EXCEPT !.round = @ + 1, !.todo = Items, !.pc = pc]
    OBVIOUS
  <2>2. /\ r.pc = pc /\ r.job = j /\ r.round = runner[w].round + 1
        /\ r.todo = Items /\ runner'[w] = r
    BY <1>3, <1>5, <2>1 DEF Runners, Becomes, RunnersOK
  <2>3. /\ Owns(w, j)
        /\ \A k \in Items : item'[j][k] =
             IF k \in StaleItems(j, i) THEN "queued" ELSE item[j][k]
    BY <1>2, <1>3, <1>5, InvalidateEffect DEF OwnsLive
  <2>4. \A k \in Items : item'[j][k] \in Good => basis'[j][k] = basis[j][k]
    BY <1>2, <1>5 DEF Requeued, EngineInv, WorldOK
  <2>5. VisitedOK(runner[w], j) /\ runner[w].round = 0
    BY <1>1, <1>3, <2>3 DEF OwnerAt, Visiting
  <2>6. \A k \in Items : k < i => k \in Items \ runner[w].todo
    BY <1>3, <1>5, ItemOrder DEF First
  <2>7. \A k \in Items : item'[j][k] \in Good => k < i /\ item[j][k] \in Good
    BY <2>3, ItemOrder DEF StaleItems
  <2>8. \A k \in Items : k < i => item'[j][k] = item[j][k]
    BY <2>3, ItemOrder DEF StaleItems
  <2>9. \A k \in Items : k < i => Earlier(j, k)' = Earlier(j, k)
    <3>1. \A k \in Items : k < i => \A m \in Items : m < k => m < i
      BY ItemOrder
    <3> QED
      BY <2>8, <3>1 DEF Earlier
  <2>10. FreshIn(Items, j)'
    BY <2>4, <2>5, <2>6, <2>7, <2>9 DEF VisitedOK, FreshIn, Stale
  <2>11. ASSUME NEW q \in Items, NEW m \in Items, item'[j][q] \notin Outcomes, q < m
         PROVE  item'[j][m] \notin Good
    <3>1. SUFFICES ASSUME item'[j][m] \in Good PROVE FALSE
      OBVIOUS
    <3>2. q < i
      BY <2>7, <2>11, <3>1, ItemOrder
    <3> QED
      BY <2>5, <2>6, <2>8, <2>11, <3>2 DEF VisitedOK
  <2>12. SecondRoundOK(j)'
    BY <2>10, <2>11 DEF SecondRoundOK
  <2>13. VisitedOK(r, j)'
    BY <2>2 DEF VisitedOK, FreshIn
  <2>14. OwnerAt(r, w, j)'
    BY <2>2, <2>12, <2>13 DEF OwnerAt
  <2>15. OwnerOK(w)'
    BY <2>2, <2>14, OwnerRow
  <2> QED
    BY <2>2, <2>5, <2>15 DEF RoundOK
<1> QED
  BY <1>4, <1>5 DEF Restart

LEMMA ClaimStands ==
    ASSUME RunnersOK, EngineInv, NEW w \in Workers, ClaimBatch(w)
    PROVE  OwnerOK(w)' /\ RoundOK(runner[w])'
<1>1. RoundOK(runner[w]) /\ runner[w] \in Runners
  BY RowAt DEF EngineInv
<1>2. CASE Goto(w, "again")
  BY <1>1, <1>2, Leaves
<1>3. CASE Becomes(w, [runner[w] EXCEPT !.pc = "check", !.round = 0,
                                        !.todo = {}, !.lost = FALSE])
  <2>1. runner'[w].pc = "check" /\ runner'[w].round = 0
    BY <1>1, <1>3 DEF Becomes, RunnersOK, Runners
  <2> QED
    BY <2>1, AwayFromItems DEF Visiting, RoundOK
<1> QED
  BY <1>2, <1>3 DEF ClaimBatch

LEMMA LeaveStands ==
    ASSUME RunnersOK, EngineInv, NEW w \in Workers,
           \/ Changed(w) \/ AbortBatch(w) \/ FailBatch(w) \/ EngineCancelled(w)
           \/ CompleteBatch(w) \/ Raise(w) \/ Again(w) \/ Crash(w)
    PROVE  OwnerOK(w)' /\ RoundOK(runner[w])'
<1>1. RoundOK(runner[w])
  BY DEF EngineInv
<1>2. CASE \/ Changed(w) \/ AbortBatch(w) \/ FailBatch(w) \/ EngineCancelled(w)
           \/ CompleteBatch(w) \/ Raise(w)
  <2>1. \E pc \in {"changed", "abort", "again", "failing"} : Goto(w, pc)
    BY <1>2 DEF Changed, AbortBatch, FailBatch, EngineCancelled, CompleteBatch, Raise
  <2> QED
    BY <1>1, <2>1, Leaves
<1>3. CASE Again(w) \/ Crash(w)
  <2>1. \E pc \in {"claim", "off"} : \E k, n : Becomes(w, Process(pc, k, n))
    BY <1>3 DEF Again, Crash, Off
  <2>2. PICK pc \in {"claim", "off"} : \E k, n : runner'[w] = Process(pc, k, n)
    BY <2>1 DEF Becomes, RunnersOK
  <2>3. runner'[w].pc = pc /\ runner'[w].round = 0
    BY <2>2 DEF Process
  <2> QED
    BY <2>3, AwayFromItems DEF Visiting, RoundOK
<1> QED
  BY <1>2, <1>3

LEMMA BeatStands ==
    ASSUME IInv, RunnersOK, EngineInv, NEW w \in Workers, Beat(w) \/ BeatFails(w)
    PROVE  OwnerOK(w)' /\ RoundOK(runner[w])'
<1>1. runner[w].pc # "off"
  BY DEF Beat, BeatFails, Running
<1>2. PICK j \in Jobs : j = Batch(w)
  BY <1>1, OwnerNow
<1>3. /\ OwnerAt(runner[w], w, j) /\ OwnerOK(w) /\ RoundOK(runner[w]) /\ runner[w].job = j
      /\ runner[w] \in Runners /\ TypeOK
  BY <1>1, <1>2, OwnerNow, RowAt DEF IInv, EngineInv
<1>4. CASE Beat(w)
  <2>1. Heartbeat(w, j) /\ runner' = runner /\ late' = late /\ basis' = basis
    BY <1>2, <1>4 DEF Beat, batchVars
  <2>2. /\ OthersKept(j) /\ item' = item
        /\ job'[j].status = job[j].status /\ job'[j].owner = job[j].owner
        /\ job'[j].attempts = job[j].attempts
        /\ claim'[w].job = claim[w].job /\ claim'[w].token = claim[w].token
    BY <1>3, <2>1, HeartbeatEffect
  <2>3. ASSUME NEW k \in Jobs PROVE Undisturbed(w, k)
    BY <2>1, <2>2 DEF Undisturbed, Owns, OthersKept
  <2>4. OwnerOK(w)'
    BY <1>3, <2>1, <2>3, OwnerStands
  <2> QED
    BY <1>3, <2>1, <2>4 DEF RoundOK
<1>5. CASE BeatFails(w)
  <2>1. PICK r : r = [runner[w] EXCEPT !.lost = TRUE]
    OBVIOUS
  <2>2. /\ r.pc = runner[w].pc /\ r.job = j /\ r.round = runner[w].round
        /\ r.todo = runner[w].todo /\ runner'[w] = r
    BY <1>3, <1>5, <2>1 DEF Runners, BeatFails, Becomes, RunnersOK
  <2>3. OwnerAt(r, w, j)
    BY <1>3, <2>2 DEF OwnerAt, VisitedOK
  <2>4. UNCHANGED <<vars, late, basis>>
    BY <1>5 DEF BeatFails
  <2>5. OwnerAt(r, w, j)'
    BY <2>3, <2>4 DEF OwnerAt, VisitedOK, SecondRoundOK, FreshIn, Stale, Earlier, Owns, First,
       NoItemOpen, vars
  <2>6. OwnerOK(w)'
    BY <2>2, <2>5, OwnerRow
  <2> QED
    BY <1>3, <2>2, <2>6 DEF RoundOK
<1> QED
  BY <1>4, <1>5

LEMMA OwnStands ==
    ASSUME IInv, RunnersOK, EngineInv, NEW w \in Workers, Stepped(w)
    PROVE  OwnerOK(w)' /\ RoundOK(runner[w])'
BY CheckStands, VisitStands, SaveStands, TakeStands, RecordStands, RestartStands, ClaimStands,
   LeaveStands, BeatStands DEF Stepped, Step

-----------------------------------------------------------------------------
(* The world, and what a success means.                                    *)
LEMMA PageSteps ==
    ASSUME RunnersOK, BatchNext
    PROVE  \/ \E v \in Workers : Stepped(v)
           \/ PassTime
           \/ \E j \in Jobs : \/ SubmitBatch(j) \/ CancelBatch(j)
                              \/ \E i \in Sources : SourceMoves(j, i)
                              \/ \E v \in Workers : Start(v, j)
BY DEF BatchNext, Stepped

LEMMA WorldStep ==
    ASSUME RunnersOK, WorldOK, BatchNext
    PROVE  WorldOK'
<1>1. CASE UNCHANGED <<moved, late, basis>>
  BY <1>1 DEF WorldOK
<1>2. ASSUME NEW j \in Jobs, NEW i \in Sources, SourceMoves(j, i) PROVE WorldOK'
  <2>1. /\ moved' = [moved EXCEPT ![j] = @ \cup {i}] /\ basis' = basis
        /\ late' = IF NoItemOpen(j) THEN late ELSE late \cup {j}
    BY <1>2 DEF SourceMoves
  <2> QED
    BY <2>1 DEF WorldOK
<1>3. ASSUME NEW w \in Workers, Changed(w) \/ Restart(w) PROVE WorldOK'
  <2>1. UNCHANGED <<moved, late>> /\ (UNCHANGED basis \/ Requeued(Batch(w)))
    BY <1>3 DEF Changed, Restart
  <2>2. Batch(w) \in Jobs
    BY <1>3, RowAt DEF Changed, Restart, Busy, Batch
  <2>3. ASSUME Requeued(Batch(w)) PROVE WorldOK'
    BY <2>1, <2>2, <2>3 DEF Requeued, WorldOK
  <2> QED
    BY <1>1, <2>1, <2>3
<1>4. ASSUME NEW w \in Workers, Record(w) PROVE WorldOK'
  <2>1. Batch(w) \in Jobs
    BY <1>4, RowAt DEF Record, Busy, Batch
  <2>2. ASSUME NEW i \in Items, NEW b \in SUBSET Items,
               basis' = [basis EXCEPT ![Batch(w)][i] = b], UNCHANGED <<moved, late>>
        PROVE  WorldOK'
    BY <2>1, <2>2 DEF WorldOK
  <2>3. \A i \in Items : (IF runner[w].result \in Good THEN Earlier(Batch(w), i) ELSE {})
                            \in SUBSET Items
    BY DEF Earlier
  <2> QED
    BY <1>1, <1>4, <2>2, <2>3 DEF Record
<1>5. ASSUME NEW w \in Workers, Stepped(w), ~Changed(w), ~Restart(w), ~Record(w)
      PROVE  UNCHANGED <<moved, late, basis>>
  BY <1>5 DEF Stepped, Step, ClaimBatch, CheckSource, AbortBatch, FailBatch, Again, Visit, Save,
     Take, EngineEnds, Done, CompleteBatch, EngineCancelled, Raise, Crash, Beat, BeatFails,
     batchVars
<1>6. ASSUME NEW j \in Jobs,
             SubmitBatch(j) \/ CancelBatch(j) \/ \E v \in Workers : Start(v, j)
      PROVE  UNCHANGED <<moved, late, basis>>
  BY <1>6 DEF SubmitBatch, CancelBatch, Start, batchVars
<1>7. PassTime => UNCHANGED <<moved, late, basis>>
  BY DEF PassTime, batchVars
<1> QED
  BY <1>1, <1>2, <1>3, <1>4, <1>5, <1>6, <1>7, PageSteps

LEMMA PlainKeeps ==
    ASSUME TypeOK, NEW v \in Workers, NEW k \in Jobs, Plain(v, k), NEW j \in Jobs
    PROVE  /\ job'[j].status = "succeeded" => job[j].status = "succeeded"
           /\ \A i \in Items : item[j][i] \in Good => item'[j][i] \in Good
<1>1. CASE j # k
  <2>1. OthersKept(k)
    BY ClaimEffect, HeartbeatEffect, AbortEffect, FailEffect, ClaimItemEffect,
       CompleteItemEffect DEF Plain
  <2> QED
    BY <1>1, <2>1 DEF OthersKept
<1>2. CASE j = k
  <2>1. CASE Claim(v, k)
    <3>1. \A i \in Items : item'[k][i] = IF item[k][i] \in Orphaned THEN "queued" ELSE item[k][i]
      BY <2>1, ClaimEffect
    <3> QED
      BY <1>2, <2>1, <3>1, ClaimEffect DEF Orphaned, Good
  <2>2. CASE Heartbeat(v, k)
    BY <1>2, <2>2, HeartbeatEffect
  <2>3. CASE Abort(v, k)
    BY <1>2, <2>3, AbortEffect
  <2>4. CASE \E delay \in 0 .. RetryTicks : Fail(v, k, delay)
    BY <1>2, <2>4, FailEffect, FailureStatus
  <2>5. ASSUME NEW i \in Items, ClaimItem(v, k, i)
        PROVE  /\ job' = job /\ item[k][i] = "queued"
               /\ \A m \in Items : item'[k][m] = IF m = i THEN "running" ELSE item[k][m]
    BY <2>5, ClaimItemEffect
  <2>6. ASSUME NEW i \in Items, NEW s \in Finished, CompleteItem(v, k, i, s)
        PROVE  /\ job'[k].status = job[k].status /\ item[k][i] = "running"
               /\ \A m \in Items : item'[k][m] = IF m = i THEN s ELSE item[k][m]
    BY <2>6, CompleteItemEffect
  <2> QED
    BY <1>2, <2>1, <2>2, <2>3, <2>4, <2>5, <2>6 DEF Plain, Good
<1> QED
  BY <1>1, <1>2

LEMMA InvalidateKeeps ==
    ASSUME TypeOK, NEW v \in Workers, NEW k \in Jobs, NEW d \in Items, InvalidateFrom(v, k, d),
           NEW j \in Jobs
    PROVE  /\ job'[j].status = job[j].status
           /\ \A i \in Items : item[j][i] \in Good /\ item'[j][i] \notin Good => j = k /\ d <= i
<1>1. /\ OthersKept(k) /\ job'[k].status = job[k].status
      /\ \A i \in Items : item'[k][i] =
           IF i \in StaleItems(k, d) THEN "queued" ELSE item[k][i]
  BY InvalidateEffect
<1> QED
  BY <1>1, ItemOrder DEF OthersKept, StaleItems

(* A batch ends well only where the worker has just reread its source.     *)
LEMMA FreshStep ==
    ASSUME IInv, RunnersOK, EngineInv, BatchNext
    PROVE  SucceededFresh'
<1>0. TypeOK /\ late \subseteq Jobs /\ \A j \in late : job[j].status # "succeeded"
  BY DEF IInv, EngineInv, WorldOK, SucceededFresh
<1>1. ASSUME \A j \in late : job'[j].status = "succeeded" => job[j].status = "succeeded",
             late' = late
      PROVE  SucceededFresh'
  BY <1>0, <1>1 DEF SucceededFresh
<1>2. CASE PassTime
  BY <1>0, <1>1, <1>2, TickEffect DEF PassTime, batchVars
<1>3. ASSUME NEW k \in Jobs, SubmitBatch(k) \/ CancelBatch(k) PROVE SucceededFresh'
  <2>1. late' = late
    BY <1>3 DEF SubmitBatch, CancelBatch, batchVars
  <2>2. /\ OthersKept(k)
        /\ job'[k] = job[k] \/ job'[k].status # "succeeded"
    BY <1>0, <1>3, SubmitEffect, CancelEffect DEF SubmitBatch, CancelBatch
  <2> QED
    BY <1>0, <1>1, <2>1, <2>2 DEF OthersKept
<1>4. ASSUME NEW k \in Jobs, NEW i \in Sources, SourceMoves(k, i) PROVE SucceededFresh'
  <2>1. job' = job /\ late' = IF NoItemOpen(k) THEN late ELSE late \cup {k}
    BY <1>4 DEF SourceMoves, vars
  <2>2. ~NoItemOpen(k) => job[k].status # "succeeded"
    BY DEF IInv, SucceededComplete, NoItemOpen
  <2> QED
    BY <1>0, <2>1, <2>2 DEF SucceededFresh
<1>5. ASSUME NEW k \in Jobs, NEW v \in Workers, Start(v, k) PROVE SucceededFresh'
  <2>1. job' = job /\ late' = late
    BY <1>5 DEF Start, vars
  <2> QED
    BY <1>1, <2>1
<1>6. ASSUME NEW v \in Workers, Stepped(v) PROVE SucceededFresh'
  <2>1. late' = late /\ Reach(v)
    BY <1>6, StepReach DEF EngineInv
  <2>2. CASE UNCHANGED <<vars, basis>> \/ Abandon(v)
    BY <1>0, <1>1, <2>1, <2>2, AbandonEffect DEF vars
  <2>3. CASE Batch(v) \in Jobs /\ Plain(v, Batch(v))
    BY <1>0, <1>1, <2>1, <2>3, PlainKeeps
  <2>4. CASE Batch(v) \in Jobs /\ \E i \in Items : Discards(v, i)
    BY <1>0, <1>1, <2>1, <2>4, InvalidateKeeps DEF Discards
  <2>5. CASE Batch(v) \in Jobs /\ Completes(v)
    <3>1. PICK j \in Jobs : j = Batch(v)
      BY <2>5
    <3>2. OwnerAt(runner[v], v, j) /\ Complete(v, j) /\ runner[v].pc = "complete"
      BY <2>5, <3>1, OwnerNow DEF Completes
    <3>3. j \notin late
      BY <3>2 DEF OwnerAt, Complete, OwnsLive
    <3>4. OthersKept(j)
      BY <1>0, <3>2, CompleteEffect
    <3> QED
      BY <1>0, <1>1, <2>1, <3>3, <3>4 DEF OthersKept
  <2> QED
    BY <2>1, <2>2, <2>3, <2>4, <2>5 DEF Reach
<1> QED
  BY <1>2, <1>3, <1>4, <1>5, <1>6, PageSteps

LEMMA EngineStep == IInv /\ RunnersOK /\ EngineInv /\ [BatchNext]_gvars => EngineInv'
<1> SUFFICES ASSUME IInv, RunnersOK, EngineInv, [BatchNext]_gvars PROVE EngineInv'
  OBVIOUS
<1>1. CASE UNCHANGED gvars
  BY <1>1 DEF gvars, EngineInv, WorldOK, OwnerOK, OwnerAt, VisitedOK, SecondRoundOK, FreshIn,
     Stale, Earlier, Owns, First, NoItemOpen, Batch, RoundOK, SucceededFresh
<1>2. CASE BatchNext
  <2>1. WorldOK' /\ SucceededFresh'
    BY <1>2, WorldStep, FreshStep DEF EngineInv
  <2>2. ASSUME NEW w \in Workers PROVE OwnerOK(w)' /\ RoundOK(runner[w])'
    <3>1. ASSUME NEW v \in Workers, Stepped(v) PROVE OwnerOK(w)' /\ RoundOK(runner[w])'
      <4>1. CASE w = v
        BY <3>1, <4>1, OwnStands
      <4>2. CASE w # v
        BY <3>1, <4>2, OthersStand
      <4> QED
        BY <4>1, <4>2
    <3> QED
      BY <1>2, <3>1, PagesStand, PageSteps
  <2> QED
    BY <2>1, <2>2 DEF EngineInv
<1> QED
  BY <1>1, <1>2

(* A good result goes only where the worker discards it: when the source   *)
(* moved, or behind a result found to be stale.                            *)
LEMMA KeptStep ==
    ASSUME IInv, RunnersOK, EngineInv, [BatchNext]_gvars, NEW j \in Jobs, NEW i \in Items,
           item[j][i] \in Good, item'[j][i] \notin Good
    PROVE  moved[j] # {} \/ \E k \in Items : k <= i /\ Stale(j, k)
<1>0. TypeOK /\ AbsentBlank
  BY DEF IInv
<1>1. item' # item /\ item'[j] # item[j]
  OBVIOUS
<1>2. ASSUME NEW k \in Jobs, SubmitBatch(k) PROVE FALSE
  <2>1. /\ OthersKept(k)
        /\ item'[k] = item[k] \/ \A m \in Items : item[k][m] = "absent"
    BY <1>0, <1>2, SubmitEffect DEF SubmitBatch, AbsentBlank
  <2> QED
    BY <1>1, <2>1 DEF OthersKept, Good
<1>3. ASSUME NEW v \in Workers, Stepped(v)
      PROVE  moved[j] # {} \/ \E k \in Items : k <= i /\ Stale(j, k)
  <2>1. Reach(v)
    BY <1>3, StepReach DEF EngineInv
  <2>2. CASE UNCHANGED <<vars, basis>> \/ Abandon(v) \/ (Batch(v) \in Jobs /\ Completes(v))
    BY <1>0, <1>1, <2>2, AbandonEffect, CompleteEffect DEF vars, Completes
  <2>3. CASE Batch(v) \in Jobs /\ Plain(v, Batch(v))
    BY <1>0, <2>3, PlainKeeps
  <2>4. ASSUME Batch(v) \in Jobs, NEW d \in Items, Discards(v, d)
        PROVE  moved[j] # {} \/ \E k \in Items : k <= i /\ Stale(j, k)
    <3>1. j = Batch(v) /\ d <= i
      BY <1>0, <2>4, InvalidateKeeps DEF Discards
    <3>2. CASE runner[v].pc = "changed" /\ First(d, moved[Batch(v)] \cap Items)
      BY <3>1, <3>2 DEF First
    <3>3. CASE runner[v].pc = "stale" /\ First(d, runner[v].todo)
      <4>1. OwnerAt(runner[v], v, j) /\ runner[v].todo \subseteq Items
        BY <3>1, <3>3, OwnerNow
      <4>2. Owns(v, j)
        BY <2>4, <3>1 DEF Discards, InvalidateFrom, OwnsLive
      <4>3. PICK e \in Items : First(e, runner[v].todo) /\ Stale(j, e)
        BY <3>3, <4>1, <4>2 DEF OwnerAt
      <4>4. e = d
        BY <3>3, <4>1, <4>3, ItemOrder DEF First
      <4> QED
        BY <3>1, <4>3, <4>4
    <3> QED
      BY <2>4, <3>2, <3>3 DEF Discards
  <2> QED
    BY <2>1, <2>2, <2>3, <2>4 DEF Reach
<1>4. BatchNext
  BY <1>1 DEF gvars
<1>5. ~PassTime
  BY <1>0, <1>1, TickEffect DEF PassTime
<1>6. ASSUME NEW k \in Jobs,
             CancelBatch(k) \/ (\E s \in Sources : SourceMoves(k, s))
             \/ \E v \in Workers : Start(v, k)
      PROVE  FALSE
  BY <1>0, <1>1, <1>6, CancelEffect DEF CancelBatch, SourceMoves, Start, vars
<1> QED
  BY <1>2, <1>3, <1>4, <1>5, <1>6, PageSteps

-----------------------------------------------------------------------------
(* What the batches keep: the invariant of the queue, the rows of their    *)
(* processes, and what a process knows of the checkpoints it has met.      *)
BatchInv == IInv /\ RunnersOK /\ EngineInv

(* Queue, processes and engine keep their invariant for any batches,       *)
(* expiries, workers and attempts, whatever crashes or moves.              *)
THEOREM BatchInductive == BatchSpec => []BatchInv
<1>1. BatchInit => RunnersOK
  BY OffRow DEF BatchInit, RunnersOK
<1>2. BatchInit => EngineInv
  <2> SUFFICES ASSUME BatchInit PROVE EngineInv
    OBVIOUS
  <2>1. WorldOK /\ SucceededFresh
    BY DEF BatchInit, WorldOK, SucceededFresh
  <2>2. ASSUME NEW w \in Workers PROVE OwnerOK(w) /\ RoundOK(runner[w])
    <3>1. runner[w].pc = "off" /\ runner[w].round = 0
      BY DEF BatchInit, Off, Process
    <3> QED
      BY <3>1 DEF OwnerOK, RoundOK
  <2> QED
    BY <2>1, <2>2 DEF EngineInv
<1>3. BatchSpec => []IInv
  BY BatchIsQueue, Inductive, PTL
<1>4. BatchSpec => []RunnersOK
  BY <1>1, RunnersStep, PTL DEF BatchSpec
<1> QED
  BY <1>2, <1>3, <1>4, EngineStep, PTL DEF BatchSpec, BatchInv

(* No batch succeeds on a source that moved before its last result: the    *)
(* worker that completes it has reread the source since, in this claim.    *)
THEOREM BatchFresh == BatchSpec => []SucceededFresh
<1>1. BatchInv => SucceededFresh
  BY DEF BatchInv, EngineInv
<1> QED
  BY <1>1, BatchInductive, PTL

(* The engine starts over at most once per claim, however many expiries a  *)
(* batch has and whoever saved the results it finds.                       *)
THEOREM BatchConverges == BatchSpec => []Converges
<1>1. BatchInv => Converges
  BY DEF BatchInv, EngineInv, RoundOK, Converges
<1> QED
  BY <1>1, BatchInductive, PTL

(* A good result is discarded only when the source moved, or behind one    *)
(* that was seeded from results that are no longer those before it.        *)
THEOREM BatchKeeps == BatchSpec => KeptUnlessStale
<1>1. ASSUME BatchInv, [BatchNext]_gvars
      PROVE  \A j \in Jobs : \A i \in Items :
                item[j][i] \in Good /\ item'[j][i] \notin Good
                => moved[j] # {} \/ \E k \in Items : k <= i /\ Stale(j, k)
  BY <1>1, KeptStep DEF BatchInv
<1> QED
  BY <1>1, BatchInductive, PTL DEF BatchSpec, KeptUnlessStale
=============================================================================
