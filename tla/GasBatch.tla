------------------------------ MODULE GasBatch ------------------------------
(***************************************************************************)
(* The detached worker of a TTF or JKM settlement batch:                   *)
(* calibration/execution/gas_batch_runner.py, over the job queue.  A page  *)
(* starts a worker process for a job that is queued or whose lease has     *)
(* run out; the process claims it up to MaxRuns times, resumes from the    *)
(* saved expiries and rereads the official source before and after the     *)
(* fits.  Every write of the process is a statement of JobQueue, and the   *)
(* heartbeat thread runs beside it.                                        *)
(*                                                                         *)
(* The numerical engine is external.  It visits the expiries in order,     *)
(* goes on after one that fails, and seeds each from the good ones before  *)
(* it; a saved expiry is stale when those are not the ones it was seeded   *)
(* from.                                                                   *)
(***************************************************************************)
EXTENDS JobQueue

CONSTANTS
    Unlisted,   \* an expiry the source may gain that the batch does not have
    MaxRuns     \* how often main() calls run_one

ASSUME UnlistedAssumption == Unlisted \notin Items
ASSUME MaxRunsAssumption == MaxRuns \in Nat \ {0}

VARIABLES
    moved,    \* expiries whose source differs from the snapshot in the payload of a job
    late,     \* jobs whose source moved before every expiry had a result (history)
    basis,    \* basis[j][i]: the good expiries that the saved result of i was seeded from
    runner    \* worker processes

batchVars == <<moved, late, basis, runner>>
gvars == <<job, item, claim, moved, late, basis, runner>>

-----------------------------------------------------------------------------
Sources == Items \cup {Unlisted}
Outcomes == {"succeeded", "skipped", "failed"}

(* Inside the try of _run_claimed, where the heartbeat runs ... *)
Running == {"check", "changed", "engine", "save", "take", "record", "stale",
            "done", "recheck", "complete"}
(* ... and around it. *)
Around == {"claim", "abort", "failing", "again"}

Runners == [pc     : {"off"} \cup Running \cup Around,
            job    : Jobs \cup {NoJob},
            runs   : 0 .. MaxRuns,
            round  : 0 .. Cardinality(Items) + 1,
            todo   : SUBSET Items,       \* what the engine has not visited in this round
            result : {"none"} \cup Outcomes,
            lost   : BOOLEAN]            \* set by the heartbeat thread

(* A process at its n-th call of run_one. *)
Process(pc, j, n) == [pc |-> pc, job |-> j, runs |-> n, round |-> 0, todo |-> {},
                      result |-> "none", lost |-> FALSE]

Off == Process("off", NoJob, 0)

BatchTypeOK ==
    /\ TypeOK
    /\ moved \in [Jobs -> SUBSET Sources]
    /\ late \subseteq Jobs
    /\ basis \in [Jobs -> [Items -> SUBSET Items]]
    /\ runner \in [Workers -> Runners]

BatchInit ==
    /\ Init
    /\ moved = [j \in Jobs |-> {}]
    /\ late = {}
    /\ basis = [j \in Jobs |-> [i \in Items |-> {}]]
    /\ runner = [w \in Workers |-> Off]

-----------------------------------------------------------------------------
Batch(w) == runner[w].job
First(i, S) == i \in S /\ \A k \in S : i <= k
Earlier(j, i) == {k \in Items : k < i /\ item[j][k] \in Good}

Becomes(w, row) == runner' = [runner EXCEPT ![w] = row]
Goto(w, pc) == Becomes(w, [runner[w] EXCEPT !.pc = pc])

(* Slips a change to the worker could make; each is shown to break one of  *)
(* the properties below when it takes the place of the real operator.      *)
UnchangedAsListed(j) == moved[j] \cap Items = {}

(* changed_source_expiry compares the union of both sets of expiries. *)
Unchanged(j) == moved[j] = {}

(* check_cancel: the flag of the heartbeat, then the row.  The lease is    *)
(* not looked at.                                                          *)
Alive(w) ==
    /\ ~runner[w].lost
    /\ Owns(w, Batch(w))
    /\ ~job[Batch(w)].cancel

(* What a fenced statement with a cancellation test asks of the row. *)
Fenced(w) == OwnsLive(w, Batch(w)) /\ ~job[Batch(w)].cancel

-----------------------------------------------------------------------------
(* Pages, operators and the world.                                         *)

SubmitBatch(j) == Submit(j) /\ UNCHANGED batchVars

CancelBatch(j) == RequestCancel(j) /\ UNCHANGED batchVars

(* A page starts a worker for what it sees queued or expired. *)
Start(w, j) ==
    /\ runner[w].pc = "off"
    /\ job[j].status = "queued" \/ (job[j].status = "running" /\ job[j].lease = 0)
    /\ Becomes(w, Process("claim", j, 1))
    /\ UNCHANGED <<vars, moved, late, basis>>

(* The official source of an expiry is corrected, or gains one.  A page    *)
(* may also have read it before the change and submit after it.            *)
SourceMoves(j, i) ==
    /\ i \notin moved[j]
    /\ moved' = [moved EXCEPT ![j] = @ \cup {i}]
    /\ late' = IF NoItemOpen(j) THEN late ELSE late \cup {j}
    /\ UNCHANGED <<vars, basis, runner>>

PassTime == Tick /\ UNCHANGED batchVars

-----------------------------------------------------------------------------
(* run_one.                                                                *)

ClaimBatch(w) ==
    /\ runner[w].pc = "claim"
    /\ IF Claimable(Batch(w))
         THEN /\ Claim(w, Batch(w))
              /\ Becomes(w, [runner[w] EXCEPT !.pc = "check", !.round = 0,
                                              !.todo = {}, !.lost = FALSE])
         ELSE Goto(w, "again") /\ UNCHANGED vars
    /\ UNCHANGED <<moved, late, basis>>

(* check_source, before and after the fits. *)
CheckSource(w) ==
    /\ runner[w].pc \in {"check", "recheck"}
    /\ IF ~Alive(w) THEN Goto(w, "again")
       ELSE IF ~Unchanged(Batch(w)) THEN Goto(w, "changed")
       ELSE IF runner[w].pc = "check"
         THEN Becomes(w, [runner[w] EXCEPT !.pc = "engine", !.todo = Items])
       ELSE Goto(w, "complete")
    /\ UNCHANGED <<vars, moved, late, basis>>

(* A result that goes back to the queue is no longer seeded from anything. *)
Requeued(j) == basis' = [basis EXCEPT ![j] = [i \in Items |->
                  IF item'[j][i] \in Good THEN basis[j][i] ELSE {}]]

(* The first changed expiry is invalidated, if the batch has it; whether   *)
(* that succeeded is not asked.                                            *)
Changed(w) ==
    /\ runner[w].pc = "changed"
    /\ Goto(w, "abort")
    /\ \/ \E i \in Items :
            /\ First(i, moved[Batch(w)] \cap Items)
            /\ IF Fenced(w) THEN InvalidateFrom(w, Batch(w), i) /\ Requeued(Batch(w))
                            ELSE UNCHANGED <<vars, basis>>
       \/ Unlisted \in moved[Batch(w)] /\ UNCHANGED <<vars, basis>>
    /\ UNCHANGED <<moved, late>>

AbortBatch(w) ==
    /\ runner[w].pc = "abort"
    /\ IF Fenced(w) THEN Abort(w, Batch(w)) ELSE UNCHANGED vars
    /\ Goto(w, "again")
    /\ UNCHANGED <<moved, late, basis>>

FailBatch(w) ==
    /\ runner[w].pc = "failing"
    /\ IF Owns(w, Batch(w)) THEN Fail(w, Batch(w), 0) ELSE UNCHANGED vars
    /\ Goto(w, "again")
    /\ UNCHANGED <<moved, late, basis>>

(* run_one returns; main() calls it again while the job is queued. *)
Again(w) ==
    /\ runner[w].pc = "again"
    /\ IF claim[w] = NoClaim THEN UNCHANGED vars ELSE Abandon(w)
    /\ Becomes(w, IF job[Batch(w)].status = "queued" /\ runner[w].runs < MaxRuns
                    THEN Process("claim", Batch(w), runner[w].runs + 1)
                    ELSE Off)
    /\ UNCHANGED <<moved, late, basis>>

-----------------------------------------------------------------------------
(* One round of the engine.                                                *)

Stale(j, i) == basis[j][i] # Earlier(j, i)

(* The engine visits the next expiry: a saved one is taken over, or found  *)
(* to be stale; any other is fitted.                                       *)
Visit(w, i) ==
    /\ runner[w].pc = "engine" /\ First(i, runner[w].todo)
    /\ LET j == Batch(w)
       IN  IF item[j][i] \notin Good
             THEN \E result \in Outcomes :
                    Becomes(w, [runner[w] EXCEPT !.pc = "save", !.result = result])
           ELSE IF Stale(j, i) THEN Goto(w, "stale")
           ELSE Becomes(w, [runner[w] EXCEPT !.todo = @ \ {i}])
    /\ UNCHANGED <<vars, moved, late, basis>>

(* save_checkpoint: check_cancel, claim_item, complete_item. *)
Save(w) ==
    /\ runner[w].pc = "save"
    /\ Goto(w, IF Alive(w) THEN "take" ELSE "again")
    /\ UNCHANGED <<vars, moved, late, basis>>

(* Without an item, or with another one, a RuntimeError. *)
Take(w) ==
    /\ runner[w].pc = "take"
    /\ IF Fenced(w) /\ \E k \in Items : item[Batch(w)][k] = "queued"
         THEN \E k \in Items :
                /\ ClaimItem(w, Batch(w), k)
                /\ Goto(w, IF First(k, runner[w].todo) THEN "record" ELSE "failing")
         ELSE Goto(w, "failing") /\ UNCHANGED vars
    /\ UNCHANGED <<moved, late, basis>>

Record(w) ==
    /\ runner[w].pc = "record"
    /\ IF OwnsLive(w, Batch(w))
         THEN \E i \in Items :
                /\ First(i, runner[w].todo)
                /\ CompleteItem(w, Batch(w), i, runner[w].result)
                /\ basis' = [basis EXCEPT ![Batch(w)][i] =
                               IF runner[w].result \in Good THEN Earlier(Batch(w), i) ELSE {}]
                /\ Becomes(w, [runner[w] EXCEPT !.pc = "engine", !.todo = @ \ {i},
                                                !.result = "none"])
         ELSE Goto(w, "again") /\ UNCHANGED <<vars, basis>>
    /\ UNCHANGED <<moved, late>>

(* A stale checkpoint is invalidated and the engine starts over, for one   *)
(* round more than there are expiries.                                     *)
Restart(w) ==
    /\ runner[w].pc = "stale"
    /\ IF Fenced(w)
         THEN /\ \E i \in Items : /\ First(i, runner[w].todo)
                                  /\ InvalidateFrom(w, Batch(w), i)
              /\ Requeued(Batch(w))
              /\ Becomes(w, [runner[w] EXCEPT !.round = @ + 1, !.todo = Items,
                   !.pc = IF runner[w].round < Cardinality(Items) THEN "engine" ELSE "failing"])
         ELSE Goto(w, "again") /\ UNCHANGED <<vars, basis>>
    /\ UNCHANGED <<moved, late>>

EngineEnds(w) ==
    /\ runner[w].pc = "engine" /\ runner[w].todo = {}
    /\ Goto(w, "done")
    /\ UNCHANGED <<vars, moved, late, basis>>

(* The engine calls check_cancel where it likes. *)
EngineCancelled(w) ==
    /\ runner[w].pc = "engine" /\ ~Alive(w)
    /\ Goto(w, "again")
    /\ UNCHANGED <<vars, moved, late, basis>>

Done(w) ==
    /\ runner[w].pc = "done"
    /\ Goto(w, IF ~Alive(w) THEN "again"
               ELSE IF \E i \in Items : item[Batch(w)][i] = "failed" THEN "failing"
               ELSE "recheck")
    /\ UNCHANGED <<vars, moved, late, basis>>

CompleteBatch(w) ==
    /\ runner[w].pc = "complete"
    /\ IF /\ Fenced(w) /\ NoItemOpen(Batch(w))
          /\ job[Batch(w)].completed = Cardinality(Items)
         THEN Complete(w, Batch(w)) ELSE UNCHANGED vars
    /\ Goto(w, "again")
    /\ UNCHANGED <<moved, late, basis>>

-----------------------------------------------------------------------------
(* Failures, and the heartbeat thread.                                     *)

(* A statement, the source or the engine raises: fail, except for a        *)
(* ValueError of the payload, the source or the engine, which is final.    *)
Raise(w) ==
    /\ \/ runner[w].pc \in Running /\ Goto(w, "failing")
       \/ runner[w].pc \in {"check", "engine", "recheck"} /\ Goto(w, "abort")
    /\ UNCHANGED <<vars, moved, late, basis>>

Crash(w) ==
    /\ runner[w].pc # "off"
    /\ IF claim[w] = NoClaim THEN UNCHANGED vars ELSE Abandon(w)
    /\ Becomes(w, Off)
    /\ UNCHANGED <<moved, late, basis>>

Beat(w) ==
    /\ runner[w].pc \in Running /\ ~runner[w].lost
    /\ Heartbeat(w, Batch(w))
    /\ UNCHANGED batchVars

(* The row refuses it, or the database does not answer: no other is tried. *)
BeatFails(w) ==
    /\ runner[w].pc \in Running /\ ~runner[w].lost
    /\ Becomes(w, [runner[w] EXCEPT !.lost = TRUE])
    /\ UNCHANGED <<vars, moved, late, basis>>

-----------------------------------------------------------------------------
Step(w) ==
    \/ ClaimBatch(w) \/ CheckSource(w) \/ Changed(w) \/ AbortBatch(w) \/ FailBatch(w)
    \/ Again(w) \/ \E i \in Items : Visit(w, i)
    \/ Save(w) \/ Take(w) \/ Record(w) \/ Restart(w) \/ EngineEnds(w) \/ Done(w)
    \/ CompleteBatch(w)

BatchNext ==
    \/ PassTime
    \/ \E j \in Jobs : \/ SubmitBatch(j) \/ CancelBatch(j)
                       \/ \E i \in Sources : SourceMoves(j, i)
                       \/ \E w \in Workers : Start(w, j)
    \/ \E w \in Workers :
         Step(w) \/ EngineCancelled(w) \/ Raise(w) \/ Crash(w) \/ Beat(w) \/ BeatFails(w)

BatchSpec == BatchInit /\ [][BatchNext]_gvars

(* Time passes, a process keeps executing, the page keeps starting workers *)
(* for a job it sees queued or expired, and they do not all die before     *)
(* they claim it.                                                          *)
BatchFairness ==
    /\ WF_gvars(PassTime)
    /\ \A w \in Workers : WF_gvars(Step(w))
    /\ \A j \in Jobs :
         /\ SF_gvars(\E w \in Workers : Start(w, j))
         /\ SF_gvars(\E w \in Workers : Batch(w) = j /\ Claimable(j) /\ ClaimBatch(w))

FairBatch == BatchSpec /\ BatchFairness

-----------------------------------------------------------------------------
(* Properties.                                                             *)

(* The source is reread after the fits: no batch succeeds when a change of *)
(* the source came before its last result, however many workers and        *)
(* restarts lie between.                                                   *)
SucceededFresh == \A j \in late : job[j].status # "succeeded"

(* The engine starts over at most once per claim: what a stale checkpoint  *)
(* takes with it is all that depended on it, and "Checkpoint dependencies  *)
(* did not converge" is never raised.                                      *)
Converges == \A w \in Workers : runner[w].round <= 1

(* Restarts, retries and takeovers keep what was fitted: a good result is  *)
(* only discarded when the source has moved, or when it or an earlier one  *)
(* was seeded from results that are no longer those before it.             *)
KeptUnlessStale ==
    [][\A j \in Jobs : \A i \in Items :
          item[j][i] \in Good /\ item'[j][i] \notin Good
          => moved[j] # {} \/ \E k \in Items : k <= i /\ Stale(j, k)]_gvars

(* A batch ends, or the lease of its last permitted claim runs out.        *)
Ends ==
    \A j \in Jobs : job[j].status = "queued" ~>
        \/ job[j].status \in Terminal
        \/ job[j].attempts = MaxAttempts /\ job[j].lease = 0

(* "resumes after an interrupted lease": a batch whose lease has run out   *)
(* is claimed again, or ends.                                              *)
Resumes ==
    \A j \in Jobs : job[j].status = "running" /\ job[j].lease = 0 ~>
        job[j].status \in Terminal \/ job[j].lease > 0
=============================================================================
