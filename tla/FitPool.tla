------------------------------ MODULE FitPool ------------------------------
(***************************************************************************)
(* The process pools of one daily run.  A session lends one executor to    *)
(* everything fitted in it: the stream of observed expiries of a product,  *)
(* taken in source order, and the starts of the expiries fitted one at a   *)
(* time.  Both fall back to serial fits when a pool is lost, and neither   *)
(* does when the job is withdrawn.  The engine that asks for the fits and  *)
(* closes the stream is external.                                          *)
(***************************************************************************)
EXTENDS Naturals, Sequences, FiniteSets

CONSTANTS LastExpiry,      \* expiries of a product, 1 to LastExpiry
          Budgets,         \* processes a stream or starts may be given; 1 fits serially
          MaxProducts,     \* products fitted in the session
          MaxPools         \* bound on the pools created

ASSUME FitPoolAssumption ==
    /\ {LastExpiry, MaxPools} \subseteq Nat /\ MaxProducts \in Nat \ {0}
    /\ Budgets \subseteq 1..4

VARIABLES budget,      \* of streams and of starts, set when the run begins
          pools,       \* every pool created: "open", "broken" or "shut"
          session,     \* the executor lent, 0 if none, and its budget
          stream,      \* pool the stream submitted to, 0 if there is none
          expected,    \* per expiry, of the stream
          engine,      \* what the engine does now
          expiry,      \* the expiry it is at
          product,     \* the product it is at
          withdrawn    \* the job was cancelled or its lease lost

poolVars == <<budget, pools, session, stream, expected, engine, expiry, product, withdrawn>>

Expiries == 1..LastExpiry
NothingExpected == [e \in Expiries |-> "none"]
NoExecutor == [executor |-> 0, workers |-> 0]

PoolInit ==
    /\ budget \in [stream : Budgets, start : Budgets]
    /\ pools = <<>> /\ session = NoExecutor /\ stream = 0 /\ expected = NothingExpected
    /\ engine = "begin" /\ expiry = 1 /\ product = 1 /\ withdrawn = FALSE

\* Pools P are shut down: what the stream had queued there is lost.
ShutIn(ps, P) == [p \in DOMAIN ps |-> IF p \in P THEN "shut" ELSE ps[p]]
LostIn(P) == [e \in Expiries |-> IF stream \in P /\ expected[e] = "queued" THEN "lost" ELSE expected[e]]

\* The executor for a budget of w processes: the one of the session, or a new
\* one in its place.
Lent(w) == session.executor # 0 /\ session.workers = w

\* Slip: a pool of another budget is left as it is.
PutAsideIfLent(w) == IF Lent(w) THEN {session.executor} ELSE {}

PutAside(w) == IF session.executor = 0 THEN {} ELSE {session.executor}
MayCreate(w) == Lent(w) \/ Len(pools) < MaxPools
PoolsFor(w) == IF Lent(w) THEN pools ELSE Append(ShutIn(pools, PutAside(w)), "open")
SessionFor(w) == IF Lent(w) THEN session ELSE [executor |-> Len(pools) + 1, workers |-> w]
ExpectedFor(w) == IF Lent(w) THEN expected ELSE LostIn(PutAside(w))

\* Discarding a pool: it is shut down, and the session forgets it.
Discard(p) ==
    /\ pools' = ShutIn(pools, {p})
    /\ session' = IF session.executor = p THEN NoExecutor ELSE session

\* The stream of a product: every observed expiry is submitted at once.  A
\* withdrawn job fits nothing, a broken pool leaves the serial path.
OpenStream ==
    /\ engine = "begin"
    /\ IF withdrawn /\ budget.stream > 1
         THEN engine' = "leaving" /\ UNCHANGED <<pools, session, stream, expected>>
         ELSE /\ engine' = "next"
              /\ IF budget.stream = 1
                   THEN stream' = 0 /\ expected' = NothingExpected /\ UNCHANGED <<pools, session>>
                   ELSE /\ MayCreate(budget.stream)
                        /\ pools' = PoolsFor(budget.stream)
                        /\ session' = SessionFor(budget.stream)
                        /\ IF pools'[session'.executor] = "open"
                             THEN /\ stream' = session'.executor
                                  /\ expected' = [e \in Expiries |-> "queued"]
                             ELSE stream' = 0 /\ expected' = NothingExpected
    /\ UNCHANGED <<budget, expiry, product, withdrawn>>

\* The engine asks for the next expiry: of the stream, or fitted now.
TakeExpiry ==
    /\ engine = "next"
    /\ expiry <= LastExpiry
    /\ engine' = IF expected[expiry] = "none" THEN "fitting" ELSE "waiting"
    /\ UNCHANGED <<budget, pools, session, stream, expected, expiry, product, withdrawn>>

\* Waiting for a streamed result.  The check comes before every look at it.
Streamed ==
    /\ engine = "waiting" /\ expected[expiry] = "done"
    /\ expected' = [expected EXCEPT ![expiry] = "none"]
    /\ engine' = "next" /\ expiry' = expiry + 1
    /\ UNCHANGED <<budget, pools, session, stream, product, withdrawn>>

StreamLost ==
    /\ engine = "waiting" /\ expected[expiry] = "lost"
    /\ Discard(stream)
    /\ stream' = 0 /\ expected' = NothingExpected
    /\ engine' = "fitting"
    /\ UNCHANGED <<budget, expiry, product, withdrawn>>

WithdrawnWaiting ==
    /\ engine = "waiting" /\ withdrawn
    /\ stream' = 0 /\ expected' = NothingExpected
    /\ engine' = "leaving"
    /\ UNCHANGED <<budget, pools, session, expiry, product, withdrawn>>

\* An expiry is fitted in the process, its starts in a pool if there is a
\* budget for it.
SubmitStarts ==
    /\ engine = "fitting" /\ budget.start > 1
    /\ MayCreate(budget.start)
    /\ pools' = PoolsFor(budget.start)
    /\ session' = SessionFor(budget.start)
    /\ expected' = ExpectedFor(budget.start)
    /\ engine' = "starting"
    /\ UNCHANGED <<budget, stream, expiry, product, withdrawn>>

ExpiryFitted ==
    /\ \/ engine = "fitting" /\ budget.start = 1
       \/ engine = "starting" /\ pools[session.executor] = "open"
    /\ engine' = "next" /\ expiry' = expiry + 1
    /\ UNCHANGED <<budget, pools, session, stream, expected, product, withdrawn>>

\* The starts fail with their pool, and are fitted serially, or with the job.
StartsLost ==
    /\ engine = "starting"
    /\ \/ pools[session.executor] = "broken" /\ engine' = "next" /\ expiry' = expiry + 1
       \/ withdrawn /\ engine' = "leaving" /\ UNCHANGED expiry
    /\ Discard(session.executor)
    /\ expected' = LostIn({session.executor})
    /\ UNCHANGED <<budget, stream, product, withdrawn>>

\* The product is done: the stream is closed, the session keeps its executor.
NextProduct ==
    /\ engine = "next" /\ expiry > LastExpiry
    /\ stream' = 0 /\ expected' = NothingExpected
    /\ IF product < MaxProducts
         THEN product' = product + 1 /\ expiry' = 1 /\ engine' = "begin"
         ELSE engine' = "leaving" /\ UNCHANGED <<product, expiry>>
    /\ UNCHANGED <<budget, pools, session, withdrawn>>

\* The session ends, with a result or an exception.
LeaveSession ==
    /\ engine = "leaving"
    /\ pools' = ShutIn(pools, {session.executor})
    /\ session' = NoExecutor /\ stream' = 0 /\ expected' = NothingExpected
    /\ engine' = "left"
    /\ UNCHANGED <<budget, expiry, product, withdrawn>>

\* The workers: a task ends, or a process dies and takes its pool with it.
TaskEnds(e) ==
    /\ expected[e] = "queued" /\ pools[stream] = "open"
    /\ expected' = [expected EXCEPT ![e] = "done"]
    /\ UNCHANGED <<budget, pools, session, stream, engine, expiry, product, withdrawn>>

PoolBreaks(p) ==
    /\ pools[p] = "open"
    /\ pools' = [pools EXCEPT ![p] = "broken"]
    /\ expected' = LostIn({p})
    /\ UNCHANGED <<budget, session, stream, engine, expiry, product, withdrawn>>

Withdraw ==
    /\ ~withdrawn /\ engine # "left"
    /\ withdrawn' = TRUE
    /\ UNCHANGED <<budget, pools, session, stream, expected, engine, expiry, product>>

PoolNext ==
    \/ OpenStream \/ TakeExpiry \/ Streamed \/ StreamLost \/ WithdrawnWaiting
    \/ SubmitStarts \/ ExpiryFitted \/ StartsLost \/ NextProduct \/ LeaveSession \/ Withdraw
    \/ \E e \in Expiries : TaskEnds(e)
    \/ \E p \in DOMAIN pools : PoolBreaks(p)

PoolSpec == PoolInit /\ [][PoolNext]_poolVars

(***************************************************************************)
(* The session lends a pool that exists, and the stream waits on one.      *)
(***************************************************************************)
PoolTypeOK ==
    /\ budget \in [stream : Budgets, start : Budgets]
    /\ pools \in Seq({"open", "broken", "shut"}) /\ Len(pools) <= MaxPools
    /\ session.executor \in 0..Len(pools) /\ stream \in 0..Len(pools)
    /\ expected \in [Expiries -> {"none", "queued", "done", "lost"}]
    /\ stream = 0 => expected = NothingExpected
    /\ expiry \in 1..LastExpiry + 1 /\ product \in 1..MaxProducts

(***************************************************************************)
(* The processes of a run stay within one budget: at most one pool is not  *)
(* shut down, also when stream and starts have different budgets and pools *)
(* break under either, and after the session there is none.                *)
(***************************************************************************)
OneComputeBudget ==
    LET alive == {p \in DOMAIN pools : pools[p] # "shut"}
    IN /\ alive \subseteq {session.executor}
       /\ engine = "left" => alive = {}
=============================================================================
