----------------------------- MODULE RefreshIntake -----------------------------
(***************************************************************************)
(* How dashboards queue Bloomberg refreshes (vol_trades/refresh.py and the *)
(* refresh callback of vol_trades/page.py).  A submission is a transaction *)
(* that takes an advisory lock of each product, looks for a refresh of the *)
(* other family, inserts what is not there yet, and reads what it joins.   *)
(* Workers and the daily seeds of the tape take no such lock.  All jobs    *)
(* are of one business date.                                               *)
(***************************************************************************)
EXTENDS Naturals, Sequences, FiniteSets

CONSTANTS
    Dashboards,
    RefreshProducts   \* in their canonical order

ASSUME RefreshAssumption ==
    \A i, j \in DOMAIN RefreshProducts : RefreshProducts[i] = RefreshProducts[j] => i = j

VARIABLES
    refreshJob,   \* the unfinished jobs of each product, at most one a family
    submission,   \* the transaction of each dashboard
    tickets       \* the products each dashboard polls a job for

refreshVars == <<refreshJob, submission, tickets>>

Products == {RefreshProducts[i] : i \in DOMAIN RefreshProducts}
Families == {"settlement", "intraday"}
JobStatus == {"none", "queued", "running"}
Submissions == [pc : {"idle", "lock", "check", "insert", "join"},
                family : Families,
                wanted : SUBSET Products,
                held : SUBSET Products,     \* advisory locks
                made : SUBSET Products]     \* rows inserted and not committed
NoSubmission == [pc |-> "idle", family |-> "intraday", wanted |-> {}, held |-> {}, made |-> {}]

RefreshTypeOK ==
    /\ refreshJob \in [Products -> [settlement : JobStatus, intraday : JobStatus, seed : BOOLEAN]]
    /\ submission \in [Dashboards -> Submissions]
    /\ tickets \in [Dashboards -> SUBSET Products]

RefreshInit ==
    /\ refreshJob = [p \in Products |-> [settlement |-> "none", intraday |-> "none", seed |-> FALSE]]
    /\ submission = [d \in Dashboards |-> NoSubmission]
    /\ tickets = [d \in Dashboards |-> {}]

-----------------------------------------------------------------------------
Submitting(d, pc) == submission[d].pc = pc
SubmissionTo(d, row) == submission' = [submission EXCEPT ![d] = row]
Active(p, family) == refreshJob[p][family] # "none"
Other(family) == IF family = "settlement" THEN "intraday" ELSE "settlement"

(* The button of the product on the page, when nothing the page knows of   *)
(* is unfinished and a worker is ready; or that of all settlements.        *)
Click(d, family, products) ==
    /\ Submitting(d, "idle")
    /\ SubmissionTo(d, [NoSubmission EXCEPT !.pc = "lock", !.family = family, !.wanted = products])
    /\ UNCHANGED <<refreshJob, tickets>>

ClickIntraday(d) == tickets[d] = {} /\ \E p \in Products : Click(d, "intraday", {p})
ClickSettlement(d) == Click(d, "settlement", Products)

(* Slip: a lock for each family. *)
FreeInFamily(d, p) ==
    \A o \in Dashboards \ {d} : submission[o].family = submission[d].family => p \notin submission[o].held

Free(d, p) == \A o \in Dashboards \ {d} : p \notin submission[o].held

(* _lock_refresh_products: the next product in canonical order. *)
NextLock(d, i) ==
    LET left == submission[d].wanted \ submission[d].held
    IN  /\ RefreshProducts[i] \in left
        /\ \A j \in DOMAIN RefreshProducts : j < i => RefreshProducts[j] \notin left

LockProduct(d) ==
    /\ Submitting(d, "lock")
    /\ \E i \in DOMAIN RefreshProducts :
         LET p == RefreshProducts[i]
         IN  /\ NextLock(d, i) /\ Free(d, p)
             /\ SubmissionTo(d, [submission[d] EXCEPT !.held = @ \cup {p},
                   !.pc = IF submission[d].wanted \subseteq submission[d].held \cup {p}
                            THEN "check" ELSE "lock"])
    /\ UNCHANGED <<refreshJob, tickets>>

(* A refusal rolls back; so does a connection that is lost. *)
RollBack(d) == SubmissionTo(d, NoSubmission) /\ UNCHANGED <<refreshJob, tickets>>

Conflicting(d) == \E p \in submission[d].wanted : Active(p, Other(submission[d].family))

CheckConflict(d) ==
    /\ Submitting(d, "check") /\ ~Conflicting(d)
    /\ SubmissionTo(d, [submission[d] EXCEPT !.pc = "insert"])
    /\ UNCHANGED <<refreshJob, tickets>>

Refuse(d) == Submitting(d, "check") /\ Conflicting(d) /\ RollBack(d)
LoseConnection(d) == ~Submitting(d, "idle") /\ RollBack(d)

(* ON CONFLICT DO NOTHING: a job of the family that is there is joined.    *)
InsertJobs(d) ==
    /\ Submitting(d, "insert")
    /\ SubmissionTo(d, [submission[d] EXCEPT !.pc = "join",
          !.made = {p \in submission[d].wanted : ~Active(p, submission[d].family)}])
    /\ UNCHANGED <<refreshJob, tickets>>

Missing(d) == {p \in submission[d].wanted \ submission[d].made : ~Active(p, submission[d].family)}

(* The commit; the page may never see the answer, when the renderer has    *)
(* let a newer callback replace it.                                        *)
CommitJobs(d) ==
    /\ Submitting(d, "join") /\ Missing(d) = {}
    /\ refreshJob' = [p \in Products |->
          IF p \in submission[d].made THEN [refreshJob[p] EXCEPT ![submission[d].family] = "queued"]
          ELSE refreshJob[p]]
    /\ tickets' \in {tickets, [tickets EXCEPT ![d] = @ \cup submission[d].wanted]}
    /\ SubmissionTo(d, NoSubmission)

(* What was to be joined has ended since the insert: nothing is kept.      *)
JoinedEnded(d) == Submitting(d, "join") /\ Missing(d) # {} /\ RollBack(d)

(* A poll finds some of the page's jobs ended, or gone.                    *)
PollRefresh(d) ==
    /\ tickets[d] # {}
    /\ tickets' = [tickets EXCEPT ![d] = {p \in @ : \E f \in Families : Active(p, f)}]
    /\ UNCHANGED <<refreshJob, submission>>

-----------------------------------------------------------------------------
(* The worker. *)
RunRefresh(p, f) ==
    /\ refreshJob[p][f] = "queued"
    /\ refreshJob' = [refreshJob EXCEPT ![p][f] = "running"]
    /\ UNCHANGED <<submission, tickets>>

EndRefresh(p, f) ==
    /\ refreshJob[p][f] = "running"
    /\ refreshJob' = [refreshJob EXCEPT ![p][f] = "none", ![p].seed = IF f = "intraday" THEN FALSE ELSE @]
    /\ UNCHANGED <<submission, tickets>>

(* It waits for an intraday row that a transaction has not committed yet. *)
SeedTape(p) ==
    /\ ~Active(p, "intraday")
    /\ \A d \in Dashboards : submission[d].family = "intraday" => p \notin submission[d].made
    /\ refreshJob' = [refreshJob EXCEPT ![p].intraday = "queued", ![p].seed = TRUE]
    /\ UNCHANGED <<submission, tickets>>

RefreshNext ==
    \/ \E d \in Dashboards :
         \/ ClickIntraday(d) \/ ClickSettlement(d) \/ LockProduct(d) \/ CheckConflict(d) \/ Refuse(d)
         \/ LoseConnection(d) \/ InsertJobs(d) \/ CommitJobs(d) \/ JoinedEnded(d) \/ PollRefresh(d)
    \/ \E p \in Products, f \in Families : RunRefresh(p, f) \/ EndRefresh(p, f)
    \/ \E p \in Products : SeedTape(p)

RefreshSpec == RefreshInit /\ [][RefreshNext]_refreshVars

-----------------------------------------------------------------------------
(* Dashboards never have an intraday and a settlement refresh of one       *)
(* product unfinished at a time: the check of one submission and its       *)
(* commit lie several statements apart, and between them neither a         *)
(* submission of the other family nor a batch that shares only some        *)
(* products with it gets in.  Seeds of the tape are not held off.          *)
FamiliesApart ==
    \A p \in Products :
        Active(p, "settlement") /\ Active(p, "intraday") => refreshJob[p].seed
================================================================================
