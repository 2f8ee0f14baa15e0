------------------------------ MODULE AspectJobs ------------------------------
(***************************************************************************)
(* Refreshes of the Aspect portfolio: aspect_jobs.py, the detached worker  *)
(* of aspect_worker.py and the page of greeks.py that submits and polls.   *)
(* The state of a job and the map of active requests are entries of a disk *)
(* cache the processes share; there is no lease: a deadline, an alarm in   *)
(* the worker and the poll of a page end a job, in any order.              *)
(***************************************************************************)
EXTENDS Naturals, FiniteSets

CONSTANTS
    AspectRequests,   \* date, mode, scope and action, hashed
    AspectLimit,      \* active requests at a time (two)
    MaxTickets        \* bound on submitted jobs

ASSUME TicketsAssumption == MaxTickets \in Nat \ {0} /\ AspectLimit \in Nat \ {0}

VARIABLES
    aspectJob,      \* the cached state of each job
    aspectActive,   \* the job of each active request; 0: none
    aspectWorker,   \* its process
    aspectPage      \* the page that holds the ticket

aspectVars == <<aspectJob, aspectActive, aspectWorker, aspectPage>>

Tickets == 1 .. MaxTickets
AspectEnded == {"failed", "complete"}

AspectStates == [request : AspectRequests,
                 status  : {"queued", "running"} \cup AspectEnded,
                 late    : BOOLEAN]    \* its deadline has passed

NotSubmitted == [status |-> "absent"]

AspectTypeOK ==
    /\ aspectJob \in [Tickets -> AspectStates \cup {NotSubmitted}]
    /\ aspectActive \in [AspectRequests -> 0 .. MaxTickets]
    /\ aspectWorker \in [Tickets -> {"none", "starting", "working", "closing"}]
    /\ aspectPage \in [Tickets -> {"none", "polling", "timing"}]

AspectInit ==
    /\ aspectJob = [t \in Tickets |-> NotSubmitted]
    /\ aspectActive = [r \in AspectRequests |-> 0]
    /\ aspectWorker = [t \in Tickets |-> "none"]
    /\ aspectPage = [t \in Tickets |-> "none"]

-----------------------------------------------------------------------------
Submitted(t) == aspectJob[t].status # "absent"
Unended(t) == aspectJob[t].status \in {"queued", "running"}
Expired(t) == Unended(t) /\ aspectJob[t].late

(* Slip: the end of a job frees its request, whoever holds it by now. *)
FinishAnyHolder(t, status) ==
    /\ aspectJob' = [aspectJob EXCEPT ![t].status = status]
    /\ aspectActive' = [aspectActive EXCEPT ![aspectJob[t].request] = 0]

(* finish: unconditional, also on a job that ended before; the request is  *)
(* free again when this job still holds it.                                *)
FinishAspect(t, status) ==
    /\ aspectJob' = [aspectJob EXCEPT ![t].status = status]
    /\ aspectActive' = [aspectActive EXCEPT
          ![aspectJob[t].request] = IF @ = t THEN 0 ELSE @]

(* Entries past their deadline are dropped; a request that is active keeps *)
(* its job, and the limit holds for the others.                            *)
KeptAspect == [r \in AspectRequests |->
           IF aspectActive[r] # 0 /\ ~aspectJob[aspectActive[r]].late THEN aspectActive[r] ELSE 0]

SubmitAspect(r) ==
    /\ KeptAspect[r] = 0
    /\ Cardinality({q \in AspectRequests : KeptAspect[q] # 0}) < AspectLimit
    /\ \E t \in Tickets :
         /\ ~Submitted(t) /\ \A u \in Tickets : u < t => Submitted(u)
         /\ aspectJob' = [aspectJob EXCEPT ![t] = [request |-> r, status |-> "queued", late |-> FALSE]]
         /\ aspectActive' = [KeptAspect EXCEPT ![r] = t]
         /\ aspectWorker' = [aspectWorker EXCEPT ![t] = "starting"]
         /\ aspectPage' = [aspectPage EXCEPT ![t] = "polling"]

AspectProcess(t, from, to) == aspectWorker[t] = from /\ aspectWorker' = [aspectWorker EXCEPT ![t] = to]

(* The process cannot be started: the job is finished and the page told.   *)
AspectLaunchFails(t) ==
    /\ AspectProcess(t, "starting", "none")
    /\ FinishAspect(t, "failed")
    /\ aspectPage' = [aspectPage EXCEPT ![t] = "none"]

-----------------------------------------------------------------------------
(* aspect_worker.run.                                                      *)
StartAspect(t) ==
    /\ AspectProcess(t, "starting", IF Unended(t) /\ ~Expired(t) THEN "working" ELSE "none")
    /\ IF Expired(t) THEN FinishAspect(t, "failed") ELSE UNCHANGED <<aspectJob, aspectActive>>
    /\ UNCHANGED aspectPage

AspectProgress(t) ==
    /\ aspectWorker[t] = "working"
    /\ ~Expired(t) /\ aspectJob[t].status # "failed"
    /\ aspectJob' = [aspectJob EXCEPT ![t].status = "running"]
    /\ UNCHANGED <<aspectActive, aspectWorker, aspectPage>>

(* The service has committed a snapshot. *)
ReportAspect(t) ==
    /\ AspectProcess(t, "working", "closing")
    /\ FinishAspect(t, "complete")
    /\ UNCHANGED aspectPage

(* The service or progress raises, or the alarm does: it rings at the      *)
(* deadline, also between the report and the line that switches it off.    *)
ReportAspectFailure(t) ==
    /\ \/ AspectProcess(t, "working", "none")
       \/ AspectProcess(t, "closing", "none") /\ aspectJob[t].late
    /\ FinishAspect(t, "failed")
    /\ UNCHANGED aspectPage

(* The process ends or is killed. *)
AspectExit(t) ==
    /\ \E from \in {"starting", "working", "closing"} : AspectProcess(t, from, "none")
    /\ UNCHANGED <<aspectJob, aspectActive, aspectPage>>

-----------------------------------------------------------------------------
(* poll_aspect_refresh: a read, and for an expired job a finish in a       *)
(* transaction of its own; polling stops at the first end the page sees.   *)
PollAspect(t) ==
    /\ aspectPage[t] = "polling"
    /\ aspectPage' = [aspectPage EXCEPT ![t] =
          IF Expired(t) THEN "timing" ELSE IF Unended(t) THEN "polling" ELSE "none"]
    /\ UNCHANGED <<aspectJob, aspectActive, aspectWorker>>

TimeOutAspect(t) ==
    /\ aspectPage[t] = "timing"
    /\ aspectPage' = [aspectPage EXCEPT ![t] = "none"]
    /\ FinishAspect(t, "failed")
    /\ UNCHANGED aspectWorker

AspectDeadlinePasses(t) ==
    /\ Submitted(t) /\ ~aspectJob[t].late
    /\ aspectJob' = [aspectJob EXCEPT ![t].late = TRUE]
    /\ UNCHANGED <<aspectActive, aspectWorker, aspectPage>>

AspectNext ==
    \/ \E r \in AspectRequests : SubmitAspect(r)
    \/ \E t \in Tickets :
         \/ AspectLaunchFails(t) \/ StartAspect(t) \/ AspectProgress(t) \/ ReportAspect(t)
         \/ ReportAspectFailure(t) \/ AspectExit(t)
         \/ PollAspect(t) \/ TimeOutAspect(t) \/ AspectDeadlinePasses(t)

AspectSpec == AspectInit /\ [][AspectNext]_aspectVars

-----------------------------------------------------------------------------
(* The two-job workstation limit and duplicate protection: of the jobs     *)
(* that have not ended and are within their deadline there are at most     *)
(* as many as the limit says, and never two for one request, although late *)
(* jobs lose their entry to newer ones and finish afterwards.              *)
AspectBounded ==
    LET Running == {t \in Tickets : Unended(t) /\ ~aspectJob[t].late}
    IN  /\ Cardinality(Running) <= AspectLimit
        /\ \A t, u \in Running : aspectJob[t].request = aspectJob[u].request => t = u
=============================================================================
