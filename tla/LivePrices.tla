----------------------------- MODULE LivePrices -----------------------------
(***************************************************************************)
(* The Live Prices page of one trader, open in several tabs, and the desk  *)
(* curve all traders share.  A click of Refresh joins a job that has not   *)
(* begun to acquire quotes, or starts one in the process that serves the   *)
(* click; each process runs one job at a time, and a lock in the shared    *)
(* store lets one of them use the Bloomberg connection.  A captured        *)
(* snapshot may be accepted as the desk curve, over the curve reviewed.    *)
(***************************************************************************)
EXTENDS Naturals, Sequences, FiniteSets

CONSTANTS Tabs,         \* tabs of the trader
          DeskTabs,     \* those of them in which the desk curve is used
          Hosts,        \* server processes
          HostLimit,    \* jobs a process may have: 4 in the code
          MaxJobs,      \* bound on jobs
          MaxCurves,    \* bound on accepted desk curves
          MaxEvents     \* bound on time-outs, restarts, reloads and curves of others

ASSUME LiveAssumption ==
    /\ HostLimit \in Nat \ {0} /\ DeskTabs \subseteq Tabs
    /\ {MaxJobs, MaxCurves, MaxEvents} \subseteq Nat

VARIABLES jobs,       \* jobs in the order of their submission
          newest,     \* the job other tabs may join
          collector,  \* the job that holds the Bloomberg connection, 0 if none
          retained,   \* the complete snapshot kept beside the store
          tab,        \* per tab: the stores of the page
          sheets,     \* per tab: the answer about the desk curve under way
          curves,     \* accepted desk curves: the snapshot, what it replaced
          events

liveVars == <<jobs, newest, collector, retained, tab, sheets, curves, events>>

NoAnswer == [head |-> 0, shows |-> FALSE]
Capture(j) == [kind |-> "captured", id |-> j]
DeskCurve(r) == [kind |-> "desk_curve", id |-> r]
NoPrices == [kind |-> "none", id |-> 0]

LiveInit ==
    /\ jobs = <<>> /\ newest = 0 /\ collector = 0 /\ retained = 0 /\ curves = <<>> /\ events = 0
    /\ tab = [t \in Tabs |-> [job |-> 0, ticket |-> 0, shows |-> NoPrices, head |-> 0, reviewed |-> {0}]]
    /\ sheets = [t \in Tabs |-> NoAnswer]

Happens == events < MaxEvents /\ events' = events + 1
Pending(j) == j # 0 /\ jobs[j].status \in {"queued", "running"} /\ ~jobs[j].late
Futures(h) == {j \in DOMAIN jobs : jobs[j].host = h /\ jobs[j].step # "over"}

-----------------------------------------------------------------------------
(* Refresh.                                                                *)

\* One transaction of the store: the tab stays on the job it has, joins the
\* newest job while it accepts tabs, or starts one.
Joins(j) == Pending(j) /\ jobs[j].accepting
OnTicket(t, j) == tab' = [tab EXCEPT ![t].job = j, ![t].ticket = j]
SubmitPrices(t, h) ==
    /\ tab[t].ticket = 0                  \* the button is disabled meanwhile
    /\ LET own == Pending(tab[t].job) IN
       \/ own /\ OnTicket(t, tab[t].job) /\ UNCHANGED <<jobs, newest>>
       \/ /\ ~own /\ Joins(newest)
          /\ OnTicket(t, newest)
          /\ jobs' = [jobs EXCEPT ![newest].joined = @ \cup {jobs[newest].step}]
          /\ UNCHANGED newest
       \/ /\ ~own /\ ~Joins(newest)
          /\ Cardinality(Futures(h)) < HostLimit
          /\ Len(jobs) < MaxJobs
          /\ jobs' = Append(jobs, [host |-> h, status |-> "queued", step |-> "queued",
                                   accepting |-> TRUE, late |-> FALSE, joined |-> {},
                                   fallback |-> 0])
          /\ newest' = Len(jobs')
          /\ OnTicket(t, Len(jobs'))
    /\ UNCHANGED <<collector, retained, sheets, curves, events>>

Step(j, step) == jobs' = [jobs EXCEPT ![j].step = step]
RestOfPage == <<newest, tab, sheets, curves, events>>

\* The thread of the process takes its jobs in order; a job waits for the
\* connection, and gives up if it has run out by then.
StartCapture(j) ==
    /\ jobs[j].step = "queued"
    /\ \A k \in Futures(jobs[j].host) : j <= k
    /\ collector = 0 /\ ~jobs[j].late
    /\ collector' = j
    /\ jobs' = [jobs EXCEPT ![j].step = "prepares", ![j].status = "running"]
    /\ UNCHANGED <<retained, RestOfPage>>
\* The collector acquires quotes; the job hears of it and refuses more tabs.
AcquireQuotes(j) ==
    /\ jobs[j].step = "prepares"
    /\ Step(j, "acquires")
    /\ UNCHANGED <<collector, retained, RestOfPage>>
HearProgress(j) ==
    /\ jobs[j].step = "acquires"
    /\ jobs' = [jobs EXCEPT ![j].step = "captures", ![j].accepting = FALSE]
    /\ UNCHANGED <<collector, retained, RestOfPage>>
\* The connection is released by whoever believes to hold it.
CalculatePrices(j) ==
    /\ jobs[j].step = "captures"
    /\ Step(j, "calculates")
    /\ collector' = 0
    /\ UNCHANGED <<retained, RestOfPage>>
\* The complete snapshot is published and retained, then announced.
RetainPrices(j) ==
    /\ jobs[j].step = "calculates"
    /\ Step(j, "retained")
    /\ retained' = j
    /\ UNCHANGED <<collector, RestOfPage>>
CompletePrices(j) ==
    /\ jobs[j].step = "retained"
    /\ jobs' = [jobs EXCEPT ![j].step = "over", ![j].status = "complete"]
    /\ UNCHANGED <<collector, retained, RestOfPage>>
\* A job fails while it waits too long, captures or calculates; it then refers
\* to the snapshot retained so far.
FailPrices(j) ==
    /\ \/ jobs[j].step \in {"prepares", "acquires", "captures", "calculates"}
       \/ /\ jobs[j].step = "queued" /\ jobs[j].late /\ collector = 0
          /\ \A k \in Futures(jobs[j].host) : j <= k
    /\ jobs' = [jobs EXCEPT ![j].step = "over", ![j].status = "failed", ![j].fallback = retained]
    /\ collector' = IF jobs[j].step \in {"prepares", "acquires", "captures"} THEN 0 ELSE collector
    /\ UNCHANGED <<retained, RestOfPage>>

\* The tab polls its ticket.  A late job leaves the page as it is; so does a
\* failed one, unless it could read a retained snapshot.
PollPrices(t) ==
    /\ tab[t].ticket # 0
    /\ LET j == tab[t].ticket IN
       /\ jobs[j].status \in {"complete", "failed"} \/ jobs[j].late
       /\ \E shown \in IF jobs[j].status = "complete" THEN {Capture(j)}
                       ELSE {tab[t].shows} \cup (IF jobs[j].fallback # 0 THEN {Capture(jobs[j].fallback)} ELSE {}) :
            tab' = [tab EXCEPT ![t].ticket = 0, ![t].shows = shown]
    /\ UNCHANGED <<jobs, newest, collector, retained, sheets, curves, events>>

-----------------------------------------------------------------------------
(* The desk curve.                                                         *)

DeskHead == Len(curves)

\* Another trader accepts a curve of his own.
OtherAccepts ==
    /\ Happens
    /\ Len(curves) < MaxCurves
    /\ curves' = Append(curves, [over |-> DeskHead, reviewed |-> {DeskHead}])
    /\ UNCHANGED <<jobs, newest, collector, retained, tab, sheets>>

\* The page asks for the desk curve, at intervals or to show it; a later
\* request supersedes the answer of an earlier one.  A tab that shows its own
\* capture keeps it, and keeps the head it has reviewed.
Follows(t) == tab[t].shows.kind # "captured"
AskDesk(t) ==
    /\ DeskHead # 0
    /\ \E show \in {Follows(t), TRUE} : sheets' = [sheets EXCEPT ![t] = [head |-> DeskHead, shows |-> show]]
    /\ UNCHANGED <<jobs, newest, collector, retained, tab, curves, events>>

\* Slip: the head is remembered whatever is shown.
HeadAlways(t) ==
    LET a == sheets[t] IN
    [tab[t] EXCEPT !.shows = IF a.shows THEN DeskCurve(a.head) ELSE @, !.head = a.head,
                   !.reviewed = IF a.shows THEN @ \cup {a.head} ELSE @]

\* What a tab that follows the desk, or is told to, makes of the answer.
HeadShown(t) ==
    LET a == sheets[t] IN
    IF a.shows THEN [tab[t] EXCEPT !.shows = DeskCurve(a.head), !.head = a.head, !.reviewed = @ \cup {a.head}]
               ELSE tab[t]
DeskAnswers(t) ==
    /\ sheets[t] # NoAnswer
    /\ tab' = [tab EXCEPT ![t] = HeadShown(t)]
    /\ sheets' = [sheets EXCEPT ![t] = NoAnswer]
    /\ UNCHANGED <<jobs, newest, collector, retained, curves, events>>

\* The capture a tab shows is accepted over the head the page has reviewed.
AcceptDesk(t) ==
    /\ tab[t].shows.kind = "captured"
    /\ tab[t].head = DeskHead
    /\ Len(curves) < MaxCurves
    /\ curves' = Append(curves, [over |-> DeskHead, reviewed |-> tab[t].reviewed])
    /\ sheets' = [sheets EXCEPT ![t] = [head |-> Len(curves'), shows |-> TRUE]]
    /\ UNCHANGED <<jobs, newest, collector, retained, tab, events>>

-----------------------------------------------------------------------------
(* Time, and restarts.                                                     *)

JobRunsLate(j) ==
    /\ Happens
    /\ jobs[j].status \in {"queued", "running"} /\ ~jobs[j].late
    /\ jobs' = [jobs EXCEPT ![j].late = TRUE]
    /\ UNCHANGED <<newest, collector, retained, tab, sheets, curves>>
ConnectionRunsOut ==
    /\ Happens
    /\ collector # 0 /\ collector' = 0
    /\ UNCHANGED <<jobs, newest, retained, tab, sheets, curves>>
\* The jobs of a restarted process stay as they were in the store.
HostRestarts(h) ==
    /\ Happens
    /\ Futures(h) # {}
    /\ jobs' = [j \in DOMAIN jobs |-> IF j \in Futures(h) THEN [jobs[j] EXCEPT !.step = "over"] ELSE jobs[j]]
    /\ UNCHANGED <<newest, collector, retained, tab, sheets, curves>>
\* A reloaded tab polls no ticket, and shows what it did without a head.
ReloadTab(t) ==
    /\ Happens
    /\ tab' = [tab EXCEPT ![t].head = 0, ![t].ticket = 0]
    /\ sheets' = [sheets EXCEPT ![t] = NoAnswer]
    /\ UNCHANGED <<jobs, newest, collector, retained, curves>>

LiveNext ==
    \/ \E t \in Tabs :
         \/ \E h \in Hosts : SubmitPrices(t, h)
         \/ PollPrices(t) \/ ReloadTab(t)
    \/ \E t \in DeskTabs : AskDesk(t) \/ DeskAnswers(t) \/ AcceptDesk(t)
    \/ \E j \in DOMAIN jobs :
         \/ StartCapture(j) \/ AcquireQuotes(j) \/ HearProgress(j) \/ CalculatePrices(j)
         \/ RetainPrices(j) \/ CompletePrices(j) \/ FailPrices(j) \/ JobRunsLate(j)
    \/ OtherAccepts \/ ConnectionRunsOut
    \/ \E h \in Hosts : HostRestarts(h)

LiveSpec == LiveInit /\ [][LiveNext]_liveVars

(***************************************************************************)
(* Tickets, references and heads point at jobs and curves that exist.      *)
(***************************************************************************)
LiveTypeOK ==
    /\ {newest, collector, retained} \subseteq 0..Len(jobs)
    /\ \A t \in Tabs :
         /\ {tab[t].job, tab[t].ticket} \subseteq 0..Len(jobs)
         /\ tab[t].head \in 0..DeskHead /\ sheets[t].head \in 0..DeskHead
         /\ tab[t].shows.kind = "captured" => jobs[tab[t].shows.id].step \in {"retained", "over"}
    /\ Len(jobs) <= MaxJobs /\ Len(curves) <= MaxCurves /\ events \in 0..MaxEvents

\* No tab joins a job of which it is known that quotes are being acquired, and
\* a process never has more jobs than its limit.
JoinedInTime ==
    /\ \A j \in DOMAIN jobs : jobs[j].joined \subseteq {"queued", "prepares", "acquires", "over"}
    /\ \A h \in Hosts : Cardinality(Futures(h)) <= HostLimit

\* A desk curve replaces the curve its trader's tab had shown, and no other.
AcceptedOverReviewed ==
    \A r \in DOMAIN curves : curves[r].over = r - 1 /\ curves[r].over \in curves[r].reviewed

(***************************************************************************)
(* Whoever refreshes gets quotes that were not known to be under way, and  *)
(* whoever accepts a curve has reviewed the one it replaces.               *)
(***************************************************************************)
DeskReviewed == JoinedInTime /\ AcceptedOverReviewed
=============================================================================
