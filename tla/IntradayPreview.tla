---------------------------- MODULE IntradayPreview ----------------------------
(***************************************************************************)
(* Intraday proposals of one product: the preview jobs (intraday/jobs.py), *)
(* the pages that follow a market window and show, save, reopen and        *)
(* publish proposals (intraday/controller.py, brent_workspace.py and       *)
(* ttf_workspace.py, which do the same).  The publications themselves are  *)
(* external: they compare the pointer they are given with the active one.  *)
(***************************************************************************)
EXTENDS Naturals, Sequences, FiniteSets

CONSTANTS
    Traders,
    Windows,          \* market windows, in the order of time
    PreviewLimit,     \* unfinished previews (four)
    MaxIntraday,      \* bound on publications
    MaxPreviews,      \* bound on runs in the queue
    Reopeners         \* bound: the traders whose drafts are kept and reopened

ASSUME PreviewAssumption ==
    /\ Windows \subseteq Nat /\ Windows # {}
    /\ PreviewLimit \in Nat \ {0} /\ MaxIntraday \in Nat /\ MaxPreviews \in Nat \ {0}
    /\ Reopeners \subseteq Traders

VARIABLES
    pointer,      \* the active publication; 0: none yet
    fittedOn,     \* the pointer that the proposal in each publication had seen
    preview,      \* the cached state of the job of each trader and request
    scope,        \* the request the page of each trader wants now
    waiting,      \* runs in the pool, the first one is executed
    loaded,       \* the pointer the executed run has read; NotLoaded: none
    unfinished,   \* _JOBS
    request,      \* of each page: its window and the publication it displays
    shown,        \* the proposal each page shows
    reopened,     \* a saved one reopened in its place, and for which request
    drafts,       \* saved proposals of each trader
    publishing    \* the draft each page is about to publish, and over which pointer

previewVars == <<pointer, fittedOn, preview, scope, waiting, loaded, unfinished,
                 request, shown, reopened, drafts, publishing>>

Pointers == 0 .. MaxIntraday
NotLoaded == MaxIntraday + 1

PreviewRequests == [window : Windows, display : Pointers]
NoRequested == [window |-> 0, display |-> 0]

(* A proposal names its window and what it saw as active.                  *)
Proposals == [window : Windows, expected : Pointers]
NoProposal == [window |-> 0, expected |-> 0]

NotReopened == [at |-> NoRequested, proposal |-> NoProposal]
NotPublishing == [proposal |-> NoProposal, over |-> 0]

PreviewStates == [status : {"absent", "running", "failed"}, proposal : {NoProposal}]
                     \cup [status : {"complete"}, proposal : Proposals]
NoPreview == [status |-> "absent", proposal |-> NoProposal]

PreviewJobs == Traders \X PreviewRequests

PreviewTypeOK ==
    /\ pointer \in Pointers
    /\ fittedOn \in [Pointers -> Pointers]
    /\ preview \in [Traders -> [PreviewRequests -> PreviewStates]]
    /\ scope \in [Traders -> PreviewRequests \cup {NoRequested}]
    /\ waiting \in Seq(PreviewJobs) /\ Len(waiting) <= MaxPreviews
    /\ loaded \in 0 .. NotLoaded
    /\ unfinished \subseteq PreviewJobs
    /\ request \in [Traders -> PreviewRequests \cup {NoRequested}]
    /\ shown \in [Traders -> Proposals \cup {NoProposal}]
    /\ reopened \in [Traders -> [at : PreviewRequests \cup {NoRequested},
                                 proposal : Proposals \cup {NoProposal}]]
    /\ drafts \in [Traders -> SUBSET Proposals]
    /\ publishing \in [Traders -> [proposal : Proposals \cup {NoProposal}, over : Pointers]]

PreviewInit ==
    /\ pointer = 0
    /\ fittedOn = [p \in Pointers |-> 0]
    /\ preview = [t \in Traders |-> [q \in PreviewRequests |-> NoPreview]]
    /\ scope = [t \in Traders |-> NoRequested]
    /\ waiting = <<>> /\ loaded = NotLoaded /\ unfinished = {}
    /\ request = [t \in Traders |-> NoRequested]
    /\ shown = [t \in Traders |-> NoProposal]
    /\ reopened = [t \in Traders |-> NotReopened]
    /\ drafts = [t \in Traders |-> {}]
    /\ publishing = [t \in Traders |-> NotPublishing]

-----------------------------------------------------------------------------
pages == <<request, shown, reopened, drafts, publishing>>
publications == <<pointer, fittedOn>>
execution == <<waiting, loaded, unfinished>>

(* market_request: the page follows the market, or reloads its history     *)
(* after a publication.  What it showed belonged to the last request.      *)
MarketMoves(t, q) ==
    /\ q.display = pointer /\ q # request[t]
    /\ request' = [request EXCEPT ![t] = q]
    /\ shown' = [shown EXCEPT ![t] = NoProposal]
    /\ UNCHANGED <<publications, preview, scope, execution, reopened, drafts, publishing>>

(* submit, under the lock of the process and in one transaction of the     *)
(* cache.  A job that is running or complete is joined; another is started *)
(* when there is none, when a complete one has lost its proposal or one    *)
(* has run for five minutes.  A full queue refuses and rolls back.         *)
SubmitPreview(t) ==
    LET q == request[t]
    IN  /\ q # NoRequested /\ scope[t] # q
        /\ scope' = [scope EXCEPT ![t] = q]
        /\ \/ /\ preview[t][q].status \in {"running", "complete"}
              /\ UNCHANGED <<preview, execution>>
           \/ /\ Cardinality(unfinished) < PreviewLimit /\ Len(waiting) < MaxPreviews
              /\ preview' = [preview EXCEPT ![t][q] = [NoPreview EXCEPT !.status = "running"]]
              /\ waiting' = Append(waiting, <<t, q>>)
              /\ unfinished' = unfinished \cup {<<t, q>>}
              /\ UNCHANGED loaded
        /\ UNCHANGED <<publications, pages>>

-----------------------------------------------------------------------------
(* run, in the one thread of the pool.  Its last lines are the same for    *)
(* every end, also for a run that was given up.                            *)
EndPreview(state) ==
    LET t == Head(waiting)[1]
        q == Head(waiting)[2]
    IN  /\ preview' = [preview EXCEPT ![t][q] = state]
        /\ unfinished' = unfinished \ {<<t, q>>}
        /\ waiting' = Tail(waiting) /\ loaded' = NotLoaded
        /\ UNCHANGED <<publications, scope, pages>>

Superseded == scope[Head(waiting)[1]] # Head(waiting)[2]

LoadInputs ==
    /\ waiting # <<>> /\ loaded = NotLoaded /\ ~Superseded
    /\ loaded' = pointer
    /\ UNCHANGED <<publications, preview, scope, waiting, unfinished, pages>>

(* Superseded, too slow, or an error.                                      *)
PreviewFails ==
    /\ waiting # <<>> /\ (loaded = NotLoaded => Superseded)
    /\ EndPreview([NoPreview EXCEPT !.status = "failed"])

(* A fit, or a cached fit of the same evidence bound to these inputs.      *)
FitPreview ==
    /\ waiting # <<>> /\ loaded # NotLoaded
    /\ EndPreview([status |-> "complete",
                   proposal |-> [window |-> Head(waiting)[2].window, expected |-> loaded]])

PreviewRestarts ==
    /\ waiting # <<>>
    /\ waiting' = <<>> /\ loaded' = NotLoaded /\ unfinished' = {}
    /\ UNCHANGED <<publications, preview, scope, pages>>

-----------------------------------------------------------------------------
(* poll: only the answer to the request of the page is shown.              *)
PollPreview(t) ==
    /\ scope[t] = request[t] /\ request[t] # NoRequested
    /\ preview[t][request[t]].status = "complete"
    /\ shown' = [shown EXCEPT ![t] = preview[t][request[t]].proposal]
    /\ UNCHANGED <<publications, preview, scope, execution, request, reopened, drafts, publishing>>

(* review_candidate.                                                       *)
Reviewed(t) == IF reopened[t] # NotReopened /\ reopened[t].at = request[t]
                 THEN reopened[t].proposal ELSE shown[t]

(* Slip: what the page displays is published over. *)
OverDisplayed(t) == request[t].display

(* The pointer captured with the preview. *)
Over(t) == Reviewed(t).expected

(* save_or_publish: a draft is saved in one transaction, and published in  *)
(* another.                                                                *)
SaveIntraday(t) ==
    /\ publishing[t] = NotPublishing /\ Reviewed(t) # NoProposal
    /\ drafts' = [drafts EXCEPT ![t] = IF t \in Reopeners THEN @ \cup {Reviewed(t)} ELSE @]
    /\ \/ publishing' = [publishing EXCEPT ![t] = [proposal |-> Reviewed(t), over |-> Over(t)]]
       \/ UNCHANGED publishing
    /\ UNCHANGED <<publications, preview, scope, execution, request, shown, reopened>>

PublishIntraday(t) ==
    /\ publishing[t] # NotPublishing
    /\ publishing' = [publishing EXCEPT ![t] = NotPublishing]
    /\ IF publishing[t].over = pointer /\ pointer < MaxIntraday
         THEN /\ pointer' = pointer + 1
              /\ fittedOn' = [fittedOn EXCEPT ![pointer + 1] = publishing[t].proposal.expected]
         ELSE UNCHANGED publications
    /\ UNCHANGED <<preview, scope, execution, request, shown, reopened, drafts>>

OpenDraft(t) ==
    /\ request[t] # NoRequested
    /\ \E saved \in drafts[t] :
         reopened' = [reopened EXCEPT ![t] = [at |-> request[t], proposal |-> saved]]
    /\ UNCHANGED <<publications, preview, scope, execution, request, shown, drafts, publishing>>

(* The review is closed or opened anew. *)
CloseReview(t) ==
    /\ reopened[t] # NotReopened
    /\ reopened' = [reopened EXCEPT ![t] = NotReopened]
    /\ UNCHANGED <<publications, preview, scope, execution, request, shown, drafts, publishing>>

PreviewNext ==
    \/ LoadInputs \/ PreviewFails \/ FitPreview \/ PreviewRestarts
    \/ \E t \in Traders, q \in PreviewRequests : MarketMoves(t, q)
    \/ \E t \in Traders :
         \/ SubmitPreview(t) \/ PollPreview(t) \/ SaveIntraday(t) \/ PublishIntraday(t)
         \/ OpenDraft(t) \/ CloseReview(t)

PreviewSpec == PreviewInit /\ [][PreviewNext]_previewVars

-----------------------------------------------------------------------------
(* No trader publishes over a publication that his proposal has not seen:  *)
(* each one replaces the one that was active when the inputs of its fit    *)
(* were loaded, although proposals wait in pages and queues, are reused    *)
(* between requests, are reopened from drafts, and others publish.         *)
SeenBeforeReplaced == \A p \in 1 .. pointer : fittedOn[p] = p - 1
================================================================================
