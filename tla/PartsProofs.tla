---------------------------- MODULE PartsProofs -----------------------------
(***************************************************************************)
(* Theorems about the pages of the dashboards and, at the end, about all the *)
(* components that share no state with each other, put together as they are *)
(* checked.  Each component has an inductive invariant of its own.         *)
(***************************************************************************)
EXTENDS MCParts, SurfaceProofs

-----------------------------------------------------------------------------
(* Intraday publications.  What a trader publishes over is what his        *)
(* proposal had seen, from the moment he saves it: whatever he reviewed    *)
(* and however it reached the page, the two are captured together.         *)
SeenInv ==
    /\ pointer \in Pointers /\ DOMAIN fittedOn = Pointers /\ DOMAIN publishing = Traders
    /\ \A t \in Traders : publishing[t].over = publishing[t].proposal.expected
    /\ SeenBeforeReplaced

LEMMA SeenInductive == SeenInv /\ [PreviewNext]_previewVars => SeenInv'
<1> SUFFICES ASSUME SeenInv, [PreviewNext]_previewVars PROVE SeenInv'
  OBVIOUS
<1>1. CASE UNCHANGED <<publications, publishing>>
  BY <1>1 DEF SeenInv, SeenBeforeReplaced, publications
<1>2. CASE LoadInputs \/ PreviewFails \/ FitPreview \/ PreviewRestarts \/ UNCHANGED previewVars
  BY <1>1, <1>2 DEF LoadInputs, PreviewFails, FitPreview, PreviewRestarts, EndPreview, pages,
     publications, previewVars
<1>3. ASSUME NEW t \in Traders,
             \/ \E q \in PreviewRequests : MarketMoves(t, q)
             \/ SubmitPreview(t) \/ PollPreview(t) \/ OpenDraft(t) \/ CloseReview(t)
      PROVE  SeenInv'
  BY <1>1, <1>3 DEF MarketMoves, SubmitPreview, PollPreview, OpenDraft, CloseReview, pages
<1>4. ASSUME NEW t \in Traders, SaveIntraday(t) PROVE SeenInv'
  <2>1. /\ UNCHANGED publications
        /\ \/ UNCHANGED publishing
           \/ publishing' = [publishing EXCEPT ![t] = [proposal |-> Reviewed(t), over |-> Over(t)]]
    BY <1>4 DEF SaveIntraday
  <2> QED
    BY <1>1, <2>1 DEF Over, SeenInv, SeenBeforeReplaced, publications
<1>5. ASSUME NEW t \in Traders, PublishIntraday(t) PROVE SeenInv'
  <2>1. /\ publishing' = [publishing EXCEPT ![t] = NotPublishing]
        /\ \/ UNCHANGED publications
           \/ /\ publishing[t].over = pointer /\ pointer < MaxIntraday
              /\ pointer' = pointer + 1
              /\ fittedOn' = [fittedOn EXCEPT ![pointer + 1] = publishing[t].proposal.expected]
    BY <1>5 DEF PublishIntraday
  <2>2. \A v \in Traders : publishing'[v].over = publishing'[v].proposal.expected
    BY <2>1 DEF SeenInv, NotPublishing, NoProposal
  <2>3. CASE UNCHANGED publications
    BY <2>1, <2>2, <2>3 DEF SeenInv, SeenBeforeReplaced, publications
  <2>4. CASE /\ publishing[t].over = pointer /\ pointer < MaxIntraday
             /\ pointer' = pointer + 1
             /\ fittedOn' = [fittedOn EXCEPT ![pointer + 1] = publishing[t].proposal.expected]
    <3>1. publishing[t].proposal.expected = pointer
      BY <2>4 DEF SeenInv
    <3>2. pointer' \in Pointers /\ DOMAIN fittedOn' = Pointers
      BY <2>4, PreviewAssumption DEF SeenInv, Pointers
    <3>3. \A p \in 1 .. pointer' : fittedOn'[p] = p - 1
      BY <2>4, <3>1, <3>2, PreviewAssumption DEF SeenInv, SeenBeforeReplaced, Pointers
    <3> QED
      BY <2>1, <2>2, <3>2, <3>3 DEF SeenInv, SeenBeforeReplaced
  <2> QED
    BY <2>1, <2>3, <2>4
<1> QED
  BY <1>2, <1>3, <1>4, <1>5 DEF PreviewNext

(* No intraday publication replaces one that its proposal has not seen,    *)
(* whatever is queued, reused, saved, reopened and published meanwhile.    *)
THEOREM IntradaySeen == PreviewSpec => []SeenBeforeReplaced
<1>1. PreviewInit => SeenInv
  BY PreviewAssumption DEF PreviewInit, SeenInv, SeenBeforeReplaced, Pointers, NotPublishing,
     NoProposal
<1>2. SeenInv => SeenBeforeReplaced
  BY DEF SeenInv
<1> QED
  BY <1>1, <1>2, SeenInductive, PTL DEF PreviewSpec

(* What the intraday pages, queues and publications hold.                  *)
LEMMA PreviewRows ==
    ASSUME PreviewTypeOK, NEW t \in Traders
    PROVE  /\ preview[t] \in [PreviewRequests -> PreviewStates]
           /\ request[t] \in PreviewRequests \cup {NoRequested}
           /\ Reviewed(t) \in Proposals \cup {NoProposal}
           /\ Over(t) \in Pointers
           /\ publishing[t].over \in Pointers /\ publishing[t].proposal.expected \in Pointers
<1>1. /\ preview[t] \in [PreviewRequests -> PreviewStates]
      /\ request[t] \in PreviewRequests \cup {NoRequested}
      /\ shown[t] \in Proposals \cup {NoProposal}
      /\ reopened[t] \in [at : PreviewRequests \cup {NoRequested}, proposal : Proposals \cup {NoProposal}]
      /\ publishing[t] \in [proposal : Proposals \cup {NoProposal}, over : Pointers]
  BY DEF PreviewTypeOK
<1>2. \A p \in Proposals \cup {NoProposal} : p.expected \in Pointers
  BY PreviewAssumption DEF Proposals, NoProposal, Pointers
<1>3. Reviewed(t) \in Proposals \cup {NoProposal}
  BY <1>1 DEF Reviewed
<1> QED
  BY <1>1, <1>2, <1>3 DEF Over

LEMMA PreviewEndsTyped ==
    ASSUME PreviewTypeOK, waiting # <<>>, NEW s \in PreviewStates, EndPreview(s)
    PROVE  PreviewTypeOK'
<1>1. waiting \in Seq(PreviewJobs) /\ Len(waiting) <= MaxPreviews
  BY DEF PreviewTypeOK
<1>2. /\ Head(waiting) \in PreviewJobs /\ Tail(waiting) \in Seq(PreviewJobs)
      /\ Len(Tail(waiting)) <= MaxPreviews
  BY <1>1, PreviewAssumption
<1>3. PICK t \in Traders, q \in PreviewRequests : Head(waiting) = <<t, q>>
  BY <1>2 DEF PreviewJobs
<1>4. /\ preview' = [preview EXCEPT ![t][q] = s] /\ unfinished' = unfinished \ {<<t, q>>}
      /\ waiting' = Tail(waiting) /\ loaded' = NotLoaded
      /\ UNCHANGED <<publications, scope, pages>>
  <2>1. Head(waiting)[1] = t /\ Head(waiting)[2] = q
    BY <1>3
  <2> QED
    BY <2>1 DEF EndPreview
<1>5. preview' \in [Traders -> [PreviewRequests -> PreviewStates]]
  <2>1. PICK row : row = [preview[t] EXCEPT ![q] = s]
    OBVIOUS
  <2>2. row \in [PreviewRequests -> PreviewStates] /\ preview' = [preview EXCEPT ![t] = row]
    BY <1>4, <2>1, PreviewRows
  <2> QED
    BY <2>2 DEF PreviewTypeOK
<1>6. waiting' \in Seq(PreviewJobs) /\ Len(waiting') <= MaxPreviews
      /\ loaded' \in 0 .. NotLoaded /\ unfinished' \subseteq PreviewJobs
  BY <1>2, <1>4, PreviewAssumption DEF PreviewTypeOK, NotLoaded
<1> QED
  BY <1>4, <1>5, <1>6 DEF PreviewTypeOK, publications, pages, Pointers

LEMMA PreviewTypedInductive == PreviewTypeOK /\ [PreviewNext]_previewVars => PreviewTypeOK'
<1> SUFFICES ASSUME PreviewTypeOK, [PreviewNext]_previewVars PROVE PreviewTypeOK'
  OBVIOUS
<1>1. NoPreview \in PreviewStates /\ [NoPreview EXCEPT !.status = "failed"] \in PreviewStates
      /\ [NoPreview EXCEPT !.status = "running"] \in PreviewStates
  BY DEF NoPreview, PreviewStates
<1>2. CASE UNCHANGED previewVars
  BY <1>2 DEF PreviewTypeOK, previewVars, Pointers
<1>3. CASE LoadInputs
  <2>1. loaded' \in 0 .. NotLoaded
    BY <1>3, PreviewAssumption DEF LoadInputs, PreviewTypeOK, Pointers, NotLoaded
  <2> QED
    BY <1>3, <2>1 DEF LoadInputs, PreviewTypeOK, publications, pages, Pointers
<1>4. CASE PreviewFails
  BY <1>1, <1>4, PreviewEndsTyped DEF PreviewFails
<1>5. CASE FitPreview
  <2>1. PICK s : s = [status |-> "complete",
                      proposal |-> [window |-> Head(waiting)[2].window, expected |-> loaded]]
    OBVIOUS
  <2>2. waiting # <<>> /\ EndPreview(s) /\ loaded # NotLoaded
    BY <1>5, <2>1 DEF FitPreview
  <2>3. Head(waiting)[2] \in PreviewRequests
    BY <2>2 DEF PreviewTypeOK, PreviewJobs
  <2>4. loaded \in Pointers
    BY <2>2, PreviewAssumption DEF PreviewTypeOK, Pointers, NotLoaded
  <2>5. s \in PreviewStates
    BY <2>1, <2>3, <2>4 DEF PreviewStates, PreviewRequests, Proposals
  <2> QED
    BY <2>2, <2>5, PreviewEndsTyped
<1>6. CASE PreviewRestarts
  <2>1. waiting' \in Seq(PreviewJobs) /\ Len(waiting') <= MaxPreviews /\ loaded' \in 0 .. NotLoaded
        /\ unfinished' \subseteq PreviewJobs
    BY <1>6, PreviewAssumption DEF PreviewRestarts, NotLoaded
  <2> QED
    BY <1>6, <2>1 DEF PreviewRestarts, PreviewTypeOK, publications, pages, Pointers
<1>7. ASSUME NEW t \in Traders, NEW q \in PreviewRequests, MarketMoves(t, q) PROVE PreviewTypeOK'
  <2>1. /\ request' \in [Traders -> PreviewRequests \cup {NoRequested}]
        /\ shown' \in [Traders -> Proposals \cup {NoProposal}]
    BY <1>7 DEF MarketMoves, PreviewTypeOK
  <2> QED
    BY <1>7, <2>1 DEF MarketMoves, PreviewTypeOK, publications, execution, Pointers
<1>8. ASSUME NEW t \in Traders, SubmitPreview(t) PROVE PreviewTypeOK'
  <2>1. PICK q : q = request[t]
    OBVIOUS
  <2>2. q \in PreviewRequests
    BY <1>8, <2>1, PreviewRows DEF SubmitPreview
  <2>3. /\ scope' = [scope EXCEPT ![t] = q] /\ UNCHANGED <<publications, pages>>
        /\ \/ UNCHANGED <<preview, execution>>
           \/ /\ Len(waiting) < MaxPreviews
              /\ preview' = [preview EXCEPT ![t][q] = [NoPreview EXCEPT !.status = "running"]]
              /\ waiting' = Append(waiting, <<t, q>>)
              /\ unfinished' = unfinished \cup {<<t, q>>}
              /\ UNCHANGED loaded
    BY <1>8, <2>1 DEF SubmitPreview
  <2>4. scope' \in [Traders -> PreviewRequests \cup {NoRequested}]
    BY <2>2, <2>3 DEF PreviewTypeOK
  <2>5. CASE UNCHANGED <<preview, execution>>
    BY <2>3, <2>4, <2>5 DEF PreviewTypeOK, publications, pages, execution, Pointers
  <2>6. CASE /\ Len(waiting) < MaxPreviews
             /\ preview' = [preview EXCEPT ![t][q] = [NoPreview EXCEPT !.status = "running"]]
             /\ waiting' = Append(waiting, <<t, q>>)
             /\ unfinished' = unfinished \cup {<<t, q>>}
             /\ UNCHANGED loaded
    <3>1. PICK s \in PreviewStates : s = [NoPreview EXCEPT !.status = "running"]
      BY <1>1
    <3>2. PICK row : row = [preview[t] EXCEPT ![q] = s]
      OBVIOUS
    <3>3. row \in [PreviewRequests -> PreviewStates] /\ preview' = [preview EXCEPT ![t] = row]
      BY <2>2, <2>6, <3>1, <3>2, PreviewRows
    <3>4. preview' \in [Traders -> [PreviewRequests -> PreviewStates]]
      BY <3>3 DEF PreviewTypeOK
    <3>5. PICK job \in PreviewJobs : job = <<t, q>>
      BY <2>2 DEF PreviewJobs
    <3>6. /\ waiting' \in Seq(PreviewJobs) /\ Len(waiting') <= MaxPreviews
          /\ unfinished' \subseteq PreviewJobs
      <4>1. waiting \in Seq(PreviewJobs) /\ waiting' = Append(waiting, job)
        BY <2>6, <3>5 DEF PreviewTypeOK
      <4>2. waiting' \in Seq(PreviewJobs) /\ Len(waiting') = Len(waiting) + 1 /\ Len(waiting) \in Nat
        BY <3>5, <4>1, AppendAt
      <4>3. Len(waiting') <= MaxPreviews
        BY <2>6, <4>2, PreviewAssumption
      <4>4. unfinished' \subseteq PreviewJobs
        BY <2>6, <3>5 DEF PreviewTypeOK
      <4> QED
        BY <4>2, <4>3, <4>4
    <3> QED
      BY <2>3, <2>4, <2>6, <3>4, <3>6 DEF PreviewTypeOK, publications, pages, Pointers
  <2> QED
    BY <2>3, <2>5, <2>6
<1>9. ASSUME NEW t \in Traders, PollPreview(t) PROVE PreviewTypeOK'
  <2>1. PICK q \in PreviewRequests : q = request[t]
    BY <1>9, PreviewRows DEF PollPreview
  <2>2. preview[t][q] \in PreviewStates
    BY PreviewRows
  <2>3. preview[t][q].status = "complete" /\ shown' = [shown EXCEPT ![t] = preview[t][q].proposal]
    BY <1>9, <2>1 DEF PollPreview
  <2>4. preview[t][q].proposal \in Proposals
    BY <2>2, <2>3 DEF PreviewStates
  <2>5. shown' \in [Traders -> Proposals \cup {NoProposal}]
    BY <2>3, <2>4 DEF PreviewTypeOK
  <2> QED
    BY <1>9, <2>5 DEF PollPreview, PreviewTypeOK, publications, execution, Pointers
<1>10. ASSUME NEW t \in Traders, SaveIntraday(t) PROVE PreviewTypeOK'
  <2>1. PICK p \in Proposals : p = Reviewed(t)
    BY <1>10, PreviewRows DEF SaveIntraday
  <2>2. PICK o \in Pointers : o = Over(t)
    BY PreviewRows
  <2>3. drafts' \in [Traders -> SUBSET Proposals]
    <3>1. PICK ds : ds = IF t \in Reopeners THEN drafts[t] \cup {p} ELSE drafts[t]
      OBVIOUS
    <3>2. drafts' = [drafts EXCEPT ![t] = ds]
      BY <1>10, <2>1, <3>1 DEF SaveIntraday
    <3>3. drafts \in [Traders -> SUBSET Proposals] /\ ds \in SUBSET Proposals
      BY <2>1, <3>1 DEF PreviewTypeOK
    <3> QED
      BY <3>2, <3>3
  <2>4. publishing' \in [Traders -> [proposal : Proposals \cup {NoProposal}, over : Pointers]]
    <3>1. PICK row : row = [proposal |-> p, over |-> o]
      OBVIOUS
    <3>2. row \in [proposal : Proposals \cup {NoProposal}, over : Pointers]
      BY <3>1
    <3>3. publishing' = publishing \/ publishing' = [publishing EXCEPT ![t] = row]
      BY <1>10, <2>1, <2>2, <3>1 DEF SaveIntraday
    <3> QED
      BY <3>2, <3>3 DEF PreviewTypeOK
  <2> QED
    BY <1>10, <2>3, <2>4 DEF SaveIntraday, PreviewTypeOK, publications, execution, Pointers
<1>11. ASSUME NEW t \in Traders, PublishIntraday(t) PROVE PreviewTypeOK'
  <2>1. PICK e \in Pointers : e = publishing[t].proposal.expected
    BY PreviewRows
  <2>2. /\ publishing' = [publishing EXCEPT ![t] = NotPublishing]
        /\ \/ UNCHANGED publications
           \/ /\ pointer < MaxIntraday /\ pointer' = pointer + 1
              /\ fittedOn' = [fittedOn EXCEPT ![pointer + 1] = e]
    BY <1>11, <2>1 DEF PublishIntraday
  <2>3. pointer' \in Pointers /\ fittedOn' \in [Pointers -> Pointers]
    <3>1. CASE UNCHANGED publications
      BY <3>1 DEF PreviewTypeOK, Pointers, publications
    <3>2. CASE pointer < MaxIntraday /\ pointer' = pointer + 1 /\ fittedOn' = [fittedOn EXCEPT ![pointer + 1] = e]
      <4>1. pointer \in Pointers /\ fittedOn \in [Pointers -> Pointers]
        BY DEF PreviewTypeOK
      <4>2. pointer' \in Pointers
        BY <3>2, <4>1, PreviewAssumption DEF Pointers
      <4>3. fittedOn' \in [Pointers -> Pointers]
        BY <2>1, <3>2, <4>1
      <4> QED
        BY <4>2, <4>3 DEF Pointers
    <3> QED
      BY <2>2, <3>1, <3>2
  <2>4. NotPublishing \in [proposal : Proposals \cup {NoProposal}, over : Pointers]
    BY PreviewAssumption DEF NotPublishing, Pointers
  <2>5. publishing' \in [Traders -> [proposal : Proposals \cup {NoProposal}, over : Pointers]]
    BY <2>2, <2>4 DEF PreviewTypeOK
  <2> QED
    BY <1>11, <2>3, <2>5 DEF PublishIntraday, PreviewTypeOK, execution, Pointers
<1>12. ASSUME NEW t \in Traders, OpenDraft(t) PROVE PreviewTypeOK'
  <2>1. PICK saved \in drafts[t] :
          reopened' = [reopened EXCEPT ![t] = [at |-> request[t], proposal |-> saved]]
    BY <1>12 DEF OpenDraft
  <2>2. saved \in Proposals
    BY <2>1 DEF PreviewTypeOK
  <2>3. PICK row : row = [at |-> request[t], proposal |-> saved]
    OBVIOUS
  <2>4. row \in [at : PreviewRequests \cup {NoRequested}, proposal : Proposals \cup {NoProposal}]
    BY <2>2, <2>3, PreviewRows
  <2>5. reopened' \in [Traders -> [at : PreviewRequests \cup {NoRequested},
                                   proposal : Proposals \cup {NoProposal}]]
    BY <2>1, <2>3, <2>4 DEF PreviewTypeOK
  <2> QED
    BY <1>12, <2>5 DEF OpenDraft, PreviewTypeOK, publications, execution, Pointers
<1>13. ASSUME NEW t \in Traders, CloseReview(t) PROVE PreviewTypeOK'
  <2>1. NotReopened \in [at : PreviewRequests \cup {NoRequested}, proposal : Proposals \cup {NoProposal}]
    BY DEF NotReopened
  <2>2. reopened' \in [Traders -> [at : PreviewRequests \cup {NoRequested},
                                   proposal : Proposals \cup {NoProposal}]]
    BY <1>13, <2>1 DEF CloseReview, PreviewTypeOK
  <2> QED
    BY <1>13, <2>2 DEF CloseReview, PreviewTypeOK, publications, execution, Pointers
<1> QED
  BY <1>2, <1>3, <1>4, <1>5, <1>6, <1>7, <1>8, <1>9, <1>10, <1>11, <1>12, <1>13 DEF PreviewNext

(* The intraday pages, previews and publications keep their types.         *)
LEMMA PreviewTyped == PreviewSpec => []PreviewTypeOK
<1>1. PreviewInit => PreviewTypeOK
  <2>1. SUFFICES ASSUME PreviewInit PROVE PreviewTypeOK
    OBVIOUS
  <2>2. 0 \in Pointers /\ NotLoaded \in 0 .. NotLoaded /\ NoPreview \in PreviewStates
    BY PreviewAssumption DEF Pointers, NotLoaded, NoPreview, PreviewStates
  <2>3. /\ NotReopened \in [at : PreviewRequests \cup {NoRequested}, proposal : Proposals \cup {NoProposal}]
        /\ NotPublishing \in [proposal : Proposals \cup {NoProposal}, over : Pointers]
    BY <2>2 DEF NotReopened, NotPublishing
  <2>4. waiting = <<>> /\ waiting \in Seq(PreviewJobs) /\ Len(waiting) <= MaxPreviews
    BY <2>1, PreviewAssumption DEF PreviewInit
  <2> QED
    BY <2>1, <2>2, <2>3, <2>4 DEF PreviewInit, PreviewTypeOK
<1> QED
  BY <1>1, PreviewTypedInductive, PTL DEF PreviewSpec

-----------------------------------------------------------------------------
(* Live prices.  A job that accepts tabs has not been told that quotes are *)
(* acquired, unless it was given up; and the head a tab accepts over is    *)
(* one it has shown.                                                       *)
CaptureSteps == {"queued", "prepares", "acquires", "captures", "calculates", "retained", "over"}
Unannounced == {"queued", "prepares", "acquires", "over"}

CaptureJobs == [host : Hosts, status : {"queued", "running", "complete", "failed"},
                step : CaptureSteps, accepting : BOOLEAN, late : BOOLEAN,
                joined : SUBSET Unannounced, fallback : Nat]

BothAnswered == [head : Nat, shows : BOOLEAN]

TabOK(r) ==
    /\ {"head", "reviewed"} \subseteq DOMAIN r /\ r.reviewed \in SUBSET Nat
    /\ {0, r.head} \subseteq r.reviewed

JobsOK ==
    /\ jobs \in Seq(CaptureJobs) /\ newest \in 0 .. Len(jobs) /\ retained \in Nat
    /\ \A j \in DOMAIN jobs : jobs[j].accepting => jobs[j].step \in Unannounced
    /\ \A h \in Hosts : Cardinality(Futures(h)) <= HostLimit

DeskOK ==
    /\ DOMAIN tab = Tabs /\ sheets \in [Tabs -> BothAnswered]
    /\ curves \in Seq([over : Nat, reviewed : SUBSET Nat])
    /\ \A t \in Tabs : TabOK(tab[t])
    /\ AcceptedOverReviewed

LEMMA FuturesFinite ==
    ASSUME jobs \in Seq(CaptureJobs), NEW h
    PROVE  IsFiniteSet(Futures(h)) /\ Cardinality(Futures(h)) \in Nat
<1>1. DOMAIN jobs = 1 .. Len(jobs) /\ Len(jobs) \in Nat
  OBVIOUS
<1>2. IsFiniteSet(DOMAIN jobs)
  BY <1>1, FS_Interval
<1>3. Futures(h) \in SUBSET DOMAIN jobs
  BY DEF Futures
<1> QED
  BY <1>2, <1>3, FS_Subset, FS_CardinalityType

(* A process that gets no job, keeps within its limit.                     *)
LEMMA FuturesShrink ==
    ASSUME JobsOK, NEW h \in Hosts, Futures(h)' \subseteq Futures(h)
    PROVE  Cardinality(Futures(h)') <= HostLimit
<1>1. Futures(h)' \in SUBSET Futures(h)
  OBVIOUS
<1>2. IsFiniteSet(Futures(h)) /\ Cardinality(Futures(h)) \in Nat
  BY FuturesFinite DEF JobsOK
<1>3. Cardinality(Futures(h)') <= Cardinality(Futures(h)) /\ Cardinality(Futures(h)') \in Nat
  BY <1>1, <1>2, FS_Subset, FS_CardinalityType
<1> QED
  BY <1>2, <1>3, LiveAssumption DEF JobsOK

LEMMA CaptureStep ==
    ASSUME JobsOK, NEW j \in DOMAIN jobs, NEW row \in CaptureJobs,
           jobs' = [jobs EXCEPT ![j] = row], row.host = jobs[j].host,
           row.step # "over" => jobs[j].step # "over",
           row.accepting => row.step \in Unannounced,
           newest' = newest, retained' \in Nat
    PROVE  JobsOK'
<1>1. DOMAIN jobs = 1 .. Len(jobs) /\ Len(jobs) \in Nat
  BY DEF JobsOK
<1>2. jobs' \in Seq(CaptureJobs) /\ Len(jobs') = Len(jobs) /\ DOMAIN jobs' = DOMAIN jobs
  BY <1>1 DEF JobsOK
<1>3. jobs'[j] = row /\ \A k \in DOMAIN jobs : k # j => jobs'[k] = jobs[k]
  BY <1>1 DEF JobsOK
<1>4. \A k \in DOMAIN jobs' : jobs'[k].accepting => jobs'[k].step \in Unannounced
  BY <1>2, <1>3 DEF JobsOK
<1>5. ASSUME NEW h \in Hosts PROVE Cardinality(Futures(h)') <= HostLimit
  <2>1. Futures(h)' \subseteq Futures(h)
    BY <1>2, <1>3 DEF Futures
  <2> QED
    BY <2>1, FuturesShrink
<1> QED
  BY <1>2, <1>4, <1>5 DEF JobsOK

LEMMA CaptureRow ==
    ASSUME JobsOK, NEW j \in DOMAIN jobs
    PROVE  /\ jobs[j] \in CaptureJobs
           /\ jobs[j].accepting => jobs[j].step \in Unannounced
           /\ jobs[j].joined \subseteq Unannounced
<1>1. DOMAIN jobs = 1 .. Len(jobs)
  BY DEF JobsOK
<1>2. jobs[j] \in CaptureJobs
  BY <1>1 DEF JobsOK
<1> QED
  BY <1>2 DEF JobsOK, CaptureJobs

(* The steps of a job, one by one.                                         *)
LEMMA CaptureInv ==
    ASSUME JobsOK, NEW j \in DOMAIN jobs,
           \/ StartCapture(j) \/ AcquireQuotes(j) \/ HearProgress(j) \/ CalculatePrices(j)
           \/ RetainPrices(j) \/ CompletePrices(j) \/ FailPrices(j) \/ JobRunsLate(j)
    PROVE  JobsOK'
<1>1. /\ jobs[j] \in CaptureJobs
      /\ jobs[j].accepting => jobs[j].step \in Unannounced
      /\ retained \in Nat /\ j \in Nat
  BY CaptureRow DEF JobsOK
<1>2. newest' = newest
  BY DEF StartCapture, AcquireQuotes, HearProgress, CalculatePrices, RetainPrices,
     CompletePrices, FailPrices, JobRunsLate, RestOfPage
<1>3. CASE StartCapture(j)
  <2>1. PICK row : row = [jobs[j] EXCEPT !.step = "prepares", !.status = "running"]
    OBVIOUS
  <2>2. row \in CaptureJobs
    BY <1>1, <2>1 DEF CaptureJobs, CaptureSteps
  <2>3. row.host = jobs[j].host /\ row.step = "prepares"
    BY <1>1, <2>1 DEF CaptureJobs
  <2>4. jobs' = [jobs EXCEPT ![j] = row] /\ jobs[j].step = "queued" /\ retained' = retained
    BY <1>3, <2>1 DEF StartCapture
  <2> QED
    BY <1>1, <1>2, <2>2, <2>3, <2>4, CaptureStep DEF Unannounced
<1>4. ASSUME NEW s \in {"acquires", "calculates", "retained"}, Step(j, s),
             jobs[j].step \notin {"over"}, retained' \in Nat, s \in Unannounced \/ ~jobs[j].accepting
      PROVE  JobsOK'
  <2>1. PICK row : row = [jobs[j] EXCEPT !.step = s]
    OBVIOUS
  <2>2. row \in CaptureJobs
    BY <1>1, <2>1 DEF CaptureJobs, CaptureSteps
  <2>3. row.host = jobs[j].host /\ row.step = s /\ row.accepting = jobs[j].accepting
    BY <1>1, <2>1 DEF CaptureJobs
  <2>4. jobs' = [jobs EXCEPT ![j] = row]
    BY <1>4, <2>1 DEF Step
  <2> QED
    BY <1>1, <1>2, <1>4, <2>2, <2>3, <2>4, CaptureStep
<1>5. CASE AcquireQuotes(j)
  BY <1>1, <1>4, <1>5 DEF AcquireQuotes, Unannounced
<1>6. CASE CalculatePrices(j)
  BY <1>1, <1>4, <1>6 DEF CalculatePrices, Unannounced
<1>7. CASE RetainPrices(j)
  BY <1>1, <1>4, <1>7 DEF RetainPrices, Unannounced
<1>8. CASE HearProgress(j)
  <2>1. PICK row : row = [jobs[j] EXCEPT !.step = "captures", !.accepting = FALSE]
    OBVIOUS
  <2>2. row \in CaptureJobs
    BY <1>1, <2>1 DEF CaptureJobs, CaptureSteps
  <2>3. row.host = jobs[j].host /\ row.step = "captures" /\ row.accepting = FALSE
    BY <1>1, <2>1 DEF CaptureJobs
  <2>4. jobs' = [jobs EXCEPT ![j] = row] /\ jobs[j].step = "acquires" /\ retained' = retained
    BY <1>8, <2>1 DEF HearProgress
  <2> QED
    BY <1>1, <1>2, <2>2, <2>3, <2>4, CaptureStep
<1>9. CASE CompletePrices(j)
  <2>1. PICK row : row = [jobs[j] EXCEPT !.step = "over", !.status = "complete"]
    OBVIOUS
  <2>2. row \in CaptureJobs
    BY <1>1, <2>1 DEF CaptureJobs, CaptureSteps
  <2>3. row.host = jobs[j].host /\ row.step = "over"
    BY <1>1, <2>1 DEF CaptureJobs
  <2>4. jobs' = [jobs EXCEPT ![j] = row] /\ retained' = retained
    BY <1>9, <2>1 DEF CompletePrices
  <2> QED
    BY <1>1, <1>2, <2>2, <2>3, <2>4, CaptureStep DEF Unannounced
<1>10. CASE FailPrices(j)
  <2>1. PICK row : row = [jobs[j] EXCEPT !.step = "over", !.status = "failed",
                                         !.fallback = retained]
    OBVIOUS
  <2>2. row \in CaptureJobs
    BY <1>1, <2>1 DEF CaptureJobs, CaptureSteps
  <2>3. row.host = jobs[j].host /\ row.step = "over"
    BY <1>1, <2>1 DEF CaptureJobs
  <2>4. jobs' = [jobs EXCEPT ![j] = row] /\ retained' = retained
    BY <1>10, <2>1 DEF FailPrices
  <2> QED
    BY <1>1, <1>2, <2>2, <2>3, <2>4, CaptureStep DEF Unannounced
<1>11. CASE JobRunsLate(j)
  <2>1. PICK row : row = [jobs[j] EXCEPT !.late = TRUE]
    OBVIOUS
  <2>2. row \in CaptureJobs
    BY <1>1, <2>1 DEF CaptureJobs
  <2>3. /\ row.host = jobs[j].host /\ row.step = jobs[j].step
        /\ row.accepting = jobs[j].accepting
    BY <1>1, <2>1 DEF CaptureJobs
  <2>4. jobs' = [jobs EXCEPT ![j] = row] /\ retained' = retained
    BY <1>11, <2>1 DEF JobRunsLate
  <2> QED
    BY <1>1, <1>2, <2>2, <2>3, <2>4, CaptureStep
<1> QED
  BY <1>3, <1>5, <1>6, <1>7, <1>8, <1>9, <1>10, <1>11

LEMMA SubmitPricesInv ==
    ASSUME JobsOK, NEW t \in Tabs, NEW h \in Hosts, SubmitPrices(t, h)
    PROVE  JobsOK'
<1>1. DOMAIN jobs = 1 .. Len(jobs) /\ Len(jobs) \in Nat /\ retained' = retained
  BY DEF JobsOK, SubmitPrices
<1>2. CASE UNCHANGED <<jobs, newest>>
  BY <1>1, <1>2 DEF JobsOK, Futures
<1>3. CASE /\ Joins(newest) /\ newest' = newest
           /\ jobs' = [jobs EXCEPT ![newest].joined = @ \cup {jobs[newest].step}]
  <2>1. PICK j \in DOMAIN jobs : j = newest
    BY <1>1, <1>3 DEF Joins, Pending, JobsOK
  <2>2. PICK row : row = [jobs[j] EXCEPT !.joined = @ \cup {jobs[j].step}]
    OBVIOUS
  <2>3. /\ jobs[j] \in CaptureJobs /\ jobs[j].step \in Unannounced
    BY <1>3, <2>1, CaptureRow DEF Joins
  <2>4. row \in CaptureJobs
    BY <2>2, <2>3 DEF CaptureJobs
  <2>5. /\ row.host = jobs[j].host /\ row.step = jobs[j].step
    BY <2>2, <2>3 DEF CaptureJobs
  <2>6. jobs' = [jobs EXCEPT ![j] = row]
    BY <1>3, <2>1, <2>2
  <2>7. retained' \in Nat
    BY <1>1 DEF JobsOK
  <2> QED
    BY <1>3, <2>3, <2>4, <2>5, <2>6, <2>7, CaptureStep
<1>4. ASSUME NEW row \in CaptureJobs, row.host = h, row.step = "queued",
             Cardinality(Futures(h)) < HostLimit,
             jobs' = Append(jobs, row), newest' = Len(jobs')
      PROVE  JobsOK'
  <2>1. /\ jobs' \in Seq(CaptureJobs) /\ Len(jobs') = Len(jobs) + 1
        /\ DOMAIN jobs' = 1 .. Len(jobs) + 1
        /\ \A i \in 1 .. Len(jobs) : jobs'[i] = jobs[i]
        /\ jobs'[Len(jobs) + 1] = row
    BY <1>4, AppendAt DEF JobsOK
  <2>2. \A j \in DOMAIN jobs' : j \in DOMAIN jobs \/ j = Len(jobs) + 1
    BY <1>1, <2>1
  <2>3. \A j \in DOMAIN jobs' : jobs'[j].accepting => jobs'[j].step \in Unannounced
    BY <1>1, <1>4, <2>1, <2>2 DEF JobsOK, Unannounced
  <2>4. newest' \in 0 .. Len(jobs')
    BY <1>1, <1>4, <2>1
  <2>5. ASSUME NEW g \in Hosts PROVE Cardinality(Futures(g)') <= HostLimit
    <3>1. CASE g # h
      <4>1. Futures(g)' \subseteq Futures(g)
        BY <1>1, <1>4, <2>1, <2>2, <3>1 DEF Futures
      <4> QED
        BY <4>1, FuturesShrink
    <3>2. CASE g = h
      <4>1. Futures(h)' \in SUBSET (Futures(h) \cup {Len(jobs) + 1})
        BY <1>1, <2>1, <2>2 DEF Futures
      <4>2. /\ IsFiniteSet(Futures(h)) /\ Cardinality(Futures(h)) \in Nat
        BY FuturesFinite DEF JobsOK
      <4>3. PICK S : S = Futures(h) \cup {Len(jobs) + 1}
        OBVIOUS
      <4>4. IsFiniteSet(S) /\ Cardinality(S) \in Nat
            /\ (Cardinality(S) = Cardinality(Futures(h))
                \/ Cardinality(S) = Cardinality(Futures(h)) + 1)
        BY <4>2, <4>3, FS_AddElement, FS_CardinalityType
      <4>5. Cardinality(Futures(h)') <= Cardinality(S) /\ Cardinality(Futures(h)') \in Nat
        BY <4>1, <4>3, <4>4, FS_Subset, FS_CardinalityType
      <4> QED
        BY <1>4, <3>2, <4>2, <4>4, <4>5, LiveAssumption
    <3> QED
      BY <3>1, <3>2
  <2> QED
    BY <1>1, <2>1, <2>3, <2>4, <2>5 DEF JobsOK
<1>5. PICK row : row = [host |-> h, status |-> "queued", step |-> "queued", accepting |-> TRUE,
                        late |-> FALSE, joined |-> {}, fallback |-> 0]
  OBVIOUS
<1>6. row \in CaptureJobs /\ row.host = h /\ row.step = "queued"
  BY <1>5 DEF CaptureJobs, CaptureSteps
<1> QED
  BY <1>2, <1>3, <1>4, <1>5, <1>6 DEF SubmitPrices

LEMMA HostRestartsInv ==
    ASSUME JobsOK, NEW h \in Hosts, HostRestarts(h)
    PROVE  JobsOK'
<1>1. DOMAIN jobs = 1 .. Len(jobs) /\ Len(jobs) \in Nat /\ jobs \in Seq(CaptureJobs)
  BY DEF JobsOK
<1>2. /\ jobs' = [j \in DOMAIN jobs |->
                    IF j \in Futures(h) THEN [jobs[j] EXCEPT !.step = "over"] ELSE jobs[j]]
      /\ newest' = newest /\ retained' = retained
  BY DEF HostRestarts
<1>3. ASSUME NEW j \in DOMAIN jobs
      PROVE  /\ jobs'[j] \in CaptureJobs
             /\ jobs'[j].host = jobs[j].host
             /\ jobs'[j] = jobs[j] \/ jobs'[j].step = "over"
  <2>1. jobs[j] \in CaptureJobs
    BY CaptureRow
  <2>2. [jobs[j] EXCEPT !.step = "over"] \in CaptureJobs
    BY <2>1 DEF CaptureJobs, CaptureSteps
  <2>3. [jobs[j] EXCEPT !.step = "over"].host = jobs[j].host
        /\ [jobs[j] EXCEPT !.step = "over"].step = "over"
    BY <2>1 DEF CaptureJobs
  <2> QED
    BY <1>2, <2>1, <2>2, <2>3
<1>4. jobs' \in [1 .. Len(jobs) -> CaptureJobs]
  BY <1>1, <1>2, <1>3
<1>5. jobs' \in Seq(CaptureJobs) /\ Len(jobs') = Len(jobs) /\ DOMAIN jobs' = DOMAIN jobs
  BY <1>1, <1>4
<1>6. \A j \in DOMAIN jobs' : jobs'[j].accepting => jobs'[j].step \in Unannounced
  BY <1>3, <1>5 DEF JobsOK, Unannounced
<1>7. ASSUME NEW g \in Hosts PROVE Cardinality(Futures(g)') <= HostLimit
  <2>1. Futures(g)' \subseteq Futures(g)
    BY <1>3, <1>5 DEF Futures
  <2> QED
    BY <2>1, FuturesShrink
<1> QED
  BY <1>2, <1>5, <1>6, <1>7 DEF JobsOK

LEMMA TabRow ==
    ASSUME DeskOK, NEW t \in Tabs, NEW row, tab' = [tab EXCEPT ![t] = row], TabOK(row),
           curves' = curves, sheets' \in [Tabs -> BothAnswered]
    PROVE  DeskOK'
BY DEF DeskOK, AcceptedOverReviewed, TabOK

(* The steps of a tab that leave the desk curve alone.                     *)
LEMMA TabInv ==
    ASSUME DeskOK, NEW t \in Tabs,
           \/ \E h \in Hosts : SubmitPrices(t, h)
           \/ PollPrices(t) \/ ReloadTab(t) \/ DeskAnswers(t)
    PROVE  DeskOK'
<1>1. /\ TabOK(tab[t]) /\ sheets[t] \in BothAnswered /\ DOMAIN tab = Tabs
      /\ sheets \in [Tabs -> BothAnswered] /\ NoAnswer \in BothAnswered
  BY DEF DeskOK, NoAnswer, BothAnswered
<1>2. ASSUME NEW row, tab' = [tab EXCEPT ![t] = row], DOMAIN row = DOMAIN tab[t],
             row.head \in {0, tab[t].head}, row.reviewed = tab[t].reviewed,
             curves' = curves, sheets' = sheets \/ sheets' = [sheets EXCEPT ![t] = NoAnswer]
      PROVE  DeskOK'
  <2>1. TabOK(row)
    BY <1>1, <1>2 DEF TabOK
  <2>2. sheets' \in [Tabs -> BothAnswered]
    BY <1>1, <1>2
  <2> QED
    BY <1>2, <2>1, <2>2, TabRow
<1>3. ASSUME NEW h \in Hosts, SubmitPrices(t, h) PROVE DeskOK'
  <2>1. UNCHANGED <<sheets, curves>>
    BY <1>3 DEF SubmitPrices
  <2>2. PICK j : tab' = [tab EXCEPT ![t] = [tab[t] EXCEPT !.job = j, !.ticket = j]]
    BY <1>1, <1>3 DEF SubmitPrices, OnTicket
  <2>3. PICK row : row = [tab[t] EXCEPT !.job = j, !.ticket = j]
    OBVIOUS
  <2>4. /\ DOMAIN row = DOMAIN tab[t] /\ row.head = tab[t].head
        /\ row.reviewed = tab[t].reviewed
    BY <1>1, <2>3 DEF TabOK
  <2> QED
    BY <1>2, <2>1, <2>2, <2>3, <2>4
<1>4. CASE PollPrices(t)
  <2>1. UNCHANGED <<sheets, curves>>
    BY <1>4 DEF PollPrices
  <2>2. PICK y : tab' = [tab EXCEPT ![t] = [tab[t] EXCEPT !.ticket = 0, !.shows = y]]
    BY <1>4 DEF PollPrices
  <2>3. PICK row : row = [tab[t] EXCEPT !.ticket = 0, !.shows = y]
    OBVIOUS
  <2>4. /\ DOMAIN row = DOMAIN tab[t] /\ row.head = tab[t].head
        /\ row.reviewed = tab[t].reviewed
    BY <1>1, <2>3 DEF TabOK
  <2> QED
    BY <1>2, <2>1, <2>2, <2>3, <2>4
<1>5. CASE ReloadTab(t)
  <2>1. PICK row : row = [tab[t] EXCEPT !.head = 0, !.ticket = 0]
    OBVIOUS
  <2>2. /\ DOMAIN row = DOMAIN tab[t] /\ row.head = 0 /\ row.reviewed = tab[t].reviewed
    BY <1>1, <2>1 DEF TabOK
  <2>3. /\ tab' = [tab EXCEPT ![t] = row] /\ curves' = curves
        /\ sheets' = [sheets EXCEPT ![t] = NoAnswer]
    BY <1>5, <2>1 DEF ReloadTab
  <2> QED
    BY <1>2, <2>2, <2>3
<1>6. CASE DeskAnswers(t)
  <2>1. /\ tab' = [tab EXCEPT ![t] = HeadShown(t)] /\ curves' = curves
        /\ sheets' = [sheets EXCEPT ![t] = NoAnswer]
    BY <1>6 DEF DeskAnswers
  <2>2. CASE ~sheets[t].shows
    <3>1. HeadShown(t) = tab[t]
      BY <2>2 DEF HeadShown
    <3> QED
      BY <1>2, <2>1, <3>1
  <2>3. CASE sheets[t].shows
    <3>1. PICK a \in Nat : a = sheets[t].head
      BY <1>1 DEF BothAnswered
    <3>2. PICK row : row = [tab[t] EXCEPT !.shows = DeskCurve(a), !.head = a,
                                          !.reviewed = @ \cup {a}]
      OBVIOUS
    <3>3. HeadShown(t) = row
      BY <2>3, <3>1, <3>2 DEF HeadShown
    <3>4. /\ DOMAIN row = DOMAIN tab[t] /\ row.head = a
          /\ row.reviewed = tab[t].reviewed \cup {a}
      BY <1>1, <3>2 DEF TabOK
    <3>5. TabOK(row)
      BY <1>1, <3>4 DEF TabOK
    <3>6. sheets' \in [Tabs -> BothAnswered]
      BY <1>1, <2>1
    <3> QED
      BY <2>1, <3>3, <3>5, <3>6, TabRow
  <2> QED
    BY <2>2, <2>3
<1> QED
  BY <1>3, <1>4, <1>5, <1>6

(* A desk curve is added over its predecessor, which was reviewed.         *)
LEMMA CurveAdded ==
    ASSUME DeskOK, NEW reviewed \in SUBSET Nat, Len(curves) \in reviewed,
           curves' = Append(curves, [over |-> Len(curves), reviewed |-> reviewed]),
           tab' = tab, sheets' \in [Tabs -> BothAnswered]
    PROVE  DeskOK'
<1>1. PICK c : c = [over |-> Len(curves), reviewed |-> reviewed]
  OBVIOUS
<1>2. curves \in Seq([over : Nat, reviewed : SUBSET Nat]) /\ Len(curves) \in Nat
  BY DEF DeskOK
<1>3. c \in [over : Nat, reviewed : SUBSET Nat] /\ c.over = Len(curves) /\ c.reviewed = reviewed
  BY <1>1, <1>2
<1>4. /\ curves' \in Seq([over : Nat, reviewed : SUBSET Nat])
      /\ DOMAIN curves' = 1 .. Len(curves) + 1 /\ DOMAIN curves = 1 .. Len(curves)
      /\ \A r \in 1 .. Len(curves) : curves'[r] = curves[r]
      /\ curves'[Len(curves) + 1] = c
  BY <1>1, <1>2, <1>3, AppendAt
<1>5. AcceptedOverReviewed'
  BY <1>2, <1>3, <1>4 DEF DeskOK, AcceptedOverReviewed
<1> QED
  BY <1>4, <1>5 DEF DeskOK, TabOK

LEMMA DeskInv ==
    ASSUME DeskOK,
           \/ OtherAccepts \/ \E t \in Tabs : AskDesk(t) \/ AcceptDesk(t)
    PROVE  DeskOK'
<1>1. curves \in Seq([over : Nat, reviewed : SUBSET Nat]) /\ DeskHead \in Nat
  BY DEF DeskOK, DeskHead
<1>2. CASE OtherAccepts
  BY <1>1, <1>2, CurveAdded DEF OtherAccepts, DeskHead, DeskOK
<1>3. ASSUME NEW t \in Tabs, AskDesk(t) PROVE DeskOK'
  <2>1. PICK show \in {Follows(t), TRUE} :
          sheets' = [sheets EXCEPT ![t] = [head |-> DeskHead, shows |-> show]]
    BY <1>3 DEF AskDesk
  <2>2. show \in BOOLEAN
    BY DEF Follows
  <2>3. [head |-> DeskHead, shows |-> show] \in BothAnswered
    BY <1>1, <2>2 DEF BothAnswered
  <2> QED
    BY <1>3, <2>1, <2>3 DEF AskDesk, DeskOK, TabOK, AcceptedOverReviewed
<1>4. ASSUME NEW t \in Tabs, AcceptDesk(t) PROVE DeskOK'
  <2>1. /\ tab[t].head = Len(curves) /\ tab' = tab
        /\ curves' = Append(curves, [over |-> Len(curves), reviewed |-> tab[t].reviewed])
        /\ sheets' = [sheets EXCEPT ![t] = [head |-> Len(curves'), shows |-> TRUE]]
    BY <1>4 DEF AcceptDesk, DeskHead
  <2>2. PICK reviewed \in SUBSET Nat : reviewed = tab[t].reviewed /\ Len(curves) \in reviewed
    BY <2>1 DEF DeskOK, TabOK
  <2>3. curves' \in Seq([over : Nat, reviewed : SUBSET Nat]) /\ Len(curves') \in Nat
    <3>1. [over |-> Len(curves), reviewed |-> reviewed] \in [over : Nat, reviewed : SUBSET Nat]
      BY <1>1 DEF DeskHead
    <3> QED
      BY <1>1, <2>1, <2>2, <3>1, AppendAt
  <2>4. [head |-> Len(curves'), shows |-> TRUE] \in BothAnswered
    BY <2>3 DEF BothAnswered
  <2>5. sheets' \in [Tabs -> BothAnswered]
    BY <2>1, <2>4 DEF DeskOK
  <2> QED
    BY <2>1, <2>2, <2>5, CurveAdded
<1> QED
  BY <1>2, <1>3, <1>4

LEMMA LiveInductive == JobsOK /\ DeskOK /\ [LiveNext]_liveVars => JobsOK' /\ DeskOK'
<1> SUFFICES ASSUME JobsOK, DeskOK, [LiveNext]_liveVars PROVE JobsOK' /\ DeskOK'
  OBVIOUS
<1>1. UNCHANGED <<jobs, newest, retained>> => JobsOK'
  BY DEF JobsOK, Futures
<1>2. UNCHANGED <<tab, sheets, curves>> => DeskOK'
  BY DEF DeskOK, TabOK, AcceptedOverReviewed
<1>3. ASSUME NEW t \in Tabs, NEW h \in Hosts, SubmitPrices(t, h) PROVE JobsOK' /\ DeskOK'
  BY <1>3, SubmitPricesInv, TabInv
<1>4. ASSUME NEW t \in Tabs, PollPrices(t) \/ ReloadTab(t) \/ DeskAnswers(t)
      PROVE  JobsOK' /\ DeskOK'
  <2>1. UNCHANGED <<jobs, newest, retained>>
    BY <1>4 DEF PollPrices, ReloadTab, DeskAnswers
  <2> QED
    BY <1>1, <1>4, <2>1, TabInv
<1>5. ASSUME NEW t \in Tabs, AskDesk(t) \/ AcceptDesk(t) PROVE JobsOK' /\ DeskOK'
  <2>1. UNCHANGED <<jobs, newest, retained>>
    BY <1>5 DEF AskDesk, AcceptDesk
  <2> QED
    BY <1>1, <1>5, <2>1, DeskInv
<1>6. CASE OtherAccepts
  <2>1. UNCHANGED <<jobs, newest, retained>>
    BY <1>6 DEF OtherAccepts
  <2> QED
    BY <1>1, <1>6, <2>1, DeskInv
<1>7. ASSUME NEW j \in DOMAIN jobs,
             \/ StartCapture(j) \/ AcquireQuotes(j) \/ HearProgress(j) \/ CalculatePrices(j)
             \/ RetainPrices(j) \/ CompletePrices(j) \/ FailPrices(j) \/ JobRunsLate(j)
      PROVE  JobsOK' /\ DeskOK'
  <2>1. UNCHANGED <<tab, sheets, curves>>
    BY <1>7 DEF StartCapture, AcquireQuotes, HearProgress, CalculatePrices, RetainPrices,
       CompletePrices, FailPrices, JobRunsLate, RestOfPage
  <2> QED
    BY <1>2, <1>7, <2>1, CaptureInv
<1>8. ASSUME NEW h \in Hosts, HostRestarts(h) PROVE JobsOK' /\ DeskOK'
  <2>1. UNCHANGED <<tab, sheets, curves>>
    BY <1>8 DEF HostRestarts
  <2> QED
    BY <1>2, <1>8, <2>1, HostRestartsInv
<1>9. ConnectionRunsOut \/ UNCHANGED liveVars => JobsOK' /\ DeskOK'
  BY <1>1, <1>2 DEF ConnectionRunsOut, liveVars
<1> QED
  BY <1>3, <1>4, <1>5, <1>6, <1>7, <1>8, <1>9, LiveAssumption DEF LiveNext

LEMMA LiveStarts == LiveInit => JobsOK /\ DeskOK
<1> SUFFICES ASSUME LiveInit PROVE JobsOK /\ DeskOK
  OBVIOUS
<1>1. jobs = <<>> /\ newest = 0 /\ retained = 0 /\ curves = <<>>
  BY DEF LiveInit
<1>2. \A h : Futures(h) = {}
  BY <1>1 DEF Futures
<1>3. Cardinality({}) = 0
  BY FS_EmptySet
<1>4. JobsOK
  BY <1>1, <1>2, <1>3, LiveAssumption DEF JobsOK
<1>5. NoAnswer \in BothAnswered
  BY DEF NoAnswer, BothAnswered
<1>6. DOMAIN tab = Tabs /\ sheets \in [Tabs -> BothAnswered]
  BY <1>5 DEF LiveInit
<1>7. \A t \in Tabs : TabOK(tab[t])
  BY DEF LiveInit, TabOK
<1>8. AcceptedOverReviewed
  BY <1>1 DEF AcceptedOverReviewed
<1> QED
  BY <1>1, <1>4, <1>6, <1>7, <1>8 DEF DeskOK

(* No tab is given quotes that were known to be under way when it asked,   *)
(* no process has more jobs than its limit, and a desk curve replaces one  *)
(* its trader was shown: for any tabs, processes, restarts and time-outs.  *)
THEOREM LiveReviewed == LiveSpec => []DeskReviewed
<1>1. JobsOK /\ DeskOK => DeskReviewed
  <2> SUFFICES ASSUME JobsOK, DeskOK PROVE DeskReviewed
    OBVIOUS
  <2>1. \A j \in DOMAIN jobs : jobs[j].joined \subseteq Unannounced
    BY CaptureRow
  <2> QED
    BY <2>1 DEF JobsOK, DeskOK, DeskReviewed, JoinedInTime, Unannounced
<1> QED
  BY <1>1, LiveStarts, LiveInductive, PTL DEF LiveSpec

(* What the tickets, tabs and snapshots of the Live Prices page point at.  *)
(* A snapshot that a page refers to is one its job has retained.           *)
Done == {"retained", "over"}
Snapped(js, k) == k = 0 \/ (k \in DOMAIN js /\ js[k].step \in Done)

TabTyped(js, n, r) ==
    /\ DOMAIN r = {"job", "ticket", "shows", "head", "reviewed"}
    /\ {r.job, r.ticket} \subseteq 0 .. Len(js) /\ r.head \in 0 .. n
    /\ r.shows.kind = "captured" => r.shows.id # 0 /\ Snapped(js, r.shows.id)

JobsTyped ==
    /\ {newest, collector, retained} \subseteq 0 .. Len(jobs) /\ Snapped(jobs, retained)
    /\ \A j \in DOMAIN jobs :
         /\ Snapped(jobs, jobs[j].fallback)
         /\ jobs[j].status = "complete" => jobs[j].step = "over"
    /\ Len(jobs) <= MaxJobs /\ events \in 0 .. MaxEvents

TabsTyped ==
    /\ \A t \in Tabs : TabTyped(jobs, DeskHead, tab[t]) /\ sheets[t].head \in 0 .. DeskHead
    /\ Len(curves) <= MaxCurves

LiveInv == JobsOK /\ DeskOK /\ JobsTyped /\ TabsTyped

LEMMA LiveBounds ==
    ASSUME LiveInv
    PROVE  /\ DOMAIN jobs = 1 .. Len(jobs) /\ Len(jobs) \in Nat /\ DeskHead \in Nat
           /\ events \in Nat /\ MaxEvents \in Nat /\ MaxJobs \in Nat /\ MaxCurves \in Nat
           /\ (Happens => events' \in 0 .. MaxEvents)
<1>1. /\ DOMAIN jobs = 1 .. Len(jobs) /\ Len(jobs) \in Nat
  BY DEF LiveInv, JobsOK
<1>2. DeskHead \in Nat
  BY DEF LiveInv, DeskOK, DeskHead
<1>3. /\ MaxEvents \in Nat /\ MaxJobs \in Nat /\ MaxCurves \in Nat /\ events \in 0 .. MaxEvents
  BY LiveAssumption DEF LiveInv, JobsTyped
<1> QED
  BY <1>1, <1>2, <1>3 DEF Happens

(* A step that takes no snapshot away takes no reference its meaning.      *)
LEMMA JobsMove ==
    ASSUME LiveInv, jobs' \in Seq(CaptureJobs), Len(jobs) <= Len(jobs'),
           \A k \in DOMAIN jobs : jobs[k].step \in Done => jobs'[k].step \in Done
    PROVE  /\ 0 .. Len(jobs) \subseteq 0 .. Len(jobs')
           /\ \A k : Snapped(jobs, k) => Snapped(jobs', k)
           /\ \A n, r : TabTyped(jobs, n, r) => TabTyped(jobs', n, r)
<1>1. /\ DOMAIN jobs = 1 .. Len(jobs) /\ Len(jobs) \in Nat
      /\ DOMAIN jobs' = 1 .. Len(jobs') /\ Len(jobs') \in Nat
  BY LiveBounds
<1>2. 0 .. Len(jobs) \subseteq 0 .. Len(jobs')
  BY <1>1
<1>3. \A k : Snapped(jobs, k) => Snapped(jobs', k)
  <2>1. \A k \in DOMAIN jobs : k \in DOMAIN jobs'
    BY <1>1
  <2> QED
    BY <2>1 DEF Snapped
<1> QED
  BY <1>2, <1>3 DEF TabTyped

(* One step of one job.                                                    *)
LEMMA JobMoves ==
    ASSUME LiveInv, JobsOK', DeskOK', NEW j \in DOMAIN jobs, NEW row \in CaptureJobs,
           jobs' = [jobs EXCEPT ![j] = row],
           jobs[j].step \in Done => row.step \in Done,
           row.status = "complete" => row.step = "over",
           row.fallback \in {jobs[j].fallback, retained},
           newest' = newest, collector' \in {collector, 0, j},
           retained' = retained \/ (retained' = j /\ row.step \in Done),
           UNCHANGED <<tab, sheets, curves>>, events' \in 0 .. MaxEvents
    PROVE  LiveInv'
<1>1. /\ DOMAIN jobs = 1 .. Len(jobs) /\ Len(jobs) \in Nat /\ jobs \in Seq(CaptureJobs)
  BY LiveBounds DEF LiveInv, JobsOK
<1>2. /\ jobs' \in Seq(CaptureJobs) /\ Len(jobs') = Len(jobs) /\ DOMAIN jobs' = DOMAIN jobs
      /\ jobs'[j] = row /\ \A k \in DOMAIN jobs : k # j => jobs'[k] = jobs[k]
  BY <1>1
<1>3. \A k \in DOMAIN jobs : jobs[k].step \in Done => jobs'[k].step \in Done
  BY <1>2
<1>4. /\ \A k : Snapped(jobs, k) => Snapped(jobs', k)
      /\ \A n, r : TabTyped(jobs, n, r) => TabTyped(jobs', n, r)
  <2>1. Len(jobs) <= Len(jobs')
    BY <1>1, <1>2
  <2> QED
    BY <1>2, <1>3, <2>1, JobsMove
<1>5. Snapped(jobs', retained) /\ Snapped(jobs', retained')
  <2>1. Snapped(jobs', retained)
    BY <1>4 DEF LiveInv, JobsTyped
  <2>2. CASE retained' = j /\ row.step \in Done
    BY <1>2, <2>1, <2>2 DEF Snapped
  <2> QED
    BY <2>1, <2>2
<1>6. ASSUME NEW k \in DOMAIN jobs'
      PROVE  /\ Snapped(jobs', jobs'[k].fallback)
             /\ jobs'[k].status = "complete" => jobs'[k].step = "over"
  <2>1. /\ Snapped(jobs', jobs[k].fallback)
        /\ jobs[k].status = "complete" => jobs[k].step = "over"
    BY <1>2, <1>4, <1>6 DEF LiveInv, JobsTyped
  <2> QED
    BY <1>2, <1>5, <1>6, <2>1
<1>7. {newest', collector', retained'} \subseteq 0 .. Len(jobs') /\ Len(jobs') <= MaxJobs
  BY <1>1, <1>2 DEF LiveInv, JobsTyped
<1>8. JobsTyped'
  BY <1>5, <1>6, <1>7 DEF JobsTyped
<1>9. TabsTyped'
  BY <1>4 DEF LiveInv, TabsTyped, DeskHead
<1> QED
  BY <1>8, <1>9 DEF LiveInv

LEMMA CaptureTyped ==
    ASSUME LiveInv, JobsOK', DeskOK', NEW j \in DOMAIN jobs,
           \/ StartCapture(j) \/ AcquireQuotes(j) \/ HearProgress(j) \/ CalculatePrices(j)
           \/ RetainPrices(j) \/ CompletePrices(j) \/ FailPrices(j) \/ JobRunsLate(j)
    PROVE  LiveInv'
<1>1. /\ jobs[j] \in CaptureJobs /\ (jobs[j].status = "complete" => jobs[j].step = "over")
  BY CaptureRow DEF LiveInv, JobsTyped
<1>2. /\ newest' = newest /\ UNCHANGED <<tab, sheets, curves>>
      /\ events' \in 0 .. MaxEvents
  <2>1. newest' = newest /\ UNCHANGED <<tab, sheets, curves>> /\ (events' = events \/ Happens)
    BY DEF StartCapture, AcquireQuotes, HearProgress, CalculatePrices, RetainPrices,
       CompletePrices, FailPrices, JobRunsLate, RestOfPage
  <2> QED
    BY <2>1, LiveBounds DEF LiveInv, JobsTyped
<1>3. CASE StartCapture(j)
  <2>1. PICK row : row = [jobs[j] EXCEPT !.step = "prepares", !.status = "running"]
    OBVIOUS
  <2>2. row \in CaptureJobs
    BY <1>1, <2>1 DEF CaptureJobs, CaptureSteps
  <2>3. row.step = "prepares" /\ row.status = "running" /\ row.fallback = jobs[j].fallback
    BY <1>1, <2>1 DEF CaptureJobs
  <2>4. /\ jobs' = [jobs EXCEPT ![j] = row] /\ jobs[j].step = "queued" /\ retained' = retained
        /\ collector' = j
    BY <1>3, <2>1 DEF StartCapture
  <2>5. jobs[j].step \notin Done
    BY <2>4 DEF Done
  <2> QED
    BY <1>2, <2>2, <2>3, <2>4, <2>5, JobMoves
<1>4. ASSUME NEW s \in {"acquires", "calculates", "retained"}, Step(j, s),
             jobs[j].step \notin Done, collector' \in {collector, 0},
             retained' = retained \/ (retained' = j /\ s \in Done)
      PROVE  LiveInv'
  <2>1. PICK row : row = [jobs[j] EXCEPT !.step = s]
    OBVIOUS
  <2>2. row \in CaptureJobs
    BY <1>1, <2>1 DEF CaptureJobs, CaptureSteps
  <2>3. row.step = s /\ row.status = jobs[j].status /\ row.fallback = jobs[j].fallback
    BY <1>1, <2>1 DEF CaptureJobs
  <2>4. jobs' = [jobs EXCEPT ![j] = row]
    BY <1>4, <2>1 DEF Step
  <2>5. row.status = "complete" => row.step = "over"
    BY <1>1, <1>4, <2>3 DEF Done
  <2> QED
    BY <1>2, <1>4, <2>2, <2>3, <2>4, <2>5, JobMoves
<1>5. CASE AcquireQuotes(j)
  BY <1>4, <1>5 DEF AcquireQuotes, Done
<1>6. CASE CalculatePrices(j)
  BY <1>4, <1>6 DEF CalculatePrices, Done
<1>7. CASE RetainPrices(j)
  BY <1>4, <1>7 DEF RetainPrices, Done
<1>8. CASE HearProgress(j)
  <2>1. PICK row : row = [jobs[j] EXCEPT !.step = "captures", !.accepting = FALSE]
    OBVIOUS
  <2>2. row \in CaptureJobs
    BY <1>1, <2>1 DEF CaptureJobs, CaptureSteps
  <2>3. row.step = "captures" /\ row.status = jobs[j].status /\ row.fallback = jobs[j].fallback
    BY <1>1, <2>1 DEF CaptureJobs
  <2>4. /\ jobs' = [jobs EXCEPT ![j] = row] /\ jobs[j].step = "acquires" /\ retained' = retained
        /\ collector' = collector
    BY <1>8, <2>1 DEF HearProgress
  <2>5. jobs[j].step \notin Done /\ row.status # "complete"
    BY <1>1, <2>3, <2>4 DEF Done
  <2> QED
    BY <1>2, <2>2, <2>3, <2>4, <2>5, JobMoves
<1>9. CASE CompletePrices(j)
  <2>1. PICK row : row = [jobs[j] EXCEPT !.step = "over", !.status = "complete"]
    OBVIOUS
  <2>2. row \in CaptureJobs
    BY <1>1, <2>1 DEF CaptureJobs, CaptureSteps
  <2>3. row.step = "over" /\ row.fallback = jobs[j].fallback /\ row.step \in Done
    BY <1>1, <2>1 DEF CaptureJobs, Done
  <2>4. jobs' = [jobs EXCEPT ![j] = row] /\ retained' = retained /\ collector' = collector
    BY <1>9, <2>1 DEF CompletePrices
  <2> QED
    BY <1>2, <2>2, <2>3, <2>4, JobMoves
<1>10. CASE FailPrices(j)
  <2>1. PICK row : row = [jobs[j] EXCEPT !.step = "over", !.status = "failed",
                                         !.fallback = retained]
    OBVIOUS
  <2>2. row \in CaptureJobs
    BY <1>1, <2>1 DEF CaptureJobs, CaptureSteps, LiveInv, JobsOK
  <2>3. row.step = "over" /\ row.fallback = retained /\ row.step \in Done
    BY <1>1, <2>1 DEF CaptureJobs, Done
  <2>4. jobs' = [jobs EXCEPT ![j] = row] /\ retained' = retained /\ collector' \in {collector, 0}
    BY <1>10, <2>1 DEF FailPrices
  <2> QED
    BY <1>2, <2>2, <2>3, <2>4, JobMoves
<1>11. CASE JobRunsLate(j)
  <2>1. PICK row : row = [jobs[j] EXCEPT !.late = TRUE]
    OBVIOUS
  <2>2. row \in CaptureJobs
    BY <1>1, <2>1 DEF CaptureJobs
  <2>3. row.step = jobs[j].step /\ row.status = jobs[j].status /\ row.fallback = jobs[j].fallback
    BY <1>1, <2>1 DEF CaptureJobs
  <2>4. jobs' = [jobs EXCEPT ![j] = row] /\ retained' = retained /\ collector' = collector
    BY <1>11, <2>1 DEF JobRunsLate
  <2> QED
    BY <1>1, <1>2, <2>2, <2>3, <2>4, JobMoves
<1> QED
  BY <1>3, <1>5, <1>6, <1>7, <1>8, <1>9, <1>10, <1>11

(* A tab that replaces what it refers to.                                  *)
LEMMA TabMoves ==
    ASSUME LiveInv, DOMAIN tab' = Tabs, NEW t \in Tabs, NEW row,
           tab' = [tab EXCEPT ![t] = row], TabTyped(jobs', DeskHead', row), curves' = curves,
           \A n, r : TabTyped(jobs, n, r) => TabTyped(jobs', n, r),
           \A u \in Tabs : sheets'[u].head \in 0 .. DeskHead
    PROVE  TabsTyped'
<1>1. DeskHead' = DeskHead
  BY DEF DeskHead
<1>2. \A u \in Tabs : tab'[u] \in {tab[u], row}
  BY DEF LiveInv, DeskOK
<1>3. \A u \in Tabs : TabTyped(jobs', DeskHead', tab'[u])
  BY <1>1, <1>2 DEF LiveInv, TabsTyped
<1> QED
  BY <1>1, <1>3 DEF TabsTyped, LiveInv

LEMMA SubmitTyped ==
    ASSUME LiveInv, JobsOK', DeskOK', NEW t \in Tabs, NEW h \in Hosts, SubmitPrices(t, h)
    PROVE  LiveInv'
<1>1. /\ DOMAIN jobs = 1 .. Len(jobs) /\ Len(jobs) \in Nat /\ jobs \in Seq(CaptureJobs)
      /\ DOMAIN tab = Tabs /\ DOMAIN tab' = Tabs /\ MaxJobs \in Nat
  BY LiveBounds DEF LiveInv, JobsOK, DeskOK
<1>2. UNCHANGED <<collector, retained, sheets, curves, events>>
  BY DEF SubmitPrices
<1>3. ASSUME NEW j \in 0 .. Len(jobs'), OnTicket(t, j),
             \A n, r : TabTyped(jobs, n, r) => TabTyped(jobs', n, r)
      PROVE  TabsTyped'
  <2>1. TabTyped(jobs, DeskHead, tab[t]) /\ TabTyped(jobs', DeskHead, tab[t])
    BY <1>3 DEF LiveInv, TabsTyped
  <2>2. PICK row : row = [tab[t] EXCEPT !.job = j, !.ticket = j]
    OBVIOUS
  <2>3. /\ DOMAIN row = DOMAIN tab[t] /\ row.job = j /\ row.ticket = j
        /\ row.head = tab[t].head /\ row.shows = tab[t].shows
    BY <2>1, <2>2 DEF TabTyped
  <2>4. TabTyped(jobs', DeskHead, row)
    BY <1>3, <2>1, <2>3 DEF TabTyped
  <2>5. tab' = [tab EXCEPT ![t] = row]
    BY <1>1, <1>3, <2>2 DEF OnTicket
  <2>6. \A u \in Tabs : sheets'[u].head \in 0 .. DeskHead
    BY <1>2 DEF LiveInv, TabsTyped
  <2>7. DeskHead' = DeskHead
    BY <1>2 DEF DeskHead
  <2> QED
    BY <1>1, <1>2, <1>3, <2>4, <2>5, <2>6, <2>7, TabMoves
<1>4. CASE OnTicket(t, tab[t].job) /\ UNCHANGED <<jobs, newest>>
  <2>1. PICK j \in 0 .. Len(jobs') : j = tab[t].job
    BY <1>4 DEF LiveInv, TabsTyped, TabTyped
  <2>2. TabsTyped'
    BY <1>3, <1>4, <2>1
  <2>3. JobsTyped'
    BY <1>2, <1>4 DEF LiveInv, JobsTyped
  <2> QED
    BY <2>2, <2>3 DEF LiveInv
<1>5. CASE /\ Joins(newest) /\ OnTicket(t, newest) /\ newest' = newest
           /\ jobs' = [jobs EXCEPT ![newest].joined = @ \cup {jobs[newest].step}]
  <2>1. PICK j \in DOMAIN jobs : j = newest
    BY <1>1, <1>5 DEF Joins, Pending, LiveInv, JobsTyped
  <2>2. PICK row : row = [jobs[j] EXCEPT !.joined = @ \cup {jobs[j].step}]
    OBVIOUS
  <2>3. /\ jobs[j] \in CaptureJobs /\ jobs[j].step \in Unannounced
    BY <1>5, <2>1, CaptureRow DEF Joins, LiveInv
  <2>4. /\ row \in CaptureJobs /\ row.step = jobs[j].step /\ row.status = jobs[j].status
        /\ row.fallback = jobs[j].fallback
    BY <2>2, <2>3 DEF CaptureJobs
  <2>5. jobs' = [jobs EXCEPT ![j] = row]
    BY <1>5, <2>1, <2>2
  <2>6. /\ jobs' \in Seq(CaptureJobs) /\ Len(jobs') = Len(jobs) /\ DOMAIN jobs' = DOMAIN jobs
        /\ \A k \in DOMAIN jobs : /\ jobs'[k].step = jobs[k].step /\ jobs'[k].status = jobs[k].status
                                  /\ jobs'[k].fallback = jobs[k].fallback
    BY <1>1, <2>4, <2>5
  <2>7. /\ \A k : Snapped(jobs, k) => Snapped(jobs', k)
        /\ \A n, r : TabTyped(jobs, n, r) => TabTyped(jobs', n, r)
    <3>1. Len(jobs) <= Len(jobs') /\ \A k \in DOMAIN jobs : jobs[k].step \in Done => jobs'[k].step \in Done
      BY <1>1, <2>6
    <3> QED
      BY <2>6, <3>1, JobsMove
  <2>8. TabsTyped'
    <3>1. j \in 0 .. Len(jobs')
      BY <1>1, <2>1, <2>6
    <3> QED
      BY <1>3, <1>5, <2>1, <2>7, <3>1
  <2>9. JobsTyped'
    <3>1. /\ Snapped(jobs', retained') /\ events' \in 0 .. MaxEvents
          /\ {newest', collector', retained'} \subseteq 0 .. Len(jobs') /\ Len(jobs') <= MaxJobs
      BY <1>2, <1>5, <2>6, <2>7 DEF LiveInv, JobsTyped
    <3>2. ASSUME NEW k \in DOMAIN jobs'
          PROVE  /\ Snapped(jobs', jobs'[k].fallback)
                 /\ jobs'[k].status = "complete" => jobs'[k].step = "over"
      <4>1. k \in DOMAIN jobs /\ Snapped(jobs, jobs[k].fallback)
            /\ (jobs[k].status = "complete" => jobs[k].step = "over")
        BY <2>6, <3>2 DEF LiveInv, JobsTyped
      <4> QED
        BY <2>6, <2>7, <4>1
    <3> QED
      BY <3>1, <3>2 DEF JobsTyped
  <2> QED
    BY <2>8, <2>9 DEF LiveInv
<1>6. ASSUME NEW row \in CaptureJobs, row.status = "queued", row.fallback = 0,
             jobs' = Append(jobs, row), newest' = Len(jobs'), OnTicket(t, Len(jobs')),
             Len(jobs) < MaxJobs
      PROVE  LiveInv'
  <2>1. /\ jobs' \in Seq(CaptureJobs) /\ Len(jobs') = Len(jobs) + 1
        /\ DOMAIN jobs' = 1 .. Len(jobs) + 1
        /\ \A i \in 1 .. Len(jobs) : jobs'[i] = jobs[i]
        /\ jobs'[Len(jobs) + 1] = row
    BY <1>1, <1>6, AppendAt
  <2>2. \A j \in DOMAIN jobs' : j \in DOMAIN jobs \/ j = Len(jobs) + 1
    BY <1>1, <2>1
  <2>3. /\ 0 .. Len(jobs) \subseteq 0 .. Len(jobs')
        /\ \A k : Snapped(jobs, k) => Snapped(jobs', k)
        /\ \A n, r : TabTyped(jobs, n, r) => TabTyped(jobs', n, r)
    <3>1. Len(jobs) <= Len(jobs') /\ \A k \in DOMAIN jobs : jobs[k].step \in Done => jobs'[k].step \in Done
      BY <1>1, <2>1
    <3> QED
      BY <2>1, <3>1, JobsMove
  <2>4. TabsTyped'
    <3>1. PICK j \in 0 .. Len(jobs') : j = Len(jobs')
      BY <1>1, <2>1
    <3> QED
      BY <1>3, <1>6, <2>3, <3>1
  <2>5. Snapped(jobs', 0)
    BY DEF Snapped
  <2>6. ASSUME NEW k \in DOMAIN jobs'
        PROVE  /\ Snapped(jobs', jobs'[k].fallback)
               /\ jobs'[k].status = "complete" => jobs'[k].step = "over"
    <3>1. CASE k \in DOMAIN jobs
      BY <1>1, <2>1, <2>3, <3>1 DEF LiveInv, JobsTyped
    <3>2. CASE k = Len(jobs) + 1
      BY <1>6, <2>1, <2>5, <3>2
    <3> QED
      BY <2>2, <2>6, <3>1, <3>2
  <2>7. {newest', collector', retained'} \subseteq 0 .. Len(jobs') /\ Len(jobs') <= MaxJobs
    BY <1>1, <1>2, <1>6, <2>1, <2>3 DEF LiveInv, JobsTyped
  <2>8. JobsTyped'
    <3>1. Snapped(jobs', retained') /\ events' \in 0 .. MaxEvents
      BY <1>2, <2>3 DEF LiveInv, JobsTyped
    <3> QED
      BY <2>6, <2>7, <3>1 DEF JobsTyped
  <2> QED
    BY <2>4, <2>8 DEF LiveInv
<1>7. PICK row : row = [host |-> h, status |-> "queued", step |-> "queued", accepting |-> TRUE,
                        late |-> FALSE, joined |-> {}, fallback |-> 0]
  OBVIOUS
<1>8. row \in CaptureJobs /\ row.status = "queued" /\ row.fallback = 0
  BY <1>7 DEF CaptureJobs, CaptureSteps
<1> QED
  BY <1>4, <1>5, <1>6, <1>7, <1>8 DEF SubmitPrices

LEMMA RestartTyped ==
    ASSUME LiveInv, JobsOK', DeskOK', NEW h \in Hosts, HostRestarts(h)
    PROVE  LiveInv'
<1>1. /\ DOMAIN jobs = 1 .. Len(jobs) /\ Len(jobs) \in Nat /\ jobs \in Seq(CaptureJobs)
  BY LiveBounds DEF LiveInv, JobsOK
<1>2. /\ jobs' = [j \in DOMAIN jobs |->
                    IF j \in Futures(h) THEN [jobs[j] EXCEPT !.step = "over"] ELSE jobs[j]]
      /\ UNCHANGED <<newest, collector, retained, tab, sheets, curves>> /\ events' \in 0 .. MaxEvents
  BY LiveBounds DEF HostRestarts
<1>3. ASSUME NEW j \in DOMAIN jobs
      PROVE  /\ jobs'[j].status = jobs[j].status /\ jobs'[j].fallback = jobs[j].fallback
             /\ jobs'[j].step = jobs[j].step \/ jobs'[j].step = "over"
  <2>1. jobs[j] \in CaptureJobs
    BY CaptureRow DEF LiveInv
  <2>2. PICK row : row = [jobs[j] EXCEPT !.step = "over"]
    OBVIOUS
  <2>3. row.step = "over" /\ row.status = jobs[j].status /\ row.fallback = jobs[j].fallback
    BY <2>1, <2>2 DEF CaptureJobs
  <2> QED
    BY <1>2, <1>3, <2>2, <2>3
<1>4. jobs' \in Seq(CaptureJobs) /\ Len(jobs') = Len(jobs) /\ DOMAIN jobs' = DOMAIN jobs
  <2>1. jobs' \in Seq(CaptureJobs) /\ DOMAIN jobs' = DOMAIN jobs
    BY <1>2 DEF JobsOK
  <2>2. DOMAIN jobs' = 1 .. Len(jobs') /\ Len(jobs') \in Nat
    BY <2>1
  <2> QED
    BY <1>1, <2>1, <2>2
<1>5. /\ \A k : Snapped(jobs, k) => Snapped(jobs', k)
      /\ \A n, r : TabTyped(jobs, n, r) => TabTyped(jobs', n, r)
  <2>1. Len(jobs) <= Len(jobs') /\ \A k \in DOMAIN jobs : jobs[k].step \in Done => jobs'[k].step \in Done
    BY <1>1, <1>3, <1>4 DEF Done
  <2> QED
    BY <1>4, <2>1, JobsMove
<1>6. JobsTyped'
  <2>1. ASSUME NEW k \in DOMAIN jobs'
        PROVE  /\ Snapped(jobs', jobs'[k].fallback)
               /\ jobs'[k].status = "complete" => jobs'[k].step = "over"
    <3>1. k \in DOMAIN jobs /\ Snapped(jobs, jobs[k].fallback)
          /\ (jobs[k].status = "complete" => jobs[k].step = "over")
      BY <1>4, <2>1 DEF LiveInv, JobsTyped
    <3> QED
      BY <1>3, <1>5, <3>1
  <2>2. /\ Snapped(jobs', retained') /\ events' \in 0 .. MaxEvents
        /\ {newest', collector', retained'} \subseteq 0 .. Len(jobs') /\ Len(jobs') <= MaxJobs
    BY <1>2, <1>4, <1>5 DEF LiveInv, JobsTyped
  <2> QED
    BY <2>1, <2>2 DEF JobsTyped
<1>7. TabsTyped'
  BY <1>2, <1>5 DEF LiveInv, TabsTyped, DeskHead
<1> QED
  BY <1>6, <1>7 DEF LiveInv

(* Polls, reloads and answers about the desk curve.                        *)
LEMMA TabsMoveTyped ==
    ASSUME LiveInv, JobsOK', DeskOK', NEW t \in Tabs, PollPrices(t) \/ ReloadTab(t) \/ DeskAnswers(t)
    PROVE  LiveInv'
<1>1. /\ DOMAIN jobs = 1 .. Len(jobs) /\ Len(jobs) \in Nat /\ jobs \in Seq(CaptureJobs)
      /\ DOMAIN tab = Tabs /\ DOMAIN tab' = Tabs /\ DeskHead \in Nat /\ sheets \in [Tabs -> BothAnswered]
  BY LiveBounds DEF LiveInv, JobsOK, DeskOK
<1>2. UNCHANGED <<jobs, newest, collector, retained, curves>> /\ events' \in 0 .. MaxEvents
  <2>1. UNCHANGED <<jobs, newest, collector, retained, curves>> /\ (events' = events \/ Happens)
    BY DEF PollPrices, ReloadTab, DeskAnswers
  <2> QED
    BY <2>1, LiveBounds DEF LiveInv, JobsTyped
<1>3. JobsTyped'
  BY <1>2 DEF LiveInv, JobsTyped
<1>4. TabTyped(jobs, DeskHead, tab[t]) /\ DeskHead' = DeskHead /\ sheets[t].head \in 0 .. DeskHead
  BY <1>2 DEF LiveInv, TabsTyped, DeskHead
<1>5. \A n, r : TabTyped(jobs, n, r) => TabTyped(jobs', n, r)
  BY <1>2
<1>6. ASSUME NEW row, tab' = [tab EXCEPT ![t] = row], TabTyped(jobs, DeskHead, row),
             sheets' = sheets \/ sheets' = [sheets EXCEPT ![t] = NoAnswer]
      PROVE  LiveInv'
  <2>1. NoAnswer.head = 0
    BY DEF NoAnswer
  <2>2. \A u \in Tabs : sheets'[u].head \in 0 .. DeskHead
    BY <1>1, <1>6, <2>1 DEF LiveInv, TabsTyped
  <2>3. TabTyped(jobs', DeskHead', row)
    BY <1>2, <1>4, <1>6
  <2>4. TabsTyped'
    BY <1>1, <1>2, <1>5, <1>6, <2>2, <2>3, TabMoves
  <2> QED
    BY <1>3, <2>4 DEF LiveInv
<1>7. CASE PollPrices(t)
  <2>1. PICK j \in DOMAIN jobs : j = tab[t].ticket
    <3>1. tab[t].ticket \in 0 .. Len(jobs) /\ tab[t].ticket # 0
      BY <1>4, <1>7 DEF PollPrices, TabTyped
    <3>2. tab[t].ticket \in 1 .. Len(jobs)
      BY <1>1, <3>1
    <3> QED
      BY <1>1, <3>2
  <2>2. PICK y :
          /\ \/ jobs[j].status = "complete" /\ y = Capture(j)
             \/ y = tab[t].shows
             \/ jobs[j].fallback # 0 /\ y = Capture(jobs[j].fallback)
          /\ tab' = [tab EXCEPT ![t] = [tab[t] EXCEPT !.ticket = 0, !.shows = y]]
    BY <1>1, <1>7, <2>1 DEF PollPrices
  <2>3. y.kind = "captured" => y.id # 0 /\ Snapped(jobs, y.id)
    <3>1. CASE jobs[j].status = "complete" /\ y = Capture(j)
      <4>1. jobs[j].step = "over"
        BY <3>1 DEF LiveInv, JobsTyped
      <4> QED
        BY <1>1, <3>1, <4>1 DEF Capture, Snapped, Done
    <3>2. CASE y = tab[t].shows
      BY <1>4, <3>2 DEF TabTyped
    <3>3. CASE jobs[j].fallback # 0 /\ y = Capture(jobs[j].fallback)
      BY <3>3 DEF Capture, LiveInv, JobsTyped
    <3> QED
      BY <2>2, <3>1, <3>2, <3>3
  <2>4. PICK row : row = [tab[t] EXCEPT !.ticket = 0, !.shows = y]
    OBVIOUS
  <2>5. /\ DOMAIN row = DOMAIN tab[t] /\ row.job = tab[t].job /\ row.ticket = 0
        /\ row.head = tab[t].head /\ row.shows = y
    BY <1>4, <2>4 DEF TabTyped
  <2>6. TabTyped(jobs, DeskHead, row)
    BY <1>1, <1>4, <2>3, <2>5 DEF TabTyped
  <2>7. tab' = [tab EXCEPT ![t] = row] /\ sheets' = sheets
    BY <1>7, <2>2, <2>4 DEF PollPrices
  <2> QED
    BY <1>6, <2>6, <2>7
<1>8. CASE ReloadTab(t)
  <2>1. PICK row : row = [tab[t] EXCEPT !.head = 0, !.ticket = 0]
    OBVIOUS
  <2>2. /\ DOMAIN row = DOMAIN tab[t] /\ row.job = tab[t].job /\ row.ticket = 0
        /\ row.head = 0 /\ row.shows = tab[t].shows
    BY <1>4, <2>1 DEF TabTyped
  <2>3. TabTyped(jobs, DeskHead, row)
    BY <1>1, <1>4, <2>2 DEF TabTyped
  <2>4. tab' = [tab EXCEPT ![t] = row] /\ sheets' = [sheets EXCEPT ![t] = NoAnswer]
    BY <1>1, <1>8, <2>1 DEF ReloadTab
  <2> QED
    BY <1>6, <2>3, <2>4
<1>9. CASE DeskAnswers(t)
  <2>1. /\ tab' = [tab EXCEPT ![t] = HeadShown(t)] /\ sheets' = [sheets EXCEPT ![t] = NoAnswer]
    BY <1>9 DEF DeskAnswers
  <2>2. TabTyped(jobs, DeskHead, HeadShown(t))
    <3>1. CASE ~sheets[t].shows
      BY <1>4, <3>1 DEF HeadShown
    <3>2. CASE sheets[t].shows
      <4>1. PICK a : a = sheets[t].head
        OBVIOUS
      <4>2. PICK row : row = [tab[t] EXCEPT !.shows = DeskCurve(a), !.head = a,
                                            !.reviewed = @ \cup {a}]
        OBVIOUS
      <4>3. /\ HeadShown(t) = row
            /\ DOMAIN row = DOMAIN tab[t] /\ row.job = tab[t].job /\ row.ticket = tab[t].ticket
            /\ row.head = a /\ row.shows.kind = "desk_curve"
        BY <1>4, <3>2, <4>1, <4>2 DEF TabTyped, HeadShown, DeskCurve
      <4> QED
        BY <1>4, <4>1, <4>3 DEF TabTyped
    <3> QED
      BY <3>1, <3>2
  <2>3. PICK row : row = HeadShown(t)
    OBVIOUS
  <2> QED
    BY <1>6, <2>1, <2>2, <2>3
<1> QED
  BY <1>7, <1>8, <1>9

LEMMA DeskTyped ==
    ASSUME LiveInv, JobsOK', DeskOK',
           \/ OtherAccepts \/ \E t \in Tabs : AskDesk(t) \/ AcceptDesk(t)
    PROVE  LiveInv'
<1>1. /\ curves \in Seq([over : Nat, reviewed : SUBSET Nat]) /\ DeskHead \in Nat
      /\ curves' \in Seq([over : Nat, reviewed : SUBSET Nat]) /\ DeskHead' \in Nat
      /\ sheets \in [Tabs -> BothAnswered] /\ MaxCurves \in Nat
  BY LiveBounds DEF LiveInv, DeskOK, DeskHead
<1>2. UNCHANGED <<jobs, newest, collector, retained, tab>> /\ events' \in 0 .. MaxEvents
  <2>1. UNCHANGED <<jobs, newest, collector, retained, tab>> /\ (events' = events \/ Happens)
    BY DEF OtherAccepts, AskDesk, AcceptDesk
  <2> QED
    BY <2>1, LiveBounds DEF LiveInv, JobsTyped
<1>3. JobsTyped'
  BY <1>2 DEF LiveInv, JobsTyped
<1>4. ASSUME DeskHead <= DeskHead', DeskHead' <= MaxCurves,
             \A u \in Tabs : sheets'[u].head \in 0 .. DeskHead' PROVE LiveInv'
  <2>1. \A u \in Tabs : TabTyped(jobs', DeskHead', tab'[u])
    <3>1. \A u \in Tabs : TabTyped(jobs, DeskHead, tab[u])
      BY DEF LiveInv, TabsTyped
    <3> QED
      BY <1>1, <1>2, <1>4, <3>1 DEF TabTyped
  <2>2. TabsTyped'
    BY <1>4, <2>1 DEF TabsTyped, DeskHead
  <2> QED
    BY <1>3, <2>2 DEF LiveInv
<1>5. \A u \in Tabs : sheets[u].head \in 0 .. DeskHead
  BY DEF LiveInv, TabsTyped
<1>6. DeskHead <= MaxCurves
  BY DEF LiveInv, TabsTyped, DeskHead
<1>7. ASSUME NEW c, curves' = Append(curves, c), Len(curves) < MaxCurves
      PROVE  DeskHead' = DeskHead + 1 /\ DeskHead <= DeskHead' /\ DeskHead' <= MaxCurves
  <2>1. Len(curves') = Len(curves) + 1
    <3>1. IsSeq(curves)
      BY <1>1 DEF IsSeq
    <3> QED
      BY <1>7, <3>1, AppendAny
  <2> QED
    BY <1>1, <1>7, <2>1 DEF DeskHead
<1>8. CASE OtherAccepts
  <2>1. DeskHead <= DeskHead' /\ DeskHead' <= MaxCurves /\ sheets' = sheets
    BY <1>7, <1>8 DEF OtherAccepts
  <2>2. \A u \in Tabs : sheets'[u].head \in 0 .. DeskHead'
    BY <1>1, <1>5, <2>1
  <2> QED
    BY <1>4, <2>1, <2>2
<1>9. ASSUME NEW t \in Tabs, AskDesk(t) PROVE LiveInv'
  <2>1. PICK show : sheets' = [sheets EXCEPT ![t] = [head |-> DeskHead, shows |-> show]]
    BY <1>9 DEF AskDesk
  <2>2. DeskHead' = DeskHead
    BY <1>9 DEF AskDesk, DeskHead
  <2>3. \A u \in Tabs : sheets'[u].head \in 0 .. DeskHead'
    BY <1>1, <1>5, <2>1, <2>2
  <2> QED
    BY <1>1, <1>4, <1>6, <2>2, <2>3
<1>10. ASSUME NEW t \in Tabs, AcceptDesk(t) PROVE LiveInv'
  <2>1. /\ Len(curves) < MaxCurves
        /\ curves' = Append(curves, [over |-> DeskHead, reviewed |-> tab[t].reviewed])
        /\ sheets' = [sheets EXCEPT ![t] = [head |-> DeskHead', shows |-> TRUE]]
    BY <1>10 DEF AcceptDesk, DeskHead
  <2>2. DeskHead <= DeskHead' /\ DeskHead' <= MaxCurves
    BY <1>7, <2>1
  <2>3. \A u \in Tabs : sheets'[u].head \in 0 .. DeskHead'
    BY <1>1, <1>5, <2>1, <2>2
  <2> QED
    BY <1>4, <2>2, <2>3
<1> QED
  BY <1>8, <1>9, <1>10

LEMMA LiveInvStep == LiveInv /\ [LiveNext]_liveVars => LiveInv'
<1> SUFFICES ASSUME LiveInv, [LiveNext]_liveVars PROVE LiveInv'
  OBVIOUS
<1>1. JobsOK' /\ DeskOK'
  BY LiveInductive DEF LiveInv
<1>2. CASE UNCHANGED liveVars
  BY <1>1, <1>2 DEF liveVars, LiveInv, JobsTyped, TabsTyped, DeskHead
<1>3. CASE ConnectionRunsOut
  <2>1. /\ UNCHANGED <<jobs, newest, retained, tab, sheets, curves>> /\ collector' = 0
        /\ events' \in 0 .. MaxEvents /\ Len(jobs) \in Nat
    BY <1>3, LiveBounds DEF ConnectionRunsOut
  <2> QED
    BY <1>1, <2>1 DEF LiveInv, JobsTyped, TabsTyped, DeskHead
<1> QED
  BY <1>1, <1>2, <1>3, SubmitTyped, RestartTyped, CaptureTyped, TabsMoveTyped, DeskTyped, LiveAssumption
  DEF LiveNext

(* Tickets, snapshots and heads point at jobs and curves that exist.       *)
LEMMA LiveTyped == LiveSpec => []LiveTypeOK
<1>1. LiveInit => LiveInv
  <2> SUFFICES ASSUME LiveInit PROVE LiveInv
    OBVIOUS
  <2>1. JobsOK /\ DeskOK
    BY LiveStarts
  <2>2. /\ jobs = <<>> /\ newest = 0 /\ retained = 0 /\ collector = 0 /\ curves = <<>> /\ events = 0
        /\ \A t \in Tabs : tab[t] = [job |-> 0, ticket |-> 0, shows |-> NoPrices, head |-> 0, reviewed |-> {0}]
        /\ \A t \in Tabs : sheets[t] = NoAnswer
    BY DEF LiveInit
  <2>3. JobsTyped
    BY <2>2, LiveAssumption DEF JobsTyped, Snapped
  <2>4. TabsTyped
    BY <2>2, LiveAssumption DEF TabsTyped, TabTyped, NoPrices, NoAnswer, DeskHead
  <2> QED
    BY <2>1, <2>3, <2>4 DEF LiveInv
<1>2. LiveInv => LiveTypeOK
  <2> SUFFICES ASSUME LiveInv PROVE LiveTypeOK
    OBVIOUS
  <2>1. ASSUME NEW t \in Tabs, tab[t].shows.kind = "captured"
        PROVE  jobs[tab[t].shows.id].step \in {"retained", "over"}
    BY <2>1 DEF LiveInv, TabsTyped, TabTyped, Snapped, Done
  <2> QED
    BY <2>1 DEF LiveInv, JobsTyped, TabsTyped, TabTyped, LiveTypeOK, DeskHead
<1> QED
  BY <1>1, <1>2, LiveInvStep, PTL DEF LiveSpec

-----------------------------------------------------------------------------
(* The HH and Brent workspaces.  A request to publish keeps what it has    *)
(* compared: from the first check on its candidate is of the running code, *)
(* which a deployment would end it with, and from the second on it is as   *)
(* new as the click.                                                       *)
PublishOK(r) ==
    r.step \in {"check", "verify", "commit"} =>
        /\ DOMAIN r = {"step", "desk", "asOf"}
        /\ r.asOf \in Nat /\ r.asOf <= settlement
        /\ r.step # "check" => r.desk.candidate.fit[2] = code
        /\ r.step # "check" /\ Page("HH") =>
              /\ r.desk.candidate.owner = r.desk.who
              /\ r.desk.candidate.base = r.desk.published
        /\ r.step = "commit" \/ (r.step = "verify" /\ Page("BRENT")) =>
              r.desk.candidate.fit[1] >= r.asOf

GovernedInv ==
    /\ DOMAIN asked = GovernedCallbacks
    /\ commodity \in {"HH", "BRENT"} /\ settlement \in Nat /\ code \in Nat
    /\ IsSeq(governed)
    /\ asked["publish"] # Nil => PublishOK(asked["publish"])
    /\ GovernedAsReviewed

LEMMA GovernedStays ==
    ASSUME GovernedInv, DOMAIN asked' = GovernedCallbacks,
           UNCHANGED <<commodity, code, governed>>, settlement' \in Nat, settlement <= settlement',
           asked'["publish"] \in {asked["publish"], Nil}
           \/ PublishOK(asked["publish"])'
    PROVE  GovernedInv'
BY DEF GovernedInv, GovernedAsReviewed, PublishOK, Page, SameInputs

LEMMA PublishGoesOn ==
    ASSUME GovernedInv, NEW r, r = asked["publish"], r # Nil,
           r.step \in {"check", "verify", "commit"}, NEW s, Proceeds(s)
    PROVE  /\ PublishOK(r) /\ asked'["publish"].step = s
           /\ asked'["publish"].desk = r.desk /\ asked'["publish"].asOf = r.asOf
           /\ DOMAIN asked'["publish"] = {"step", "desk", "asOf"}
           /\ DOMAIN asked' = GovernedCallbacks
<1>1. PublishOK(r) /\ DOMAIN r = {"step", "desk", "asOf"}
  BY DEF GovernedInv, PublishOK
<1>2. asked' = [asked EXCEPT !["publish"] = [r EXCEPT !.step = s]]
  BY DEF Proceeds, Requires
<1>3. PICK q : q = [r EXCEPT !.step = s]
  OBVIOUS
<1>4. q.step = s /\ q.desk = r.desk /\ q.asOf = r.asOf /\ DOMAIN q = {"step", "desk", "asOf"}
  BY <1>1, <1>3
<1>5. asked'["publish"] = q /\ DOMAIN asked' = GovernedCallbacks
  BY <1>2, <1>3 DEF GovernedInv, GovernedCallbacks
<1> QED
  BY <1>1, <1>4, <1>5

LEMMA CommitGovernedInv ==
    ASSUME GovernedInv, CommitGoverned PROVE GovernedInv'
<1>1. PICK r : r = asked["publish"]
  OBVIOUS
<1>2. /\ r.step = "commit" /\ PublishOK(r)
      /\ UNCHANGED <<commodity, settlement, code>>
      /\ settlement \in Nat /\ code \in Nat /\ commodity \in {"HH", "BRENT"}
  BY <1>1 DEF CommitGoverned, Serves, GovernedInv
<1>3. ASSUME NEW i, Requires("publish", [step |-> "answer", published |-> i])
      PROVE  DOMAIN asked' = GovernedCallbacks /\ PublishOK(asked["publish"])'
  <2>1. asked'["publish"].step = "answer" /\ DOMAIN asked' = GovernedCallbacks
    BY <1>3 DEF Requires, GovernedInv, GovernedCallbacks
  <2> QED
    BY <2>1 DEF PublishOK
<1>4. ASSUME Blocked PROVE DOMAIN asked' = GovernedCallbacks /\ asked'["publish"] = Nil
  BY <1>4 DEF Blocked, Requires, GovernedInv, GovernedCallbacks
<1>5. CASE UNCHANGED governed
  <2>1. Blocked \/ \E i : Requires("publish", [step |-> "answer", published |-> i])
    BY <1>5 DEF CommitGoverned
  <2>2. /\ UNCHANGED <<commodity, code, governed>> /\ settlement' \in Nat
        /\ settlement <= settlement'
    BY <1>2, <1>5
  <2>3. CASE Blocked
    BY <1>4, <2>2, <2>3, GovernedStays
  <2>4. ASSUME NEW i, Requires("publish", [step |-> "answer", published |-> i])
        PROVE  GovernedInv'
    BY <1>3, <2>2, <2>4, GovernedStays
  <2> QED
    BY <2>1, <2>3, <2>4
<1>6. CASE /\ {i \in DOMAIN governed : governed[i] # Nil
                  /\ SameInputs(governed[i].candidate, r.desk.candidate)} = {}
           /\ ExpectedOf(r.desk) = LastGoverned
           /\ governed' = Append(governed,
                [candidate |-> r.desk.candidate, by |-> r.desk.who, asOf |-> r.asOf,
                           code |-> code, replaced |-> LastGoverned])
           /\ Requires("publish", [step |-> "answer", published |-> LastGoverned + 1])
  <2>1. PICK g : g = [candidate |-> r.desk.candidate, by |-> r.desk.who, asOf |-> r.asOf,
                      code |-> code, replaced |-> LastGoverned]
    OBVIOUS
  <2>2. /\ g.candidate = r.desk.candidate /\ g.by = r.desk.who /\ g.asOf = r.asOf
        /\ g.code = code /\ g.replaced = LastGoverned
    BY <2>1
  <2>3. IsSeq(governed)
    BY DEF GovernedInv
  <2>4. governed' = Append(governed, g)
    BY <1>6, <2>1
  <2>5. /\ IsSeq(governed') /\ Len(governed) \in Nat /\ DOMAIN governed = 1 .. Len(governed)
        /\ DOMAIN governed' = 1 .. Len(governed) + 1
        /\ \A i \in 1 .. Len(governed) : governed'[i] = governed[i]
        /\ governed'[Len(governed) + 1] = g
    BY <2>3, <2>4, AppendAny
  <2>6. g.candidate.fit[2] = g.code /\ g.candidate.fit[1] >= g.asOf
    BY <1>2, <2>2 DEF PublishOK
  <2>7. g.replaced = g.candidate.base /\ (Page("HH") => g.by = g.candidate.owner)
    BY <1>2, <1>6, <2>2 DEF PublishOK, ExpectedOf
  <2>8. \A k \in 1 .. Len(governed) :
           governed[k] # Nil => ~SameInputs(governed[k].candidate, g.candidate)
    BY <1>6, <2>2, <2>5
  <2>9. GovernedAsReviewed'
    <3>1. SUFFICES ASSUME NEW i \in DOMAIN governed', governed'[i] # Nil
                   PROVE  /\ governed'[i].candidate.fit[2] = governed'[i].code
                          /\ governed'[i].candidate.fit[1] >= governed'[i].asOf
                          /\ governed'[i].replaced = governed'[i].candidate.base
                          /\ Page("HH")' => governed'[i].by = governed'[i].candidate.owner
                          /\ \A k \in 1 .. i - 1 : governed'[k] # Nil =>
                               ~SameInputs(governed'[k].candidate, governed'[i].candidate)
      BY DEF GovernedAsReviewed, SameInputs
    <3>2. Page("HH")' <=> Page("HH")
      BY <1>2 DEF Page
    <3>3. i \in 1 .. Len(governed) \/ i = Len(governed) + 1
      BY <2>5, <3>1
    <3>4. CASE i = Len(governed) + 1
      <4>1. 1 .. i - 1 = 1 .. Len(governed)
        BY <2>5, <3>4
      <4> QED
        BY <2>5, <2>6, <2>7, <2>8, <3>2, <3>4, <4>1
    <3>5. CASE i \in 1 .. Len(governed)
      <4>1. \A k \in 1 .. i - 1 : k \in 1 .. Len(governed)
        BY <2>5, <3>5
      <4> QED
        BY <2>5, <3>1, <3>2, <3>5, <4>1 DEF GovernedInv, GovernedAsReviewed
    <3> QED
      BY <3>3, <3>4, <3>5
  <2> QED
    BY <1>2, <1>3, <1>6, <2>5, <2>9 DEF GovernedInv
<1> QED
  BY <1>1, <1>5, <1>6 DEF CommitGoverned

LEMMA GovernedInductive == GovernedInv /\ [GovernedNext]_governedVars => GovernedInv'
<1> SUFFICES ASSUME GovernedInv, [GovernedNext]_governedVars PROVE GovernedInv'
  OBVIOUS
<1>0. DOMAIN asked = GovernedCallbacks /\ settlement \in Nat /\ code \in Nat
  BY DEF GovernedInv
<1>1. ASSUME UNCHANGED <<commodity, code, governed, asked>>, settlement' \in Nat,
             settlement <= settlement'
      PROVE  GovernedInv'
  BY <1>0, <1>1, GovernedStays
<1>2. CASE CorrectSettlement \/ CandidateExpires \/ (\E w \in Signed : SignIn(w))
           \/ (\E k \in Picks : Pick(k)) \/ UNCHANGED governedVars
  BY <1>0, <1>1, <1>2 DEF CorrectSettlement, CandidateExpires, SignIn, Pick, governedVars
<1>3. ASSUME NEW c \in {"load", "calibrate"}, NEW r, Requires(c, r),
             UNCHANGED <<commodity, code, governed, settlement>>
      PROVE  GovernedInv'
  <2>1. DOMAIN asked' = GovernedCallbacks /\ asked'["publish"] = asked["publish"]
    BY <1>0, <1>3 DEF Requires, GovernedCallbacks
  <2> QED
    BY <1>0, <1>3, <2>1, GovernedStays
<1>4. CASE LoadGoverned \/ LoadAnswers \/ Calibrate \/ KeepCandidate \/ CalibrateAnswers
           \/ CalibrateFails
  BY <1>3, <1>4 DEF LoadGoverned, LoadAnswers, Calibrate, KeepCandidate, CalibrateAnswers,
     CalibrateFails
<1>5. ASSUME Requires("publish", Nil), UNCHANGED <<commodity, code, governed, settlement>>
      PROVE  GovernedInv'
  <2>1. DOMAIN asked' = GovernedCallbacks /\ asked'["publish"] = Nil
    BY <1>0, <1>5 DEF Requires, GovernedCallbacks
  <2> QED
    BY <1>0, <1>5, <2>1, GovernedStays
<1>6. CASE PublishAnswers
  BY <1>5, <1>6 DEF PublishAnswers
<1>7. CASE ClickPublish
  <2>1. PICK r : r = [step |-> "check", desk |-> desk, asOf |-> settlement]
    OBVIOUS
  <2>2. /\ DOMAIN r = {"step", "desk", "asOf"} /\ r.step = "check" /\ r.asOf = settlement
    BY <2>1
  <2>3. /\ DOMAIN asked' = GovernedCallbacks /\ asked'["publish"] = r
        /\ UNCHANGED <<commodity, code, governed, settlement>>
    BY <1>0, <1>7, <2>1 DEF ClickPublish, Requires, GovernedCallbacks
  <2>4. PublishOK(asked["publish"])'
    BY <1>0, <2>2, <2>3 DEF PublishOK
  <2> QED
    BY <1>0, <2>3, <2>4, GovernedStays
<1>8. CASE CheckCandidate \/ VerifySource \/ RebuildCandidate \/ CheckBase
  <2>1. PICK r : r = asked["publish"]
    OBVIOUS
  <2>2. /\ r # Nil /\ r.step \in {"check", "verify"}
        /\ UNCHANGED <<commodity, code, governed, settlement>>
    BY <1>8, <2>1 DEF CheckCandidate, VerifySource, RebuildCandidate, CheckBase, Serves
  <2>3. CASE Blocked
    BY <1>5, <2>2, <2>3 DEF Blocked
  <2>4. ASSUME NEW s \in {"verify", "commit"}, Proceeds(s),
               r.desk.candidate.fit[2] = code,
               Page("HH") => /\ r.desk.candidate.owner = r.desk.who
                             /\ r.desk.candidate.base = r.desk.published,
               s = "commit" \/ Page("BRENT") => r.desk.candidate.fit[1] >= r.asOf
        PROVE  GovernedInv'
    <3>1. /\ PublishOK(r) /\ asked'["publish"].step = s
          /\ asked'["publish"].desk = r.desk /\ asked'["publish"].asOf = r.asOf
          /\ DOMAIN asked'["publish"] = {"step", "desk", "asOf"}
          /\ DOMAIN asked' = GovernedCallbacks
      BY <2>1, <2>2, <2>4, PublishGoesOn
    <3>2. PublishOK(asked["publish"])'
      BY <2>2, <2>4, <3>1 DEF PublishOK, Page
    <3> QED
      BY <1>0, <2>2, <3>1, <3>2, GovernedStays
  <2>5. PublishOK(r)
    BY <2>1, <2>2 DEF GovernedInv
  <2>6. CASE Page("HH") /\ r.step = "check" /\ ResolveCandidate(r.desk) /\ Proceeds("verify")
    <3>1. ~Page("BRENT")
      BY <2>6 DEF Page
    <3> QED
      BY <2>4, <2>6, <3>1 DEF ResolveCandidate
  <2>7. CASE /\ Page("HH") /\ r.step = "verify" /\ r.desk.candidate.fit[1] = settlement
             /\ Proceeds("commit")
    <3>1. r.desk.candidate.fit[1] >= r.asOf
      BY <1>0, <2>5, <2>7 DEF PublishOK
    <3> QED
      BY <2>4, <2>5, <2>7, <3>1 DEF PublishOK
  <2>8. CASE /\ Page("BRENT") /\ r.step = "check" /\ Proceeds("verify")
             /\ r.desk.candidate.fit = <<settlement, code>>
    <3>1. ~Page("HH")
      BY <2>8 DEF Page
    <3>2. r.desk.candidate.fit[1] = settlement /\ r.desk.candidate.fit[2] = code
      BY <2>8
    <3>3. r.desk.candidate.fit[1] >= r.asOf
      BY <1>0, <2>5, <2>8, <3>2 DEF PublishOK
    <3> QED
      BY <2>4, <2>8, <3>1, <3>2, <3>3
  <2>9. CASE Page("BRENT") /\ r.step = "verify" /\ Proceeds("commit")
    <3>1. ~Page("HH")
      BY <2>9 DEF Page
    <3> QED
      BY <2>4, <2>5, <2>9, <3>1 DEF PublishOK
  <2> QED
    BY <1>8, <2>1, <2>3, <2>6, <2>7, <2>8, <2>9
       DEF CheckCandidate, VerifySource, RebuildCandidate, CheckBase, Serves
<1>9. CASE OtherGoverned
  <2>1. IsSeq(governed) /\ governed' = Append(governed, Nil)
        /\ UNCHANGED <<commodity, code, asked, settlement>>
    BY <1>9 DEF OtherGoverned, GovernedInv
  <2>2. /\ IsSeq(governed') /\ Len(governed) \in Nat /\ DOMAIN governed = 1 .. Len(governed)
        /\ DOMAIN governed' = 1 .. Len(governed) + 1
        /\ \A i \in 1 .. Len(governed) : governed'[i] = governed[i]
        /\ governed'[Len(governed) + 1] = Nil
    BY <2>1, AppendAny
  <2>3. \A i \in DOMAIN governed' : governed'[i] # Nil =>
          /\ i \in DOMAIN governed /\ governed'[i] = governed[i]
          /\ \A k \in 1 .. i - 1 : governed'[k] = governed[k]
    BY <2>2
  <2>4. GovernedAsReviewed'
    BY <2>1, <2>3 DEF GovernedInv, GovernedAsReviewed, SameInputs, Page
  <2> QED
    BY <2>1, <2>2, <2>4 DEF GovernedInv, PublishOK, Page
<1>10. CASE Deploy
  <2>1. /\ asked' = [c \in GovernedCallbacks |-> Nil] /\ code' = code + 1
        /\ UNCHANGED <<commodity, settlement, governed>>
    BY <1>10 DEF Deploy
  <2>2. GovernedAsReviewed'
    BY <2>1 DEF GovernedInv, GovernedAsReviewed, SameInputs, Page
  <2> QED
    BY <1>0, <2>1, <2>2 DEF GovernedInv, GovernedCallbacks
<1>11. CASE CommitGoverned
  BY <1>11, CommitGovernedInv
<1> QED
  BY <1>2, <1>4, <1>6, <1>7, <1>8, <1>9, <1>10, <1>11 DEF GovernedNext

(* A governed surface of HH or Brent is published as it was reviewed,      *)
(* whatever is corrected, deployed and published while it waits.           *)
THEOREM GovernedReviewed == GovernedSpec => []GovernedAsReviewed
<1>1. GovernedInit => GovernedInv
  <2> SUFFICES ASSUME GovernedInit PROVE GovernedInv
    OBVIOUS
  <2>1. IsSeq(<<>>)
    <3>1. <<>> \in Seq({})
      OBVIOUS
    <3> QED
      BY <3>1 DEF IsSeq
  <2> QED
    BY <2>1 DEF GovernedInit, GovernedInv, GovernedAsReviewed, GovernedCallbacks
<1>2. GovernedInv => GovernedAsReviewed
  BY DEF GovernedInv
<1> QED
  BY <1>1, <1>2, GovernedInductive, PTL DEF GovernedSpec

\* What a page is told of was published.
PublishedOK(r) == r.step = "answer" => r.published \in 0 .. LastGoverned

GovernedTyped ==
    /\ GovernedTypeOK /\ DOMAIN desk = {"who", "pick", "published", "candidate"}
    /\ settlement \in Nat /\ code \in Nat
    /\ asked["load"] # Nil => asked["load"].published \in 0 .. LastGoverned
    /\ asked["publish"] # Nil => PublishedOK(asked["publish"])

LEMMA GovernedTypedInductive == GovernedInv /\ GovernedTyped /\ [GovernedNext]_governedVars => GovernedTyped'
<1> SUFFICES ASSUME GovernedInv, GovernedTyped, [GovernedNext]_governedVars PROVE GovernedTyped'
  OBVIOUS
<1>1. /\ DOMAIN asked = GovernedCallbacks /\ IsSeq(governed) /\ LastGoverned \in Nat
      /\ settlement \in Nat /\ code \in Nat /\ upsets \in Nat /\ fits \in Nat
      /\ MaxUpsets \in Nat /\ MaxCalibrations \in Nat /\ MaxGoverned \in Nat
      /\ DOMAIN desk = {"who", "pick", "published", "candidate"}
  <2>1. LastGoverned \in Nat
    BY AppendAny DEF GovernedInv, LastGoverned
  <2> QED
    BY <2>1, GovernedAssumption DEF GovernedInv, GovernedTyped, GovernedTypeOK
\* A callback is asked or answered, the page keeps or replaces what it refers to.
<1>2. ASSUME NEW c \in GovernedCallbacks, NEW r, Requires(c, r),
             UNCHANGED <<settlement, code, governed, upsets>>,
             DOMAIN desk' = DOMAIN desk, desk'.who = desk.who, desk'.pick = desk.pick,
             desk'.published \in 0 .. LastGoverned, fits' \in 0 .. MaxCalibrations,
             c = "load" /\ r # Nil => r.published \in 0 .. LastGoverned,
             c = "publish" /\ r # Nil => PublishedOK(r)
      PROVE  GovernedTyped'
  <2>1. asked'[c] = r /\ \A d \in GovernedCallbacks : d # c => asked'[d] = asked[d]
    BY <1>1, <1>2 DEF Requires
  <2>2. "load" \in GovernedCallbacks /\ "publish" \in GovernedCallbacks
    BY DEF GovernedCallbacks
  <2>3. asked'["load"] # Nil => asked'["load"].published \in 0 .. LastGoverned
    BY <1>2, <2>1, <2>2 DEF GovernedTyped
  <2>4. asked'["publish"] # Nil => PublishedOK(asked'["publish"])
    BY <1>2, <2>1, <2>2 DEF GovernedTyped
  <2> QED
    BY <1>1, <1>2, <2>3, <2>4 DEF GovernedTyped, GovernedTypeOK, LastGoverned, PublishedOK
<1>3. desk.published \in 0 .. LastGoverned /\ fits \in 0 .. MaxCalibrations
  BY DEF GovernedTyped, GovernedTypeOK
<1>4. /\ "load" \in GovernedCallbacks /\ "publish" \in GovernedCallbacks /\ "calibrate" \in GovernedCallbacks
      /\ "load" # "publish" /\ "load" # "calibrate" /\ "calibrate" # "publish"
  BY DEF GovernedCallbacks
<1>5. CASE LoadGoverned
  <2>1. PICK seen \in {0, LastGoverned} : Requires("load", [step |-> "answer", published |-> seen])
    BY <1>5 DEF LoadGoverned
  <2>2. PICK r : r = [step |-> "answer", published |-> seen]
    OBVIOUS
  <2>3. r.published \in 0 .. LastGoverned /\ Requires("load", r)
    BY <1>1, <2>1, <2>2
  <2> QED
    BY <1>1, <1>2, <1>3, <1>4, <1>5, <2>3 DEF LoadGoverned
<1>6. CASE LoadAnswers
  <2>1. /\ desk' = [desk EXCEPT !.published = asked["load"].published] /\ Requires("load", Nil)
        /\ asked["load"].published \in 0 .. LastGoverned /\ fits' = fits
        /\ UNCHANGED <<settlement, code, governed, upsets>>
    BY <1>6 DEF LoadAnswers, Serves, GovernedTyped
  <2>2. /\ DOMAIN desk' = DOMAIN desk /\ desk'.who = desk.who /\ desk'.pick = desk.pick
        /\ desk'.published = asked["load"].published
    BY <1>1, <2>1
  <2> QED
    BY <1>2, <1>3, <1>4, <2>1, <2>2
<1>7. CASE Calibrate
  <2>1. PICK r : Requires("calibrate", r)
    BY <1>7 DEF Calibrate
  <2>2. fits' \in 0 .. MaxCalibrations /\ UNCHANGED <<desk, settlement, code, governed, upsets>>
    BY <1>1, <1>7 DEF Calibrate
  <2> QED
    BY <1>2, <1>3, <1>4, <2>1, <2>2
<1>8. CASE KeepCandidate \/ CalibrateAnswers \/ CalibrateFails
  <2>1. /\ \E r : Requires("calibrate", r)
        /\ desk' = desk \/ \E c : desk' = [desk EXCEPT !.candidate = c]
        /\ UNCHANGED <<settlement, code, governed, upsets, fits>>
    BY <1>8 DEF KeepCandidate, CalibrateAnswers, CalibrateFails
  <2>2. PICK r : Requires("calibrate", r)
    BY <2>1
  <2>3. /\ DOMAIN desk' = DOMAIN desk /\ desk'.who = desk.who /\ desk'.pick = desk.pick
        /\ desk'.published = desk.published
    BY <1>1, <2>1
  <2> QED
    BY <1>2, <1>3, <1>4, <2>1, <2>2, <2>3
<1>9. CASE ClickPublish
  <2>1. PICK r : r = [step |-> "check", desk |-> desk, asOf |-> settlement]
    OBVIOUS
  <2>2. PublishedOK(r) /\ Requires("publish", r) /\ UNCHANGED <<desk, settlement, code, governed, upsets, fits>>
    BY <1>9, <2>1 DEF ClickPublish, PublishedOK
  <2> QED
    BY <1>2, <1>3, <1>4, <2>2
<1>10. ASSUME Requires("publish", Nil), UNCHANGED <<desk, settlement, code, governed, upsets, fits>>
       PROVE  GovernedTyped'
  BY <1>2, <1>3, <1>4, <1>10
<1>11. CASE CheckCandidate \/ VerifySource \/ RebuildCandidate \/ CheckBase
  <2>1. PICK r : r = asked["publish"]
    OBVIOUS
  <2>2. /\ r # Nil /\ r.step \in {"check", "verify", "commit"}
        /\ Blocked \/ Proceeds("verify") \/ Proceeds("commit")
        /\ UNCHANGED <<desk, settlement, code, governed, upsets, fits>>
    BY <1>11, <2>1 DEF CheckCandidate, VerifySource, RebuildCandidate, CheckBase, Serves
  <2>3. CASE Blocked
    BY <1>10, <2>2, <2>3 DEF Blocked
  <2>4. ASSUME NEW s \in {"verify", "commit"}, Proceeds(s) PROVE GovernedTyped'
    <3>1. PICK q : q = [asked["publish"] EXCEPT !.step = s]
      OBVIOUS
    <3>2. asked'["publish"].step = s
      BY <2>1, <2>2, <2>4, PublishGoesOn
    <3>3. Requires("publish", q)
      BY <2>4, <3>1 DEF Proceeds
    <3>4. asked'["publish"] = q
      BY <1>1, <1>4, <3>3 DEF Requires
    <3>5. PublishedOK(q)
      BY <2>4, <3>2, <3>4 DEF PublishedOK
    <3> QED
      BY <1>2, <1>3, <1>4, <2>2, <3>3, <3>5
  <2> QED
    BY <2>2, <2>3, <2>4
<1>12. CASE CommitGoverned
  <2>1. UNCHANGED <<desk, settlement, code, upsets, fits>>
    BY <1>12 DEF CommitGoverned
  <2>2. PICK again : again = {i \in DOMAIN governed : governed[i] # Nil
                                /\ SameInputs(governed[i].candidate, asked["publish"].desk.candidate)}
    OBVIOUS
  <2>3. \A i \in again : i \in 0 .. LastGoverned
    BY <1>1, <2>2, AppendAny DEF LastGoverned
  <2>4. CASE Blocked /\ UNCHANGED governed
    BY <1>10, <2>1, <2>4 DEF Blocked
  <2>5. ASSUME NEW i \in again, Requires("publish", [step |-> "answer", published |-> i]), UNCHANGED governed
        PROVE  GovernedTyped'
    <3>1. PICK r : r = [step |-> "answer", published |-> i]
      OBVIOUS
    <3>2. Requires("publish", r) /\ PublishedOK(r)
      BY <2>3, <2>5, <3>1 DEF PublishedOK
    <3> QED
      BY <1>2, <1>3, <1>4, <2>1, <2>5, <3>2
  <2>6. ASSUME LastGoverned < MaxGoverned, \E g : governed' = Append(governed, g),
               Requires("publish", [step |-> "answer", published |-> LastGoverned + 1])
        PROVE  GovernedTyped'
    <3>1. LastGoverned' = LastGoverned + 1
      BY <1>1, <2>6, AppendAny DEF LastGoverned
    <3>2. PICK r : r = [step |-> "answer", published |-> LastGoverned + 1]
      OBVIOUS
    <3>3. r.published = LastGoverned'
      BY <3>1, <3>2
    <3>4. asked' = [asked EXCEPT !["publish"] = r]
      BY <2>6, <3>2 DEF Requires
    <3>5. asked'["publish"] = r /\ asked'["load"] = asked["load"]
      BY <1>1, <1>4, <3>4
    <3>6. PublishedOK(asked["publish"])'
      BY <1>1, <3>1, <3>3, <3>5 DEF PublishedOK
    <3>7. (asked["load"] # Nil => asked["load"].published \in 0 .. LastGoverned)'
      BY <1>1, <3>1, <3>5 DEF GovernedTyped
    <3> QED
      BY <1>1, <2>1, <2>6, <3>1, <3>6, <3>7 DEF GovernedTyped, GovernedTypeOK
  <2> QED
    BY <1>12, <2>2, <2>4, <2>5, <2>6 DEF CommitGoverned
<1>13. CASE PublishAnswers
  <2>1. /\ Requires("publish", Nil) /\ UNCHANGED <<settlement, code, governed, upsets, fits>>
        /\ desk' = desk \/ desk' = [desk EXCEPT !.published = asked["publish"].published]
        /\ asked["publish"].published \in 0 .. LastGoverned
    BY <1>13 DEF PublishAnswers, Serves, GovernedTyped, PublishedOK
  <2>2. /\ DOMAIN desk' = DOMAIN desk /\ desk'.who = desk.who /\ desk'.pick = desk.pick
        /\ desk'.published \in 0 .. LastGoverned
    BY <1>1, <1>3, <2>1
  <2> QED
    BY <1>2, <1>3, <1>4, <2>1, <2>2
<1>14. CASE OtherGoverned
  <2>1. LastGoverned' = LastGoverned + 1 /\ LastGoverned < MaxGoverned
    BY <1>1, <1>14, AppendAny DEF OtherGoverned, LastGoverned
  <2> QED
    BY <1>1, <1>14, <2>1 DEF OtherGoverned, GovernedTyped, GovernedTypeOK, PublishedOK
<1>15. CASE Deploy
  BY <1>1, <1>4, <1>15 DEF Deploy, Upsets, GovernedTyped, GovernedTypeOK, LastGoverned
<1>16. CASE CorrectSettlement \/ CandidateExpires \/ UNCHANGED governedVars
  BY <1>1, <1>16 DEF CorrectSettlement, CandidateExpires, Upsets, governedVars, GovernedTyped, GovernedTypeOK,
     LastGoverned, PublishedOK
<1>17. ASSUME NEW w \in Signed, SignIn(w) PROVE GovernedTyped'
  BY <1>1, <1>17 DEF SignIn, Upsets, GovernedTyped, GovernedTypeOK, LastGoverned, PublishedOK
<1>18. ASSUME NEW k \in Picks, Pick(k) PROVE GovernedTyped'
  BY <1>1, <1>18 DEF Pick, Upsets, GovernedTyped, GovernedTypeOK, LastGoverned, PublishedOK
<1> QED
  BY <1>5, <1>6, <1>7, <1>8, <1>9, <1>11, <1>12, <1>13, <1>14, <1>15, <1>16, <1>17, <1>18 DEF GovernedNext

(* Stores and requests refer to publications that exist.                   *)
LEMMA GovernedIsTyped == GovernedSpec => []GovernedTypeOK
<1>1. GovernedInit => GovernedInv /\ GovernedTyped
  <2> SUFFICES ASSUME GovernedInit PROVE GovernedInv /\ GovernedTyped
    OBVIOUS
  <2>1. IsSeq(<<>>)
    <3>1. <<>> \in Seq({})
      OBVIOUS
    <3> QED
      BY <3>1 DEF IsSeq
  <2>2. GovernedInv
    BY <2>1 DEF GovernedInit, GovernedInv, GovernedAsReviewed, GovernedCallbacks
  <2>3. desk.who \in Signed /\ desk.pick \in Picks
    BY GovernedAssumption DEF GovernedInit
  <2>4. GovernedTyped
    BY <2>3, GovernedAssumption DEF GovernedInit, GovernedTyped, GovernedTypeOK, GovernedCallbacks, LastGoverned
  <2> QED
    BY <2>2, <2>4
<1>2. GovernedTyped => GovernedTypeOK
  BY DEF GovernedTyped
<1> QED
  BY <1>1, <1>2, GovernedInductive, GovernedTypedInductive, PTL DEF GovernedSpec

-----------------------------------------------------------------------------
(* The structures of the pricer.  An answer under way for a panel carries  *)
(* no results or those of the inputs the panel shows, because every change *)
(* of its inputs asks anew; and the answer of the workspace callback fits  *)
(* the workspace it was computed from, which only that answer replaces.    *)

PricerInputs == 0 .. MaxInputs + MaxTurns

TurnsOK ==
    /\ changes \in Nat /\ reloads \in Nat /\ clicks \in Nat
    /\ reloads <= MaxTurns /\ changes <= MaxInputs + reloads

WorkspaceOK(w) ==
    /\ DOMAIN w = {"order", "drafts", "next"}
    /\ w.next \in 2 .. MaxStructures + 1
    /\ w.order \in Seq(1 .. w.next - 1)
    /\ \A a, b \in DOMAIN w.order : w.order[a] = w.order[b] => a = b
    /\ \A s \in DOMAIN w.drafts : /\ \E k \in DOMAIN w.order : w.order[k] = s
                                  /\ w.drafts[s] \in PricerInputs

PanelsOK ==
    /\ panels = workspace.order
    /\ DOMAIN priced = {panels[k] : k \in DOMAIN panels}
    /\ \A s \in DOMAIN priced : /\ DOMAIN priced[s] = {"inputs", "results"}
                                /\ priced[s].inputs \in PricerInputs

ManagingOK ==
    managing # Silent =>
      /\ WorkspaceOK(managing.workspace)
      /\ \/ /\ managing.added = {workspace.next} /\ managing.removed = {}
            /\ managing.workspace.order = Append(workspace.order, workspace.next)
         \/ /\ managing.added = {}
            /\ \E k \in DOMAIN workspace.order :
                  /\ managing.removed = {k}
                  /\ managing.workspace.order = RemoveAt(workspace.order, k)
         \/ /\ managing.added = {} /\ managing.removed = {}
            /\ managing.workspace.order = workspace.order

FittingOK ==
    /\ DOMAIN fitting = Structures
    /\ \A s \in Structures : fitting[s] # Silent =>
         s \in DOMAIN priced /\ fitting[s].results \in {Silent, priced[s].inputs}
    /\ \A s \in DOMAIN priced : fitting[s] = Silent =>
         priced[s].results \in {Silent, priced[s].inputs}

PricerInv ==
    /\ TurnsOK /\ WorkspaceOK(workspace) /\ PanelsOK /\ ManagingOK /\ FittingOK
    /\ ticking \in BOOLEAN

LEMMA NoAnswerIsSilent ==
    ASSUME NEW r \in PricerInputs \cup {Silent} PROVE Answer(r) # Silent
BY PricerAssumption DEF Answer, PricerInputs

LEMMA PanelsInStructures ==
    ASSUME PricerInv
    PROVE  /\ OnPage = DOMAIN priced /\ OnPage \subseteq Structures /\ workspace.next \notin OnPage
           /\ \A s \in OnPage : \E k \in DOMAIN panels : panels[k] = s
           /\ \A k \in DOMAIN panels : panels[k] \in OnPage
           /\ DOMAIN panels = 1 .. Len(panels) /\ Len(panels) \in Nat
<1>1. /\ panels \in Seq(1 .. workspace.next - 1) /\ workspace.next \in 2 .. MaxStructures + 1
      /\ DOMAIN priced = {panels[k] : k \in DOMAIN panels}
  BY DEF PricerInv, PanelsOK, WorkspaceOK
<1>2. \A k \in DOMAIN panels : panels[k] \in 1 .. workspace.next - 1
  BY <1>1
<1>3. 1 .. workspace.next - 1 \subseteq Structures
  BY <1>1, PricerAssumption DEF Structures
<1>4. OnPage = {panels[k] : k \in DOMAIN panels}
  BY DEF OnPage, ToSet
<1>5. workspace.next \notin 1 .. workspace.next - 1
  BY <1>1
<1> QED
  BY <1>1, <1>2, <1>3, <1>4, <1>5

LEMMA RemovedAt ==
    ASSUME NEW S, NEW s \in Seq(S), NEW k \in 1 .. Len(s)
    PROVE  /\ RemoveAt(s, k) \in Seq(S) /\ DOMAIN RemoveAt(s, k) = 1 .. Len(s) - 1
           /\ \A i \in 1 .. Len(s) - 1 : RemoveAt(s, k)[i] = IF i < k THEN s[i] ELSE s[i + 1]
<1>1. /\ SubSeq(s, 1, k - 1) \in Seq(S) /\ Len(SubSeq(s, 1, k - 1)) = k - 1
      /\ \A i \in 1 .. k - 1 : SubSeq(s, 1, k - 1)[i] = s[i]
  OBVIOUS
<1>2. /\ SubSeq(s, k + 1, Len(s)) \in Seq(S) /\ Len(SubSeq(s, k + 1, Len(s))) = Len(s) - k
      /\ \A i \in 1 .. Len(s) - k : SubSeq(s, k + 1, Len(s))[i] = s[k + i]
  OBVIOUS
<1>3. PICK a \in Seq(S) : a = SubSeq(s, 1, k - 1)
  BY <1>1
<1>4. PICK b \in Seq(S) : b = SubSeq(s, k + 1, Len(s))
  BY <1>2
<1>5. Len(s) \in Nat /\ k \in Int /\ k <= Len(s) /\ 1 <= k
  OBVIOUS
<1>6. Len(a) = k - 1 /\ Len(b) = Len(s) - k
  BY <1>1, <1>2, <1>3, <1>4
<1>7. PICK c : c = a \o b
  OBVIOUS
<1>8. c \in Seq(S) /\ Len(c) = Len(a) + Len(b)
  BY <1>7
<1>9. a \o b \in Seq(S) /\ Len(a \o b) = Len(s) - 1
  BY <1>5, <1>6, <1>7, <1>8
<1>10. \A i \in 1 .. Len(a) + Len(b) : c[i] = IF i <= Len(a) THEN a[i] ELSE b[i - Len(a)]
  BY <1>7
<1>11. \A i \in 1 .. Len(s) - 1 : (a \o b)[i] = IF i < k THEN a[i] ELSE b[i - (k - 1)]
  BY <1>5, <1>6, <1>7, <1>10
<1>12. \A i \in 1 .. Len(s) - 1 : (a \o b)[i] = IF i < k THEN s[i] ELSE s[i + 1]
  <2>1. ASSUME NEW i \in 1 .. Len(s) - 1, i < k PROVE (a \o b)[i] = s[i]
    BY <1>1, <1>3, <1>11, <2>1
  <2>2. ASSUME NEW i \in 1 .. Len(s) - 1, ~(i < k) PROVE (a \o b)[i] = s[i + 1]
    <3>1. i - (k - 1) \in 1 .. Len(s) - k /\ k + (i - (k - 1)) = i + 1
      BY <2>2
    <3> QED
      BY <1>2, <1>4, <1>11, <2>2, <3>1
  <2> QED
    BY <2>1, <2>2
<1>13. RemoveAt(s, k) = a \o b
  BY <1>3, <1>4 DEF RemoveAt
<1> QED
  BY <1>9, <1>12, <1>13

LEMMA OneElement ==
    SetToSeq({}) = << >> /\ \A x : SetToSeq({x}) = <<x>>
<1>1. Cardinality({}) = 0 /\ \A x : Cardinality({x}) = 1
  BY FS_EmptySet, FS_Singleton
<1>2. << >> \in [1 .. 0 -> {}] /\ IsInjective(<< >>)
  BY DEF IsInjective
<1>3. SetToSeq({}) \in [1 .. 0 -> {}]
  BY <1>1, <1>2 DEF SetToSeq
<1>4. ASSUME NEW x PROVE SetToSeq({x}) = <<x>>
  <2>1. <<x>> \in [1 .. 1 -> {x}] /\ IsInjective(<<x>>)
    BY DEF IsInjective
  <2>2. SetToSeq({x}) \in [1 .. 1 -> {x}]
    BY <1>1, <2>1 DEF SetToSeq
  <2> QED
    BY <2>2
<1>5. SetToSeq({}) = << >>
  BY <1>3
<1> QED
  BY <1>4, <1>5

LEMMA ChangeInputsInv ==
    ASSUME PricerInv, NEW s \in OnPage, ChangeInputs(s) PROVE PricerInv'
<1>1. OnPage = DOMAIN priced /\ s \in Structures /\ s \in DOMAIN priced
  BY PanelsInStructures
<1>2. PICK i \in {0, changes + 1} :
        /\ changes' = changes + 1 /\ changes < MaxInputs
        /\ priced' = [priced EXCEPT ![s].inputs = i]
        /\ \E answer \in OnChange(i, priced[s].results) : Asks(s, answer)
  BY DEF ChangeInputs
<1>3. PICK answer \in OnChange(i, priced[s].results) : Asks(s, answer)
  BY <1>2
<1>4. i \in PricerInputs
  BY <1>2, PricerAssumption DEF PricerInv, TurnsOK, PricerInputs
<1>5. /\ workspace' = workspace /\ panels' = panels /\ managing' = managing
      /\ reloads' = reloads /\ clicks' = clicks /\ ticking' = TRUE
  BY DEF ChangeInputs
<1>6. TurnsOK'
  BY <1>2, <1>5, PricerAssumption DEF PricerInv, TurnsOK
<1>7. /\ DOMAIN priced' = DOMAIN priced
      /\ \A x \in DOMAIN priced : x # s => priced'[x] = priced[x]
      /\ DOMAIN priced'[s] = DOMAIN priced[s] /\ priced'[s].inputs = i
      /\ priced'[s].results = priced[s].results
  BY <1>1, <1>2 DEF PricerInv, PanelsOK
<1>8. PanelsOK'
  BY <1>4, <1>5, <1>7 DEF PricerInv, PanelsOK
<1>9. /\ answer # Silent => answer.results = Silent
      /\ answer = Silent => priced[s].results \in {Silent, i}
  BY <1>3, NoAnswerIsSilent DEF OnChange, Answer
<1>10. /\ DOMAIN fitting' = Structures /\ fitting'[s] = answer
       /\ \A x \in Structures : x # s => fitting'[x] = fitting[x]
  BY <1>1, <1>3 DEF Asks, PricerInv, FittingOK
<1>11. FittingOK'
  <2>1. \A x \in Structures : fitting'[x] # Silent =>
          x \in DOMAIN priced' /\ fitting'[x].results \in {Silent, priced'[x].inputs}
    BY <1>1, <1>7, <1>9, <1>10 DEF PricerInv, FittingOK
  <2>2. \A x \in DOMAIN priced' : x \in Structures
    BY <1>1, <1>7, PanelsInStructures
  <2>3. \A x \in DOMAIN priced' : fitting'[x] = Silent =>
          priced'[x].results \in {Silent, priced'[x].inputs}
    BY <1>7, <1>9, <1>10, <2>2 DEF PricerInv, FittingOK
  <2> QED
    BY <1>10, <2>1, <2>3 DEF FittingOK
<1>12. WorkspaceOK(workspace') /\ ManagingOK'
  BY <1>5 DEF PricerInv, ManagingOK, WorkspaceOK
<1> QED
  BY <1>5, <1>6, <1>8, <1>11, <1>12 DEF PricerInv, WorkspaceOK

\* Only panels are asked, and their answers are of the inputs they show.
LEMMA AskedInv ==
    ASSUME PricerInv, clicks' \in Nat,
           UNCHANGED <<workspace, panels, priced, managing, changes, reloads>>,
           ticking' = ticking, DOMAIN fitting' = Structures,
           \A s \in Structures :
             \/ fitting'[s] = fitting[s]
             \/ fitting'[s] = Silent /\ s \notin OnPage
             \/ s \in OnPage /\ fitting'[s] \in {Answer(Silent), Answer(priced[s].inputs)}
    PROVE  PricerInv'
<1>1. OnPage = DOMAIN priced /\ OnPage \subseteq Structures
  BY PanelsInStructures
<1>2. TurnsOK' /\ WorkspaceOK(workspace') /\ PanelsOK' /\ ManagingOK'
  <2>1. TurnsOK' /\ WorkspaceOK(workspace')
    BY DEF PricerInv, TurnsOK, WorkspaceOK
  <2>2. PanelsOK'
    BY DEF PricerInv, PanelsOK
  <2>3. ManagingOK'
    BY DEF PricerInv, ManagingOK, WorkspaceOK
  <2> QED
    BY <2>1, <2>2, <2>3
<1>3. \A s \in DOMAIN priced :
        /\ Answer(Silent) # Silent /\ Answer(priced[s].inputs) # Silent
        /\ Answer(Silent).results = Silent
        /\ Answer(priced[s].inputs).results = priced[s].inputs
  BY NoAnswerIsSilent DEF PricerInv, PanelsOK, Answer
<1>4. FittingOK'
  BY <1>1, <1>3 DEF PricerInv, FittingOK
<1> QED
  BY <1>2, <1>4 DEF PricerInv, WorkspaceOK

LEMMA CalculateInv ==
    ASSUME PricerInv, NEW s \in OnPage, Calculate(s) PROVE PricerInv'
<1>1. s \in Structures /\ DOMAIN fitting = Structures
  BY PanelsInStructures DEF PricerInv, FittingOK
<1>2. PICK r \in {priced[s].inputs, Silent} : Asks(s, Answer(r))
  BY DEF Calculate
<1>3. /\ DOMAIN fitting' = Structures /\ fitting'[s] = Answer(r)
      /\ \A x \in Structures : x # s => fitting'[x] = fitting[x]
  BY <1>1, <1>2 DEF Asks
<1>4. \A x \in Structures :
        \/ fitting'[x] = fitting[x]
        \/ fitting'[x] = Silent /\ x \notin OnPage
        \/ x \in OnPage /\ fitting'[x] \in {Answer(Silent), Answer(priced[x].inputs)}
  BY <1>2, <1>3
<1>5. /\ clicks' \in Nat /\ UNCHANGED <<workspace, panels, priced, managing, changes, reloads>>
      /\ ticking' = ticking
  BY DEF Calculate, PricerInv, TurnsOK
<1> QED
  BY <1>3, <1>4, <1>5, AskedInv

LEMMA CalculateAllInv ==
    ASSUME PricerInv, CalculateAll PROVE PricerInv'
<1>1. PICK failed \in {{}, OnPage} :
        fitting' = [s \in Structures |->
                      IF s \notin OnPage THEN Silent
                      ELSE Answer(IF s \in failed THEN Silent ELSE priced[s].inputs)]
  BY DEF CalculateAll
<1>2. \A x \in Structures :
        \/ fitting'[x] = fitting[x]
        \/ fitting'[x] = Silent /\ x \notin OnPage
        \/ x \in OnPage /\ fitting'[x] \in {Answer(Silent), Answer(priced[x].inputs)}
  BY <1>1
<1>3. /\ clicks' \in Nat /\ UNCHANGED <<workspace, panels, priced, managing, changes, reloads>>
      /\ ticking' = ticking
  BY DEF CalculateAll, PricerInv, TurnsOK
<1> QED
  BY <1>1, <1>2, <1>3, AskedInv

LEMMA CalculatedInv ==
    ASSUME PricerInv, NEW s \in OnPage, Calculated(s) PROVE PricerInv'
<1>1. /\ OnPage = DOMAIN priced /\ s \in Structures /\ s \in DOMAIN priced
      /\ OnPage \subseteq Structures
  BY PanelsInStructures
<1>2. /\ fitting[s] # Silent
      /\ priced' = [priced EXCEPT ![s].results = fitting[s].results]
      /\ fitting' = [fitting EXCEPT ![s] = Silent]
      /\ UNCHANGED <<workspace, panels, managing, changes, reloads, clicks, ticking>>
  BY DEF Calculated
<1>3. /\ DOMAIN priced' = DOMAIN priced
      /\ \A x \in DOMAIN priced : x # s => priced'[x] = priced[x]
      /\ DOMAIN priced'[s] = DOMAIN priced[s] /\ priced'[s].inputs = priced[s].inputs
      /\ priced'[s].results = fitting[s].results
  BY <1>1, <1>2 DEF PricerInv, PanelsOK
<1>4. /\ DOMAIN fitting' = Structures /\ fitting'[s] = Silent
      /\ \A x \in Structures : x # s => fitting'[x] = fitting[x]
  BY <1>1, <1>2 DEF PricerInv, FittingOK
<1>5. FittingOK'
  BY <1>1, <1>2, <1>3, <1>4 DEF PricerInv, FittingOK
<1>6. PanelsOK'
  BY <1>2, <1>3 DEF PricerInv, PanelsOK
<1>7. TurnsOK' /\ WorkspaceOK(workspace') /\ ManagingOK'
  BY <1>2 DEF PricerInv, TurnsOK, WorkspaceOK, ManagingOK
<1> QED
  BY <1>2, <1>5, <1>6, <1>7 DEF PricerInv, WorkspaceOK

\* The workspace that an answer under way carries fits the one it replaces.
LEMMA ManagesInv ==
    ASSUME PricerInv, ManagingOK', ticking' \in BOOLEAN,
           UNCHANGED <<workspace, panels, priced, fitting, clicks, changes, reloads>>
    PROVE  PricerInv'
<1>1. TurnsOK' /\ WorkspaceOK(workspace')
  BY DEF PricerInv, TurnsOK, WorkspaceOK
<1>2. PanelsOK'
  BY DEF PricerInv, PanelsOK
<1>3. FittingOK'
  BY DEF PricerInv, FittingOK
<1> QED
  BY <1>1, <1>2, <1>3 DEF PricerInv, WorkspaceOK

LEMMA WorkspaceExtended ==
    ASSUME PricerInv, workspace.next <= MaxStructures, NEW w, DOMAIN w = {"order", "drafts", "next"},
           w.order = Append(workspace.order, workspace.next), w.next = workspace.next + 1,
           \A s \in DOMAIN w.drafts : /\ s \in DOMAIN workspace.drafts \/ s = workspace.next
                                      /\ w.drafts[s] \in PricerInputs
    PROVE  WorkspaceOK(w)
<1>1. PICK n : n = workspace.next
  OBVIOUS
<1>2. PICK q : q = workspace.order
  OBVIOUS
<1>3. /\ n \in 2 .. MaxStructures + 1 /\ MaxStructures \in Nat /\ n <= MaxStructures
      /\ q \in Seq(1 .. n - 1) /\ \A a, b \in DOMAIN q : q[a] = q[b] => a = b
  BY <1>1, <1>2, PricerAssumption DEF PricerInv, WorkspaceOK
<1>4. /\ Append(q, n) \in Seq(1 .. n + 1 - 1) /\ Len(Append(q, n)) = Len(q) + 1
      /\ \A i \in 1 .. Len(q) : Append(q, n)[i] = q[i] /\ q[i] \in 1 .. n - 1
      /\ Append(q, n)[Len(q) + 1] = n
  <2>1. 1 .. n - 1 \subseteq 1 .. n + 1 - 1 /\ n \in 1 .. n + 1 - 1
    BY <1>3
  <2>2. q \in Seq(1 .. n + 1 - 1)
    BY <1>3, <2>1
  <2> QED
    BY <1>3, <2>1, <2>2
<1>5. DOMAIN q = 1 .. Len(q) /\ Len(q) \in Nat /\ DOMAIN Append(q, n) = 1 .. Len(q) + 1
  BY <1>3, <1>4
<1>6. \A a, b \in DOMAIN Append(q, n) : Append(q, n)[a] = Append(q, n)[b] => a = b
  BY <1>3, <1>4, <1>5
<1>7. \A s \in DOMAIN w.drafts : \E k \in DOMAIN w.order : w.order[k] = s
  <2>1. ASSUME NEW s \in DOMAIN workspace.drafts
        PROVE  \E k \in DOMAIN Append(q, n) : Append(q, n)[k] = s
    BY <1>2, <1>4, <1>5 DEF PricerInv, WorkspaceOK
  <2>2. \E k \in DOMAIN Append(q, n) : Append(q, n)[k] = n
    BY <1>4, <1>5
  <2> QED
    BY <1>1, <1>2, <2>1, <2>2
<1>8. w.next \in 2 .. MaxStructures + 1 /\ w.order \in Seq(1 .. w.next - 1)
  BY <1>1, <1>2, <1>3, <1>4
<1> QED
  BY <1>1, <1>2, <1>6, <1>7, <1>8 DEF WorkspaceOK

LEMMA AddStructureInv ==
    ASSUME PricerInv, AddStructure PROVE PricerInv'
<1>1. PICK w : w = [workspace EXCEPT !.order = Append(@, workspace.next), !.next = @ + 1]
  OBVIOUS
<1>2. /\ DOMAIN w = {"order", "drafts", "next"} /\ w.drafts = workspace.drafts
      /\ w.order = Append(workspace.order, workspace.next) /\ w.next = workspace.next + 1
  BY <1>1 DEF PricerInv, WorkspaceOK
<1>3. /\ workspace.next <= MaxStructures /\ workspace' = workspace
      /\ managing'.workspace = w /\ managing'.added = {workspace.next} /\ managing'.removed = {}
      /\ UNCHANGED <<workspace, panels, priced, fitting, clicks, changes, reloads, ticking>>
  BY <1>1 DEF AddStructure, Manages
<1>4. WorkspaceOK(w)
  <2>1. \A s \in DOMAIN w.drafts : /\ s \in DOMAIN workspace.drafts \/ s = workspace.next
                                   /\ w.drafts[s] \in PricerInputs
    BY <1>2 DEF PricerInv, WorkspaceOK
  <2> QED
    BY <1>2, <1>3, <2>1, WorkspaceExtended
<1>5. ManagingOK'
  BY <1>2, <1>3, <1>4 DEF ManagingOK
<1> QED
  BY <1>3, <1>5, ManagesInv DEF PricerInv

LEMMA DuplicateStructureInv ==
    ASSUME PricerInv, NEW s \in OnPage, DuplicateStructure(s) PROVE PricerInv'
<1>1. PICK w : w = [order |-> Append(workspace.order, workspace.next), next |-> workspace.next + 1,
                    drafts |-> [x \in DOMAIN workspace.drafts \cup {workspace.next} |->
                                  IF x = workspace.next THEN Captured(s) ELSE workspace.drafts[x]]]
  OBVIOUS
<1>2. Captured(s) \in PricerInputs
  BY PanelsInStructures DEF PricerInv, PanelsOK, Captured
<1>3. /\ DOMAIN w = {"order", "drafts", "next"}
      /\ w.order = Append(workspace.order, workspace.next) /\ w.next = workspace.next + 1
      /\ DOMAIN w.drafts = DOMAIN workspace.drafts \cup {workspace.next}
      /\ \A x \in DOMAIN w.drafts :
           w.drafts[x] = IF x = workspace.next THEN Captured(s) ELSE workspace.drafts[x]
  BY <1>1
<1>4. /\ workspace.next <= MaxStructures /\ workspace' = workspace
      /\ managing'.workspace = w /\ managing'.added = {workspace.next} /\ managing'.removed = {}
      /\ UNCHANGED <<workspace, panels, priced, fitting, clicks, changes, reloads, ticking>>
  BY <1>1 DEF DuplicateStructure, Manages
<1>5. \A x \in DOMAIN w.drafts : /\ x \in DOMAIN workspace.drafts \/ x = workspace.next
                                 /\ w.drafts[x] \in PricerInputs
  BY <1>2, <1>3 DEF PricerInv, WorkspaceOK
<1>6. WorkspaceOK(w)
  BY <1>3, <1>4, <1>5, WorkspaceExtended
<1>7. ManagingOK'
  BY <1>3, <1>4, <1>6 DEF ManagingOK
<1> QED
  BY <1>4, <1>7, ManagesInv DEF PricerInv

LEMMA RemoveStructureInv ==
    ASSUME PricerInv, NEW s \in OnPage, RemoveStructure(s) PROVE PricerInv'
<1>1. PICK q : q = workspace.order
  OBVIOUS
<1>2. PICK n : n = workspace.next
  OBVIOUS
<1>3. PICK d : d = workspace.drafts
  OBVIOUS
<1>4. /\ n \in 2 .. MaxStructures + 1 /\ q \in Seq(1 .. n - 1)
      /\ \A a, b \in DOMAIN q : q[a] = q[b] => a = b
      /\ \A x \in DOMAIN d : (\E k \in DOMAIN q : q[k] = x) /\ d[x] \in PricerInputs
  BY <1>1, <1>2, <1>3 DEF PricerInv, WorkspaceOK
<1>5. \E k \in DOMAIN q : q[k] = s
  BY <1>1 DEF RemoveStructure, ToSet
<1>6. PICK k \in DOMAIN q : k = Place(s) /\ q[k] = s
  BY <1>1, <1>5 DEF Place
<1>7. DOMAIN q = 1 .. Len(q) /\ Len(q) \in Nat /\ k \in 1 .. Len(q)
  BY <1>4
<1>8. PICK p : p = RemoveAt(q, k)
  OBVIOUS
<1>9. /\ p \in Seq(1 .. n - 1) /\ DOMAIN p = 1 .. Len(q) - 1
      /\ \A i \in 1 .. Len(q) - 1 : p[i] = IF i < k THEN q[i] ELSE q[i + 1]
  <2>1. \A S : \A z \in Seq(S) : \A i \in 1 .. Len(z) :
          /\ RemoveAt(z, i) \in Seq(S) /\ DOMAIN RemoveAt(z, i) = 1 .. Len(z) - 1
          /\ \A j \in 1 .. Len(z) - 1 : RemoveAt(z, i)[j] = IF j < i THEN z[j] ELSE z[j + 1]
    BY RemovedAt
  <2>2. PICK T : T = 1 .. n - 1
    OBVIOUS
  <2>3. q \in Seq(T) /\ k \in 1 .. Len(q)
    BY <1>4, <1>7, <2>2
  <2>4. /\ RemoveAt(q, k) \in Seq(T) /\ DOMAIN RemoveAt(q, k) = 1 .. Len(q) - 1
        /\ \A j \in 1 .. Len(q) - 1 : RemoveAt(q, k)[j] = IF j < k THEN q[j] ELSE q[j + 1]
    BY ONLY <2>1, <2>3
  <2> QED
    BY ONLY <1>8, <2>2, <2>4
<1>10. \A a, b \in DOMAIN p : p[a] = p[b] => a = b
  <2>1. ASSUME NEW a \in DOMAIN p, NEW b \in DOMAIN p, p[a] = p[b] PROVE a = b
    <3>1. PICK e \in 1 .. Len(q) : p[a] = q[e] /\ e = IF a < k THEN a ELSE a + 1
      BY <1>7, <1>9
    <3>2. PICK f \in 1 .. Len(q) : p[b] = q[f] /\ f = IF b < k THEN b ELSE b + 1
      BY <1>7, <1>9
    <3>3. e = f
      BY <1>4, <1>7, <2>1, <3>1, <3>2
    <3> QED
      BY <1>7, <1>9, <3>1, <3>2, <3>3
  <2> QED
    BY <2>1
<1>11. \A j \in DOMAIN q : j # k => \E i \in DOMAIN p : p[i] = q[j]
  <2>1. ASSUME NEW j \in DOMAIN q, j < k PROVE \E i \in DOMAIN p : p[i] = q[j]
    <3>1. j \in 1 .. Len(q) - 1
      BY <1>7, <2>1
    <3> QED
      BY <1>9, <2>1, <3>1
  <2>2. ASSUME NEW j \in DOMAIN q, j > k PROVE \E i \in DOMAIN p : p[i] = q[j]
    <3>1. j - 1 \in 1 .. Len(q) - 1 /\ ~(j - 1 < k) /\ j - 1 + 1 = j
      BY <1>7, <2>2
    <3> QED
      BY <1>9, <3>1
  <2> QED
    BY <1>7, <2>1, <2>2
<1>12. PICK w : w = OutOfWorkspace(s)
  OBVIOUS
<1>13. /\ DOMAIN w = {"order", "drafts", "next"} /\ w.order = p /\ w.next = n
       /\ DOMAIN w.drafts = DOMAIN d \ {s} /\ \A x \in DOMAIN w.drafts : w.drafts[x] = d[x]
  BY <1>1, <1>2, <1>3, <1>6, <1>8, <1>12 DEF OutOfWorkspace, Restrict
<1>14. \A x \in DOMAIN w.drafts : (\E i \in DOMAIN p : p[i] = x) /\ w.drafts[x] \in PricerInputs
  BY <1>4, <1>6, <1>11, <1>13
<1>15. WorkspaceOK(w)
  BY <1>4, <1>9, <1>10, <1>13, <1>14 DEF WorkspaceOK
<1>16. /\ managing'.workspace = w /\ managing'.added = {} /\ managing'.removed = {k}
       /\ UNCHANGED <<workspace, panels, priced, fitting, clicks, changes, reloads, ticking>>
  BY <1>6, <1>12 DEF RemoveStructure, Manages
<1>17. ManagingOK'
  BY <1>1, <1>6, <1>8, <1>13, <1>15, <1>16 DEF ManagingOK
<1> QED
  BY <1>16, <1>17, ManagesInv DEF PricerInv

LEMMA SaveDraftsInv ==
    ASSUME PricerInv, SaveDrafts PROVE PricerInv'
<1>1. PICK own : own = ToSet(workspace.order) \cap OnPage
  OBVIOUS
<1>2. PICK w : w = [workspace EXCEPT !.drafts =
                      [x \in DOMAIN @ \cup own |-> IF x \in own THEN Captured(x) ELSE @[x]]]
  OBVIOUS
<1>3. /\ DOMAIN w = {"order", "drafts", "next"}
      /\ w.order = workspace.order /\ w.next = workspace.next
      /\ DOMAIN w.drafts = DOMAIN workspace.drafts \cup own
      /\ \A x \in DOMAIN w.drafts :
           w.drafts[x] = IF x \in own THEN Captured(x) ELSE workspace.drafts[x]
  BY <1>2 DEF PricerInv, WorkspaceOK
<1>4. \A x \in own : Captured(x) \in PricerInputs /\ \E k \in DOMAIN workspace.order : workspace.order[k] = x
  BY <1>1, PanelsInStructures DEF PricerInv, PanelsOK, Captured
<1>5. \A x \in DOMAIN w.drafts : /\ \E k \in DOMAIN w.order : w.order[k] = x
                                 /\ w.drafts[x] \in PricerInputs
  BY <1>3, <1>4 DEF PricerInv, WorkspaceOK
<1>6. WorkspaceOK(w)
  BY <1>3, <1>5 DEF PricerInv, WorkspaceOK
<1>7. /\ managing'.workspace = w /\ managing'.added = {} /\ managing'.removed = {}
      /\ UNCHANGED <<workspace, panels, priced, fitting, clicks, changes, reloads>>
      /\ ticking' = FALSE
  BY <1>1, <1>2 DEF SaveDrafts, Manages
<1>8. ManagingOK'
  BY <1>3, <1>6, <1>7 DEF ManagingOK
<1> QED
  BY <1>7, <1>8, ManagesInv

\* The panels after an answer of the workspace callback: those of its
\* workspace, each of them there before or added by it.
LEMMA ManagedPanels ==
    ASSUME PricerInv, Managed
    PROVE  /\ panels' = workspace'.order
           /\ \A s \in ToSet(panels') : s \in OnPage \/ s \in managing.added
           /\ managing.added \subseteq {workspace.next}
           /\ managing.added \subseteq ToSet(panels')
           /\ WorkspaceOK(workspace')
<1>1. /\ managing # Silent /\ workspace' = managing.workspace
      /\ panels' = IF managing.removed # {} THEN RemoveAt(panels, CHOOSE k \in managing.removed : TRUE)
                   ELSE panels \o SetToSeq(managing.added)
  BY DEF Managed
<1>2. PICK q : q = panels
  OBVIOUS
<1>3. PICK T : T = 1 .. workspace.next - 1
  OBVIOUS
<1>4. q \in Seq(T) /\ q = workspace.order /\ DOMAIN q = 1 .. Len(q) /\ Len(q) \in Nat
  BY <1>2, <1>3 DEF PricerInv, PanelsOK, WorkspaceOK
<1>5. \A i \in DOMAIN q : q[i] \in OnPage
  BY <1>2, PanelsInStructures
<1>6. CASE /\ managing.added = {workspace.next} /\ managing.removed = {}
           /\ managing.workspace.order = Append(workspace.order, workspace.next)
  <2>1. panels' = q \o <<workspace.next>>
    BY <1>1, <1>2, <1>6, OneElement
  <2>2. PICK n : n = workspace.next
    OBVIOUS
  <2>3. q \o <<n>> = Append(q, n)
    BY ONLY <1>4
  <2>4. /\ Len(Append(q, n)) = Len(q) + 1 /\ DOMAIN Append(q, n) = 1 .. Len(q) + 1
        /\ \A i \in 1 .. Len(q) : Append(q, n)[i] = q[i]
        /\ Append(q, n)[Len(q) + 1] = n
    BY ONLY <1>4
  <2>5. n \in ToSet(panels') /\ \A s \in ToSet(panels') : s \in OnPage \/ s = n
    BY <1>4, <1>5, <2>1, <2>2, <2>3, <2>4 DEF ToSet
  <2> QED
    BY <1>1, <1>4, <1>6, <2>1, <2>2, <2>3, <2>5 DEF PricerInv, ManagingOK
<1>7. CASE /\ managing.added = {}
           /\ \E k \in DOMAIN workspace.order :
                 /\ managing.removed = {k}
                 /\ managing.workspace.order = RemoveAt(workspace.order, k)
  <2>1. PICK k \in DOMAIN q : /\ managing.removed = {k}
                              /\ managing.workspace.order = RemoveAt(q, k)
    BY <1>4, <1>7
  <2>2. panels' = RemoveAt(q, k)
    BY <1>1, <1>2, <2>1
  <2>3. \A S : \A z \in Seq(S) : \A i \in 1 .. Len(z) :
          /\ RemoveAt(z, i) \in Seq(S) /\ DOMAIN RemoveAt(z, i) = 1 .. Len(z) - 1
          /\ \A j \in 1 .. Len(z) - 1 : RemoveAt(z, i)[j] = IF j < i THEN z[j] ELSE z[j + 1]
    BY RemovedAt
  <2>4. /\ DOMAIN RemoveAt(q, k) = 1 .. Len(q) - 1
        /\ \A j \in 1 .. Len(q) - 1 : RemoveAt(q, k)[j] = IF j < k THEN q[j] ELSE q[j + 1]
    BY ONLY <1>4, <2>1, <2>3
  <2>5. \A j \in 1 .. Len(q) - 1 : j \in DOMAIN q /\ j + 1 \in DOMAIN q
    BY <1>4
  <2>6. \A j \in 1 .. Len(q) - 1 : RemoveAt(q, k)[j] \in OnPage
    BY <1>5, <2>4, <2>5
  <2>7. \A s \in ToSet(panels') : s \in OnPage
    BY <2>2, <2>4, <2>6 DEF ToSet
  <2> QED
    BY <1>1, <1>7, <2>1, <2>2, <2>7 DEF PricerInv, ManagingOK
<1>8. CASE /\ managing.added = {} /\ managing.removed = {}
           /\ managing.workspace.order = workspace.order
  <2>1. panels' = q \o << >>
    BY <1>1, <1>2, <1>8, OneElement
  <2>2. q \o << >> = q
    BY ONLY <1>4
  <2>3. \A s \in ToSet(panels') : s \in OnPage
    BY <1>5, <2>1, <2>2 DEF ToSet
  <2> QED
    BY <1>1, <1>4, <1>8, <2>1, <2>2, <2>3 DEF PricerInv, ManagingOK
<1> QED
  BY <1>1, <1>6, <1>7, <1>8 DEF PricerInv, ManagingOK

LEMMA ManagedInv ==
    ASSUME PricerInv, Managed PROVE PricerInv'
<1>1. /\ panels' = workspace'.order
      /\ \A s \in ToSet(panels') : s \in OnPage \/ s \in managing.added
      /\ managing.added \subseteq {workspace.next}
      /\ managing.added \subseteq ToSet(panels')
      /\ WorkspaceOK(workspace')
  BY ManagedPanels
<1>2. /\ priced' = [s \in ToSet(panels') |->
                     IF s \in managing.added
                       THEN Panel(IF s \in DOMAIN workspace'.drafts THEN workspace'.drafts[s] ELSE 0, Silent)
                       ELSE priced[s]]
      /\ fitting' = [s \in Structures |->
                       IF s \in managing.added /\ clicks > managing.baseline THEN [results |-> priced'[s].inputs]
                       ELSE IF s \in ToSet(panels') THEN fitting[s] ELSE Silent]
      /\ managing' = Silent /\ UNCHANGED <<clicks, changes, reloads>>
      /\ ticking' = (ticking \/ managing.added # {} \/ managing.removed # {})
  BY DEF Managed
<1>3. /\ OnPage = DOMAIN priced /\ OnPage \subseteq Structures /\ workspace.next \notin OnPage
  BY PanelsInStructures
<1>4. ticking' \in BOOLEAN
  BY <1>2
<1>5. TurnsOK' /\ ManagingOK'
  BY <1>2 DEF PricerInv, TurnsOK, ManagingOK
<1>6. DOMAIN priced' = ToSet(panels')
  BY <1>2
<1>7. \A s \in ToSet(panels') : s \in managing.added =>
        /\ DOMAIN priced'[s] = {"inputs", "results"} /\ priced'[s].results = Silent
        /\ priced'[s].inputs \in PricerInputs
  <2>1. 0 \in PricerInputs
    BY PricerAssumption DEF PricerInputs
  <2>2. ASSUME NEW s \in ToSet(panels'), s \in managing.added
        PROVE  \E i \in PricerInputs : priced'[s] = Panel(i, Silent)
    BY <1>1, <1>2, <2>1, <2>2 DEF WorkspaceOK
  <2>3. \A i : /\ DOMAIN Panel(i, Silent) = {"inputs", "results"}
                /\ Panel(i, Silent).inputs = i /\ Panel(i, Silent).results = Silent
    BY DEF Panel
  <2> QED
    BY <2>2, <2>3
<1>8. \A s \in ToSet(panels') : s \notin managing.added => s \in DOMAIN priced /\ priced'[s] = priced[s]
  BY <1>1, <1>2, <1>3
<1>9. PanelsOK'
  BY <1>1, <1>6, <1>7, <1>8 DEF PricerInv, PanelsOK, ToSet
<1>10. FittingOK'
  <2>1. \A s \in Structures : fitting'[s] # Silent =>
          s \in DOMAIN priced' /\ fitting'[s].results \in {Silent, priced'[s].inputs}
    <3>1. ASSUME NEW s \in Structures, fitting'[s] # Silent, s \in managing.added
          PROVE  s \in DOMAIN priced' /\ fitting'[s].results = priced'[s].inputs
      <4>1. fitting[s] = Silent
        BY <1>1, <1>3, <3>1 DEF PricerInv, FittingOK
      <4>2. fitting'[s] = [results |-> priced'[s].inputs]
        BY <1>2, <3>1, <4>1
      <4>3. s \in ToSet(panels')
        BY <1>1, <3>1
      <4> QED
        BY <1>6, <4>2, <4>3
    <3>2. ASSUME NEW s \in Structures, fitting'[s] # Silent, s \notin managing.added
          PROVE  s \in DOMAIN priced' /\ fitting'[s].results \in {Silent, priced'[s].inputs}
      <4>1. s \in ToSet(panels') /\ fitting'[s] = fitting[s]
        BY <1>2, <3>2
      <4>2. fitting[s].results \in {Silent, priced[s].inputs}
        BY <3>2, <4>1 DEF PricerInv, FittingOK
      <4> QED
        BY <1>6, <1>8, <3>2, <4>1, <4>2
    <3> QED
      BY <3>1, <3>2
  <2>2. ASSUME NEW s \in DOMAIN priced', fitting'[s] = Silent
        PROVE  priced'[s].results \in {Silent, priced'[s].inputs}
    <3>1. CASE s \in managing.added
      BY <1>6, <1>7, <3>1
    <3>2. CASE s \notin managing.added
      <4>1. s \in DOMAIN priced /\ priced'[s] = priced[s] /\ s \in Structures
        BY <1>3, <1>6, <1>8, <3>2
      <4>2. fitting'[s] = fitting[s]
        BY <1>2, <1>6, <3>2, <4>1
      <4> QED
        BY <2>2, <4>1, <4>2 DEF PricerInv, FittingOK
    <3> QED
      BY <3>1, <3>2
  <2> QED
    BY <1>2, <2>1, <2>2 DEF FittingOK
<1> QED
  BY <1>1, <1>4, <1>5, <1>9, <1>10 DEF PricerInv, WorkspaceOK

LEMMA ReloadInv ==
    ASSUME PricerInv, Reload PROVE PricerInv'
<1>1. PICK moved \in BOOLEAN :
        /\ changes' = IF moved THEN changes + 1 ELSE changes
        /\ priced' = [s \in ToSet(workspace.order) |->
                       LET i == IF moved THEN changes' ELSE Draft(s)
                       IN  Panel(i, IF MatchesTemplate(Kept(s), i) THEN Kept(s) ELSE Silent)]
  BY DEF Reload
<1>2. /\ clicks + reloads < MaxTurns /\ reloads' = reloads + 1 /\ panels' = workspace.order
      /\ fitting' = [s \in Structures |-> Silent] /\ workspace' = workspace
      /\ managing' = Silent /\ ticking' = FALSE /\ clicks' = 0
  BY DEF Reload
<1>3. TurnsOK' /\ changes' \in PricerInputs
  BY <1>1, <1>2, PricerAssumption DEF PricerInv, TurnsOK, PricerInputs
<1>4. \A s : Draft(s) \in PricerInputs
  BY PricerAssumption DEF Draft, PricerInputs, PricerInv, WorkspaceOK
<1>5. \A s \in ToSet(workspace.order) : \E i \in PricerInputs :
        priced'[s] = Panel(i, IF Kept(s) = i THEN Kept(s) ELSE Silent)
  BY <1>1, <1>3, <1>4 DEF MatchesTemplate
<1>6. \A i, r : /\ DOMAIN Panel(i, r) = {"inputs", "results"}
                /\ Panel(i, r).inputs = i /\ Panel(i, r).results = r
  BY DEF Panel
<1>7. /\ DOMAIN priced' = ToSet(workspace.order)
      /\ \A s \in DOMAIN priced' : /\ DOMAIN priced'[s] = {"inputs", "results"}
                                   /\ priced'[s].inputs \in PricerInputs
                                   /\ priced'[s].results \in {Silent, priced'[s].inputs}
  BY <1>1, <1>5, <1>6
<1>8. PanelsOK'
  BY <1>2, <1>7 DEF PanelsOK, ToSet
<1>9. FittingOK'
  BY <1>2, <1>7 DEF FittingOK
<1>10. WorkspaceOK(workspace') /\ ManagingOK'
  BY <1>2 DEF PricerInv, WorkspaceOK, ManagingOK
<1> QED
  BY <1>2, <1>3, <1>8, <1>9, <1>10 DEF PricerInv, WorkspaceOK

LEMMA PricerInductive ==
    PricerInv /\ [PricerNext]_pricerVars => PricerInv'
<1> SUFFICES ASSUME PricerInv, [PricerNext]_pricerVars PROVE PricerInv'
  OBVIOUS
<1>1. ASSUME NEW s \in OnPage,
             ChangeInputs(s) \/ Calculate(s) \/ Calculated(s)
               \/ DuplicateStructure(s) \/ RemoveStructure(s)
      PROVE  PricerInv'
  BY <1>1, ChangeInputsInv, CalculateInv, CalculatedInv, DuplicateStructureInv, RemoveStructureInv
<1>2. CASE CalculateAll
  BY <1>2, CalculateAllInv
<1>3. CASE Persist \/ UNCHANGED pricerVars
  <2>1. UNCHANGED <<workspace, panels, priced, fitting, managing, ticking, clicks, changes, reloads>>
    BY <1>3 DEF Persist, pricerVars
  <2>2. ManagingOK'
    BY <2>1 DEF PricerInv, ManagingOK, WorkspaceOK
  <2> QED
    BY <2>1, <2>2, ManagesInv DEF PricerInv
<1>4. CASE AddStructure
  BY <1>4, AddStructureInv
<1>5. CASE SaveDrafts
  BY <1>5, SaveDraftsInv
<1>6. CASE Managed
  BY <1>6, ManagedInv
<1>7. CASE Reload
  BY <1>7, ReloadInv
<1> QED
  BY <1>1, <1>2, <1>3, <1>4, <1>5, <1>6, <1>7 DEF PricerNext

LEMMA PricerStarts == PricerInit => PricerInv
<1> SUFFICES ASSUME PricerInit PROVE PricerInv
  OBVIOUS
<1>1. TurnsOK
  BY PricerAssumption DEF PricerInit, TurnsOK
<1>2. /\ DOMAIN workspace = {"order", "drafts", "next"} /\ workspace.order = <<1>>
      /\ workspace.next = 2 /\ DOMAIN workspace.drafts = {}
  BY DEF PricerInit
<1>3. WorkspaceOK(workspace)
  BY <1>2, PricerAssumption DEF WorkspaceOK
<1>4. /\ panels = <<1>> /\ DOMAIN priced = {1} /\ priced[1] = Panel(0, Silent)
      /\ 0 \in PricerInputs /\ managing = Silent /\ ticking = FALSE
      /\ fitting = [s \in Structures |-> Silent]
  BY PricerAssumption DEF PricerInit, PricerInputs
<1>5. /\ DOMAIN priced[1] = {"inputs", "results"} /\ priced[1].inputs = 0
      /\ priced[1].results = Silent
  BY <1>4 DEF Panel
<1>6. PanelsOK
  BY <1>2, <1>4, <1>5 DEF PanelsOK
<1>7. ManagingOK /\ FittingOK
  BY <1>4, <1>5 DEF ManagingOK, FittingOK
<1> QED
  BY <1>1, <1>3, <1>4, <1>6, <1>7 DEF PricerInv

(* A panel of the pricer whose calculation is not under way shows no       *)
(* results or those of the inputs it shows, for any number of structures,  *)
(* changes, reloads and rounds of Calculate All.                           *)
THEOREM ResultsFit == PricerSpec => []ResultsFitInputs
<1>1. PricerInv => ResultsFitInputs
  BY PanelsInStructures DEF PricerInv, FittingOK, ResultsFitInputs
<1> QED
  BY <1>1, PricerStarts, PricerInductive, PTL DEF PricerSpec

\* The page and the session agree on the structures there are.
LEMMA PricerTyped == PricerSpec => []PricerTypeOK
<1>1. PricerInv => PricerTypeOK
  <2> SUFFICES ASSUME PricerInv PROVE PricerTypeOK
    OBVIOUS
  <2>1. workspace.order \in Seq(1 .. workspace.next - 1) /\ workspace.next \in 2 .. MaxStructures + 1
    BY DEF PricerInv, WorkspaceOK
  <2>2. \A k \in DOMAIN workspace.order : workspace.order[k] \in 1 .. workspace.next - 1
    BY <2>1
  <2>3. \A s \in ToSet(workspace.order) : s < workspace.next
    BY <2>1, <2>2 DEF ToSet
  <2>4. IsInjective(workspace.order) /\ DOMAIN workspace.drafts \subseteq ToSet(workspace.order)
    BY DEF PricerInv, WorkspaceOK, IsInjective, ToSet
  <2>5. panels = workspace.order /\ DOMAIN priced = OnPage
    BY DEF PricerInv, PanelsOK, OnPage, ToSet
  <2> QED
    BY <2>1, <2>3, <2>4, <2>5 DEF PricerInv, FittingOK, PricerTypeOK
<1> QED
  BY <1>1, PricerStarts, PricerInductive, PTL DEF PricerSpec

-----------------------------------------------------------------------------
(* The composition that TLC checks: one part moves while the rest rest.    *)

AllParts == <<part, aspectVars, guardVars, sealVars, portfolioVars, reviewVars, previewVars,
              refreshVars, sheetVars, pricerVars, poolVars, feedVars, governedVars, liveVars>>

\* A behaviour of the composition is one of each of its parts.
LEMMA EachPart ==
    PartsSpec =>
      /\ AspectSpec
      /\ GuardsSpec
      /\ SealSpec
      /\ PortfolioSpec
      /\ ReviewSpec
      /\ PreviewSpec
      /\ RefreshSpec
      /\ SheetSpec
      /\ PricerSpec
      /\ PoolSpec
      /\ FeedSpec
      /\ GovernedSpec
      /\ LiveSpec
<1>1. PartsInit =>
        /\ AspectInit
        /\ GuardsInit
        /\ SealInit
        /\ PortfolioInit
        /\ ReviewInit
        /\ PreviewInit
        /\ RefreshInit
        /\ SheetInit
        /\ PricerInit
        /\ PoolInit
        /\ FeedInit
        /\ GovernedInit
        /\ LiveInit
  BY DEF PartsInit
<1>2. [PartsNext]_AllParts => [AspectNext]_aspectVars
  BY DEF AllParts, PartsNext, Others
<1>3. [PartsNext]_AllParts => [GuardsNext]_guardVars
  BY DEF AllParts, PartsNext, Others
<1>4. [PartsNext]_AllParts => [SealNext]_sealVars
  BY DEF AllParts, PartsNext, Others
<1>5. [PartsNext]_AllParts => [PortfolioNext]_portfolioVars
  BY DEF AllParts, PartsNext, Others
<1>6. [PartsNext]_AllParts => [ReviewNext]_reviewVars
  BY DEF AllParts, PartsNext, Others
<1>7. [PartsNext]_AllParts => [PreviewNext]_previewVars
  BY DEF AllParts, PartsNext, Others
<1>8. [PartsNext]_AllParts => [RefreshNext]_refreshVars
  BY DEF AllParts, PartsNext, Others
<1>9. [PartsNext]_AllParts => [SheetNext]_sheetVars
  BY DEF AllParts, PartsNext, Others
<1>10. [PartsNext]_AllParts => [PricerNext]_pricerVars
  BY DEF AllParts, PartsNext, Others
<1>11. [PartsNext]_AllParts => [PoolNext]_poolVars
  BY DEF AllParts, PartsNext, Others
<1>12. [PartsNext]_AllParts => [FeedNext]_feedVars
  BY DEF AllParts, PartsNext, Others
<1>13. [PartsNext]_AllParts => [GovernedNext]_governedVars
  BY DEF AllParts, PartsNext, Others
<1>14. [PartsNext]_AllParts => [LiveNext]_liveVars
  BY DEF AllParts, PartsNext, Others
<1>15. PartsSpec => PartsInit /\ [][PartsNext]_AllParts
  BY DEF PartsSpec, AllParts
<1> QED
  BY <1>1, <1>2, <1>3, <1>4, <1>5, <1>6, <1>7, <1>8, <1>9, <1>10, <1>11, <1>12, <1>13, <1>14, <1>15,
     PTL DEF AspectSpec, GuardsSpec, SealSpec, PortfolioSpec, ReviewSpec,
          PreviewSpec, RefreshSpec, SheetSpec, PricerSpec, PoolSpec, FeedSpec,
          GovernedSpec, LiveSpec

(* The part that runs stays the one it is.                                 *)
LEMMA OnePart == PartsSpec => [](part \in Parts)
<1>1. PartsInit => part \in Parts
  BY DEF PartsInit
<1>2. part \in Parts /\ [PartsNext]_AllParts => (part \in Parts)'
  BY DEF PartsNext, Others, AllParts
<1>3. PartsSpec => PartsInit /\ [][PartsNext]_AllParts
  BY DEF PartsSpec, AllParts
<1> QED
  BY <1>1, <1>2, <1>3, PTL

(* Every component keeps its type: references point at what exists, and    *)
(* locks, counters and stores hold what they may, for any constants.       *)
THEOREM PartsTypeCorrect == PartsSpec => []PartsTypeOK
<1>1. /\ AspectInv => AspectTypeOK
      /\ PortfolioInv => PortfolioTypeOK
      /\ SealInv => SealTypeOK
      /\ IntakeInv => RefreshTypeOK
  BY DEF AspectInv, PortfolioInv, SealInv, IntakeInv
<1>2. AspectSpec => []AspectTypeOK
  BY <1>1, AspectInductive, PTL DEF AspectSpec
<1>3. PortfolioSpec => []PortfolioTypeOK
  BY <1>1, PortfolioInductive, PTL DEF PortfolioSpec
<1>4. RefreshSpec => []RefreshTypeOK
  BY <1>1, IntakeInductive, PTL DEF RefreshSpec
<1>5. SealSpec => []SealTypeOK
  BY <1>1, SealInductive, PTL
<1>6. /\ part \in Parts /\ AspectTypeOK /\ PortfolioTypeOK /\ RefreshTypeOK /\ SealTypeOK
      /\ GuardsTypeOK /\ ReviewTypeOK /\ PreviewTypeOK /\ SheetTypeOK /\ PricerTypeOK
      /\ PoolTypeOK /\ FeedTypeOK /\ GovernedTypeOK /\ LiveTypeOK
      => PartsTypeOK
  BY DEF PartsTypeOK
<1> QED
  BY <1>2, <1>3, <1>4, <1>5, <1>6, OnePart, EachPart, GuardsTypeCorrect, ReviewTyped, PreviewTyped,
     SheetIsTyped, PricerTyped, PoolIsTyped, FeedTyped, GovernedIsTyped, LiveTyped, PTL

(* Whoever replaces a publication of the intraday page, or the desk curve  *)
(* of Live Prices, replaces the one he has reviewed, whatever others have  *)
(* published while his proposal waited.                                    *)
THEOREM ReviewKept == PartsSpec => []ReviewedBeforeReplaced
<1>1. SeenBeforeReplaced /\ DeskReviewed => ReviewedBeforeReplaced
  BY DEF ReviewedBeforeReplaced
<1> QED
  BY <1>1, EachPart, IntradaySeen, LiveReviewed, PTL
=============================================================================
