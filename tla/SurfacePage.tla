---------------------------- MODULE SurfacePage ----------------------------
(***************************************************************************)
(* A TTF or JKM calibration workspace from the choice of a date to the     *)
(* publication of its surface.  The page is a set of browser stores; every *)
(* callback reads the stores when it is asked, works on the server, and    *)
(* its answer replaces some stores whenever it arrives, over whatever the  *)
(* other callbacks have put there meanwhile.  A later request of the same  *)
(* callback supersedes its earlier answer.  Batches run elsewhere (see     *)
(* GasBatch), and other writers publish surfaces of the same days.         *)
(***************************************************************************)
EXTENDS Naturals, Sequences, FiniteSets

CONSTANTS Days,          \* trading dates, numbered in their order
          Blank,         \* an empty store, or no answer under way
          MaxRevision,   \* bound on the corrections of a settlement
          MaxOpens,      \* bound on changes of date and reloads
          MaxAwaited,    \* bound on the answers under way when the trader acts
          MaxEdits,      \* bound on node and parameter edits
          MaxBatches,    \* bound on calibrations
          MaxSurfaces    \* bound on publications

ASSUME SurfaceAssumption ==
    /\ Days \subseteq Nat /\ \E d \in Days : \A e \in Days : e <= d   \* the default date
    /\ {MaxRevision, MaxOpens, MaxAwaited, MaxEdits, MaxBatches, MaxSurfaces} \subseteq Nat

VARIABLES sheet,      \* the stores of the page
          awaited,    \* per callback: the stores its answer will replace
          rebuild,    \* the parameter table must be rebuilt from its inputs
          opens,      \* dates chosen and reloads
          edits,      \* edits made, each leaves contents of its own
          batches,    \* calibrations asked for, with their fate
          surfaces    \* publications, in the order they were committed

sheetVars == <<sheet, awaited, rebuild, opens, edits, batches, surfaces>>

Callbacks == {"market", "base", "clear", "candidate", "nodes", "compare", "batch", "poll", "publish"}

\* What the parameter table holds: rows of a load, of an edit or of a batch.
Loaded(s) == [market |-> s.market, base |-> s.base]
Edited(n) == [edited |-> n]
Fitted(p) == [fitted |-> p]

\* What a calibration depends on, as the page fingerprints and submits it.
Inputs(s) == [day |-> s.day, market |-> s.market, nodes |-> s.nodes, base |-> s.base]
Payload(s) == [inputs |-> Inputs(s), rows |-> s.table]
Complete(s) == Blank \notin {s.market, s.table, s.base}

\* The accepted batch kept by the page, and when it may be published.
BatchState(s, p, good, j) ==
    [inputs |-> Inputs(s), table |-> Fitted(p), accepted |-> good, job |-> j]
BatchStateReady(s) ==
    /\ s.state # Blank
    /\ s.state.inputs = Inputs(s)
    /\ s.state.table = s.table
    /\ s.state.accepted

\* A finished batch is applied only to the inputs it was submitted with.
StillOnThatDay(s, p) == s.day = p.inputs.day
StillAsSubmitted(s, p) == Payload(s) = p

OfDay(d) == {i \in DOMAIN surfaces : surfaces[i].inputs.day = d}
Newest(S) == IF S = {} THEN 0 ELSE CHOOSE i \in S : \A k \in S : k <= i
\* The publication of the date, or of the last date before it that has one.
LatestSurface(d) ==
    LET published == {e \in Days : e <= d /\ OfDay(e) # {}}
    IN IF published = {} THEN 0
       ELSE Newest(OfDay(CHOOSE e \in published : \A f \in published : f <= e))

SheetInit ==
    /\ LET d == CHOOSE e \in Days : \A f \in Days : f <= e IN   \* the default date
         /\ sheet = [day |-> d, market |-> Blank, base |-> Blank, nodes |-> 0,
                     table |-> Blank, state |-> Blank, job |-> 0]
         /\ awaited = [c \in Callbacks |->
                         CASE c = "market" -> [market |-> <<d, 0>>]
                           [] c = "base" -> [base |-> 0]
                           [] OTHER -> Blank]
    /\ rebuild = FALSE /\ opens = 0 /\ edits = 0 /\ batches = <<>> /\ surfaces = <<>>

\* The trader asks for more only while few answers are under way.
MayAsk(c) ==
    /\ awaited[c] = Blank
    /\ Cardinality({k \in Callbacks : awaited[k] # Blank}) < MaxAwaited
Answers(c, answer) == awaited' = [awaited EXCEPT ![c] = answer]

\* Another writer publishes a surface of day d.
OtherPublishes(d) ==
    /\ Len(surfaces) < MaxSurfaces
    /\ surfaces' = Append(surfaces, [inputs |-> [day |-> d], table |-> Blank, replaced |-> Newest(OfDay(d))])
    /\ UNCHANGED <<sheet, awaited, rebuild, opens, edits, batches>>

\* A date is chosen or reloaded: market inputs, base and the removal of
\* unsaved work are asked of the server by three callbacks.  The settlement
\* may be corrected between two loads; a reload never reads an older one.
Revision(d) == IF d = sheet.day /\ sheet.market # Blank THEN sheet.market[2] ELSE 0
OpenDay(d) ==
    /\ opens < MaxOpens
    /\ opens' = opens + 1
    /\ sheet' = [sheet EXCEPT !.day = d]
    /\ \E r \in Revision(d)..MaxRevision :
         awaited' = [awaited EXCEPT !["market"] = [market |-> <<d, r>>],
                                    !["base"] = [base |-> LatestSurface(d)],
                                    !["clear"] = [nodes |-> 0, state |-> Blank]]
    /\ UNCHANGED <<rebuild, edits, batches, surfaces>>

\* An answer arrives.
Arrives(c) ==
    /\ awaited[c] # Blank
    /\ sheet' = [f \in DOMAIN sheet |->
                   IF f \in DOMAIN awaited[c] THEN awaited[c][f] ELSE sheet[f]]
    /\ Answers(c, Blank)
    /\ rebuild' = (rebuild \/ c \in {"market", "base", "publish"})
    /\ UNCHANGED <<opens, edits, batches, surfaces>>

\* The table follows the loaded parameters and the base, once both are there.
UpdateParamTable ==
    /\ rebuild
    /\ awaited["market"] = Blank /\ awaited["base"] = Blank
    /\ sheet' = [sheet EXCEPT !.table = IF sheet.market = Blank THEN Blank ELSE Loaded(sheet)]
    /\ rebuild' = FALSE
    /\ UNCHANGED <<awaited, opens, edits, batches, surfaces>>

\* The trader edits the surface by one of three callbacks, which do not wait
\* for each other: a candidate is built on nodes of its own (nodes and table
\* change together) or reset, nodes are edited, or final parameters (the table
\* alone).
Edit(c, results) ==
    /\ MayAsk(c)
    /\ sheet.market # Blank /\ sheet.table # Blank
    /\ edits < MaxEdits
    /\ edits' = edits + 1
    /\ \E answer \in results : Answers(c, answer)
    /\ UNCHANGED <<sheet, rebuild, opens, batches, surfaces>>

NodesAndTable == [nodes |-> edits + 1, table |-> Edited(edits + 1)]

BuildCandidate == Edit("candidate", {NodesAndTable, [nodes |-> 0, table |-> Loaded(sheet)]})
ValidateNodeEdits == Edit("nodes", {NodesAndTable})
HandleCalibration == Edit("compare", {[table |-> Edited(edits + 1)]})

\* Calibrate all expiries in a background job; the same payload joins the
\* job it already has.  The submission may fail.
RunBatch ==
    /\ MayAsk("batch")
    /\ \/ /\ Complete(sheet)
          /\ LET same == {j \in DOMAIN batches :
                            batches[j].payload = Payload(sheet) /\ batches[j].status \in {"running", "succeeded"}}
             IN IF same # {}
                  THEN /\ Answers("batch", [job |-> Newest(same), state |-> Blank])
                       /\ UNCHANGED batches
                  ELSE /\ Len(batches) < MaxBatches
                       /\ batches' = Append(batches, [payload |-> Payload(sheet), status |-> "running"])
                       /\ Answers("batch", [job |-> Len(batches'), state |-> Blank])
       \/ Answers("batch", [job |-> 0, state |-> Blank]) /\ UNCHANGED batches
    /\ UNCHANGED <<sheet, rebuild, opens, edits, surfaces>>

\* Without background jobs the callback fits by itself; expiries may fail.
CalibrateHere ==
    /\ MayAsk("batch")
    /\ Complete(sheet)
    /\ Len(batches) < MaxBatches
    /\ batches' = Append(batches, [payload |-> Payload(sheet), status |-> "here"])
    /\ \E good \in BOOLEAN :
         Answers("batch", [job |-> 0, table |-> Fitted(Payload(sheet)),
                           state |-> BatchState(sheet, Payload(sheet), good, 0)])
    /\ UNCHANGED <<sheet, rebuild, opens, edits, surfaces>>

BatchEnds(j) ==
    /\ batches[j].status = "running"
    /\ \E s \in {"succeeded", "failed"} : batches' = [batches EXCEPT ![j].status = s]
    /\ UNCHANGED <<sheet, awaited, rebuild, opens, edits, surfaces>>

\* The poll applies a finished batch to the page as the poll found it.
PollBatch ==
    /\ MayAsk("poll")
    /\ sheet.job # 0
    /\ LET job == batches[sheet.job]
           mine == sheet.state # Blank /\ sheet.state.job = sheet.job
       IN \/ job.status = "failed" /\ Answers("poll", [state |-> Blank])
          \/ /\ job.status = "succeeded" /\ Complete(sheet)
             /\ ~(mine /\ BatchStateReady(sheet))
             /\ Answers("poll",
                  IF StillAsSubmitted(sheet, job.payload)
                    THEN [state |-> BatchState(sheet, job.payload, TRUE, sheet.job),
                          table |-> Fitted(job.payload)]
                    ELSE [state |-> Blank])
    /\ UNCHANGED <<sheet, rebuild, opens, edits, batches, surfaces>>

\* Publication of what the page holds at the click: a complete batch of just
\* these stores, over the revision of the day that was its base, if any.  The
\* same manifest is published once.
Expected(s) == IF s.base # 0 /\ surfaces[s.base].inputs.day = s.day THEN s.base ELSE 0
PublishSheet ==
    /\ MayAsk("publish")
    /\ BatchStateReady(sheet)
    /\ LET again == {i \in DOMAIN surfaces : surfaces[i].inputs = Inputs(sheet) /\ surfaces[i].table = sheet.table}
       IN IF again # {}
            THEN /\ Answers("publish", [base |-> Newest(again)])
                 /\ UNCHANGED surfaces
            ELSE /\ Len(surfaces) < MaxSurfaces
                 /\ Expected(sheet) = Newest(OfDay(sheet.day))
                 /\ surfaces' = Append(surfaces, [inputs |-> Inputs(sheet), table |-> sheet.table,
                                                  replaced |-> Expected(sheet)])
                 /\ Answers("publish", [base |-> Len(surfaces')])
    /\ UNCHANGED <<sheet, rebuild, opens, edits, batches>>

SheetNext ==
    \/ \E d \in Days : OtherPublishes(d) \/ OpenDay(d)
    \/ \E c \in Callbacks : Arrives(c)
    \/ UpdateParamTable \/ BuildCandidate \/ ValidateNodeEdits \/ HandleCalibration
    \/ RunBatch \/ CalibrateHere \/ PollBatch \/ PublishSheet
    \/ \E j \in DOMAIN batches : BatchEnds(j)

SheetSpec == SheetInit /\ [][SheetNext]_sheetVars

(***************************************************************************)
(* The stores keep their types: every reference points at a batch or a     *)
(* publication that exists.                                                *)
(***************************************************************************)
SheetTypeOK ==
    /\ sheet.day \in Days /\ sheet.nodes \in 0..MaxEdits
    /\ sheet.job \in 0..Len(batches)
    /\ sheet.base = Blank \/ sheet.base \in 0..Len(surfaces)
    /\ DOMAIN awaited = Callbacks
    /\ rebuild \in BOOLEAN /\ opens \in 0..MaxOpens /\ edits \in 0..MaxEdits
    /\ Len(batches) <= MaxBatches /\ Len(surfaces) <= MaxSurfaces

(***************************************************************************)
(* A surface published from the page is the outcome of one calibration of  *)
(* exactly the date, market, nodes and base it is published with, whatever *)
(* answers arrived late, and of its day it replaces only that base.        *)
(***************************************************************************)
PublishedAsCalibrated ==
    \A i \in DOMAIN surfaces : surfaces[i].table # Blank =>
        /\ "fitted" \in DOMAIN surfaces[i].table
        /\ surfaces[i].table.fitted.inputs = surfaces[i].inputs
        /\ surfaces[i].replaced \in {0, surfaces[i].inputs.base}
=============================================================================
