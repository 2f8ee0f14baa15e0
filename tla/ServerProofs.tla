---------------------------- MODULE ServerProofs ----------------------------
(***************************************************************************)
(* Theorems about what the servers and their database keep, for any rows,  *)
(* sessions, processes and requests: the database keeps the settlement and *)
(* the intraday lane apart (PublicationGuards), the points of a sealed stage *)
(* as they are (StageSeal) and the two kinds of Bloomberg refresh of a product *)
(* apart (RefreshIntake); the cache of the portfolio page, the jobs of the *)
(* Aspect portfolio, the process pools of a calibration and the reviews of ICE *)
(* quotes keep what their pages rely on.                                   *)
(***************************************************************************)
EXTENDS Integers, PublicationGuards, StageSeal, RefreshIntake, PortfolioCache, AspectJobs,
        FitPool, QuoteReview, FiniteSetTheorems, TLAPS

-----------------------------------------------------------------------------
(* The lanes.                                                              *)

(* A publication keeps the run it was made of, and with it a               *)
(* configuration that no statement can change.                             *)
LaneOK(p) ==
    /\ publication[p].run \in Runs
    /\ publication[p].active =>
         /\ publication[p].status = "published"
         /\ Configuration(publication[p]).scope = "settlement"
         /\ BrentGuard(publication[p])

PointerOK(c) ==
    LET row == intraday[c]
        p == publication[row.publication]
    IN  /\ row.publication \in Publications
        /\ p.commodity = c /\ ~p.active /\ p.status \in {"published", "superseded"}
        /\ Configuration(p).scope = "intraday"
        /\ Configuration(p).draft = row.draft /\ Configuration(p).base = row.base
        /\ row.base # row.publication

LanesInv ==
    /\ GuardsTypeOK
    /\ \A p \in Publications : LaneOK(p)
    /\ \A c \in Commodities : intraday[c] # NoRow => PointerOK(c)

(* Rows that are there keep what the lanes depend on.                      *)
LEMMA RowsStay ==
    ASSUME LanesInv, GuardsTypeOK',
           \A r \in Runs : r \in Runs' /\ run'[r].configuration = run[r].configuration,
           publication' = publication
    PROVE  /\ Publications' = Publications
           /\ \A p \in Publications :
                /\ Configuration(publication[p])' = Configuration(publication[p])
                /\ BrentGuard(publication[p])' = BrentGuard(publication[p])
                /\ LaneOK(p)'
<1>1. Publications' = Publications
  BY DEF Publications
<1>2. ASSUME NEW p \in Publications
      PROVE  /\ Configuration(publication[p])' = Configuration(publication[p])
             /\ BrentGuard(publication[p])' = BrentGuard(publication[p])
             /\ LaneOK(p)'
  <2>1. publication[p].run \in Runs
    BY DEF LanesInv, LaneOK
  <2>2. Configuration(publication[p])' = Configuration(publication[p])
    BY <2>1 DEF Configuration
  <2>3. BrentGuard(publication[p])' = BrentGuard(publication[p])
    BY <2>2 DEF BrentGuard
  <2> QED
    BY <2>1, <2>2, <2>3 DEF LanesInv, LaneOK
<1> QED
  BY <1>1, <1>2

LEMMA RunsKeepLanes ==
    ASSUME LanesInv, NEW r \in RunIds, InsertRun(r) \/ UpdateRun(r)
    PROVE  LanesInv'
<1>1. GuardsTypeOK
  BY DEF LanesInv
<1>2. PICK new \in RunRows : /\ run' = [run EXCEPT ![r] = new]
                             /\ r \in Runs => new.configuration = run[r].configuration
  <2>1. \A c \in Configurations : [status |-> "draft", configuration |-> c] \in RunRows
    BY DEF RunRows, RunStatuses
  <2> QED
    BY <2>1 DEF InsertRun, UpdateRun, RunMayChange
<1>3. UNCHANGED <<publication, intraday>>
  BY DEF InsertRun, UpdateRun
<1>4. run' \in [RunIds -> RunRows \cup {NoRow}]
  BY <1>1, <1>2 DEF GuardsTypeOK
<1>5. GuardsTypeOK'
  BY <1>1, <1>3, <1>4 DEF GuardsTypeOK
<1>6. ASSUME NEW s \in Runs PROVE s \in Runs' /\ run'[s].configuration = run[s].configuration
  <2>1. CASE s = r
    BY <1>1, <1>2, <2>1, RowsAssumption DEF Runs, GuardsTypeOK
  <2>2. CASE s # r
    BY <1>1, <1>2, <2>2 DEF Runs, GuardsTypeOK
  <2> QED
    BY <2>1, <2>2
<1>7. /\ Publications' = Publications
      /\ \A p \in Publications :
           /\ Configuration(publication[p])' = Configuration(publication[p])
           /\ LaneOK(p)'
  BY <1>3, <1>5, <1>6, RowsStay
<1>8. ASSUME NEW c \in Commodities, intraday[c] # NoRow PROVE PointerOK(c)'
  <2>1. PointerOK(c)
    BY <1>8 DEF LanesInv
  <2> QED
    BY <1>3, <1>7, <2>1 DEF PointerOK
<1> QED
  BY <1>3, <1>5, <1>7, <1>8 DEF LanesInv

(* A statement that passes the triggers puts a row in the place of one, or *)
(* in an empty place.                                                      *)
LEMMA WrittenPublication ==
    ASSUME LanesInv, NEW p \in PublicationIds, NEW new \in PublicationRows,
           publication' = [publication EXCEPT ![p] = new], UNCHANGED <<run, intraday>>,
           new.run \in Runs, new.active => /\ new.status = "published"
                                           /\ Configuration(new).scope = "settlement"
                                           /\ BrentGuard(new),
           p \in Publications =>
              /\ new.run = publication[p].run /\ new.commodity = publication[p].commodity
              /\ publication[p].status \in {"published", "superseded"} =>
                   new.status \in {"published", "superseded"}
    PROVE  LanesInv'
<1>1. GuardsTypeOK
  BY DEF LanesInv
<1>2. /\ publication' \in [PublicationIds -> PublicationRows \cup {NoRow}]
      /\ publication'[p] = new
      /\ \A q \in PublicationIds : q # p => publication'[q] = publication[q]
  BY <1>1 DEF GuardsTypeOK
<1>3. GuardsTypeOK'
  BY <1>1, <1>2 DEF GuardsTypeOK
<1>4. Runs' = Runs
  BY DEF Runs
<1>5. /\ p \in Publications' /\ Publications \subseteq Publications'
      /\ \A q \in Publications' : q = p \/ q \in Publications
  BY <1>2, RowsAssumption DEF Publications
<1>6. ASSUME NEW q \in Publications' PROVE LaneOK(q)'
  <2>1. CASE q = p
    BY <1>2, <1>4, <2>1 DEF LaneOK, Configuration, BrentGuard
  <2>2. CASE q # p
    <3>1. q \in Publications /\ publication'[q] = publication[q]
      BY <1>2, <1>5, <2>2 DEF Publications
    <3> QED
      BY <1>4, <3>1 DEF LanesInv, LaneOK, Configuration, BrentGuard
  <2> QED
    BY <2>1, <2>2
<1>7. ASSUME NEW c \in Commodities, intraday[c] # NoRow PROVE PointerOK(c)'
  <2>1. PointerOK(c) /\ intraday[c].publication \in Publications
    BY <1>7 DEF LanesInv, PointerOK
  <2>2. CASE intraday[c].publication = p
    <3>1. Configuration(publication[p]).scope = "intraday"
      BY <2>1, <2>2 DEF PointerOK
    <3>2. Configuration(new) = Configuration(publication[p])
      BY <2>1, <2>2 DEF Configuration
    <3>3. ~new.active
      BY <3>1, <3>2
    <3>4. Configuration(new)' = Configuration(new)
      BY DEF Configuration
    <3> QED
      BY <1>2, <1>5, <2>1, <2>2, <3>2, <3>3, <3>4 DEF PointerOK, Configuration
  <2>3. CASE intraday[c].publication # p
    <3>1. publication'[intraday[c].publication] = publication[intraday[c].publication]
      BY <1>2, <2>1, <2>3 DEF Publications
    <3> QED
      BY <1>5, <2>1, <3>1 DEF PointerOK, Configuration
  <2> QED
    BY <2>2, <2>3
<1> QED
  BY <1>3, <1>6, <1>7 DEF LanesInv

LEMMA InsertKeepsLanes ==
    ASSUME LanesInv, NEW p \in PublicationIds, InsertPublication(p)
    PROVE  LanesInv'
<1>1. PICK r \in Runs, c \in Commodities, k \in Drafts \cup {NoRow} :
        publication' = [publication EXCEPT ![p] =
          [run |-> r, commodity |-> c, key |-> k, status |-> "approved", active |-> FALSE]]
  BY DEF InsertPublication
<1> DEFINE new == [run |-> r, commodity |-> c, key |-> k, status |-> "approved", active |-> FALSE]
<1>2. new \in PublicationRows /\ new.run = r /\ new.active = FALSE
  BY DEF PublicationRows, PublicationStatuses, Runs
<1>3. publication' = [publication EXCEPT ![p] = new] /\ UNCHANGED <<run, intraday>>
  BY <1>1 DEF InsertPublication
<1>4. p \notin Publications
  BY DEF InsertPublication
<1> HIDE DEF new
<1> QED
  BY <1>2, <1>3, <1>4, WrittenPublication

LEMMA UpdateKeepsLanes ==
    ASSUME LanesInv, NEW p \in PublicationIds, UpdatePublication(p)
    PROVE  LanesInv'
<1>1. p \in Publications /\ publication[p] \in PublicationRows /\ LaneOK(p) /\ GuardsTypeOK
  BY DEF UpdatePublication, LanesInv, GuardsTypeOK, Publications
<1>2. PICK status \in PublicationStatuses, active \in BOOLEAN :
        LET new == [publication[p] EXCEPT !.status = status, !.active = active]
        IN  /\ PublicationMayChange(publication[p], new)
            /\ BrentGuard(new) /\ LifecycleCheck(new)
            /\ publication' = [publication EXCEPT ![p] = new]
  BY DEF UpdatePublication
<1> DEFINE new == [publication[p] EXCEPT !.status = status, !.active = active]
<1>3. /\ new \in PublicationRows /\ new.run = publication[p].run
      /\ new.commodity = publication[p].commodity
      /\ new.status = status /\ new.active = active
  BY <1>1 DEF PublicationRows
<1>4. publication' = [publication EXCEPT ![p] = new] /\ UNCHANGED <<run, intraday>>
  BY <1>2 DEF UpdatePublication
<1>5. PublicationMayChange(publication[p], new) /\ BrentGuard(new)
  BY <1>2
<1> HIDE DEF new
<1>6. new.run \in Runs /\ Configuration(new) \in Configurations
  <2>1. new.run \in Runs
    BY <1>1, <1>3 DEF LaneOK
  <2>2. run[new.run] \in RunRows
    BY <1>1, <2>1 DEF GuardsTypeOK, Runs
  <2> QED
    BY <2>1, <2>2 DEF Configuration, RunRows
<1>7. \/ new.status = publication[p].status /\ new.active = publication[p].active
      \/ <<publication[p].status, new.status>> \in PublicationTransitions
  BY <1>5 DEF PublicationMayChange
<1>8. ASSUME new.active
      PROVE  new.status = "published" /\ Configuration(new).scope = "settlement"
  <2>1. Configuration(new).scope = "settlement"
    BY <1>5, <1>6, <1>8, ConfigurationsAssumption DEF PublicationMayChange
  <2>2. new.status # "superseded" /\ new.status # "rejected"
    BY <1>5, <1>8 DEF PublicationMayChange
  <2> QED
    BY <1>1, <1>7, <1>8, <2>1, <2>2 DEF LaneOK, PublicationTransitions
<1>9. publication[p].status \in {"published", "superseded"} =>
        new.status \in {"published", "superseded"}
  BY <1>7 DEF PublicationTransitions
<1> QED
  BY <1>3, <1>4, <1>5, <1>6, <1>8, <1>9, WrittenPublication

LEMMA PointerKeepsLanes ==
    ASSUME LanesInv, NEW c \in Commodities, WritePointer(c)
    PROVE  LanesInv'
<1>1. PICK row \in PointerRows : MayActivate(c, row) /\ intraday' = [intraday EXCEPT ![c] = row]
  BY DEF WritePointer
<1>2. UNCHANGED <<run, publication>> /\ GuardsTypeOK
  BY DEF WritePointer, LanesInv
<1>3. /\ intraday' \in [Commodities -> PointerRows \cup {NoRow}] /\ intraday'[c] = row
      /\ \A d \in Commodities : d # c => intraday'[d] = intraday[d]
  BY <1>1, <1>2 DEF GuardsTypeOK
<1>4. GuardsTypeOK'
  BY <1>2, <1>3 DEF GuardsTypeOK
<1>5. \A r \in Runs : r \in Runs' /\ run'[r].configuration = run[r].configuration
  BY <1>2 DEF Runs
<1>6. /\ Publications' = Publications
      /\ \A p \in Publications :
           /\ Configuration(publication[p])' = Configuration(publication[p])
           /\ LaneOK(p)'
  BY <1>2, <1>4, <1>5, RowsStay
<1>7. ASSUME NEW d \in Commodities, intraday'[d] # NoRow PROVE PointerOK(d)'
  <2>1. CASE d = c
    BY <1>1, <1>2, <1>3, <1>6, <2>1 DEF MayActivate, PointerOK
  <2>2. CASE d # c
    <3>1. PointerOK(d) /\ intraday'[d] = intraday[d]
      BY <1>3, <1>7, <2>2 DEF LanesInv
    <3> QED
      BY <1>2, <1>6, <3>1 DEF PointerOK
  <2> QED
    BY <2>1, <2>2
<1> QED
  BY <1>4, <1>6, <1>7 DEF LanesInv

LEMMA LanesInductive == GuardsSpec => []LanesInv
<1>1. GuardsInit => LanesInv
  BY DEF GuardsInit, LanesInv, GuardsTypeOK, Publications
<1>2. ASSUME LanesInv, [GuardsNext]_guardVars PROVE LanesInv'
  <2>1. CASE UNCHANGED guardVars
    <3>1. UNCHANGED <<run, publication, intraday>> /\ Runs' = Runs
      BY <2>1 DEF guardVars, Runs
    <3>2. GuardsTypeOK'
      BY <1>2, <3>1 DEF LanesInv, GuardsTypeOK
    <3>3. /\ Publications' = Publications
          /\ \A p \in Publications : /\ Configuration(publication[p])' = Configuration(publication[p])
                                     /\ LaneOK(p)'
      BY <1>2, <3>1, <3>2, RowsStay
    <3> QED
      BY <1>2, <3>1, <3>2, <3>3 DEF LanesInv, PointerOK
  <2>2. ASSUME NEW r \in RunIds, InsertRun(r) \/ UpdateRun(r) PROVE LanesInv'
    BY <1>2, <2>2, RunsKeepLanes
  <2>3. ASSUME NEW p \in PublicationIds, InsertPublication(p) \/ UpdatePublication(p)
        PROVE  LanesInv'
    BY <1>2, <2>3, InsertKeepsLanes, UpdateKeepsLanes
  <2>4. ASSUME NEW c \in Commodities, WritePointer(c) PROVE LanesInv'
    BY <1>2, <2>4, PointerKeepsLanes
  <2> QED
    BY <1>2, <2>1, <2>2, <2>3, <2>4 DEF GuardsNext
<1> QED
  BY <1>1, <1>2, PTL DEF GuardsSpec

(* Runs, publications and intraday pointers keep their types.              *)
THEOREM GuardsTypeCorrect == GuardsSpec => []GuardsTypeOK
<1>1. LanesInv => GuardsTypeOK
  BY DEF LanesInv
<1> QED
  BY <1>1, LanesInductive, PTL

(* Whatever is written in whatever order, what is active for settlement    *)
(* was published by a settlement run, without intraday evidence for Brent, *)
(* and what an intraday pointer names is of its own draft and base and not *)
(* in the settlement lane.                                                 *)
THEOREM LanesStayApart == GuardsSpec => []LanesApart
<1>1. LanesInv => LanesApart
  BY DEF LanesInv, LaneOK, PointerOK, LanesApart
<1> QED
  BY <1>1, LanesInductive, PTL

-----------------------------------------------------------------------------
(* The seal.                                                               *)

(* Whoever adds points holds a share of an open stage.                     *)
SealInv ==
    /\ SealTypeOK
    /\ \A w \in Writers : writing[w].open => header = "open" /\ writing[w].shares

LEMMA WriterSteps ==
    ASSUME SealInv, NEW w \in Writers,
           NEW row \in [open : BOOLEAN, added : SUBSET Points, shares : BOOLEAN],
           writing' = [writing EXCEPT ![w] = row]
    PROVE  /\ writing' \in [Writers -> [open : BOOLEAN, added : SUBSET Points, shares : BOOLEAN]]
           /\ writing'[w] = row
           /\ \A v \in Writers : v # w => writing'[v] = writing[v]
BY DEF SealInv, SealTypeOK

LEMMA SealInductive == SealSpec => []SealInv
<1> USE DEF NotWriting
<1>1. SealInit => SealInv
  BY DEF SealInit, SealInv, SealTypeOK
<1>2. ASSUME SealInv, [SealNext]_sealVars PROVE SealInv'
  <2>1. CASE InsertStage \/ DeleteStage \/ UNCHANGED sealVars
    BY <1>2, <2>1 DEF InsertStage, DeleteStage, sealVars, SealInv, SealTypeOK
  <2>2. ASSUME NEW w \in Writers, BeginPoints(w) PROVE SealInv'
    <3> DEFINE row == [writing[w] EXCEPT !.open = TRUE, !.shares = TRUE]
    <3>1. /\ row \in [open : BOOLEAN, added : SUBSET Points, shares : BOOLEAN]
          /\ row.shares = TRUE
      BY <1>2 DEF SealInv, SealTypeOK
    <3>2. writing' = [writing EXCEPT ![w] = row] /\ header = "open" /\ UNCHANGED <<header, points>>
      BY <1>2, <2>2 DEF BeginPoints, ReadForShare, SealInv, SealTypeOK
    <3> HIDE DEF row
    <3> QED
      BY <1>2, <3>1, <3>2, WriterSteps DEF SealInv, SealTypeOK
  <2>3. ASSUME NEW w \in Writers, NEW p \in Points, AddPoint(w, p) PROVE SealInv'
    <3> DEFINE row == [writing[w] EXCEPT !.added = @ \cup {p}]
    <3>1. /\ row \in [open : BOOLEAN, added : SUBSET Points, shares : BOOLEAN]
          /\ row.shares = writing[w].shares
      BY <1>2 DEF SealInv, SealTypeOK
    <3>2. /\ writing' = [writing EXCEPT ![w] = row] /\ writing[w].open
          /\ UNCHANGED <<header, points>>
      BY <2>3 DEF AddPoint
    <3> HIDE DEF row
    <3> QED
      BY <1>2, <3>1, <3>2, WriterSteps DEF SealInv, SealTypeOK
  <2>4. ASSUME NEW w \in Writers, Commit(w) \/ Rollback(w) \/ Seal(w) PROVE SealInv'
    <3>1. writing' = [writing EXCEPT ![w] = NotWriting]
      BY <2>4 DEF Commit, Rollback, Seal
    <3>2. /\ writing' \in [Writers -> [open : BOOLEAN, added : SUBSET Points, shares : BOOLEAN]]
          /\ ~writing'[w].open /\ \A v \in Writers : v # w => writing'[v] = writing[v]
      BY <1>2, <3>1 DEF SealInv, SealTypeOK
    <3>3. points' \subseteq Points
      BY <1>2, <2>4 DEF Commit, Rollback, Seal, SealInv, SealTypeOK
    <3>4. CASE UNCHANGED header
      BY <1>2, <3>2, <3>3, <3>4 DEF SealInv, SealTypeOK
    <3>5. CASE Seal(w)
      <4>1. ASSUME NEW v \in Writers, v # w PROVE ~writing[v].open
        BY <1>2, <3>5, <4>1 DEF Seal, Exclusive, SealInv
      <4> QED
        BY <1>2, <3>2, <3>3, <3>5, <4>1 DEF Seal, SealInv, SealTypeOK
    <3> QED
      BY <2>4, <3>4, <3>5 DEF Commit, Rollback
  <2> QED
    BY <1>2, <2>1, <2>2, <2>3, <2>4 DEF SealNext
<1> QED
  BY <1>1, <1>2, PTL DEF SealSpec

(* The points of a sealed stage stay those its sealer saw, also when       *)
(* another session had begun to add points while the stage was open.       *)
THEOREM SealedPointsKept == SealSpec => SealedPointsStay
<1>1. ASSUME SealInv, [SealNext]_sealVars, header = "sealed", header' = "sealed"
      PROVE  points' = points
  <2>1. \A w \in Writers : ~writing[w].open
    BY <1>1 DEF SealInv
  <2> QED
    BY <1>1, <2>1 DEF SealNext, sealVars, InsertStage, DeleteStage, BeginPoints, AddPoint,
                      Commit, Rollback, Seal
<1> QED
  BY <1>1, SealInductive, PTL DEF SealSpec, SealedPointsStay


-----------------------------------------------------------------------------
(* Bloomberg refreshes.  A submission that has checked for the other       *)
(* family holds the locks of all its products until it commits, and what   *)
(* nobody else may lock, nobody else inserts: what it found still holds    *)
(* when its rows appear, save for the seeds of the tape.                   *)

Inserts(d) == Submitting(d, "insert") \/ Submitting(d, "join")

SubmissionOK(d) ==
    /\ submission[d].pc \in {"check", "insert", "join"} =>
         submission[d].wanted \subseteq submission[d].held
    /\ submission[d].made \subseteq submission[d].wanted
    /\ ~Submitting(d, "join") => submission[d].made = {}
    /\ Inserts(d) => \A p \in submission[d].wanted :
         Active(p, Other(submission[d].family)) =>
            submission[d].family = "settlement" /\ refreshJob[p].seed

ExclusiveLocks ==
    \A d, o \in Dashboards : d # o => submission[d].held \cap submission[o].held = {}

IntakeInv ==
    /\ RefreshTypeOK
    /\ \A d \in Dashboards : SubmissionOK(d)
    /\ ExclusiveLocks
    /\ FamiliesApart

RefreshRows == [settlement : JobStatus, intraday : JobStatus, seed : BOOLEAN]

LEMMA NoSubmissionRow ==
    /\ NoSubmission \in Submissions
    /\ NoSubmission.pc = "idle" /\ NoSubmission.held = {} /\ NoSubmission.made = {}
BY DEF NoSubmission, Submissions, Families

(* A step of one submission that inserts nothing others can see.           *)
LEMMA SubmissionStep ==
    ASSUME IntakeInv, NEW d \in Dashboards, NEW row \in Submissions,
           SubmissionTo(d, row), UNCHANGED refreshJob,
           tickets' \in [Dashboards -> SUBSET Products],
           row.pc \in {"check", "insert", "join"} => row.wanted \subseteq row.held,
           row.made \subseteq row.wanted,
           row.pc # "join" => row.made = {},
           row.pc \in {"insert", "join"} => \A p \in row.wanted :
              Active(p, Other(row.family)) => row.family = "settlement" /\ refreshJob[p].seed,
           \A o \in Dashboards : o # d => row.held \cap submission[o].held = {}
    PROVE  IntakeInv'
<1>1. /\ submission' \in [Dashboards -> Submissions] /\ submission'[d] = row
      /\ \A o \in Dashboards : o # d => submission'[o] = submission[o]
  BY DEF IntakeInv, RefreshTypeOK, SubmissionTo
<1>2. RefreshTypeOK'
  BY <1>1 DEF IntakeInv, RefreshTypeOK
<1>3. ASSUME NEW o \in Dashboards PROVE SubmissionOK(o)'
  <2>1. CASE o = d
    BY <1>1, <2>1 DEF SubmissionOK, Inserts, Submitting, Active
  <2>2. CASE o # d
    <3>1. SubmissionOK(o)
      BY DEF IntakeInv
    <3> QED
      BY <1>1, <2>2, <3>1 DEF SubmissionOK, Inserts, Submitting, Active
  <2> QED
    BY <2>1, <2>2
<1>4. ExclusiveLocks'
  BY <1>1 DEF IntakeInv, ExclusiveLocks
<1>5. FamiliesApart'
  BY DEF IntakeInv, FamiliesApart, Active
<1> QED
  BY <1>2, <1>3, <1>4, <1>5 DEF IntakeInv

LEMMA SubmissionRow ==
    ASSUME IntakeInv, NEW d \in Dashboards
    PROVE  /\ submission[d] \in Submissions /\ SubmissionOK(d)
           /\ submission[d].wanted \subseteq Products /\ submission[d].held \subseteq Products
           /\ submission[d].family \in Families
           /\ tickets \in [Dashboards -> SUBSET Products]
           /\ \A o \in Dashboards : o # d => submission[d].held \cap submission[o].held = {}
BY DEF IntakeInv, RefreshTypeOK, Submissions, ExclusiveLocks

(* What rolls back leaves nothing behind.                                  *)
LEMMA RollBackInv ==
    ASSUME IntakeInv, NEW d \in Dashboards, RollBack(d)
    PROVE  IntakeInv'
BY NoSubmissionRow, SubmissionRow, SubmissionStep DEF RollBack

LEMMA ClickInv ==
    ASSUME IntakeInv, NEW d \in Dashboards, ClickIntraday(d) \/ ClickSettlement(d)
    PROVE  IntakeInv'
<1>1. PICK family \in Families, products \in SUBSET Products : Click(d, family, products)
  BY DEF ClickIntraday, ClickSettlement, Families
<1> DEFINE row == [NoSubmission EXCEPT !.pc = "lock", !.family = family, !.wanted = products]
<1>2. /\ row \in Submissions /\ row.pc = "lock" /\ row.held = {} /\ row.made = {}
  BY DEF NoSubmission, Submissions
<1>3. SubmissionTo(d, row) /\ UNCHANGED <<refreshJob, tickets>>
  BY <1>1 DEF Click
<1> HIDE DEF row
<1> QED
  BY <1>2, <1>3, SubmissionRow, SubmissionStep

(* A lock is taken of a product nobody else holds.                         *)
LEMMA LockProductInv ==
    ASSUME IntakeInv, NEW d \in Dashboards, LockProduct(d)
    PROVE  IntakeInv'
<1>1. PICK p \in Products :
        /\ Submitting(d, "lock") /\ Free(d, p)
        /\ SubmissionTo(d, [submission[d] EXCEPT !.held = @ \cup {p},
              !.pc = IF submission[d].wanted \subseteq submission[d].held \cup {p}
                       THEN "check" ELSE "lock"])
        /\ UNCHANGED <<refreshJob, tickets>>
  BY DEF LockProduct, Products
<1>2. /\ submission[d] \in Submissions /\ SubmissionOK(d) /\ submission[d].made = {}
      /\ \A o \in Dashboards : o # d => submission[d].held \cap submission[o].held = {}
      /\ tickets \in [Dashboards -> SUBSET Products]
  BY <1>1, SubmissionRow DEF SubmissionOK, Submitting
<1> DEFINE row == [submission[d] EXCEPT !.held = @ \cup {p},
              !.pc = IF submission[d].wanted \subseteq submission[d].held \cup {p}
                       THEN "check" ELSE "lock"]
<1>3. /\ row \in Submissions /\ row.pc \in {"check", "lock"} /\ row.made = {}
      /\ row.held = submission[d].held \cup {p}
      /\ row.pc = "check" => row.wanted \subseteq row.held
  BY <1>2 DEF Submissions
<1>4. SubmissionTo(d, row)
  BY <1>1
<1> HIDE DEF row
<1>5. \A o \in Dashboards : o # d => row.held \cap submission[o].held = {}
  BY <1>1, <1>2, <1>3 DEF Free
<1> QED
  BY <1>1, <1>2, <1>3, <1>4, <1>5, SubmissionStep


LEMMA CheckConflictInv ==
    ASSUME IntakeInv, NEW d \in Dashboards, CheckConflict(d)
    PROVE  IntakeInv'
<1> DEFINE row == [submission[d] EXCEPT !.pc = "insert"]
<1>1. /\ submission[d] \in Submissions /\ SubmissionOK(d) /\ Submitting(d, "check")
      /\ \A o \in Dashboards : o # d => submission[d].held \cap submission[o].held = {}
      /\ tickets \in [Dashboards -> SUBSET Products]
      /\ ~Conflicting(d) /\ SubmissionTo(d, row) /\ UNCHANGED <<refreshJob, tickets>>
  BY SubmissionRow DEF CheckConflict
<1>2. /\ row \in Submissions /\ row.pc = "insert"
      /\ row.wanted = submission[d].wanted /\ row.held = submission[d].held
      /\ row.made = submission[d].made /\ row.family = submission[d].family
  BY <1>1 DEF Submissions
<1>3. row.wanted \subseteq row.held /\ row.made = {}
  BY <1>1, <1>2 DEF SubmissionOK, Submitting
<1>4. \A p \in row.wanted : ~Active(p, Other(row.family))
  BY <1>1, <1>2 DEF Conflicting
<1> HIDE DEF row
<1> QED
  BY <1>1, <1>2, <1>3, <1>4, SubmissionStep

LEMMA InsertJobsInv ==
    ASSUME IntakeInv, NEW d \in Dashboards, InsertJobs(d)
    PROVE  IntakeInv'
<1> DEFINE made == {p \in submission[d].wanted : ~Active(p, submission[d].family)}
           row == [submission[d] EXCEPT !.pc = "join", !.made = made]
<1>1. /\ submission[d] \in Submissions /\ SubmissionOK(d) /\ Submitting(d, "insert")
      /\ submission[d].wanted \subseteq Products
      /\ \A o \in Dashboards : o # d => submission[d].held \cap submission[o].held = {}
      /\ tickets \in [Dashboards -> SUBSET Products]
      /\ SubmissionTo(d, row) /\ UNCHANGED <<refreshJob, tickets>>
  BY SubmissionRow DEF InsertJobs
<1>2. made \subseteq submission[d].wanted
  OBVIOUS
<1> HIDE DEF made
<1>3. /\ row \in Submissions /\ row.pc = "join"
      /\ row.wanted = submission[d].wanted /\ row.held = submission[d].held
      /\ row.made = made /\ row.family = submission[d].family
  BY <1>1, <1>2 DEF Submissions
<1>4. /\ row.wanted \subseteq row.held /\ row.made \subseteq row.wanted
      /\ \A p \in row.wanted :
           Active(p, Other(row.family)) => row.family = "settlement" /\ refreshJob[p].seed
  BY <1>1, <1>2, <1>3 DEF SubmissionOK, Submitting, Inserts
<1> HIDE DEF row
<1> QED
  BY <1>1, <1>3, <1>4, SubmissionStep

(* A row of jobs, and one of its families in another state.                *)
LEMMA FamilyRow ==
    ASSUME NEW row \in RefreshRows, NEW f \in Families, NEW s \in JobStatus
    PROVE  /\ [row EXCEPT ![f] = s] \in RefreshRows
           /\ [row EXCEPT ![f] = s][f] = s
           /\ [row EXCEPT ![f] = s][Other(f)] = row[Other(f)]
           /\ [row EXCEPT ![f] = s].seed = row.seed
<1>1. CASE f = "settlement"
  BY <1>1 DEF RefreshRows, Other
<1>2. CASE f = "intraday"
  BY <1>2 DEF RefreshRows, Other
<1> QED
  BY <1>1, <1>2 DEF Families

(* A step of the workers and the seeds: no settlement refresh begins, and  *)
(* an intraday one only as a seed.                                         *)
LEMMA JobsStep ==
    ASSUME IntakeInv, UNCHANGED <<submission, tickets>>, refreshJob' \in [Products -> RefreshRows],
           \A p \in Products : Active(p, "settlement")' => Active(p, "settlement"),
           \A p \in Products : Active(p, "intraday")' =>
              refreshJob'[p].seed \/ (Active(p, "intraday") /\ ~refreshJob[p].seed)
    PROVE  IntakeInv'
<1>1. RefreshTypeOK' /\ ExclusiveLocks'
  BY DEF IntakeInv, RefreshTypeOK, ExclusiveLocks, RefreshRows
<1>2. FamiliesApart'
  BY DEF IntakeInv, FamiliesApart
<1>3. ASSUME NEW d \in Dashboards PROVE SubmissionOK(d)'
  <2>1. SubmissionOK(d) /\ submission[d].wanted \subseteq Products /\ submission[d].family \in Families
    BY SubmissionRow
  <2>2. ASSUME Inserts(d), NEW p \in submission[d].wanted, Active(p, Other(submission[d].family))'
        PROVE  submission[d].family = "settlement" /\ refreshJob'[p].seed
    <3>1. p \in Products
          /\ (Active(p, Other(submission[d].family)) =>
                submission[d].family = "settlement" /\ refreshJob[p].seed)
      BY <2>1, <2>2 DEF SubmissionOK
    <3>2. CASE submission[d].family = "settlement"
      <4>1. Active(p, "intraday")' /\ (Active(p, "intraday") => refreshJob[p].seed)
        BY <2>2, <3>1, <3>2 DEF Other
      <4> QED
        BY <3>1, <3>2, <4>1
    <3>3. CASE submission[d].family = "intraday"
      <4>1. Active(p, "settlement")' /\ ~Active(p, "settlement")
        BY <2>2, <3>1, <3>3 DEF Other
      <4> QED
        BY <3>1, <4>1
    <3> QED
      BY <2>1, <3>2, <3>3 DEF Families
  <2> QED
    BY <2>1, <2>2 DEF SubmissionOK, Inserts, Submitting
<1> QED
  BY <1>1, <1>2, <1>3 DEF IntakeInv

LEMMA WorkersInv ==
    ASSUME IntakeInv, NEW p \in Products,
           SeedTape(p) \/ \E f \in Families : RunRefresh(p, f) \/ EndRefresh(p, f)
    PROVE  IntakeInv'
<1>1. /\ UNCHANGED <<submission, tickets>> /\ refreshJob \in [Products -> RefreshRows]
      /\ refreshJob[p] \in RefreshRows
  BY DEF SeedTape, RunRefresh, EndRefresh, IntakeInv, RefreshTypeOK, RefreshRows
<1>2. PICK row \in RefreshRows :
        /\ refreshJob' = [refreshJob EXCEPT ![p] = row]
        /\ row.settlement # "none" => refreshJob[p].settlement # "none"
        /\ row.intraday # "none" => row.seed \/ (refreshJob[p].intraday # "none" /\ ~refreshJob[p].seed)
  <2>1. CASE SeedTape(p)
    <3> DEFINE row == [refreshJob[p] EXCEPT !.intraday = "queued", !.seed = TRUE]
    <3>1. row \in RefreshRows /\ row.settlement = refreshJob[p].settlement /\ row.seed
      BY <1>1 DEF RefreshRows, JobStatus
    <3>2. refreshJob' = [refreshJob EXCEPT ![p] = row]
      BY <2>1 DEF SeedTape
    <3> HIDE DEF row
    <3> QED
      BY <3>1, <3>2
  <2>2. CASE \E f \in Families : RunRefresh(p, f)
    <3>1. PICK f \in Families : RunRefresh(p, f)
      BY <2>2
    <3> DEFINE row == [refreshJob[p] EXCEPT ![f] = "running"]
    <3>2. /\ row \in RefreshRows /\ row[Other(f)] = refreshJob[p][Other(f)]
          /\ row.seed = refreshJob[p].seed
      <4>1. "running" \in JobStatus
        BY DEF JobStatus
      <4> QED
        BY <1>1, <4>1, FamilyRow
    <3>3. refreshJob' = [refreshJob EXCEPT ![p] = row] /\ refreshJob[p][f] # "none"
      BY <3>1 DEF RunRefresh
    <3> HIDE DEF row
    <3>4. row.seed \in BOOLEAN
      BY <3>2 DEF RefreshRows
    <3>5. CASE f = "settlement"
      BY <3>2, <3>3, <3>4, <3>5 DEF Other
    <3>6. CASE f = "intraday"
      BY <3>2, <3>3, <3>4, <3>6 DEF Other
    <3> QED
      BY <3>5, <3>6 DEF Families
  <2>3. CASE \E f \in Families : EndRefresh(p, f)
    <3>1. PICK f \in Families : EndRefresh(p, f)
      BY <2>3
    <3>2. CASE f = "settlement"
      <4> DEFINE row == [refreshJob[p] EXCEPT !.settlement = "none", !.seed = @]
      <4>1. /\ row \in RefreshRows /\ row.settlement = "none"
            /\ row.intraday = refreshJob[p].intraday /\ row.seed = refreshJob[p].seed
        BY <1>1 DEF RefreshRows, JobStatus
      <4>2. refreshJob' = [refreshJob EXCEPT ![p] = row]
        BY <3>1, <3>2 DEF EndRefresh
      <4> HIDE DEF row
      <4>3. row.seed \in BOOLEAN
        BY <4>1 DEF RefreshRows
      <4> QED
        BY <4>1, <4>2, <4>3
    <3>3. CASE f = "intraday"
      <4> DEFINE row == [refreshJob[p] EXCEPT !.intraday = "none", !.seed = FALSE]
      <4>1. /\ row \in RefreshRows /\ row.intraday = "none"
            /\ row.settlement = refreshJob[p].settlement
        BY <1>1 DEF RefreshRows, JobStatus
      <4>2. refreshJob' = [refreshJob EXCEPT ![p] = row]
        BY <3>1, <3>3 DEF EndRefresh
      <4> HIDE DEF row
      <4> QED
        BY <4>1, <4>2
    <3> QED
      BY <3>2, <3>3 DEF Families
  <2> QED
    BY <2>1, <2>2, <2>3
<1> QED
  BY <1>1, <1>2, JobsStep DEF Active


(* The commit: the locks have held off whoever might have inserted the     *)
(* other family since the check.                                           *)
LEMMA CommitJobsInv ==
    ASSUME IntakeInv, NEW d \in Dashboards, CommitJobs(d)
    PROVE  IntakeInv'
<1>1. PICK f \in Families : f = submission[d].family
  BY SubmissionRow
<1>2. PICK made \in SUBSET Products : made = submission[d].made
  BY SubmissionRow DEF Submissions
<1>3. /\ SubmissionOK(d) /\ Submitting(d, "join") /\ SubmissionTo(d, NoSubmission)
      /\ made \subseteq submission[d].wanted /\ submission[d].wanted \subseteq submission[d].held
      /\ \A p \in made : Active(p, Other(f)) => f = "settlement" /\ refreshJob[p].seed
  BY <1>1, <1>2, SubmissionRow DEF CommitJobs, SubmissionOK, Inserts, Submitting
<1>4. /\ refreshJob \in [Products -> RefreshRows]
      /\ refreshJob' = [p \in Products |->
           IF p \in made THEN [refreshJob[p] EXCEPT ![f] = "queued"] ELSE refreshJob[p]]
  BY <1>1, <1>2 DEF CommitJobs, IntakeInv, RefreshTypeOK, RefreshRows
<1>5. ASSUME NEW p \in Products
      PROVE  /\ refreshJob[p] \in RefreshRows /\ refreshJob'[p] \in RefreshRows
             /\ p \notin made => refreshJob'[p] = refreshJob[p]
             /\ refreshJob'[p].seed = refreshJob[p].seed
             /\ p \in made => refreshJob'[p][Other(f)] = refreshJob[p][Other(f)]
  <2>1. CASE p \in made
    <3>1. refreshJob'[p] = [refreshJob[p] EXCEPT ![f] = "queued"] /\ refreshJob[p] \in RefreshRows
      BY <1>4, <2>1
    <3>2. "queued" \in JobStatus
      BY DEF JobStatus
    <3> QED
      BY <2>1, <3>1, <3>2, FamilyRow
  <2>2. CASE p \notin made
    BY <1>4, <2>2
  <2> QED
    BY <2>1, <2>2
<1>6. refreshJob' \in [Products -> RefreshRows]
  BY <1>4, <1>5
<1>7. /\ submission' \in [Dashboards -> Submissions] /\ submission'[d] = NoSubmission
      /\ \A o \in Dashboards : o # d => submission'[o] = submission[o]
  BY <1>3, NoSubmissionRow DEF SubmissionTo, IntakeInv, RefreshTypeOK
<1>8. tickets' \in [Dashboards -> SUBSET Products]
  BY SubmissionRow DEF CommitJobs
<1>9. RefreshTypeOK' /\ ExclusiveLocks'
  <2>1. RefreshTypeOK'
    BY <1>6, <1>7, <1>8 DEF RefreshTypeOK, RefreshRows
  <2>2. ExclusiveLocks'
    BY <1>7, NoSubmissionRow DEF ExclusiveLocks, IntakeInv
  <2> QED
    BY <2>1, <2>2
<1>10. ASSUME NEW o \in Dashboards PROVE SubmissionOK(o)'
  <2>1. CASE o = d
    BY <1>7, <2>1, NoSubmissionRow DEF SubmissionOK, Inserts, Submitting
  <2>2. CASE o # d
    <3>1. SubmissionOK(o) /\ submission'[o] = submission[o]
          /\ submission[o].held \cap submission[d].held = {} /\ submission[o].wanted \subseteq Products
      BY <1>7, <2>2, SubmissionRow
    <3>2. Inserts(o) => \A p \in submission[o].wanted : p \notin made
      BY <1>3, <3>1 DEF SubmissionOK, Inserts, Submitting
    <3>3. Inserts(o) => \A p \in submission[o].wanted : refreshJob'[p] = refreshJob[p]
      BY <1>5, <3>1, <3>2
    <3> QED
      BY <3>1, <3>3 DEF SubmissionOK, Inserts, Submitting, Active
  <2> QED
    BY <2>1, <2>2
<1>11. FamiliesApart'
  <2>1. SUFFICES ASSUME NEW p \in Products, Active(p, "settlement")', Active(p, "intraday")'
                 PROVE  refreshJob[p].seed
    BY <1>5 DEF FamiliesApart
  <2>2. CASE p \in made
    <3>1. Active(p, Other(f))
      BY <1>1, <1>5, <2>1, <2>2 DEF Active, Other, Families
    <3> QED
      BY <1>3, <2>2, <3>1
  <2>3. CASE p \notin made
    BY <1>5, <2>1, <2>3 DEF IntakeInv, FamiliesApart, Active
  <2> QED
    BY <2>2, <2>3
<1> QED
  BY <1>9, <1>10, <1>11 DEF IntakeInv

LEMMA PollRefreshInv ==
    ASSUME IntakeInv, NEW d \in Dashboards, PollRefresh(d)
    PROVE  IntakeInv'
<1>1. UNCHANGED <<refreshJob, submission>> /\ tickets' \in [Dashboards -> SUBSET Products]
  BY SubmissionRow DEF PollRefresh
<1> QED
  BY <1>1 DEF IntakeInv, RefreshTypeOK, SubmissionOK, ExclusiveLocks, FamiliesApart, Inserts,
     Submitting, Active

LEMMA IntakeInductive ==
    /\ RefreshInit => IntakeInv
    /\ IntakeInv /\ [RefreshNext]_refreshVars => IntakeInv'
<1>1. ASSUME RefreshInit PROVE IntakeInv
  <2>1. RefreshTypeOK
    BY <1>1, NoSubmissionRow DEF RefreshInit, RefreshTypeOK, JobStatus
  <2>2. \A d \in Dashboards : submission[d] = NoSubmission
    BY <1>1 DEF RefreshInit
  <2>3. \A d \in Dashboards : SubmissionOK(d)
    BY <2>2, NoSubmissionRow DEF SubmissionOK, Inserts, Submitting
  <2>4. ExclusiveLocks
    BY <2>2, NoSubmissionRow DEF ExclusiveLocks
  <2>5. FamiliesApart
    BY <1>1 DEF RefreshInit, FamiliesApart, Active
  <2> QED
    BY <2>1, <2>3, <2>4, <2>5 DEF IntakeInv
<1>2. ASSUME IntakeInv, RefreshNext PROVE IntakeInv'
  <2>1. ASSUME NEW d \in Dashboards,
               \/ ClickIntraday(d) \/ ClickSettlement(d) \/ LockProduct(d) \/ CheckConflict(d) \/ Refuse(d)
               \/ LoseConnection(d) \/ InsertJobs(d) \/ CommitJobs(d) \/ JoinedEnded(d) \/ PollRefresh(d)
        PROVE  IntakeInv'
    <3>1. CASE Refuse(d) \/ LoseConnection(d) \/ JoinedEnded(d)
      BY <1>2, <3>1, RollBackInv DEF Refuse, LoseConnection, JoinedEnded
    <3> QED
      BY <1>2, <2>1, <3>1, ClickInv, LockProductInv, CheckConflictInv, InsertJobsInv,
         CommitJobsInv, PollRefreshInv
  <2> QED
    BY <1>2, <2>1, WorkersInv DEF RefreshNext
<1>3. ASSUME IntakeInv, UNCHANGED refreshVars PROVE IntakeInv'
  BY <1>3 DEF refreshVars, IntakeInv, RefreshTypeOK, SubmissionOK, ExclusiveLocks, FamiliesApart,
     Inserts, Submitting, Active
<1> QED
  BY <1>1, <1>2, <1>3

(* No product ever has an intraday and a settlement refresh unfinished at  *)
(* a time but for a seed of the tape, for any dashboards and products.     *)
THEOREM RefreshesApart == RefreshSpec => []FamiliesApart
<1>1. IntakeInv => FamiliesApart
  BY DEF IntakeInv
<1> QED
  BY <1>1, IntakeInductive, PTL DEF RefreshSpec

-----------------------------------------------------------------------------
(* The valuations of the portfolio page.  An entry of the generation that  *)
(* is current is no older than the last refresh, because a refresh makes   *)
(* a generation nobody has stored under; requests of one generation were   *)
(* made after the same refresh, so an entry serves each of them.           *)

Requested(s) == reader[s].pc # "idle"

EntriesOK ==
    /\ refreshed <= valuations
    /\ combined[generation] >= refreshed
    /\ \A s \in Servers : local[s][generation] >= refreshed
    /\ \A g \in Generations : g > generation =>
         combined[g] = Nothing /\ \A s \in Servers : local[s][g] = Nothing

ReaderOK(s) ==
    /\ reader[s].under <= generation /\ reader[s].fetched <= generation
    /\ Requested(s) => /\ reader[s].floor <= refreshed
                       /\ reader[s].under = generation => reader[s].floor = refreshed
                       /\ combined[reader[s].under] >= reader[s].floor
    /\ reader[s].pc \in {"put", "done"} =>
         reader[s].data \in 0 .. MaxSource /\ reader[s].data >= reader[s].floor

OneFloor ==
    \A s, t \in Servers :
        Requested(s) /\ Requested(t) /\ reader[s].under = reader[t].under =>
            reader[s].floor = reader[t].floor

PortfolioInv ==
    /\ PortfolioTypeOK
    /\ EntriesOK
    /\ \A s \in Servers : ReaderOK(s)
    /\ OneFloor


ReaderRows == [pc : {"idle", "lock", "cached", "fetch", "query", "put", "done"},
               under : Generations, fetched : Generations,
               data : Cells, floor : 0 .. MaxSource]

LEMMA PortfolioBounds ==
    /\ MaxSource \in Nat /\ MaxGeneration \in Nat
    /\ 0 \in Generations /\ 0 \in 0 .. MaxSource /\ Nothing \in Cells /\ 0 .. MaxSource \subseteq Cells
    /\ \A n \in 0 .. MaxSource : Nothing >= n /\ n # Nothing
    /\ NoRequest \in ReaderRows
<1>1. /\ MaxSource \in Nat /\ MaxGeneration \in Nat
      /\ 0 \in Generations /\ 0 \in 0 .. MaxSource /\ Nothing \in Cells /\ 0 .. MaxSource \subseteq Cells
      /\ \A n \in 0 .. MaxSource : Nothing >= n /\ n # Nothing
  BY PortfolioBoundsAssumption DEF Generations, Nothing, Cells
<1> QED
  BY <1>1 DEF NoRequest, ReaderRows

LEMMA ReaderRow ==
    ASSUME PortfolioInv, NEW s \in Servers
    PROVE  /\ reader[s] \in ReaderRows /\ ReaderOK(s)
           /\ reader[s].under \in Generations /\ reader[s].fetched \in Generations
           /\ reader[s].floor \in 0 .. MaxSource
BY DEF PortfolioInv, PortfolioTypeOK, ReaderRows

(* The entries hold of the state after a step that stores nothing.         *)
LEMMA EntriesStand ==
    ASSUME PortfolioInv, UNCHANGED <<valuations, generation, refreshed, combined, local>>
    PROVE  EntriesOK'
BY DEF PortfolioInv, EntriesOK

(* A step of one request.                                                  *)
LEMMA ReaderStep ==
    ASSUME PortfolioInv, NEW s \in Servers, NEW row \in ReaderRows, ReaderTo(s, row),
           UNCHANGED <<valuations, generation, refreshed>>, EntriesOK',
           combined' \in [Generations -> Cells],
           buildLock' \in [Generations -> Servers \cup {NoOne}],
           local' \in [Servers -> [Generations -> Cells]],
           \A t \in Servers : t # s /\ Requested(t) => combined'[reader[t].under] >= reader[t].floor,
           row.under <= generation, row.fetched <= generation,
           row.pc # "idle" => /\ row.floor <= refreshed
                              /\ row.under = generation => row.floor = refreshed
                              /\ combined'[row.under] >= row.floor
                              /\ \A t \in Servers : t # s /\ Requested(t) /\ reader[t].under = row.under =>
                                   reader[t].floor = row.floor,
           row.pc \in {"put", "done"} => row.data \in 0 .. MaxSource /\ row.data >= row.floor
    PROVE  PortfolioInv'
<1>1. reader' \in [Servers -> ReaderRows] /\ reader'[s] = row
      /\ \A t \in Servers : t # s => reader'[t] = reader[t]
  BY DEF PortfolioInv, PortfolioTypeOK, ReaderRows, ReaderTo
<1>2. PortfolioTypeOK'
  BY <1>1 DEF PortfolioInv, PortfolioTypeOK, ReaderRows
<1>3. ASSUME NEW t \in Servers PROVE ReaderOK(t)'
  <2>1. CASE t = s
    BY <1>1, <2>1 DEF ReaderOK, Requested
  <2>2. CASE t # s
    BY <1>1, <2>2, ReaderRow DEF ReaderOK, Requested
  <2> QED
    BY <2>1, <2>2
<1>4. OneFloor'
  BY <1>1 DEF PortfolioInv, OneFloor, Requested
<1> QED
  BY <1>2, <1>3, <1>4 DEF PortfolioInv

(* The request goes on, and stores nothing that is shared.                 *)
LEMMA RequestGoesOn ==
    ASSUME PortfolioInv, NEW s \in Servers, NEW row \in ReaderRows, ReaderTo(s, row),
           UNCHANGED <<valuations, generation, refreshed, combined>>, EntriesOK',
           buildLock' \in [Generations -> Servers \cup {NoOne}],
           local' \in [Servers -> [Generations -> Cells]],
           Requested(s), row.under = reader[s].under, row.floor = reader[s].floor,
           row.fetched <= generation,
           row.pc \in {"put", "done"} => row.data \in 0 .. MaxSource /\ row.data >= row.floor
    PROVE  PortfolioInv'
<1>1. ReaderOK(s) /\ combined' \in [Generations -> Cells]
  BY ReaderRow DEF PortfolioInv, PortfolioTypeOK
<1>2. \A t \in Servers : Requested(t) => combined'[reader[t].under] >= reader[t].floor
  BY ReaderRow DEF ReaderOK
<1>3. \A t \in Servers : t # s /\ Requested(t) /\ reader[t].under = row.under =>
         reader[t].floor = row.floor
  BY DEF PortfolioInv, OneFloor
<1> QED
  BY <1>1, <1>2, <1>3, ReaderStep DEF ReaderOK

(* It is given up or was answered.                                         *)
LEMMA RequestEnds ==
    ASSUME PortfolioInv, NEW s \in Servers, ReaderTo(s, NoRequest),
           UNCHANGED <<valuations, generation, refreshed, combined, local>>,
           buildLock' \in [Generations -> Servers \cup {NoOne}]
    PROVE  PortfolioInv'
<1>1. /\ combined' \in [Generations -> Cells] /\ local' \in [Servers -> [Generations -> Cells]]
      /\ generation \in Nat
  BY DEF PortfolioInv, PortfolioTypeOK, Generations
<1>2. \A t \in Servers : Requested(t) => combined'[reader[t].under] >= reader[t].floor
  BY ReaderRow DEF ReaderOK
<1>3. /\ NoRequest \in ReaderRows /\ NoRequest.pc = "idle" /\ NoRequest.under <= generation
      /\ NoRequest.fetched <= generation
  BY <1>1, PortfolioBounds DEF NoRequest
<1> QED
  BY <1>1, <1>2, <1>3, EntriesStand, ReaderStep


LEMMA AskInv ==
    ASSUME PortfolioInv, NEW s \in Servers, Ask(s)
    PROVE  PortfolioInv'
<1> DEFINE row == [NoRequest EXCEPT !.pc = "lock", !.under = generation, !.floor = refreshed]
<1>1. /\ UNCHANGED <<valuations, generation, combined, buildLock, local, refreshed>>
      /\ ReaderTo(s, row) /\ PortfolioTypeOK /\ EntriesOK
  BY DEF Ask, PortfolioInv
<1>2. /\ row \in ReaderRows /\ row.pc = "lock" /\ row.under = generation
      /\ row.floor = refreshed /\ row.fetched = 0
  BY <1>1, PortfolioBounds DEF PortfolioTypeOK, NoRequest, ReaderRows
<1> HIDE DEF row
<1>3. /\ combined' \in [Generations -> Cells] /\ local' \in [Servers -> [Generations -> Cells]]
      /\ buildLock' \in [Generations -> Servers \cup {NoOne}]
      /\ generation \in Nat /\ refreshed \in Nat
  BY <1>1 DEF PortfolioTypeOK, Generations
<1>4. \A t \in Servers : Requested(t) => combined'[reader[t].under] >= reader[t].floor
  BY <1>1, ReaderRow DEF ReaderOK
<1>5. \A t \in Servers : Requested(t) /\ reader[t].under = row.under => reader[t].floor = row.floor
  BY <1>2, ReaderRow DEF ReaderOK
<1>6. row.under <= generation /\ row.fetched <= generation /\ row.floor <= refreshed
      /\ combined'[row.under] >= row.floor
  BY <1>1, <1>2, <1>3 DEF EntriesOK
<1> QED
  BY <1>1, <1>2, <1>3, <1>4, <1>5, <1>6, EntriesStand, ReaderStep

(* The steps of a request before it has data, and without storing any.     *)
LEMMA ReadInv ==
    ASSUME PortfolioInv, NEW s \in Servers,
           LockEntry(s) \/ ReadShared(s) \/ ReadLocal(s) \/ Show(s) \/ QueryFails(s)
    PROVE  PortfolioInv'
<1>1. /\ UNCHANGED <<valuations, generation, combined, local, refreshed>> /\ EntriesOK' /\ Requested(s)
      /\ PortfolioTypeOK
  BY EntriesStand DEF LockEntry, ReadShared, ReadLocal, Show, QueryFails, Requested, Reader, PortfolioInv
<1>2. /\ buildLock' \in [Generations -> Servers \cup {NoOne}]
      /\ local' \in [Servers -> [Generations -> Cells]]
  BY <1>1 DEF LockEntry, ReadShared, ReadLocal, Show, QueryFails, Unlock, PortfolioTypeOK
<1>3. /\ reader[s] \in ReaderRows /\ ReaderOK(s) /\ reader[s].under \in Generations
      /\ reader[s].floor \in 0 .. MaxSource /\ generation \in Generations /\ generation \in Nat
      /\ refreshed \in Nat
  BY <1>1, ReaderRow DEF PortfolioTypeOK, Generations
<1>4. ASSUME NEW pc \in {"cached", "fetch"}, ReaderTo(s, [reader[s] EXCEPT !.pc = pc])
      PROVE  PortfolioInv'
  <2> DEFINE row == [reader[s] EXCEPT !.pc = pc]
  <2>1. /\ row \in ReaderRows /\ row.pc = pc /\ row.under = reader[s].under
        /\ row.floor = reader[s].floor /\ row.fetched = reader[s].fetched
    BY <1>3 DEF ReaderRows
  <2> HIDE DEF row
  <2>2. ReaderTo(s, row) /\ row.fetched <= generation
    BY <1>3, <1>4, <2>1 DEF ReaderOK, row
  <2> QED
    BY <1>1, <1>2, <2>1, <2>2, RequestGoesOn
<1>5. CASE LockEntry(s)
  BY <1>4, <1>5 DEF LockEntry
<1>6. ASSUME NEW found \in Cells, found = combined[reader[s].under], found # Nothing,
             ReaderTo(s, [reader[s] EXCEPT !.pc = "done", !.data = found])
      PROVE  PortfolioInv'
  <2> DEFINE row == [reader[s] EXCEPT !.pc = "done", !.data = found]
  <2>1. /\ row \in ReaderRows /\ row.pc = "done" /\ row.under = reader[s].under /\ row.data = found
        /\ row.floor = reader[s].floor /\ row.fetched = reader[s].fetched
    BY <1>3 DEF ReaderRows
  <2> HIDE DEF row
  <2>2. found \in 0 .. MaxSource /\ found >= row.floor
    BY <1>1, <1>3, <1>6, <2>1, PortfolioBounds DEF ReaderOK, Cells, Nothing
  <2>3. ReaderTo(s, row) /\ row.fetched <= generation
    BY <1>3, <1>6, <2>1 DEF ReaderOK, row
  <2> QED
    BY <1>1, <1>2, <2>1, <2>2, <2>3, RequestGoesOn
<1>7. CASE ReadShared(s)
  <2>1. PICK found \in Cells : found = combined[reader[s].under]
    BY <1>1, <1>3 DEF PortfolioTypeOK
  <2> QED
    BY <1>4, <1>6, <1>7, <2>1 DEF ReadShared
<1>8. CASE ReadLocal(s)
  <2>1. PICK found \in Cells : found = local[s][generation]
    BY <1>1, <1>3 DEF PortfolioTypeOK
  <2>2. PICK pc \in {"query", "put"} : pc = IF found = Nothing THEN "query" ELSE "put"
    OBVIOUS
  <2> DEFINE row == [reader[s] EXCEPT !.fetched = generation, !.data = found, !.pc = pc]
  <2>3. ReaderTo(s, row)
    BY <1>8, <2>1, <2>2 DEF ReadLocal
  <2>4. /\ row \in ReaderRows /\ row.pc = pc /\ row.under = reader[s].under /\ row.data = found
        /\ row.floor = reader[s].floor /\ row.fetched = generation
    BY <1>3 DEF ReaderRows
  <2> HIDE DEF row
  <2>5. found >= refreshed /\ row.floor <= refreshed
    BY <1>1, <1>3, <2>1, <2>4 DEF PortfolioInv, EntriesOK, ReaderOK
  <2>6. pc = "put" => found \in 0 .. MaxSource /\ found >= row.floor
    BY <1>3, <2>2, <2>4, <2>5, PortfolioBounds DEF Cells, Nothing
  <2> QED
    BY <1>1, <1>2, <1>3, <2>2, <2>3, <2>4, <2>6, RequestGoesOn
<1>9. CASE Show(s) \/ QueryFails(s)
  BY <1>1, <1>2, <1>9, RequestEnds DEF Show, QueryFails
<1> QED
  BY <1>5, <1>7, <1>8, <1>9

(* What is queried is kept by the process under the generation it had read *)
(* before; if that is no longer the current one, no request finds it.      *)
LEMMA QueryInv ==
    ASSUME PortfolioInv, NEW s \in Servers, Query(s)
    PROVE  PortfolioInv'
<1>1. /\ UNCHANGED <<valuations, generation, combined, buildLock, refreshed>> /\ Requested(s)
      /\ PortfolioTypeOK /\ EntriesOK
  BY DEF Query, Requested, Reader, PortfolioInv
<1>2. /\ reader[s] \in ReaderRows /\ ReaderOK(s) /\ reader[s].fetched \in Generations
      /\ reader[s].floor \in 0 .. MaxSource /\ generation \in Generations /\ generation \in Nat
      /\ valuations \in 0 .. MaxSource /\ valuations \in Cells /\ refreshed \in 0 .. MaxSource
  BY <1>1, ReaderRow, PortfolioBounds DEF PortfolioTypeOK, Generations
<1> DEFINE row == [reader[s] EXCEPT !.pc = "put", !.data = valuations]
<1>3. ReaderTo(s, row)
  BY DEF Query
<1>4. /\ row \in ReaderRows /\ row.pc = "put" /\ row.under = reader[s].under
      /\ row.data = valuations /\ row.floor = reader[s].floor /\ row.fetched = reader[s].fetched
  BY <1>2 DEF ReaderRows
<1> HIDE DEF row
<1>5. valuations >= row.floor
  BY <1>1, <1>2, <1>4 DEF EntriesOK, ReaderOK
<1>6. local' = [local EXCEPT ![s][reader[s].fetched] = valuations]
  BY DEF Query
<1>7. local' \in [Servers -> [Generations -> Cells]]
  BY <1>1, <1>2, <1>6 DEF PortfolioTypeOK
<1>8. EntriesOK'
  <2>1. ASSUME NEW t \in Servers PROVE local'[t][generation] >= refreshed
    BY <1>1, <1>2, <1>6, <2>1 DEF EntriesOK, PortfolioTypeOK
  <2>2. ASSUME NEW t \in Servers, NEW g \in Generations, g > generation
        PROVE  local'[t][g] = Nothing
    <3>1. g # reader[s].fetched
      BY <1>2, <2>2 DEF ReaderOK, Generations
    <3> QED
      BY <1>1, <1>2, <1>6, <2>2, <3>1 DEF EntriesOK, PortfolioTypeOK
  <2> QED
    BY <1>1, <2>1, <2>2 DEF EntriesOK
<1>9. buildLock' \in [Generations -> Servers \cup {NoOne}] /\ row.fetched <= generation
  BY <1>1, <1>2, <1>4 DEF PortfolioTypeOK, ReaderOK
<1> QED
  BY <1>1, <1>2, <1>3, <1>4, <1>5, <1>7, <1>8, <1>9, RequestGoesOn

(* What a request puts serves the others of its generation as well.        *)
LEMMA PutInv ==
    ASSUME PortfolioInv, NEW s \in Servers, PutShared(s)
    PROVE  PortfolioInv'
<1>1. /\ UNCHANGED <<valuations, generation, local, refreshed>> /\ Requested(s)
      /\ PortfolioTypeOK /\ EntriesOK /\ reader[s].pc = "put"
      /\ combined' = [combined EXCEPT ![reader[s].under] = reader[s].data]
  BY DEF PutShared, StoredUnder, Requested, Reader, PortfolioInv
<1>2. /\ reader[s] \in ReaderRows /\ ReaderOK(s) /\ reader[s].under \in Generations
      /\ reader[s].floor \in 0 .. MaxSource /\ generation \in Nat
      /\ reader[s].data \in 0 .. MaxSource /\ reader[s].data \in Cells
      /\ reader[s].data >= reader[s].floor
  BY <1>1, ReaderRow, PortfolioBounds DEF PortfolioTypeOK, Generations, ReaderOK
<1> DEFINE row == [reader[s] EXCEPT !.pc = "done"]
<1>3. ReaderTo(s, row)
  BY DEF PutShared
<1>4. /\ row \in ReaderRows /\ row.pc = "done" /\ row.under = reader[s].under
      /\ row.data = reader[s].data /\ row.floor = reader[s].floor /\ row.fetched = reader[s].fetched
  BY <1>2 DEF ReaderRows
<1> HIDE DEF row
<1>5. /\ combined' \in [Generations -> Cells] /\ combined'[reader[s].under] = reader[s].data
      /\ \A g \in Generations : g # reader[s].under => combined'[g] = combined[g]
      /\ local' \in [Servers -> [Generations -> Cells]]
      /\ buildLock' \in [Generations -> Servers \cup {NoOne}]
  BY <1>1, <1>2 DEF PortfolioTypeOK, PutShared, Unlock
<1>6. ASSUME NEW t \in Servers, Requested(t)
      PROVE  /\ combined'[reader[t].under] >= reader[t].floor
             /\ reader[t].under = row.under => reader[t].floor = row.floor
  <2>1. reader[t].under = reader[s].under => reader[t].floor = reader[s].floor
    BY <1>1, <1>6 DEF PortfolioInv, OneFloor
  <2>2. CASE reader[t].under = reader[s].under
    BY <1>2, <1>4, <1>5, <2>1, <2>2
  <2>3. CASE reader[t].under # reader[s].under
    BY <1>4, <1>5, <1>6, <2>3, ReaderRow DEF ReaderOK
  <2> QED
    BY <2>2, <2>3
<1>7. EntriesOK'
  <2>1. combined'[generation] >= refreshed
    <3>1. CASE reader[s].under = generation
      BY <1>1, <1>2, <1>5, <3>1 DEF ReaderOK
    <3>2. CASE reader[s].under # generation
      BY <1>1, <1>5, <3>2 DEF EntriesOK, PortfolioTypeOK
    <3> QED
      BY <3>1, <3>2
  <2>2. ASSUME NEW g \in Generations, g > generation PROVE combined'[g] = Nothing
    <3>1. g # reader[s].under
      BY <1>2, <2>2 DEF ReaderOK, Generations
    <3> QED
      BY <1>1, <1>5, <2>2, <3>1 DEF EntriesOK
  <2> QED
    BY <1>1, <2>1, <2>2 DEF EntriesOK
<1>8. /\ row.under <= generation /\ row.fetched <= generation /\ row.floor <= refreshed
      /\ row.under = generation => row.floor = refreshed
  BY <1>1, <1>2, <1>4 DEF ReaderOK
<1> QED
  BY <1>1, <1>2, <1>3, <1>4, <1>5, <1>6, <1>7, <1>8, ReaderStep


(* Locks run out, entries expire, the table changes.                       *)
LEMMA SurroundingsInv ==
    ASSUME PortfolioInv,
           ValuationsChange \/ \E g \in Generations : LockRunsOut(g) \/ EntryExpires(g)
    PROVE  PortfolioInv'
<1>1. /\ UNCHANGED <<generation, local, reader, refreshed>> /\ PortfolioTypeOK /\ EntriesOK
      /\ generation \in Generations /\ refreshed \in 0 .. MaxSource /\ valuations \in 0 .. MaxSource
  BY DEF ValuationsChange, LockRunsOut, EntryExpires, PortfolioInv, PortfolioTypeOK
<1>2. /\ combined' \in [Generations -> Cells]
      /\ \A g \in Generations : combined'[g] = combined[g] \/ combined'[g] = Nothing
      /\ buildLock' \in [Generations -> Servers \cup {NoOne}]
      /\ valuations' \in 0 .. MaxSource /\ valuations' >= valuations
  <2>1. CASE ValuationsChange
    BY <1>1, <2>1, PortfolioBounds DEF ValuationsChange, PortfolioTypeOK
  <2>2. ASSUME NEW g \in Generations, LockRunsOut(g) \/ EntryExpires(g)
        PROVE  /\ combined' \in [Generations -> Cells]
               /\ \A h \in Generations : combined'[h] = combined[h] \/ combined'[h] = Nothing
               /\ buildLock' \in [Generations -> Servers \cup {NoOne}]
               /\ valuations' = valuations
    <3>1. CASE LockRunsOut(g)
      BY <1>1, <3>1, PortfolioBounds DEF LockRunsOut, PortfolioTypeOK
    <3>2. CASE EntryExpires(g)
      BY <1>1, <3>2, PortfolioBounds DEF EntryExpires, PortfolioTypeOK
    <3> QED
      BY <2>2, <3>1, <3>2
  <2>3. valuations >= valuations
    BY <1>1, PortfolioBounds
  <2> QED
    BY <1>1, <2>1, <2>2, <2>3
<1>3. PortfolioTypeOK'
  BY <1>1, <1>2 DEF PortfolioTypeOK
<1>4. EntriesOK'
  <2>1. refreshed <= valuations'
    BY <1>1, <1>2, PortfolioBounds DEF EntriesOK
  <2>2. combined'[generation] >= refreshed
    BY <1>1, <1>2, PortfolioBounds DEF EntriesOK
  <2> QED
    BY <1>1, <1>2, <2>1, <2>2 DEF EntriesOK
<1>5. ASSUME NEW s \in Servers PROVE ReaderOK(s)'
  <2>1. Requested(s) => combined'[reader[s].under] >= reader[s].floor
    BY <1>2, ReaderRow, PortfolioBounds DEF ReaderOK
  <2> QED
    BY <1>1, <2>1, ReaderRow DEF ReaderOK, Requested
<1>6. OneFloor'
  BY <1>1 DEF PortfolioInv, OneFloor, Requested
<1> QED
  BY <1>3, <1>4, <1>5, <1>6 DEF PortfolioInv

(* A refresh: nobody has stored under the next generation.                 *)
LEMMA RefreshInv ==
    ASSUME PortfolioInv, NEW s \in Servers, Refresh(s)
    PROVE  PortfolioInv'
<1>1. /\ UNCHANGED <<valuations, combined, buildLock, reader>> /\ PortfolioTypeOK /\ EntriesOK
      /\ generation \in Generations /\ refreshed \in 0 .. MaxSource /\ valuations \in 0 .. MaxSource
      /\ generation' = generation + 1 /\ refreshed' = valuations
      /\ local' = [local EXCEPT ![s] = [g \in Generations |-> Nothing]]
  BY DEF Refresh, PortfolioInv, PortfolioTypeOK
<1>2. generation' \in Generations /\ generation' > generation
  BY <1>1, PortfolioBounds DEF Refresh, Generations
<1>3. /\ local' \in [Servers -> [Generations -> Cells]]
      /\ \A t \in Servers, g \in Generations : local'[t][g] = local[t][g] \/ local'[t][g] = Nothing
  BY <1>1, PortfolioBounds DEF PortfolioTypeOK
<1>4. PortfolioTypeOK'
  BY <1>1, <1>2, <1>3 DEF PortfolioTypeOK
<1>5. EntriesOK'
  <2>1. /\ combined'[generation'] = Nothing
        /\ \A t \in Servers : local'[t][generation'] = Nothing
    BY <1>1, <1>2, <1>3 DEF EntriesOK
  <2>2. ASSUME NEW g \in Generations, g > generation' PROVE g > generation
    BY <1>1, <2>2, PortfolioBounds DEF Generations
  <2>3. \A g \in Generations : g > generation' =>
          combined'[g] = Nothing /\ \A t \in Servers : local'[t][g] = Nothing
    BY <1>1, <1>3, <2>2 DEF EntriesOK
  <2>4. refreshed' <= valuations' /\ Nothing >= refreshed'
    BY <1>1, PortfolioBounds
  <2> QED
    BY <2>1, <2>3, <2>4 DEF EntriesOK
<1>6. ASSUME NEW t \in Servers PROVE ReaderOK(t)'
  <2>1. /\ reader[t].under \in Generations /\ reader[t].fetched \in Generations
        /\ reader[t].floor \in 0 .. MaxSource /\ ReaderOK(t)
    BY ReaderRow
  <2>2. /\ reader[t].under <= generation' /\ reader[t].under # generation'
        /\ reader[t].fetched <= generation'
    BY <1>1, <2>1, PortfolioBounds DEF ReaderOK, Generations
  <2>3. Requested(t) => reader[t].floor <= refreshed'
    BY <1>1, <2>1, PortfolioBounds DEF ReaderOK, EntriesOK
  <2> QED
    BY <1>1, <2>1, <2>2, <2>3 DEF ReaderOK, Requested
<1>7. OneFloor'
  BY <1>1 DEF PortfolioInv, OneFloor, Requested
<1> QED
  BY <1>4, <1>5, <1>6, <1>7 DEF PortfolioInv

LEMMA PortfolioInductive ==
    /\ PortfolioInit => PortfolioInv
    /\ PortfolioInv /\ [PortfolioNext]_portfolioVars => PortfolioInv'
<1>1. ASSUME PortfolioInit PROVE PortfolioInv
  <2>1. PortfolioTypeOK
    BY <1>1, PortfolioBounds DEF PortfolioInit, PortfolioTypeOK, ReaderRows
  <2>2. EntriesOK
    BY <1>1, PortfolioBounds DEF PortfolioInit, EntriesOK
  <2>3. ASSUME NEW s \in Servers PROVE ReaderOK(s) /\ ~Requested(s)
    <3>1. reader[s].pc = "idle" /\ reader[s].under = 0 /\ reader[s].fetched = 0
      BY <1>1, <2>3 DEF PortfolioInit, NoRequest
    <3>2. generation = 0
      BY <1>1 DEF PortfolioInit
    <3>3. 0 <= 0
      OBVIOUS
    <3>4. ~Requested(s) /\ ~(reader[s].pc \in {"put", "done"})
      BY <3>1 DEF Requested
    <3> QED
      BY <3>1, <3>2, <3>3, <3>4 DEF ReaderOK
  <2> QED
    BY <2>1, <2>2, <2>3 DEF PortfolioInv, OneFloor
<1>2. ASSUME PortfolioInv, PortfolioNext PROVE PortfolioInv'
  <2>1. ASSUME NEW s \in Servers,
               \/ Ask(s) \/ LockEntry(s) \/ ReadShared(s) \/ ReadLocal(s) \/ Query(s)
               \/ QueryFails(s) \/ PutShared(s) \/ Show(s) \/ Refresh(s)
        PROVE  PortfolioInv'
    BY <1>2, <2>1, AskInv, ReadInv, QueryInv, PutInv, RefreshInv
  <2> QED
    BY <1>2, <2>1, SurroundingsInv DEF PortfolioNext
<1>3. ASSUME PortfolioInv, UNCHANGED portfolioVars PROVE PortfolioInv'
  BY <1>3 DEF portfolioVars, PortfolioInv, PortfolioTypeOK, EntriesOK, ReaderOK, OneFloor, Requested
<1> QED
  BY <1>1, <1>2, <1>3

(* A request made after a refresh shows the table at least as it stood at  *)
(* that refresh, for any processes and however slow older loads are.       *)
THEOREM RefreshedCorrect == PortfolioSpec => []RefreshedIsFresh
<1>1. PortfolioInv => RefreshedIsFresh
  BY DEF PortfolioInv, ReaderOK, RefreshedIsFresh, Reader
<1> QED
  BY <1>1, PortfolioInductive, PTL DEF PortfolioSpec

-----------------------------------------------------------------------------
(* The jobs of the Aspect portfolio.  The entry of a request is a job that *)
(* has not ended and was made for it, and a job that has neither ended nor *)
(* passed its deadline is the entry of its request: the entries kept on a  *)
(* submission count the jobs that run, and a job that lost its entry can   *)
(* end, but never take up running again.                                   *)

Running(t) == Unended(t) /\ ~aspectJob[t].late
AspectRunning == {t \in Tickets : Running(t)}
KeptEntries == {q \in AspectRequests : KeptAspect[q] # 0}

TicketOK(t) ==
    /\ aspectWorker[t] # "none" => Submitted(t)
    /\ aspectPage[t] # "none" => Submitted(t)
    /\ aspectWorker[t] \in {"starting", "working"} => aspectJob[t].status # "complete"
    /\ Running(t) => aspectActive[aspectJob[t].request] = t

AspectRequestOK(r) ==
    aspectActive[r] # 0 => Unended(aspectActive[r]) /\ aspectJob[aspectActive[r]].request = r

AspectInv ==
    /\ AspectTypeOK
    /\ \A t \in Tickets : TicketOK(t)
    /\ \A r \in AspectRequests : AspectRequestOK(r)
    /\ Cardinality(AspectRunning) <= AspectLimit


LEMMA TicketRow ==
    ASSUME AspectInv, NEW t \in Tickets
    PROVE  /\ TicketOK(t)
           /\ aspectJob[t] \in AspectStates \cup {NotSubmitted}
           /\ Submitted(t) => /\ aspectJob[t] \in AspectStates
                              /\ aspectJob[t].request \in AspectRequests
                              /\ aspectJob[t].late \in BOOLEAN
                              /\ aspectJob[t].status \in {"queued", "running", "failed", "complete"}
           /\ ~Submitted(t) => aspectJob[t] = NotSubmitted /\ ~Unended(t) /\ ~Running(t)
                               /\ aspectWorker[t] = "none" /\ aspectPage[t] = "none"
<1>1. TicketOK(t) /\ aspectJob[t] \in AspectStates \cup {NotSubmitted}
  BY DEF AspectInv, AspectTypeOK
<1>2. aspectJob[t] \in AspectStates =>
        /\ aspectJob[t].request \in AspectRequests /\ aspectJob[t].late \in BOOLEAN
        /\ aspectJob[t].status \in {"queued", "running", "failed", "complete"}
  BY DEF AspectStates, AspectEnded
<1>3. aspectJob[t] = NotSubmitted => aspectJob[t].status = "absent"
  BY DEF NotSubmitted
<1> QED
  BY <1>1, <1>2, <1>3 DEF TicketOK, Submitted, Unended, Running

(* Fewer run than the limit allows when none begins to.                    *)
LEMMA RunningShrinks ==
    ASSUME AspectInv, \A t \in Tickets : Running(t)' => Running(t)
    PROVE  (Cardinality(AspectRunning) <= AspectLimit)'
<1>1. IsFiniteSet(Tickets) /\ AspectRunning \in SUBSET Tickets
  BY TicketsAssumption, FS_Interval DEF Tickets, AspectRunning
<1>2. IsFiniteSet(AspectRunning) /\ Cardinality(AspectRunning) \in Nat
  BY <1>1, FS_Subset, FS_CardinalityType
<1>3. AspectRunning' \in SUBSET AspectRunning
  BY DEF AspectRunning
<1>4. IsFiniteSet(AspectRunning') /\ Cardinality(AspectRunning') <= Cardinality(AspectRunning)
  BY <1>2, <1>3, FS_Subset
<1>5. Cardinality(AspectRunning') \in Nat
  BY <1>4, FS_CardinalityType
<1> QED
  BY <1>2, <1>4, <1>5, TicketsAssumption DEF AspectInv

(* A step of one job that was submitted: its row keeps the request, it     *)
(* does not take up running again, and it gives up its entry when it ends. *)
LEMMA TicketStep ==
    ASSUME AspectInv, NEW t \in Tickets, Submitted(t),
           NEW row \in AspectStates, row.request = aspectJob[t].request,
           aspectJob' \in [Tickets -> AspectStates \cup {NotSubmitted}], aspectJob'[t] = row,
           \A u \in Tickets : u # t => aspectJob'[u] = aspectJob[u],
           row.status \in {"queued", "running"} /\ ~row.late => Running(t),
           aspectActive' \in [AspectRequests -> 0 .. MaxTickets],
           \A r \in AspectRequests :
              \/ aspectActive'[r] = aspectActive[r]
              \/ aspectActive'[r] = 0 /\ aspectActive[r] = t,
           row.status \in {"queued", "running"} => aspectActive' = aspectActive,
           row.status \notin {"queued", "running"} => aspectActive'[row.request] # t,
           aspectWorker' \in [Tickets -> {"none", "starting", "working", "closing"}],
           \A u \in Tickets : u # t => aspectWorker'[u] = aspectWorker[u],
           aspectWorker'[t] \in {"starting", "working"} => row.status # "complete",
           aspectPage' \in [Tickets -> {"none", "polling", "timing"}],
           \A u \in Tickets : u # t => aspectPage'[u] = aspectPage[u]
    PROVE  AspectInv'
<1>1. row.status \in {"queued", "running", "failed", "complete"} /\ row.status # "absent"
      /\ row.request \in AspectRequests
  BY DEF AspectStates, AspectEnded
<1>2. \A u \in Tickets : Running(u)' => Running(u)
  BY DEF Running, Unended
<1>3. ASSUME NEW u \in Tickets PROVE TicketOK(u)'
  <2>1. TicketOK(u) /\ (Running(u) => aspectJob[u].request \in AspectRequests)
    BY TicketRow
  <2>2. CASE u = t
    <3>1. /\ Submitted(t)'
          /\ aspectWorker'[t] \in {"starting", "working"} => aspectJob'[t].status # "complete"
      BY <1>1 DEF Submitted
    <3>2. Running(t)' => aspectActive'[aspectJob'[t].request] = t
      BY <1>2, <2>1, <2>2 DEF Running, Unended, TicketOK
    <3> QED
      BY <2>2, <3>1, <3>2 DEF TicketOK
  <2>3. CASE u # t
    BY <2>1, <2>3 DEF TicketOK, Running, Unended, Submitted
  <2> QED
    BY <2>2, <2>3
<1>4. ASSUME NEW r \in AspectRequests PROVE AspectRequestOK(r)'
  <2>1. AspectRequestOK(r) /\ aspectActive[r] \in 0 .. MaxTickets
    BY DEF AspectInv, AspectTypeOK
  <2>2. SUFFICES ASSUME aspectActive'[r] # 0
                 PROVE  /\ Unended(aspectActive[r])' /\ aspectJob'[aspectActive[r]].request = r
                        /\ aspectActive'[r] = aspectActive[r]
    BY DEF AspectRequestOK, Unended
  <2>3. /\ aspectActive'[r] = aspectActive[r] /\ aspectActive[r] \in Tickets
        /\ Unended(aspectActive[r]) /\ aspectJob[aspectActive[r]].request = r
    BY <2>1, <2>2, TicketsAssumption DEF AspectRequestOK, Tickets
  <2>4. CASE aspectActive[r] = t
    <3>1. row.request = r /\ aspectActive'[row.request] = t
      BY <2>3, <2>4
    <3> QED
      BY <2>3, <2>4, <3>1 DEF Unended
  <2>5. CASE aspectActive[r] # t
    BY <2>3, <2>5 DEF Unended
  <2> QED
    BY <2>3, <2>4, <2>5
<1>5. (Cardinality(AspectRunning) <= AspectLimit)'
  BY <1>2, RunningShrinks
<1> QED
  BY <1>3, <1>4, <1>5 DEF AspectInv, AspectTypeOK


(* A job ends: finish, by whichever of its worker, its page and a launch.  *)
LEMMA TicketEnds ==
    ASSUME AspectInv, NEW t \in Tickets, Submitted(t), NEW status \in AspectEnded,
           FinishAspect(t, status),
           aspectWorker' \in [Tickets -> {"none", "starting", "working", "closing"}],
           \A u \in Tickets : u # t => aspectWorker'[u] = aspectWorker[u],
           aspectWorker'[t] \in {"starting", "working"} => status # "complete",
           aspectPage' \in [Tickets -> {"none", "polling", "timing"}],
           \A u \in Tickets : u # t => aspectPage'[u] = aspectPage[u]
    PROVE  AspectInv'
<1> DEFINE row == [aspectJob[t] EXCEPT !.status = status]
<1>1. /\ aspectJob[t] \in AspectStates /\ aspectJob[t].request \in AspectRequests
      /\ aspectJob \in [Tickets -> AspectStates \cup {NotSubmitted}]
      /\ aspectActive \in [AspectRequests -> 0 .. MaxTickets]
  BY TicketRow DEF AspectInv, AspectTypeOK
<1>2. /\ row \in AspectStates /\ row.request = aspectJob[t].request
      /\ row.status = status
  BY <1>1 DEF AspectStates, AspectEnded
<1>3. aspectJob' = [aspectJob EXCEPT ![t] = row]
  BY DEF FinishAspect
<1> HIDE DEF row
<1>4. /\ aspectJob' \in [Tickets -> AspectStates \cup {NotSubmitted}] /\ aspectJob'[t] = row
      /\ \A u \in Tickets : u # t => aspectJob'[u] = aspectJob[u]
  BY <1>1, <1>2, <1>3
<1>5. PICK q \in AspectRequests : q = aspectJob[t].request
  BY <1>1
<1>6. aspectActive' = [aspectActive EXCEPT ![q] = IF @ = t THEN 0 ELSE @]
  BY <1>5 DEF FinishAspect
<1>7. /\ aspectActive' \in [AspectRequests -> 0 .. MaxTickets]
      /\ \A r \in AspectRequests :
           aspectActive'[r] = aspectActive[r] \/ (aspectActive'[r] = 0 /\ aspectActive[r] = t)
      /\ aspectActive'[q] # t
  BY <1>1, <1>6, TicketsAssumption DEF Tickets
<1>8. row.status \notin {"queued", "running"} /\ aspectActive'[row.request] # t
  BY <1>2, <1>5, <1>7 DEF AspectEnded
<1> QED
  BY <1>2, <1>4, <1>7, <1>8, TicketStep

(* The rows of the processes and pages after a step of one job.            *)
LEMMA ProcessRow ==
    ASSUME AspectInv, NEW t \in Tickets, NEW from, NEW to \in {"none", "working", "closing"},
           AspectProcess(t, from, to)
    PROVE  /\ aspectWorker[t] = from
           /\ aspectWorker' \in [Tickets -> {"none", "starting", "working", "closing"}]
           /\ aspectWorker'[t] = to
           /\ \A u \in Tickets : u # t => aspectWorker'[u] = aspectWorker[u]
BY DEF AspectInv, AspectTypeOK, AspectProcess

LEMMA PageRow ==
    ASSUME AspectInv, NEW t \in Tickets, NEW to \in {"none", "polling", "timing"},
           aspectPage' = [aspectPage EXCEPT ![t] = to]
    PROVE  /\ aspectPage' \in [Tickets -> {"none", "polling", "timing"}]
           /\ \A u \in Tickets : u # t => aspectPage'[u] = aspectPage[u]
BY DEF AspectInv, AspectTypeOK

LEMMA AspectLaunchFailsInv ==
    ASSUME AspectInv, NEW t \in Tickets, AspectLaunchFails(t)
    PROVE  AspectInv'
<1>1. /\ aspectWorker[t] = "starting" /\ aspectWorker'[t] = "none"
      /\ aspectWorker' \in [Tickets -> {"none", "starting", "working", "closing"}]
      /\ \A u \in Tickets : u # t => aspectWorker'[u] = aspectWorker[u]
  BY ProcessRow DEF AspectLaunchFails
<1>2. /\ aspectPage' \in [Tickets -> {"none", "polling", "timing"}]
      /\ \A u \in Tickets : u # t => aspectPage'[u] = aspectPage[u]
  BY PageRow DEF AspectLaunchFails
<1>3. Submitted(t) /\ FinishAspect(t, "failed") /\ "failed" \in AspectEnded
  BY <1>1, TicketRow DEF AspectLaunchFails, TicketOK, AspectEnded
<1> QED
  BY <1>1, <1>2, <1>3, TicketEnds

LEMMA TimeOutAspectInv ==
    ASSUME AspectInv, NEW t \in Tickets, TimeOutAspect(t)
    PROVE  AspectInv'
<1>1. aspectPage[t] = "timing" /\ UNCHANGED aspectWorker /\ TicketOK(t)
      /\ aspectWorker \in [Tickets -> {"none", "starting", "working", "closing"}]
  BY TicketRow DEF TimeOutAspect, AspectInv, AspectTypeOK
<1>2. /\ aspectPage' \in [Tickets -> {"none", "polling", "timing"}]
      /\ \A u \in Tickets : u # t => aspectPage'[u] = aspectPage[u]
  BY PageRow DEF TimeOutAspect
<1>3. Submitted(t) /\ FinishAspect(t, "failed") /\ "failed" \in AspectEnded
  BY <1>1 DEF TimeOutAspect, TicketOK, AspectEnded
<1> QED
  BY <1>1, <1>2, <1>3, TicketEnds

LEMMA ReportAspectInv ==
    ASSUME AspectInv, NEW t \in Tickets, ReportAspect(t) \/ ReportAspectFailure(t)
    PROVE  AspectInv'
<1>1. UNCHANGED aspectPage /\ TicketOK(t)
      /\ aspectPage \in [Tickets -> {"none", "polling", "timing"}]
  BY TicketRow DEF ReportAspect, ReportAspectFailure, AspectInv, AspectTypeOK
<1>2. PICK to \in {"none", "closing"}, from \in {"working", "closing"}, status \in AspectEnded :
        AspectProcess(t, from, to) /\ FinishAspect(t, status)
  BY DEF ReportAspect, ReportAspectFailure, AspectEnded
<1>3. /\ aspectWorker[t] = from /\ aspectWorker'[t] = to
      /\ aspectWorker' \in [Tickets -> {"none", "starting", "working", "closing"}]
      /\ \A u \in Tickets : u # t => aspectWorker'[u] = aspectWorker[u]
  BY <1>2, ProcessRow
<1>4. Submitted(t)
  BY <1>1, <1>3 DEF TicketOK
<1> QED
  BY <1>1, <1>2, <1>3, <1>4, TicketEnds


(* A step of one job that leaves its row and the entries as they are.      *)
LEMMA TicketStays ==
    ASSUME AspectInv, NEW t \in Tickets, Submitted(t), UNCHANGED <<aspectJob, aspectActive>>,
           aspectWorker' \in [Tickets -> {"none", "starting", "working", "closing"}],
           \A u \in Tickets : u # t => aspectWorker'[u] = aspectWorker[u],
           aspectWorker'[t] \in {"starting", "working"} => aspectJob[t].status # "complete",
           aspectPage' \in [Tickets -> {"none", "polling", "timing"}],
           \A u \in Tickets : u # t => aspectPage'[u] = aspectPage[u]
    PROVE  AspectInv'
<1>1. /\ aspectJob[t] \in AspectStates /\ aspectJob[t].request \in AspectRequests
      /\ aspectJob' \in [Tickets -> AspectStates \cup {NotSubmitted}]
      /\ aspectActive' \in [AspectRequests -> 0 .. MaxTickets]
      /\ AspectRequestOK(aspectJob[t].request)
  BY TicketRow DEF AspectInv, AspectTypeOK
<1>2. aspectJob[t].status \notin {"queued", "running"} => aspectActive'[aspectJob[t].request] # t
  BY <1>1, TicketsAssumption DEF AspectRequestOK, Unended, Tickets
<1>3. aspectJob[t].status \in {"queued", "running"} /\ ~aspectJob[t].late => Running(t)
  BY DEF Running, Unended
<1> QED
  BY <1>1, <1>2, <1>3, TicketStep

LEMMA StartAspectInv ==
    ASSUME AspectInv, NEW t \in Tickets, StartAspect(t)
    PROVE  AspectInv'
<1>1. /\ UNCHANGED aspectPage /\ aspectPage \in [Tickets -> {"none", "polling", "timing"}]
      /\ TicketOK(t)
  BY TicketRow DEF StartAspect, AspectInv, AspectTypeOK
<1>2. PICK to \in {"none", "working"} :
        AspectProcess(t, "starting", to)
  BY DEF StartAspect
<1>3. /\ aspectWorker[t] = "starting" /\ aspectWorker'[t] = to
      /\ aspectWorker' \in [Tickets -> {"none", "starting", "working", "closing"}]
      /\ \A u \in Tickets : u # t => aspectWorker'[u] = aspectWorker[u]
  BY <1>2, ProcessRow
<1>4. Submitted(t) /\ aspectJob[t].status # "complete"
  BY <1>1, <1>3 DEF TicketOK
<1>5. CASE Expired(t)
  <2>1. FinishAspect(t, "failed") /\ "failed" \in AspectEnded
    BY <1>5 DEF StartAspect, AspectEnded
  <2> QED
    BY <1>1, <1>3, <1>4, <2>1, TicketEnds
<1>6. CASE ~Expired(t)
  <2>1. UNCHANGED <<aspectJob, aspectActive>>
    BY <1>6 DEF StartAspect
  <2> QED
    BY <1>1, <1>3, <1>4, <2>1, TicketStays
<1> QED
  BY <1>5, <1>6

LEMMA AspectExitInv ==
    ASSUME AspectInv, NEW t \in Tickets, AspectExit(t)
    PROVE  AspectInv'
<1>1. /\ UNCHANGED <<aspectJob, aspectActive, aspectPage>> /\ TicketOK(t)
      /\ aspectPage \in [Tickets -> {"none", "polling", "timing"}]
  BY TicketRow DEF AspectExit, AspectInv, AspectTypeOK
<1>2. PICK from \in {"starting", "working", "closing"} : AspectProcess(t, from, "none")
  BY DEF AspectExit
<1>3. /\ aspectWorker[t] = from /\ aspectWorker'[t] = "none"
      /\ aspectWorker' \in [Tickets -> {"none", "starting", "working", "closing"}]
      /\ \A u \in Tickets : u # t => aspectWorker'[u] = aspectWorker[u]
  BY <1>2, ProcessRow
<1>4. Submitted(t)
  BY <1>1, <1>2, <1>3 DEF TicketOK
<1> QED
  BY <1>1, <1>3, <1>4, TicketStays

LEMMA PollAspectInv ==
    ASSUME AspectInv, NEW t \in Tickets, PollAspect(t)
    PROVE  AspectInv'
<1>1. /\ UNCHANGED <<aspectJob, aspectActive, aspectWorker>> /\ TicketOK(t)
      /\ aspectWorker \in [Tickets -> {"none", "starting", "working", "closing"}]
      /\ aspectPage[t] = "polling"
  BY TicketRow DEF PollAspect, AspectInv, AspectTypeOK
<1>2. PICK to \in {"none", "polling", "timing"} : aspectPage' = [aspectPage EXCEPT ![t] = to]
  BY DEF PollAspect
<1>3. /\ aspectPage' \in [Tickets -> {"none", "polling", "timing"}]
      /\ \A u \in Tickets : u # t => aspectPage'[u] = aspectPage[u]
  BY <1>2, PageRow
<1>4. Submitted(t) /\ (aspectWorker[t] \in {"starting", "working"} => aspectJob[t].status # "complete")
  BY <1>1 DEF TicketOK
<1> QED
  BY <1>1, <1>3, <1>4, TicketStays

(* The row of a job that works on, or whose deadline passes.               *)
LEMMA AspectGoesOnInv ==
    ASSUME AspectInv, NEW t \in Tickets, AspectProgress(t) \/ AspectDeadlinePasses(t)
    PROVE  AspectInv'
<1>1. /\ UNCHANGED <<aspectActive, aspectWorker, aspectPage>> /\ TicketOK(t)
      /\ aspectWorker \in [Tickets -> {"none", "starting", "working", "closing"}]
      /\ aspectPage \in [Tickets -> {"none", "polling", "timing"}]
      /\ aspectActive \in [AspectRequests -> 0 .. MaxTickets]
      /\ aspectJob \in [Tickets -> AspectStates \cup {NotSubmitted}]
  BY TicketRow DEF AspectProgress, AspectDeadlinePasses, AspectInv, AspectTypeOK
<1>2. Submitted(t) /\ (aspectWorker[t] \in {"starting", "working"} => aspectJob[t].status # "complete")
  BY <1>1 DEF TicketOK, AspectProgress, AspectDeadlinePasses
<1>3. /\ aspectJob[t] \in AspectStates /\ aspectJob[t].request \in AspectRequests
      /\ aspectJob[t].late \in BOOLEAN
      /\ aspectJob[t].status \in {"queued", "running", "failed", "complete"}
      /\ AspectRequestOK(aspectJob[t].request)
  BY <1>2, TicketRow DEF AspectInv
<1>4. ~Unended(t) => aspectActive[aspectJob[t].request] # t
  BY <1>3, TicketsAssumption DEF AspectRequestOK, Tickets
<1>5. PICK row \in AspectStates :
        /\ aspectJob' = [aspectJob EXCEPT ![t] = row]
        /\ row.request = aspectJob[t].request
        /\ row.status \in {"queued", "running"} <=> Unended(t)
        /\ row.status = "complete" <=> aspectJob[t].status = "complete"
        /\ row.status \in {"queued", "running"} /\ ~row.late => Running(t)
  <2>1. CASE AspectProgress(t)
    <3> DEFINE row == [aspectJob[t] EXCEPT !.status = "running"]
    <3>1. /\ row \in AspectStates /\ row.request = aspectJob[t].request
          /\ row.status = "running" /\ row.late = aspectJob[t].late
          /\ aspectJob' = [aspectJob EXCEPT ![t] = row]
      BY <1>3, <2>1 DEF AspectStates, AspectProgress
    <3>2. Unended(t) /\ ~aspectJob[t].late
      BY <1>2, <1>3, <2>1 DEF AspectProgress, Unended, Expired
    <3> HIDE DEF row
    <3> QED
      BY <3>1, <3>2 DEF Running, Unended
  <2>2. CASE AspectDeadlinePasses(t)
    <3> DEFINE row == [aspectJob[t] EXCEPT !.late = TRUE]
    <3>1. /\ row \in AspectStates /\ row.request = aspectJob[t].request
          /\ row.status = aspectJob[t].status /\ row.late
          /\ aspectJob' = [aspectJob EXCEPT ![t] = row]
      BY <1>3, <2>2 DEF AspectStates, AspectDeadlinePasses
    <3> HIDE DEF row
    <3> QED
      BY <3>1 DEF Running, Unended
  <2> QED
    BY <2>1, <2>2
<1>6. /\ aspectJob' \in [Tickets -> AspectStates \cup {NotSubmitted}] /\ aspectJob'[t] = row
      /\ \A u \in Tickets : u # t => aspectJob'[u] = aspectJob[u]
  BY <1>1, <1>5
<1>7. /\ row.status \notin {"queued", "running"} => aspectActive'[row.request] # t
      /\ aspectWorker'[t] \in {"starting", "working"} => row.status # "complete"
  BY <1>1, <1>2, <1>4, <1>5
<1> QED
  BY <1>1, <1>2, <1>5, <1>6, <1>7, TicketStep

(* The entries kept on a submission are those of the jobs that run.        *)
LEMMA KeptAreRunning ==
    ASSUME AspectInv
    PROVE  /\ IsFiniteSet(AspectRunning) /\ IsFiniteSet(KeptEntries)
           /\ Cardinality(KeptEntries) = Cardinality(AspectRunning)
<1> DEFINE f == [t \in AspectRunning |-> aspectJob[t].request]
<1>1. IsFiniteSet(AspectRunning)
  <2>1. IsFiniteSet(Tickets) /\ AspectRunning \in SUBSET Tickets
    BY TicketsAssumption, FS_Interval DEF Tickets, AspectRunning
  <2> QED
    BY <2>1, FS_Subset
<1>2. ASSUME NEW t \in AspectRunning
      PROVE  /\ t \in Tickets /\ t # 0 /\ f[t] \in AspectRequests /\ aspectActive[f[t]] = t
             /\ f[t] \in KeptEntries
  <2>1. /\ t \in Tickets /\ Running(t) /\ TicketOK(t) /\ t # 0 /\ f[t] = aspectJob[t].request
    BY TicketRow, TicketsAssumption DEF AspectRunning, Tickets
  <2>2. f[t] \in AspectRequests /\ aspectActive[f[t]] = t /\ ~aspectJob[t].late
    BY <2>1, TicketRow DEF TicketOK, Running
  <2> QED
    BY <2>1, <2>2 DEF KeptEntries, KeptAspect
<1>3. ASSUME NEW q \in KeptEntries PROVE \E t \in AspectRunning : f[t] = q
  <2>1. /\ q \in AspectRequests /\ aspectActive[q] # 0 /\ ~aspectJob[aspectActive[q]].late
        /\ AspectRequestOK(q) /\ aspectActive[q] \in 0 .. MaxTickets
    BY DEF KeptEntries, KeptAspect, AspectInv, AspectTypeOK
  <2>2. aspectActive[q] \in AspectRunning /\ aspectJob[aspectActive[q]].request = q
    BY <2>1, TicketsAssumption DEF AspectRunning, Running, AspectRequestOK, Tickets
  <2> QED
    BY <2>2
<1>4. f \in [AspectRunning -> KeptEntries]
  BY <1>2
<1>5. f \in Surjection(AspectRunning, KeptEntries)
  BY <1>3, <1>4 DEF Surjection
<1>6. f \in Injection(AspectRunning, KeptEntries)
  <2>1. ASSUME NEW t \in AspectRunning, NEW u \in AspectRunning, f[t] = f[u] PROVE t = u
    BY <1>2, <2>1
  <2> HIDE DEF f
  <2> QED
    BY <1>4, <2>1 DEF Injection, IsInjective
<1> QED
  BY <1>1, <1>5, <1>6, FS_Surjection


(* A submission: a request without an entry has no job that runs, and as   *)
(* many run as there are entries kept.                                     *)
LEMMA SubmitAspectInv ==
    ASSUME AspectInv, NEW r \in AspectRequests, SubmitAspect(r)
    PROVE  AspectInv'
<1> DEFINE row == [request |-> r, status |-> "queued", late |-> FALSE]
<1>1. KeptAspect[r] = 0 /\ Cardinality(KeptEntries) < AspectLimit
  BY DEF SubmitAspect, KeptEntries
<1>2. PICK t \in Tickets :
        /\ ~Submitted(t)
        /\ aspectJob' = [aspectJob EXCEPT ![t] = row]
        /\ aspectActive' = [KeptAspect EXCEPT ![r] = t]
        /\ aspectWorker' = [aspectWorker EXCEPT ![t] = "starting"]
        /\ aspectPage' = [aspectPage EXCEPT ![t] = "polling"]
  BY DEF SubmitAspect
<1>3. /\ row \in AspectStates /\ row.request = r /\ row.status = "queued" /\ ~row.late
  BY DEF AspectStates
<1> HIDE DEF row
<1>4. /\ aspectJob' \in [Tickets -> AspectStates \cup {NotSubmitted}] /\ aspectJob'[t] = row
      /\ \A u \in Tickets : u # t => aspectJob'[u] = aspectJob[u]
      /\ aspectWorker' \in [Tickets -> {"none", "starting", "working", "closing"}]
      /\ \A u \in Tickets : u # t => aspectWorker'[u] = aspectWorker[u]
      /\ aspectPage' \in [Tickets -> {"none", "polling", "timing"}]
      /\ \A u \in Tickets : u # t => aspectPage'[u] = aspectPage[u]
  BY <1>2, <1>3 DEF AspectInv, AspectTypeOK
<1>5. /\ KeptAspect \in [AspectRequests -> 0 .. MaxTickets]
      /\ \A q \in AspectRequests :
           KeptAspect[q] = 0 \/ (KeptAspect[q] = aspectActive[q] /\ ~aspectJob[aspectActive[q]].late)
      /\ t \in 0 .. MaxTickets /\ t # 0
  BY TicketsAssumption DEF KeptAspect, AspectInv, AspectTypeOK, Tickets
<1>6. /\ aspectActive' \in [AspectRequests -> 0 .. MaxTickets] /\ aspectActive'[r] = t
      /\ \A q \in AspectRequests : q # r => aspectActive'[q] = KeptAspect[q]
  BY <1>2, <1>5
<1>7. AspectTypeOK'
  BY <1>4, <1>6 DEF AspectTypeOK
<1>8. ASSUME NEW u \in Tickets, u # t, Running(u)'
      PROVE  /\ Running(u) /\ aspectJob[u].request # r
             /\ aspectActive'[aspectJob[u].request] = u
  <2>1. Running(u) /\ ~aspectJob[u].late
    BY <1>4, <1>8 DEF Running, Unended
  <2>2. aspectJob[u].request \in AspectRequests /\ aspectActive[aspectJob[u].request] = u /\ u # 0
    BY <2>1, TicketRow, TicketsAssumption DEF TicketOK, Tickets
  <2>3. KeptAspect[aspectJob[u].request] = u
    BY <2>1, <2>2 DEF KeptAspect
  <2> QED
    BY <1>1, <1>6, <2>1, <2>2, <2>3
<1>9. ASSUME NEW u \in Tickets PROVE TicketOK(u)'
  <2>1. CASE u = t
    BY <1>3, <1>4, <1>6, <2>1 DEF TicketOK, Submitted
  <2>2. CASE u # t
    <3>1. TicketOK(u)
      BY TicketRow
    <3> QED
      BY <1>4, <1>8, <2>2, <3>1 DEF TicketOK, Submitted
  <2> QED
    BY <2>1, <2>2
<1>10. ASSUME NEW q \in AspectRequests PROVE AspectRequestOK(q)'
  <2>1. CASE q = r
    BY <1>3, <1>4, <1>6, <2>1 DEF AspectRequestOK, Unended
  <2>2. CASE q # r
    <3>1. SUFFICES ASSUME aspectActive'[q] # 0
                   PROVE  /\ Unended(aspectActive[q])' /\ aspectJob'[aspectActive'[q]].request = q
      BY DEF AspectRequestOK, Unended
    <3>2. aspectActive'[q] = aspectActive[q] /\ aspectActive[q] # 0
          /\ AspectRequestOK(q) /\ aspectActive[q] \in 0 .. MaxTickets
      BY <1>5, <1>6, <2>2, <3>1 DEF AspectInv, AspectTypeOK
    <3>3. /\ aspectActive[q] \in Tickets /\ Unended(aspectActive[q])
          /\ aspectJob[aspectActive[q]].request = q
      BY <3>2, TicketsAssumption DEF AspectRequestOK, Tickets
    <3>4. aspectActive[q] # t
      BY <1>2, <3>3 DEF Submitted, Unended
    <3>5. aspectJob'[aspectActive[q]] = aspectJob[aspectActive[q]]
      BY <1>4, <3>3, <3>4
    <3> QED
      BY <3>2, <3>3, <3>5 DEF Unended
  <2> QED
    BY <2>1, <2>2
<1>11. (Cardinality(AspectRunning) <= AspectLimit)'
  <2>1. /\ IsFiniteSet(AspectRunning) /\ Cardinality(AspectRunning) < AspectLimit
        /\ Cardinality(AspectRunning) \in Nat /\ AspectLimit \in Nat
    BY <1>1, KeptAreRunning, FS_CardinalityType, TicketsAssumption
  <2>2. /\ IsFiniteSet(AspectRunning \cup {t})
        /\ Cardinality(AspectRunning \cup {t}) <= AspectLimit
    <3>1. /\ IsFiniteSet(AspectRunning \cup {t})
          /\ \/ Cardinality(AspectRunning \cup {t}) = Cardinality(AspectRunning)
             \/ Cardinality(AspectRunning \cup {t}) = Cardinality(AspectRunning) + 1
      BY <2>1, FS_AddElement
    <3> QED
      BY <2>1, <3>1
  <2>3. AspectRunning' \in SUBSET (AspectRunning \cup {t})
    BY <1>8 DEF AspectRunning
  <2>4. /\ IsFiniteSet(AspectRunning')
        /\ Cardinality(AspectRunning') <= Cardinality(AspectRunning \cup {t})
    BY <2>2, <2>3, FS_Subset
  <2>5. Cardinality(AspectRunning') \in Nat /\ Cardinality(AspectRunning \cup {t}) \in Nat
    BY <2>2, <2>4, FS_CardinalityType
  <2> QED
    BY <2>1, <2>2, <2>4, <2>5
<1> QED
  BY <1>7, <1>9, <1>10, <1>11 DEF AspectInv

LEMMA AspectInductive ==
    /\ AspectInit => AspectInv
    /\ AspectInv /\ [AspectNext]_aspectVars => AspectInv'
<1>1. ASSUME AspectInit PROVE AspectInv
  <2>1. AspectTypeOK
    BY <1>1, TicketsAssumption DEF AspectInit, AspectTypeOK
  <2>2. ASSUME NEW t \in Tickets
        PROVE  ~Submitted(t) /\ ~Unended(t) /\ aspectWorker[t] = "none" /\ aspectPage[t] = "none"
    BY <1>1 DEF AspectInit, NotSubmitted, Submitted, Unended
  <2>3. \A t \in Tickets : TicketOK(t)
    BY <2>2 DEF TicketOK, Running
  <2>4. \A r \in AspectRequests : AspectRequestOK(r)
    BY <1>1 DEF AspectInit, AspectRequestOK
  <2>5. AspectRunning = {}
    BY <2>2 DEF AspectRunning, Running
  <2>6. Cardinality(AspectRunning) <= AspectLimit
    BY <2>5, FS_EmptySet, TicketsAssumption
  <2> QED
    BY <2>1, <2>3, <2>4, <2>6 DEF AspectInv
<1>2. ASSUME AspectInv, AspectNext PROVE AspectInv'
  <2>1. ASSUME NEW t \in Tickets,
               \/ AspectLaunchFails(t) \/ StartAspect(t) \/ AspectProgress(t) \/ ReportAspect(t)
               \/ ReportAspectFailure(t) \/ AspectExit(t)
               \/ PollAspect(t) \/ TimeOutAspect(t) \/ AspectDeadlinePasses(t)
        PROVE  AspectInv'
    BY <1>2, <2>1, AspectLaunchFailsInv, StartAspectInv, AspectGoesOnInv, ReportAspectInv,
       AspectExitInv, PollAspectInv, TimeOutAspectInv
  <2> QED
    BY <1>2, <2>1, SubmitAspectInv DEF AspectNext
<1>3. ASSUME AspectInv, UNCHANGED aspectVars PROVE AspectInv'
  BY <1>3 DEF aspectVars, AspectInv, AspectTypeOK, TicketOK, AspectRequestOK, Running, AspectRunning,
     Submitted, Unended
<1> QED
  BY <1>1, <1>2, <1>3

(* At most as many jobs run within their deadline as the limit allows, and *)
(* never two of one request, for any requests, limit and number of jobs.   *)
THEOREM AspectLimitKept == AspectSpec => []AspectBounded
<1>1. AspectInv => AspectBounded
  <2>1. SUFFICES ASSUME AspectInv
                 PROVE  /\ Cardinality(AspectRunning) <= AspectLimit
                        /\ \A t, u \in AspectRunning : aspectJob[t].request = aspectJob[u].request => t = u
    BY DEF AspectBounded, AspectRunning, Running
  <2>2. \A t \in AspectRunning : t \in Tickets /\ aspectActive[aspectJob[t].request] = t
    BY <2>1, TicketRow DEF AspectRunning, TicketOK
  <2> QED
    BY <2>1, <2>2 DEF AspectInv
<1> QED
  BY <1>1, AspectInductive, PTL DEF AspectSpec

-----------------------------------------------------------------------------
(* Sequences.                                                              *)
LEMMA AppendAt ==
    ASSUME NEW S, NEW s \in Seq(S), NEW e \in S
    PROVE  /\ Append(s, e) \in Seq(S) /\ Len(Append(s, e)) = Len(s) + 1
           /\ Len(s) \in Nat /\ DOMAIN s = 1 .. Len(s)
           /\ DOMAIN Append(s, e) = 1 .. Len(s) + 1
           /\ \A i \in 1 .. Len(s) : Append(s, e)[i] = s[i]
           /\ Append(s, e)[Len(s) + 1] = e
OBVIOUS

IsSeq(s) == \E S : s \in Seq(S)

LEMMA AppendAny ==
    ASSUME NEW s, IsSeq(s), NEW e
    PROVE  /\ IsSeq(Append(s, e)) /\ Len(Append(s, e)) = Len(s) + 1
           /\ Len(s) \in Nat /\ DOMAIN s = 1 .. Len(s)
           /\ DOMAIN Append(s, e) = 1 .. Len(s) + 1
           /\ \A i \in 1 .. Len(s) : Append(s, e)[i] = s[i]
           /\ Append(s, e)[Len(s) + 1] = e
<1>1. PICK S : s \in Seq(S)
  BY DEF IsSeq
<1>2. PICK T : T = S \cup {e}
  OBVIOUS
<1>3. s \in Seq(T) /\ e \in T
  BY <1>1, <1>2
<1> QED
  BY <1>3, AppendAt DEF IsSeq

(* A bounded set of numbers has a greatest one.                            *)
LEMMA GreatestExists ==
    ASSUME NEW S \in SUBSET Nat, S # {}, NEW n \in Nat, \A i \in S : i <= n
    PROVE  \E i \in S : \A k \in S : k <= i
<1>1. PICK T \in SUBSET Nat : T = {m \in Nat : \E i \in S : m = n - i}
  OBVIOUS
<1>2. T \subseteq Nat /\ T # {} /\ \A k \in S : n - k \in T
  <2>1. \A k \in S : k \in Nat /\ n - k \in Nat
    OBVIOUS
  <2>2. \A k \in S : n - k \in T
    BY <1>1, <2>1
  <2> QED
    BY <2>2
<1>3. PICK R : R = OpToRel(<, Nat)
  OBVIOUS
<1>4. PICK x \in T : \A y \in T : ~ (<<y, x>> \in R)
  BY <1>2, <1>3, NatLessThanWellFounded, WFMin
<1>5. \A a, b \in Nat : a < b => <<a, b>> \in R
  BY <1>3 DEF OpToRel
<1>6. \A y \in T : ~ (y < x)
  BY <1>2, <1>4, <1>5
<1>7. PICK i \in S : x = n - i
  BY <1>1
<1>8. \A k \in S : k <= i
  <2>1. SUFFICES ASSUME NEW k \in S PROVE k <= i
    OBVIOUS
  <2>2. ~ (n - k < n - i)
    BY <1>2, <1>6, <1>7
  <2>3. k \in Nat /\ i \in Nat
    OBVIOUS
  <2> QED
    BY <2>2, <2>3
<1> QED
  BY <1>8

-----------------------------------------------------------------------------
(* The pools of a run.  A pool that is not shut down is the one the        *)
(* session lends: whoever puts another in its place, discards a broken one *)
(* or ends the session shuts it down first.                                *)
PoolStates == {"open", "broken", "shut"}
Alive(ps) == {p \in DOMAIN ps : ps[p] # "shut"}

PoolInv ==
    /\ pools \in Seq(PoolStates)
    /\ Alive(pools) \subseteq {session.executor}
    /\ engine = "left" => Alive(pools) = {}

LEMMA ShutStates ==
    ASSUME NEW ps \in Seq(PoolStates), NEW P
    PROVE  /\ ShutIn(ps, P) \in Seq(PoolStates) /\ Len(ShutIn(ps, P)) = Len(ps)
           /\ Alive(ShutIn(ps, P)) = Alive(ps) \ P
<1>1. DOMAIN ps = 1 .. Len(ps) /\ Len(ps) \in Nat
  OBVIOUS
<1>2. \A p \in 1 .. Len(ps) : ShutIn(ps, P)[p] = IF p \in P THEN "shut" ELSE ps[p]
  BY <1>1 DEF ShutIn
<1>3. ShutIn(ps, P) \in [1 .. Len(ps) -> PoolStates]
  BY <1>1 DEF ShutIn, PoolStates
<1>4. ShutIn(ps, P) \in Seq(PoolStates) /\ Len(ShutIn(ps, P)) = Len(ps)
  BY <1>1, <1>3
<1> QED
  BY <1>1, <1>2, <1>3, <1>4 DEF Alive

LEMMA LentAlone ==
    ASSUME PoolInv, NEW w
    PROVE  /\ PoolsFor(w) \in Seq(PoolStates)
           /\ Alive(PoolsFor(w)) \subseteq {SessionFor(w).executor}
<1>1. CASE Lent(w)
  BY <1>1 DEF PoolsFor, SessionFor, PoolInv
<1>2. CASE ~Lent(w)
  <2>1. PICK ps : ps = ShutIn(pools, PutAside(w))
    OBVIOUS
  <2>2. /\ ps \in Seq(PoolStates) /\ Len(ps) = Len(pools)
        /\ Alive(ps) = Alive(pools) \ PutAside(w)
    BY <2>1, ShutStates DEF PoolInv
  <2>3. \A p \in DOMAIN pools : p # 0
    BY DEF PoolInv
  <2>4. Alive(ps) = {}
    BY <2>2, <2>3 DEF PutAside, PoolInv, Alive
  <2>5. /\ PoolsFor(w) = Append(ps, "open") /\ SessionFor(w).executor = Len(pools) + 1
    BY <1>2, <2>1 DEF PoolsFor, SessionFor
  <2>6. "open" \in PoolStates
    BY DEF PoolStates
  <2>7. /\ PoolsFor(w) \in Seq(PoolStates) /\ DOMAIN PoolsFor(w) = 1 .. Len(ps) + 1
        /\ DOMAIN ps = 1 .. Len(ps) /\ \A i \in 1 .. Len(ps) : PoolsFor(w)[i] = ps[i]
    BY <2>2, <2>5, <2>6, AppendAt
  <2> QED
    BY <2>2, <2>4, <2>5, <2>7 DEF Alive
<1> QED
  BY <1>1, <1>2

LEMMA PoolInductive == PoolInv /\ [PoolNext]_poolVars => PoolInv'
<1> SUFFICES ASSUME PoolInv, [PoolNext]_poolVars PROVE PoolInv'
  OBVIOUS
<1>1. ASSUME UNCHANGED <<pools, session>>, engine' # "left" \/ engine' = engine
      PROVE  PoolInv'
  BY <1>1 DEF PoolInv, Alive
<1>2. CASE \/ TakeExpiry \/ Streamed \/ WithdrawnWaiting \/ ExpiryFitted \/ NextProduct
           \/ Withdraw \/ (\E e \in Expiries : TaskEnds(e)) \/ UNCHANGED poolVars
  BY <1>1, <1>2 DEF TakeExpiry, Streamed, WithdrawnWaiting, ExpiryFitted, NextProduct, Withdraw,
     TaskEnds, poolVars
<1>3. ASSUME NEW w, pools' = PoolsFor(w), session' = SessionFor(w), engine' # "left"
      PROVE  PoolInv'
  BY <1>3, LentAlone DEF PoolInv
<1>4. CASE OpenStream
  <2>1. engine' # "left"
    BY <1>4 DEF OpenStream
  <2>2. \/ UNCHANGED <<pools, session>>
        \/ pools' = PoolsFor(budget.stream) /\ session' = SessionFor(budget.stream)
    BY <1>4 DEF OpenStream
  <2> QED
    BY <1>1, <1>3, <2>1, <2>2
<1>5. CASE SubmitStarts
  BY <1>3, <1>5 DEF SubmitStarts
<1>6. ASSUME NEW p, Discard(p), engine' # "left" PROVE PoolInv'
  <2>1. pools' = ShutIn(pools, {p}) /\ session' = IF session.executor = p THEN NoExecutor ELSE session
    BY <1>6 DEF Discard
  <2>2. pools' \in Seq(PoolStates) /\ Alive(pools') = Alive(pools) \ {p}
    BY <2>1, ShutStates DEF PoolInv
  <2> QED
    BY <1>6, <2>1, <2>2 DEF PoolInv
<1>7. CASE StreamLost \/ StartsLost
  BY <1>6, <1>7 DEF StreamLost, StartsLost
<1>8. CASE LeaveSession
  <2>1. pools' = ShutIn(pools, {session.executor})
    BY <1>8 DEF LeaveSession
  <2>2. pools' \in Seq(PoolStates) /\ Alive(pools') = {}
    BY <2>1, ShutStates DEF PoolInv
  <2> QED
    BY <2>2 DEF PoolInv
<1>9. ASSUME NEW p \in DOMAIN pools, PoolBreaks(p) PROVE PoolInv'
  <2>1. /\ pools[p] = "open" /\ pools' = [pools EXCEPT ![p] = "broken"]
        /\ UNCHANGED <<session, engine>>
    BY <1>9 DEF PoolBreaks
  <2>2. pools' \in Seq(PoolStates)
    BY <2>1 DEF PoolInv, PoolStates
  <2>3. Alive(pools') = Alive(pools)
    BY <2>1 DEF PoolInv, Alive
  <2> QED
    BY <2>1, <2>2, <2>3 DEF PoolInv
<1> QED
  BY <1>2, <1>4, <1>5, <1>7, <1>8, <1>9 DEF PoolNext

(* A run never has the processes of two pools at once, however its budgets *)
(* differ and its pools break, and none are left when its session ends.    *)
THEOREM OneBudget == PoolSpec => []OneComputeBudget
<1>1. PoolInit => PoolInv
  BY DEF PoolInit, PoolInv, Alive
<1>2. PoolInv => OneComputeBudget
  BY DEF PoolInv, Alive, OneComputeBudget
<1> QED
  BY <1>1, <1>2, PoolInductive, PTL DEF PoolSpec

\* The session lends a pool that exists, and nothing waits without a stream.
PoolTyped ==
    /\ PoolTypeOK /\ session.executor \in Nat
    /\ engine \in {"waiting", "fitting", "starting"} => expiry <= LastExpiry

LEMMA LentTyped ==
    ASSUME PoolInv, PoolTyped, NEW w, MayCreate(w)
    PROVE  /\ Len(PoolsFor(w)) <= MaxPools /\ Len(pools) <= Len(PoolsFor(w))
           /\ Len(PoolsFor(w)) \in Nat /\ PoolsFor(w) \in Seq(PoolStates)
           /\ SessionFor(w).executor \in 1 .. Len(PoolsFor(w))
<1>1. pools \in Seq(PoolStates) /\ Len(pools) \in Nat /\ Len(pools) <= MaxPools /\ MaxPools \in Nat
      /\ session.executor \in 0 .. Len(pools)
  BY FitPoolAssumption DEF PoolTyped, PoolTypeOK, PoolStates
<1>2. CASE Lent(w)
  BY <1>1, <1>2 DEF PoolsFor, SessionFor, Lent
<1>3. CASE ~Lent(w)
  <2>1. PICK ps : ps = ShutIn(pools, PutAside(w))
    OBVIOUS
  <2>2. ps \in Seq(PoolStates) /\ Len(ps) = Len(pools)
    BY <1>1, <2>1, ShutStates
  <2>3. PoolsFor(w) = Append(ps, "open") /\ SessionFor(w).executor = Len(pools) + 1 /\ "open" \in PoolStates
    BY <1>3, <2>1 DEF PoolsFor, SessionFor, PoolStates
  <2>4. Len(PoolsFor(w)) = Len(ps) + 1 /\ PoolsFor(w) \in Seq(PoolStates)
    BY <2>2, <2>3, AppendAt
  <2>5. Len(pools) < MaxPools
    BY <1>3 DEF MayCreate
  <2> QED
    BY <1>1, <2>2, <2>3, <2>4, <2>5
<1> QED
  BY <1>2, <1>3

\* What was lost with its pool.
LEMMA LostTyped ==
    ASSUME PoolTyped, NEW P
    PROVE  /\ LostIn(P) \in [Expiries -> {"none", "queued", "done", "lost"}]
           /\ stream = 0 => LostIn(P) = NothingExpected
  BY DEF LostIn, PoolTyped, PoolTypeOK, NothingExpected

LEMMA PoolTypedInductive == PoolInv /\ PoolTyped /\ [PoolNext]_poolVars => PoolTyped'
<1> SUFFICES ASSUME PoolInv, PoolTyped, [PoolNext]_poolVars PROVE PoolTyped'
  OBVIOUS
<1>1. /\ LastExpiry \in Nat /\ MaxProducts \in Nat /\ MaxPools \in Nat /\ pools \in Seq(PoolStates)
      /\ Len(pools) \in Nat /\ expiry \in Nat /\ product \in Nat /\ stream \in Nat
  BY FitPoolAssumption DEF PoolTyped, PoolTypeOK, PoolStates
<1>2. NothingExpected \in [Expiries -> {"none", "queued", "done", "lost"}]
  BY DEF NothingExpected
<1>3. \A ps \in Seq(PoolStates) : \A P : ShutIn(ps, P) \in Seq(PoolStates) /\ Len(ShutIn(ps, P)) = Len(ps)
  BY ShutStates
<1>4. CASE OpenStream
  <2>1. CASE (withdrawn /\ budget.stream > 1) \/ budget.stream = 1
    BY <1>1, <1>2, <1>4, <2>1 DEF OpenStream, PoolTyped, PoolTypeOK
  <2>2. CASE ~(withdrawn /\ budget.stream > 1) /\ budget.stream # 1
    <3>1. /\ MayCreate(budget.stream) /\ pools' = PoolsFor(budget.stream) /\ session' = SessionFor(budget.stream)
          /\ \/ stream' = session'.executor /\ expected' = [e \in Expiries |-> "queued"]
                /\ pools'[session'.executor] = "open"
             \/ stream' = 0 /\ expected' = NothingExpected
          /\ engine' = "next" /\ UNCHANGED <<budget, expiry, product>>
      BY <1>4, <2>2 DEF OpenStream
    <3>2. /\ Len(pools') <= MaxPools /\ Len(pools') \in Nat /\ pools' \in Seq(PoolStates)
          /\ session'.executor \in 1 .. Len(pools')
      BY <3>1, LentTyped
    <3>3. stream' \in 0 .. Len(pools') /\ expected' \in [Expiries -> {"none", "queued", "done", "lost"}]
      BY <1>2, <3>1, <3>2
    <3>4. stream' = 0 => expected' = NothingExpected
      BY <3>1, <3>2
    <3> QED
      BY <3>1, <3>2, <3>3, <3>4 DEF PoolTyped, PoolTypeOK, PoolStates
  <2> QED
    BY <2>1, <2>2
<1>5. CASE TakeExpiry \/ WithdrawnWaiting \/ Withdraw \/ UNCHANGED poolVars
  BY <1>1, <1>2, <1>5 DEF TakeExpiry, WithdrawnWaiting, Withdraw, poolVars, PoolTyped, PoolTypeOK
<1>6. CASE Streamed \/ ExpiryFitted
  BY <1>1, <1>6 DEF Streamed, ExpiryFitted, PoolTyped, PoolTypeOK, NothingExpected
<1>7. CASE NextProduct
  BY <1>1, <1>2, <1>7 DEF NextProduct, PoolTyped, PoolTypeOK
<1>8. ASSUME NEW p, Discard(p)
      PROVE  /\ pools' \in Seq(PoolStates) /\ Len(pools') = Len(pools)
             /\ session'.executor \in 0 .. Len(pools') /\ session'.executor \in Nat
  BY <1>1, <1>3, <1>8 DEF Discard, NoExecutor, PoolTyped, PoolTypeOK
<1>9. CASE StreamLost
  BY <1>1, <1>2, <1>8, <1>9 DEF StreamLost, PoolTyped, PoolTypeOK, PoolStates
<1>10. CASE SubmitStarts
  <2>1. /\ MayCreate(budget.start) /\ pools' = PoolsFor(budget.start) /\ session' = SessionFor(budget.start)
        /\ expected' \in {expected, LostIn(PutAside(budget.start))}
        /\ engine = "fitting" /\ engine' = "starting" /\ UNCHANGED <<budget, stream, expiry, product>>
    BY <1>10 DEF SubmitStarts, ExpectedFor
  <2>2. /\ Len(pools') <= MaxPools /\ Len(pools') \in Nat /\ pools' \in Seq(PoolStates)
        /\ session'.executor \in 0 .. Len(pools') /\ Len(pools) <= Len(pools')
    BY <2>1, LentTyped
  <2>3. /\ expected' \in [Expiries -> {"none", "queued", "done", "lost"}]
        /\ stream = 0 => expected' = NothingExpected
    BY <2>1, LostTyped DEF PoolTyped, PoolTypeOK
  <2> QED
    BY <1>1, <2>1, <2>2, <2>3 DEF PoolTyped, PoolTypeOK, PoolStates
<1>11. CASE StartsLost
  <2>1. /\ Discard(session.executor) /\ expected' = LostIn({session.executor}) /\ engine = "starting"
        /\ (engine' = "next" /\ expiry' = expiry + 1) \/ (engine' = "leaving" /\ expiry' = expiry)
        /\ UNCHANGED <<budget, stream, product>>
    BY <1>11 DEF StartsLost
  <2>2. /\ expected' \in [Expiries -> {"none", "queued", "done", "lost"}]
        /\ stream = 0 => expected' = NothingExpected
    BY <2>1, LostTyped
  <2>3. expiry' \in 1 .. LastExpiry + 1
    BY <1>1, <2>1 DEF PoolTyped, PoolTypeOK
  <2> QED
    BY <1>1, <1>8, <2>1, <2>2, <2>3 DEF PoolTyped, PoolTypeOK, PoolStates
<1>12. CASE LeaveSession
  BY <1>1, <1>2, <1>3, <1>12 DEF LeaveSession, NoExecutor, PoolTyped, PoolTypeOK, PoolStates
<1>13. ASSUME NEW e \in Expiries, TaskEnds(e) PROVE PoolTyped'
  BY <1>13 DEF TaskEnds, PoolTyped, PoolTypeOK, NothingExpected
<1>14. ASSUME NEW p \in DOMAIN pools, PoolBreaks(p) PROVE PoolTyped'
  <2>1. pools' \in Seq(PoolStates) /\ Len(pools') = Len(pools)
    BY <1>1, <1>14 DEF PoolBreaks, PoolStates
  <2>2. /\ expected' \in [Expiries -> {"none", "queued", "done", "lost"}]
        /\ stream = 0 => expected' = NothingExpected
    BY <1>14, LostTyped DEF PoolBreaks
  <2> QED
    BY <1>14, <2>1, <2>2 DEF PoolBreaks, PoolTyped, PoolTypeOK, PoolStates
<1> QED
  BY <1>4, <1>5, <1>6, <1>7, <1>9, <1>10, <1>11, <1>12, <1>13, <1>14 DEF PoolNext

(* The session lends a pool that exists, and the stream waits on one.      *)
LEMMA PoolIsTyped == PoolSpec => []PoolTypeOK
<1>1. PoolInit => PoolInv /\ PoolTyped
  BY FitPoolAssumption DEF PoolInit, PoolInv, Alive, PoolTyped, PoolTypeOK, NoExecutor, NothingExpected
<1>2. PoolTyped => PoolTypeOK
  BY DEF PoolTyped
<1> QED
  BY <1>1, <1>2, PoolInductive, PoolTypedInductive, PTL DEF PoolSpec

-----------------------------------------------------------------------------
(* The reviews of ICE quotes.  A fit belongs to one selection, through the *)
(* record, the future, or the request that is about to launch it; and the  *)
(* record that still says running has one of those who work on it.         *)

Working(k) == review[k].status = "running" /\ review[k].owned

Attended(k) ==
    \/ fit[review[k].run] \in {"queued", "fitting"}
    \/ \E e \in Editors : Request(e, "launch") /\ editor[e].run = review[k].run
    \/ \E e \in Editors : Request(e, "mark") /\ subscription[e] = k

FitOf(r, k) ==
    \/ RunOf(k) = r \/ future[k] = r
    \/ \E e \in Editors : Request(e, "launch") /\ editor[e].run = r /\ editor[e].for = k

FitsOK ==
    \A r \in Fits, k \in Selections : FitOf(r, k) =>
        fit[r] # "none" /\ \A j \in Selections : FitOf(r, j) => j = k

RequestsOK ==
    \A e \in Editors :
        /\ editor[e].pc \in {"leave", "cancel", "mark"} => subscription[e] \in Selections
        /\ editor[e].pc # "idle" => editor[e].for \in Selections
        /\ editor[e].pc = "launch" => editor[e].run \in Fits

WorkOK == \A k \in Selections : Working(k) => review[k].run \in Fits /\ Attended(k)

QuoteInv == ReviewTypeOK /\ RequestsOK /\ FitsOK /\ WorkOK

LEMMA FitsKept ==
    ASSUME QuoteInv,
           \A r \in Fits : fit[r] # "none" => fit'[r] # "none",
           \A r \in Fits, k \in Selections : FitOf(r, k)' => FitOf(r, k)
    PROVE  FitsOK'
BY DEF QuoteInv, FitsOK

\* Steps that end no fit, no launch and no cancellation.
LEMMA QuietStep ==
    ASSUME QuoteInv,
           \A r \in Fits : /\ fit[r] # "none" => fit'[r] # "none"
                           /\ fit[r] \in {"queued", "fitting"} => fit'[r] \in {"queued", "fitting"},
           \A k \in Selections : /\ future'[k] \in {future[k], 0}
                                 /\ RunOf(k)' \in {RunOf(k), 0}
                                 /\ Working(k)' => Working(k) /\ review'[k].run = review[k].run,
           \A e \in Editors :
             /\ editor'[e].pc = "launch" <=> editor[e].pc = "launch"
             /\ editor[e].pc = "launch" =>
                  editor'[e].run = editor[e].run /\ editor'[e].for = editor[e].for
             /\ editor[e].pc = "mark" => editor'[e].pc = "mark" /\ subscription'[e] = subscription[e]
    PROVE  FitsOK' /\ WorkOK'
<1>1. \A r \in Fits, k \in Selections : FitOf(r, k)' => FitOf(r, k)
  <2>1. ASSUME NEW r \in Fits, NEW k \in Selections, FitOf(r, k)' PROVE FitOf(r, k)
    <3>1. RunOf(k)' # r \/ RunOf(k) = r
      BY DEF Fits
    <3>2. future'[k] # r \/ future[k] = r
      BY DEF Fits
    <3> QED
      BY <2>1, <3>1, <3>2 DEF FitOf, Request
  <2> QED
    BY <2>1
<1>2. FitsOK'
  BY <1>1, FitsKept
<1>3. ASSUME NEW k \in Selections, Working(k)' PROVE review'[k].run \in Fits /\ Attended(k)'
  <2>1. Working(k) /\ review'[k].run = review[k].run
    BY <1>3
  <2>2. review[k].run \in Fits /\ Attended(k)
    BY <2>1 DEF QuoteInv, WorkOK
  <2>3. CASE fit[review[k].run] \in {"queued", "fitting"}
    BY <2>1, <2>2, <2>3 DEF Attended
  <2>4. ASSUME NEW e \in Editors, Request(e, "launch"), editor[e].run = review[k].run
        PROVE  Attended(k)'
    BY <2>1, <2>4 DEF Attended, Request
  <2>5. ASSUME NEW e \in Editors, Request(e, "mark"), subscription[e] = k PROVE Attended(k)'
    BY <2>5 DEF Attended, Request
  <2> QED
    BY <2>1, <2>2, <2>3, <2>4, <2>5 DEF Attended
<1> QED
  BY <1>2, <1>3 DEF WorkOK

LEMMA HeldReview ==
    ASSUME ReviewTypeOK, NEW k \in Selections, Held(k)
    PROVE  review[k] \in Reviews
BY DEF ReviewTypeOK, Held, NoReview

\* A request that moves on between its first four steps, or polls.
LEMMA RequestQuiet ==
    ASSUME QuoteInv, NEW e \in Editors, NEW row \in Requests, RequestTo(e, row),
           UNCHANGED <<fit, future>>,
           \A k \in Selections : /\ RunOf(k)' \in {RunOf(k), 0}
                                 /\ Working(k)' => Working(k) /\ review'[k].run = review[k].run,
           \A x \in Editors : x # e => subscription'[x] = subscription[x],
           \/ editor[e].pc \notin {"mark", "launch"} /\ row.pc # "launch"
           \/ row.pc = editor[e].pc /\ row.run = editor[e].run /\ row.for = editor[e].for
                /\ subscription' = subscription
    PROVE  FitsOK' /\ WorkOK'
<1>1. editor \in [Editors -> Requests] /\ editor' = [editor EXCEPT ![e] = row]
  BY DEF QuoteInv, ReviewTypeOK, RequestTo
<1>2. editor'[e] = row /\ \A x \in Editors : x # e => editor'[x] = editor[x]
  BY <1>1
<1> QED
  BY <1>2, QuietStep

LEMMA AskQuoteInv ==
    ASSUME QuoteInv, NEW e \in Editors, NEW k \in Selections, AskReview(e, k) PROVE QuoteInv'
<1>1. PICK row : row = [editor[e] EXCEPT !.for = k, !.deserted = FALSE,
        !.pc = IF subscription[e] \in {NoSelection, k} THEN "subscribe" ELSE "leave"]
  OBVIOUS
<1>2. editor[e] \in Requests
  BY DEF QuoteInv, ReviewTypeOK
<1>3. /\ row \in Requests /\ row.for = k
      /\ row.pc = IF subscription[e] \in {NoSelection, k} THEN "subscribe" ELSE "leave"
  BY <1>1, <1>2 DEF Requests
<1>4. /\ RequestTo(e, row) /\ editor[e].pc = "idle"
      /\ UNCHANGED <<review, reviewLock, subscription, future, fit, guardHolder>>
  BY <1>1 DEF AskReview, Request
<1>5. editor' = [editor EXCEPT ![e] = row] /\ editor \in [Editors -> Requests]
  BY <1>4 DEF RequestTo, QuoteInv, ReviewTypeOK
<1>6. FitsOK' /\ WorkOK'
  BY <1>3, <1>4, RequestQuiet DEF RunOf, Held, Working
<1>7. ReviewTypeOK'
  BY <1>3, <1>4, <1>5 DEF QuoteInv, ReviewTypeOK
<1>8. RequestsOK'
  <2>1. subscription[e] \in Selections \cup {NoSelection}
    BY DEF QuoteInv, ReviewTypeOK
  <2> QED
    BY <1>3, <1>4, <1>5, <2>1 DEF QuoteInv, RequestsOK
<1> QED
  BY <1>6, <1>7, <1>8 DEF QuoteInv

LEMMA LeaveQuoteInv ==
    ASSUME QuoteInv, NEW e \in Editors, LeaveReview(e) PROVE QuoteInv'
<1>1. PICK old : old = subscription[e]
  OBVIOUS
<1>2. PICK left : left = IF Held(old) THEN review[old].subscribers \ {e} ELSE {}
  OBVIOUS
<1>3. PICK row : row = [editor[e] EXCEPT !.pc = "cancel", !.deserted = (left = {})]
  OBVIOUS
<1>4. /\ editor[e].pc = "leave" /\ RequestTo(e, row)
      /\ review' = [review EXCEPT ![old] =
            IF Held(old) THEN [review[old] EXCEPT !.subscribers = left] ELSE review[old]]
      /\ UNCHANGED <<reviewLock, subscription, future, fit, guardHolder>>
  BY <1>1, <1>2, <1>3 DEF LeaveReview, Request
<1>5. old \in Selections /\ editor[e] \in Requests
  BY <1>1, <1>4 DEF QuoteInv, RequestsOK, ReviewTypeOK
<1>6. row \in Requests /\ row.pc = "cancel" /\ row.for = editor[e].for /\ row.run = editor[e].run
  BY <1>3, <1>5 DEF Requests
<1>7. PICK new : new = IF Held(old) THEN [review[old] EXCEPT !.subscribers = left] ELSE review[old]
  OBVIOUS
<1>8. /\ review' = [review EXCEPT ![old] = new] /\ review \in [Selections -> Reviews \cup {NoReview}]
      /\ editor' = [editor EXCEPT ![e] = row] /\ editor \in [Editors -> Requests]
  BY <1>4, <1>7 DEF RequestTo, QuoteInv, ReviewTypeOK
<1>9. /\ new \in Reviews \cup {NoReview} /\ new.status = review[old].status
      /\ Held(old) => new.run = review[old].run /\ new.owned = review[old].owned
      /\ ~Held(old) => new = review[old]
  <2>1. CASE Held(old)
    <3>1. review[old] \in Reviews
      BY <1>5, <2>1, HeldReview DEF QuoteInv
    <3>2. left \in SUBSET Editors
      BY <1>2, <2>1, <3>1 DEF Reviews
    <3> QED
      BY <1>7, <2>1, <3>1, <3>2 DEF Reviews
  <2>2. CASE ~Held(old)
    BY <1>5, <1>7, <1>8, <2>2
  <2> QED
    BY <2>1, <2>2
<1>10. /\ review'[old] = new /\ \A k \in Selections : k # old => review'[k] = review[k]
       /\ review' \in [Selections -> Reviews \cup {NoReview}]
  BY <1>5, <1>8, <1>9
<1>11. \A k \in Selections : /\ RunOf(k)' \in {RunOf(k), 0}
                             /\ Working(k)' => Working(k) /\ review'[k].run = review[k].run
  BY <1>9, <1>10 DEF RunOf, Held, Working
<1>12. FitsOK' /\ WorkOK'
  BY <1>4, <1>6, <1>11, RequestQuiet
<1>13. ReviewTypeOK'
  BY <1>4, <1>6, <1>8, <1>10 DEF QuoteInv, ReviewTypeOK
<1>14. RequestsOK'
  BY <1>4, <1>6, <1>8 DEF QuoteInv, RequestsOK
<1> QED
  BY <1>12, <1>13, <1>14 DEF QuoteInv

LEMMA RestingRequest ==
    ASSUME NEW t \in 0 .. MaxReviews
    PROVE  /\ [AtRest EXCEPT !.ticket = t] \in Requests
           /\ [AtRest EXCEPT !.ticket = t].pc = "idle" /\ AtRest \in Requests
           /\ AtRest.pc = "idle"
<1>1. 0 \in 0 .. MaxReviews
  BY ReviewsAssumption
<1>2. PICK a : a = AtRest
  OBVIOUS
<1>3. a \in Requests /\ a.pc = "idle"
  BY <1>1, <1>2 DEF AtRest, Requests
<1>4. [a EXCEPT !.ticket = t] \in Requests /\ [a EXCEPT !.ticket = t].pc = "idle"
  BY <1>3 DEF Requests
<1> QED
  BY <1>2, <1>3, <1>4

\* A request that moves on and changes nothing but itself.
LEMMA RequestOnly ==
    ASSUME QuoteInv, NEW e \in Editors, NEW row \in Requests, RequestTo(e, row),
           UNCHANGED <<review, reviewLock, subscription, future, fit, guardHolder>>,
           editor[e].pc \notin {"idle", "mark", "launch"}, row.pc = "subscribe",
           row.for = editor[e].for
    PROVE  QuoteInv'
<1>1. editor' = [editor EXCEPT ![e] = row] /\ editor \in [Editors -> Requests]
  BY DEF RequestTo, QuoteInv, ReviewTypeOK
<1>2. FitsOK' /\ WorkOK'
  BY RequestQuiet DEF RunOf, Held, Working
<1>3. ReviewTypeOK'
  BY <1>1 DEF QuoteInv, ReviewTypeOK
<1>4. RequestsOK'
  BY <1>1 DEF QuoteInv, RequestsOK
<1> QED
  BY <1>2, <1>3, <1>4 DEF QuoteInv

LEMMA CancelLeftInv ==
    ASSUME QuoteInv, NEW e \in Editors, CancelLeft(e) PROVE QuoteInv'
<1>1. PICK r : r = future[subscription[e]]
  OBVIOUS
<1>2. /\ editor[e].pc = "cancel" /\ guardHolder = Nobody
      /\ UNCHANGED <<review, reviewLock, subscription>>
  BY DEF CancelLeft, Request
<1>3. editor[e] \in Requests /\ subscription[e] \in Selections
  BY <1>2 DEF QuoteInv, ReviewTypeOK, RequestsOK
<1>4. CASE r # 0 /\ editor[e].deserted /\ fit[r] = "queued"
  <2>1. PICK row : row = [editor[e] EXCEPT !.pc = "mark"]
    OBVIOUS
  <2>2. row \in Requests /\ row.pc = "mark" /\ row.for = editor[e].for /\ row.run = editor[e].run
    BY <1>3, <2>1 DEF Requests
  <2>3. /\ fit' = [fit EXCEPT ![r] = "over"] /\ future' = Forgotten(r) /\ guardHolder' = e
        /\ editor' = [editor EXCEPT ![e] = row]
    BY <1>1, <1>4, <2>1 DEF CancelLeft, ToTheRecord, RequestTo
  <2>4. /\ editor \in [Editors -> Requests] /\ fit \in [Fits -> {"none", "made", "queued", "fitting", "over"}]
        /\ future \in [Selections -> 0 .. MaxReviews] /\ r \in Fits
    BY <1>1, <1>3, <1>4, ReviewsAssumption DEF QuoteInv, ReviewTypeOK, Fits
  <2>5. ReviewTypeOK'
    <3>1. future' \in [Selections -> 0 .. MaxReviews]
      BY <2>3, <2>4, ReviewsAssumption DEF Forgotten
    <3>2. fit' \in [Fits -> {"none", "made", "queued", "fitting", "over"}]
      BY <2>3, <2>4
    <3> QED
      BY <1>2, <2>2, <2>3, <2>4, <3>1, <3>2 DEF QuoteInv, ReviewTypeOK
  <2>6. RequestsOK'
    BY <1>2, <1>3, <2>2, <2>3, <2>4 DEF QuoteInv, RequestsOK
  <2>7. FitsOK'
    <3>1. \A q \in Fits : fit[q] # "none" => fit'[q] # "none"
      BY <2>3, <2>4
    <3>2. ASSUME NEW q \in Fits, NEW k \in Selections, FitOf(q, k)' PROVE FitOf(q, k)
      <4>1. RunOf(k)' = q => RunOf(k) = q
        BY <1>2 DEF RunOf, Held
      <4>2. future'[k] = q => future[k] = q
        BY <2>3 DEF Forgotten, Fits
      <4>3. ASSUME NEW x \in Editors, editor'[x].pc = "launch" PROVE editor'[x] = editor[x]
        BY <2>2, <2>3, <2>4, <4>3
      <4> QED
        BY <3>2, <4>1, <4>2, <4>3 DEF FitOf, Request
    <3> QED
      BY <3>1, <3>2, FitsKept
  <2>8. ASSUME NEW k \in Selections, Working(k)' PROVE review'[k].run \in Fits /\ Attended(k)'
    <3>1. Working(k) /\ review'[k].run = review[k].run /\ review[k].run \in Fits /\ Attended(k)
      BY <1>2, <2>8 DEF Working, QuoteInv, WorkOK
    <3>2. CASE k = subscription[e]
      <4>1. Request(e, "mark")' /\ subscription'[e] = k
        BY <1>2, <2>2, <2>3, <2>4, <3>2 DEF Request
      <4> QED
        BY <3>1, <4>1 DEF Attended
    <3>3. CASE k # subscription[e]
      <4>1. review[k].run # r
        <5>1. FitOf(r, subscription[e])
          BY <1>1 DEF FitOf
        <5>2. RunOf(k) = review[k].run
          BY <3>1 DEF RunOf, Held, Working
        <5> QED
          BY <1>3, <2>4, <3>3, <5>1, <5>2 DEF FitOf, FitsOK, QuoteInv
      <4>2. fit'[review[k].run] = fit[review[k].run]
        BY <2>3, <2>4, <3>1, <4>1
      <4>3. \A x \in Editors : editor[x].pc \in {"launch", "mark"} => editor'[x] = editor[x]
        BY <1>2, <2>3, <2>4
      <4> QED
        BY <1>2, <3>1, <4>2, <4>3 DEF Attended, Request
    <3> QED
      BY <3>2, <3>3
  <2> QED
    BY <2>5, <2>6, <2>7, <2>8 DEF QuoteInv, WorkOK
<1>5. CASE ~(r # 0 /\ editor[e].deserted /\ fit[r] = "queued")
  <2>1. PICK row : row = [editor[e] EXCEPT !.pc = "subscribe"]
    OBVIOUS
  <2>2. row \in Requests /\ row.pc = "subscribe" /\ row.for = editor[e].for
    BY <1>3, <2>1 DEF Requests
  <2>3. RequestTo(e, row) /\ UNCHANGED <<future, fit, guardHolder>>
    BY <1>1, <1>5, <2>1 DEF CancelLeft
  <2> QED
    BY <1>2, <2>2, <2>3, RequestOnly
<1> QED
  BY <1>4, <1>5

LEMMA MarkCancelledInv ==
    ASSUME QuoteInv, NEW e \in Editors, MarkCancelled(e) PROVE QuoteInv'
<1>1. PICK old : old = subscription[e]
  OBVIOUS
<1>2. PICK new : new = IF Held(old) THEN [review[old] EXCEPT !.status = "cancelled"]
                       ELSE [run |-> 0, status |-> "cancelled", subscribers |-> {}, owned |-> FALSE]
  OBVIOUS
<1>3. PICK row : row = [editor[e] EXCEPT !.pc = "subscribe"]
  OBVIOUS
<1>4. /\ editor[e].pc = "mark" /\ review' = [review EXCEPT ![old] = new]
      /\ editor' = [editor EXCEPT ![e] = row] /\ guardHolder' = Nobody
      /\ UNCHANGED <<reviewLock, subscription, future, fit>>
  <2>1. review' = [review EXCEPT ![old] =
              IF Held(old) THEN [review[old] EXCEPT !.status = "cancelled"]
              ELSE [run |-> 0, status |-> "cancelled", subscribers |-> {}, owned |-> FALSE]]
    BY <1>1 DEF MarkCancelled
  <2> QED
    BY <1>2, <1>3, <2>1 DEF MarkCancelled, Request, RequestTo
<1>5. /\ old \in Selections /\ editor[e] \in Requests /\ editor \in [Editors -> Requests]
      /\ review \in [Selections -> Reviews \cup {NoReview}]
  BY <1>1, <1>4 DEF QuoteInv, RequestsOK, ReviewTypeOK
<1>6. row \in Requests /\ row.pc = "subscribe" /\ row.for = editor[e].for
  BY <1>3, <1>5 DEF Requests
<1>7. new \in Reviews /\ new.status = "cancelled" /\ new.run \in {RunOf(old), 0}
  <2>1. CASE Held(old)
    <3>1. review[old] \in Reviews
      BY <1>5, <2>1, HeldReview DEF QuoteInv
    <3> QED
      BY <1>2, <2>1, <3>1 DEF Reviews, RunOf
  <2>2. CASE ~Held(old)
    BY <1>2, <2>2, ReviewsAssumption DEF Reviews
  <2> QED
    BY <2>1, <2>2
<1>8. /\ review'[old] = new /\ \A k \in Selections : k # old => review'[k] = review[k]
      /\ review' \in [Selections -> Reviews \cup {NoReview}]
  BY <1>4, <1>5, <1>7
<1>9. ReviewTypeOK' /\ RequestsOK'
  <2>1. ReviewTypeOK'
    BY <1>4, <1>5, <1>6, <1>8 DEF QuoteInv, ReviewTypeOK
  <2>2. RequestsOK'
    BY <1>4, <1>5, <1>6 DEF QuoteInv, RequestsOK
  <2> QED
    BY <2>1, <2>2
<1>10. FitsOK'
  <2>1. ASSUME NEW q \in Fits, NEW k \in Selections, FitOf(q, k)' PROVE FitOf(q, k)
    <3>1. RunOf(k)' = q => RunOf(k) = q
      BY <1>7, <1>8 DEF RunOf, Held, Fits
    <3>2. ASSUME NEW x \in Editors, editor'[x].pc = "launch" PROVE editor'[x] = editor[x]
      BY <1>4, <1>5, <1>6, <3>2
    <3> QED
      BY <1>4, <2>1, <3>1, <3>2 DEF FitOf, Request
  <2> QED
    BY <1>4, <2>1, FitsKept
<1>11. ASSUME NEW k \in Selections, Working(k)' PROVE review'[k].run \in Fits /\ Attended(k)'
  <2>1. k # old
    BY <1>7, <1>8, <1>11 DEF Working
  <2>2. Working(k) /\ review'[k] = review[k] /\ review[k].run \in Fits /\ Attended(k)
    BY <1>8, <1>11, <2>1 DEF Working, QuoteInv, WorkOK
  <2>3. \A x \in Editors : x # e => editor'[x] = editor[x]
    BY <1>4, <1>5
  <2>4. ~Request(e, "launch") /\ subscription[e] # k
    BY <1>1, <1>4, <2>1 DEF Request
  <2> QED
    BY <1>4, <2>2, <2>3, <2>4 DEF Attended, Request
<1> QED
  BY <1>9, <1>10, <1>11 DEF QuoteInv, WorkOK

LEMMA JoinQuoteInv ==
    ASSUME QuoteInv, NEW e \in Editors, JoinReview(e) PROVE QuoteInv'
<1>1. PICK k \in Selections : k = editor[e].for
  BY DEF QuoteInv, RequestsOK, JoinReview, Request
<1>2. /\ editor[e].pc = "subscribe" /\ Held(k)
      /\ subscription' = [subscription EXCEPT ![e] = k]
      /\ review' = [review EXCEPT ![k].subscribers = review[k].subscribers \cup {e}]
      /\ RequestTo(e, [AtRest EXCEPT !.ticket = review[k].run])
      /\ UNCHANGED <<reviewLock, future, fit, guardHolder>>
  BY <1>1 DEF JoinReview, Request, Replaced
<1>3. review[k] \in Reviews /\ review \in [Selections -> Reviews \cup {NoReview}]
  BY <1>2, HeldReview DEF QuoteInv, ReviewTypeOK
<1>4. PICK new : new = [review[k] EXCEPT !.subscribers = review[k].subscribers \cup {e}]
  OBVIOUS
<1>5. /\ new \in Reviews /\ new.status = review[k].status /\ new.run = review[k].run
      /\ new.owned = review[k].owned
  BY <1>3, <1>4 DEF Reviews
<1>6. /\ review' = [review EXCEPT ![k] = new] /\ review'[k] = new
      /\ \A j \in Selections : j # k => review'[j] = review[j]
      /\ review' \in [Selections -> Reviews \cup {NoReview}]
  BY <1>2, <1>3, <1>4, <1>5
<1>7. PICK row : row = [AtRest EXCEPT !.ticket = review[k].run]
  OBVIOUS
<1>8. row \in Requests /\ row.pc = "idle"
  BY <1>3, <1>7, RestingRequest DEF Reviews
<1>9. /\ editor' = [editor EXCEPT ![e] = row] /\ editor \in [Editors -> Requests]
      /\ subscription \in [Editors -> Selections \cup {NoSelection}]
  BY <1>2, <1>7 DEF RequestTo, QuoteInv, ReviewTypeOK
<1>10. \A j \in Selections : /\ RunOf(j)' \in {RunOf(j), 0}
                             /\ Working(j)' => Working(j) /\ review'[j].run = review[j].run
  BY <1>5, <1>6 DEF RunOf, Held, Working
<1>11. FitsOK' /\ WorkOK'
  <2>1. \A x \in Editors : x # e => subscription'[x] = subscription[x]
    BY <1>2, <1>9
  <2> QED
    BY <1>2, <1>7, <1>8, <1>10, <2>1, RequestQuiet
<1>12. ReviewTypeOK'
  BY <1>2, <1>6, <1>8, <1>9 DEF QuoteInv, ReviewTypeOK
<1>13. RequestsOK'
  <2>1. \A x \in Editors : x # e => editor'[x] = editor[x] /\ subscription'[x] = subscription[x]
    BY <1>2, <1>9
  <2>2. editor'[e].pc = "idle"
    BY <1>8, <1>9
  <2> QED
    BY <2>1, <2>2 DEF QuoteInv, RequestsOK
<1> QED
  BY <1>11, <1>12, <1>13 DEF QuoteInv

LEMMA ReplaceQuoteInv ==
    ASSUME QuoteInv, NEW e \in Editors, ReplaceReview(e) PROVE QuoteInv'
<1>1. PICK k \in Selections : k = editor[e].for
  BY DEF QuoteInv, RequestsOK, ReplaceReview, Request
<1>2. PICK r \in NextFit :
        /\ review' = [review EXCEPT ![k] = [run |-> r, status |-> "running", subscribers |-> {e},
                                            owned |-> TRUE]]
        /\ fit' = [fit EXCEPT ![r] = "made"]
        /\ RequestTo(e, [editor[e] EXCEPT !.pc = "launch", !.run = r])
  BY <1>1 DEF ReplaceReview
<1>3. /\ editor[e].pc = "subscribe" /\ editor[e].for = k
      /\ subscription' = [subscription EXCEPT ![e] = k]
      /\ reviewLock' = [reviewLock EXCEPT ![k] = e]
      /\ UNCHANGED <<future, guardHolder>>
  BY <1>1 DEF ReplaceReview, Request
<1>4. /\ r \in Fits /\ fit[r] = "none" /\ r \in 0 .. MaxReviews
      /\ editor[e] \in Requests /\ editor \in [Editors -> Requests]
      /\ review \in [Selections -> Reviews \cup {NoReview}]
      /\ fit \in [Fits -> {"none", "made", "queued", "fitting", "over"}]
      /\ subscription \in [Editors -> Selections \cup {NoSelection}]
  BY ReviewsAssumption DEF NextFit, Fits, QuoteInv, ReviewTypeOK
<1>5. PICK new : new = [run |-> r, status |-> "running", subscribers |-> {e}, owned |-> TRUE]
  OBVIOUS
<1>6. /\ new \in Reviews /\ new.run = r /\ new.status = "running"
      /\ review'[k] = new /\ \A j \in Selections : j # k => review'[j] = review[j]
      /\ review' \in [Selections -> Reviews \cup {NoReview}]
  BY <1>2, <1>4, <1>5 DEF Reviews
<1>7. PICK row : row = [editor[e] EXCEPT !.pc = "launch", !.run = r]
  OBVIOUS
<1>8. row \in Requests /\ row.pc = "launch" /\ row.for = k /\ row.run = r
  BY <1>3, <1>4, <1>7 DEF Requests
<1>9. editor'[e] = row /\ \A x \in Editors : x # e => editor'[x] = editor[x]
  BY <1>2, <1>4, <1>7 DEF RequestTo
<1>10. fit'[r] = "made" /\ \A q \in Fits : q # r => fit'[q] = fit[q]
  BY <1>2, <1>4
<1>11. ReviewTypeOK'
  <2>1. editor' \in [Editors -> Requests]
    BY <1>2, <1>4, <1>7, <1>8 DEF RequestTo
  <2>2. fit' \in [Fits -> {"none", "made", "queued", "fitting", "over"}]
    BY <1>2, <1>4
  <2> QED
    BY <1>3, <1>4, <1>6, <2>1, <2>2 DEF QuoteInv, ReviewTypeOK
<1>12. \A x \in Editors : x # e => subscription'[x] = subscription[x]
  BY <1>3, <1>4
<1>13. RequestsOK'
  BY <1>4, <1>8, <1>9, <1>12 DEF QuoteInv, RequestsOK
<1>14. \A j \in Selections : ~FitOf(r, j)
  BY <1>4 DEF QuoteInv, FitsOK
<1>15. FitsOK'
  <2>1. ASSUME NEW j \in Selections, FitOf(r, j)' PROVE j = k
    <3>1. RunOf(j)' = r => j = k
      BY <1>6, <1>14 DEF FitOf, RunOf, Held
    <3>2. future'[j] # r
      BY <1>3, <1>14 DEF FitOf
    <3>3. ASSUME NEW x \in Editors, editor'[x].pc = "launch", editor'[x].run = r, editor'[x].for = j
          PROVE  j = k
      BY <1>8, <1>9, <1>14, <3>3 DEF FitOf, Request
    <3> QED
      BY <2>1, <3>1, <3>2, <3>3 DEF FitOf, Request
  <2>2. ASSUME NEW q \in Fits, q # r, NEW j \in Selections, FitOf(q, j)' PROVE FitOf(q, j)
    <3>1. RunOf(j)' = q => RunOf(j) = q
      BY <1>6, <2>2 DEF RunOf, Held
    <3>2. ASSUME NEW x \in Editors, editor'[x].pc = "launch", editor'[x].run = q
          PROVE  editor'[x] = editor[x]
      BY <1>8, <1>9, <2>2, <3>2
    <3> QED
      BY <1>3, <2>2, <3>1, <3>2 DEF FitOf, Request
  <2>3. ASSUME NEW q \in Fits, NEW j \in Selections, FitOf(q, j)', NEW i \in Selections, FitOf(q, i)'
        PROVE  fit'[q] # "none" /\ i = j
    <3>1. CASE q = r
      BY <1>10, <2>1, <2>3, <3>1
    <3>2. CASE q # r
      BY <1>10, <2>2, <2>3, <3>2 DEF QuoteInv, FitsOK
    <3> QED
      BY <3>1, <3>2
  <2> QED
    BY <2>3 DEF FitsOK
<1>16. ASSUME NEW j \in Selections, Working(j)' PROVE review'[j].run \in Fits /\ Attended(j)'
  <2>1. CASE j = k
    BY <1>4, <1>6, <1>8, <1>9, <2>1 DEF Attended, Request
  <2>2. CASE j # k
    <3>1. /\ Working(j) /\ review'[j] = review[j] /\ review[j].run \in Fits /\ Attended(j)
      BY <1>6, <1>16, <2>2 DEF Working, QuoteInv, WorkOK
    <3>2. review[j].run # r
      BY <1>14, <3>1 DEF FitOf, RunOf, Held, Working
    <3>3. fit'[review[j].run] = fit[review[j].run]
      BY <1>10, <3>1, <3>2
    <3>4. ~Request(e, "launch") /\ ~Request(e, "mark")
      BY <1>3 DEF Request
    <3> QED
      BY <1>9, <1>12, <3>1, <3>3, <3>4 DEF Attended, Request
  <2> QED
    BY <2>1, <2>2
<1> QED
  BY <1>11, <1>13, <1>15, <1>16 DEF QuoteInv, WorkOK

LEMMA LaunchQuoteInv ==
    ASSUME QuoteInv, NEW e \in Editors, LaunchReview(e) PROVE QuoteInv'
<1>1. PICK k \in Selections : k = editor[e].for
  BY DEF QuoteInv, RequestsOK, LaunchReview, Request
<1>2. PICK r \in Fits : r = editor[e].run
  BY DEF QuoteInv, RequestsOK, LaunchReview, Request
<1>3. /\ editor[e].pc = "launch" /\ guardHolder' = guardHolder /\ subscription' = subscription
      /\ reviewLock' = [reviewLock EXCEPT ![k] = Nobody]
  BY <1>1 DEF LaunchReview, Request
<1>4. PICK room \in BOOLEAN :
        /\ fit' = [fit EXCEPT ![r] = IF room THEN "queued" ELSE "over"]
        /\ room => /\ future' = [future EXCEPT ![k] = r]
                   /\ RequestTo(e, [AtRest EXCEPT !.ticket = r])
                   /\ review' = review
        /\ ~room => /\ review' = [review EXCEPT ![k] = NoReview]
                    /\ RequestTo(e, AtRest)
                    /\ future' = future
  <2>1. CASE Cardinality({s \in Selections : future[s] # 0}) < FutureLimit
    <3>1. /\ fit' = [fit EXCEPT ![r] = "queued"] /\ future' = [future EXCEPT ![k] = r]
          /\ RequestTo(e, [AtRest EXCEPT !.ticket = r]) /\ review' = review
      BY <1>1, <1>2, <2>1 DEF LaunchReview
    <3> QED
      BY <3>1
  <2>2. CASE ~(Cardinality({s \in Selections : future[s] # 0}) < FutureLimit)
    <3>1. /\ fit' = [fit EXCEPT ![r] = "over"] /\ review' = [review EXCEPT ![k] = NoReview]
          /\ RequestTo(e, AtRest) /\ future' = future
      BY <1>1, <1>2, <2>2 DEF LaunchReview
    <3> QED
      BY <3>1
  <2> QED
    BY <2>1, <2>2
<1>5. /\ r \in 0 .. MaxReviews /\ editor \in [Editors -> Requests]
      /\ review \in [Selections -> Reviews \cup {NoReview}]
      /\ fit \in [Fits -> {"none", "made", "queued", "fitting", "over"}]
      /\ future \in [Selections -> 0 .. MaxReviews]
  BY ReviewsAssumption DEF Fits, QuoteInv, ReviewTypeOK
<1>6. PICK row \in Requests : row.pc = "idle" /\ RequestTo(e, row)
  BY <1>4, <1>5, RestingRequest
<1>7. editor'[e] = row /\ \A x \in Editors : x # e => editor'[x] = editor[x]
  BY <1>5, <1>6 DEF RequestTo
<1>8. /\ fit'[r] = IF room THEN "queued" ELSE "over"
      /\ \A q \in Fits : q # r => fit'[q] = fit[q]
  BY <1>4, <1>5
<1>9. ReviewTypeOK'
  <2>1. editor' \in [Editors -> Requests]
    BY <1>5, <1>6 DEF RequestTo
  <2>2. fit' \in [Fits -> {"none", "made", "queued", "fitting", "over"}]
    BY <1>4, <1>5
  <2>3. review' \in [Selections -> Reviews \cup {NoReview}] /\ future' \in [Selections -> 0 .. MaxReviews]
    BY <1>4, <1>5
  <2> QED
    BY <1>3, <1>5, <2>1, <2>2, <2>3 DEF QuoteInv, ReviewTypeOK
<1>10. RequestsOK'
  BY <1>3, <1>6, <1>7 DEF QuoteInv, RequestsOK
<1>11. FitOf(r, k)
  BY <1>1, <1>2, <1>3 DEF FitOf, Request
<1>12. \A j \in Selections : j # k => ~FitOf(r, j)
  BY <1>11 DEF QuoteInv, FitsOK
<1>13. FitsOK'
  <2>1. ASSUME NEW q \in Fits, NEW j \in Selections, FitOf(q, j)' PROVE FitOf(q, j)
    <3>4. review'[j] = review[j] \/ review'[j] = NoReview
      BY <1>4, <1>5
    <3>1. RunOf(j)' = q => RunOf(j) = q
      BY <3>4 DEF RunOf, Held, Fits, NoReview
    <3>2. future'[j] = q => FitOf(q, j)
      BY <1>4, <1>5, <1>11 DEF FitOf
    <3>3. ASSUME NEW x \in Editors, editor'[x].pc = "launch" PROVE editor'[x] = editor[x]
      BY <1>6, <1>7, <3>3
    <3> QED
      BY <2>1, <3>1, <3>2, <3>3 DEF FitOf, Request
  <2>2. \A q \in Fits : fit[q] # "none" => fit'[q] # "none"
    BY <1>4, <1>8
  <2> QED
    BY <2>1, <2>2, FitsKept
<1>14. ASSUME NEW j \in Selections, Working(j)' PROVE review'[j].run \in Fits /\ Attended(j)'
  <2>1. Working(j) /\ review'[j] = review[j] /\ review[j].run \in Fits /\ Attended(j)
    <3>1. review'[j] = review[j] \/ review'[j] = NoReview
      BY <1>4, <1>5
    <3>2. review'[j] = review[j]
      BY <1>14, <3>1 DEF Working, NoReview
    <3> QED
      BY <1>14, <3>2 DEF Working, QuoteInv, WorkOK
  <2>2. RunOf(j) = review[j].run
    BY <2>1 DEF RunOf, Held, Working
  <2>3. CASE review[j].run = r
    <3>1. j = k
      BY <1>12, <2>2, <2>3 DEF FitOf
    <3>2. room
      BY <1>4, <1>5, <1>14, <3>1 DEF Working, NoReview
    <3> QED
      BY <1>8, <2>1, <2>3, <3>2 DEF Attended
  <2>4. CASE review[j].run # r
    <3>1. fit'[review[j].run] = fit[review[j].run]
      BY <1>8, <2>1, <2>4
    <3>2. ~Request(e, "mark") /\ editor[e].run # review[j].run
      BY <1>2, <1>3, <2>4 DEF Request
    <3> QED
      BY <1>3, <1>7, <2>1, <3>1, <3>2 DEF Attended, Request
  <2> QED
    BY <2>3, <2>4
<1> QED
  BY <1>9, <1>10, <1>13, <1>14 DEF QuoteInv, WorkOK

LEMMA PollQuoteInv ==
    ASSUME QuoteInv, NEW e \in Editors, PollReview(e) PROVE QuoteInv'
<1>1. PICK t : t = editor[e].ticket
  OBVIOUS
<1>2. /\ t # 0
      /\ review' = [k \in Selections |->
            IF RunOf(k) = t THEN [review[k] EXCEPT !.subscribers = @ \cup {e}] ELSE review[k]]
      /\ UNCHANGED <<reviewLock, subscription, future, fit, guardHolder>>
  BY <1>1 DEF PollReview
<1>3. PICK u \in {t, 0} : RequestTo(e, [editor[e] EXCEPT !.ticket = u])
  BY <1>1 DEF PollReview
<1>4. /\ editor[e] \in Requests /\ editor \in [Editors -> Requests]
      /\ review \in [Selections -> Reviews \cup {NoReview}]
  BY DEF QuoteInv, ReviewTypeOK
<1>5. PICK row : row = [editor[e] EXCEPT !.ticket = u]
  OBVIOUS
<1>6. /\ row \in Requests /\ row.pc = editor[e].pc /\ row.run = editor[e].run
      /\ row.for = editor[e].for
  <2>1. u \in 0 .. MaxReviews
    BY <1>1, <1>4, ReviewsAssumption DEF Requests
  <2> QED
    BY <1>4, <1>5, <2>1 DEF Requests
<1>7. editor' = [editor EXCEPT ![e] = row]
  BY <1>3, <1>5 DEF RequestTo
<1>8. ASSUME NEW k \in Selections
      PROVE  /\ review'[k] \in Reviews \cup {NoReview} /\ RunOf(k)' \in {RunOf(k), 0}
             /\ Working(k)' => Working(k) /\ review'[k].run = review[k].run
  <2>1. CASE RunOf(k) = t
    <3>1. review[k] \in Reviews
      BY <1>2, <2>1, HeldReview DEF RunOf, QuoteInv
    <3>2. PICK new : new = [review[k] EXCEPT !.subscribers = @ \cup {e}]
      OBVIOUS
    <3>3. /\ new \in Reviews /\ new.run = review[k].run /\ new.owned = review[k].owned
          /\ new.status = review[k].status
      BY <3>1, <3>2 DEF Reviews
    <3>4. review'[k] = new
      BY <1>2, <2>1, <3>2
    <3> QED
      BY <3>3, <3>4 DEF RunOf, Held, Working
  <2>2. CASE RunOf(k) # t
    <3>1. review'[k] = review[k]
      BY <1>2, <2>2
    <3> QED
      BY <1>4, <3>1 DEF RunOf, Held, Working
  <2> QED
    BY <2>1, <2>2
<1>9. FitsOK' /\ WorkOK'
  <2>1. RequestTo(e, row)
    BY <1>3, <1>5
  <2> QED
    BY <1>2, <1>6, <1>8, <2>1, RequestQuiet
<1>10. ReviewTypeOK'
  <2>1. review' \in [Selections -> Reviews \cup {NoReview}]
    BY <1>2, <1>8
  <2> QED
    BY <1>2, <1>4, <1>6, <1>7, <2>1 DEF QuoteInv, ReviewTypeOK
<1>11. RequestsOK'
  BY <1>2, <1>4, <1>6, <1>7 DEF QuoteInv, RequestsOK
<1> QED
  BY <1>9, <1>10, <1>11 DEF QuoteInv

LEMMA EndFitInv ==
    ASSUME QuoteInv, NEW r \in Fits, EndFit(r) PROVE QuoteInv'
<1>1. PICK status \in {"complete", "failed", "cancelled"} :
        review' = [k \in Selections |->
          IF RunOf(k) = r THEN [review[k] EXCEPT !.status = status] ELSE review[k]]
  BY DEF EndFit, Report
<1>2. /\ fit' = [fit EXCEPT ![r] = "over"] /\ future' = Forgotten(r)
      /\ UNCHANGED <<reviewLock, subscription, guardHolder, editor>>
  BY DEF EndFit
<1>3. /\ review \in [Selections -> Reviews \cup {NoReview}]
      /\ fit \in [Fits -> {"none", "made", "queued", "fitting", "over"}]
      /\ future \in [Selections -> 0 .. MaxReviews] /\ r # 0
  BY ReviewsAssumption DEF Fits, QuoteInv, ReviewTypeOK
<1>4. ASSUME NEW k \in Selections
      PROVE  /\ review'[k] \in Reviews \cup {NoReview} /\ RunOf(k)' = RunOf(k)
             /\ Working(k)' => review'[k] = review[k] /\ review[k].run # r
  <2>1. CASE RunOf(k) = r
    <3>1. review[k] \in Reviews
      BY <1>3, <2>1, HeldReview DEF RunOf, QuoteInv
    <3>2. PICK new : new = [review[k] EXCEPT !.status = status]
      OBVIOUS
    <3>3. new \in Reviews /\ new.run = review[k].run /\ new.status = status
      BY <3>1, <3>2 DEF Reviews
    <3>4. review'[k] = new
      BY <1>1, <2>1, <3>2
    <3>5. status # "absent" /\ status # "running" /\ review[k].status # "absent"
      BY <3>1 DEF Reviews
    <3> QED
      BY <3>3, <3>4, <3>5 DEF RunOf, Held, Working
  <2>2. CASE RunOf(k) # r
    <3>1. review'[k] = review[k]
      BY <1>1, <2>2
    <3> QED
      BY <1>3, <2>2, <3>1 DEF RunOf, Held, Working
  <2> QED
    BY <2>1, <2>2
<1>5. ReviewTypeOK'
  <2>1. review' \in [Selections -> Reviews \cup {NoReview}]
    BY <1>1, <1>4
  <2>2. future' \in [Selections -> 0 .. MaxReviews]
    BY <1>2, <1>3, ReviewsAssumption DEF Forgotten
  <2>3. fit' \in [Fits -> {"none", "made", "queued", "fitting", "over"}]
    BY <1>2, <1>3
  <2> QED
    BY <1>2, <2>1, <2>2, <2>3 DEF QuoteInv, ReviewTypeOK
<1>6. RequestsOK'
  BY <1>2 DEF QuoteInv, RequestsOK
<1>7. FitsOK'
  <2>1. ASSUME NEW q \in Fits, NEW k \in Selections, FitOf(q, k)' PROVE FitOf(q, k)
    <3>1. future'[k] = q => future[k] = q
      BY <1>2 DEF Forgotten, Fits
    <3> QED
      BY <1>2, <1>4, <2>1, <3>1 DEF FitOf, Request
  <2>2. \A q \in Fits : fit[q] # "none" => fit'[q] # "none"
    BY <1>2, <1>3
  <2> QED
    BY <2>1, <2>2, FitsKept
<1>8. ASSUME NEW k \in Selections, Working(k)' PROVE review'[k].run \in Fits /\ Attended(k)'
  <2>1. review'[k] = review[k] /\ review[k].run # r
    BY <1>4, <1>8
  <2>2. review[k].run \in Fits /\ Attended(k)
    BY <1>8, <2>1 DEF Working, QuoteInv, WorkOK
  <2>3. fit'[review[k].run] = fit[review[k].run]
    BY <1>2, <1>3, <2>1, <2>2
  <2> QED
    BY <1>2, <2>1, <2>2, <2>3 DEF Attended, Request
<1> QED
  BY <1>5, <1>6, <1>7, <1>8 DEF QuoteInv, WorkOK

LEMMA ReviewRestartInv ==
    ASSUME QuoteInv, Restart PROVE QuoteInv'
<1>1. /\ review' = [k \in Selections |->
              IF Held(k) THEN [review[k] EXCEPT !.owned = FALSE] ELSE review[k]]
      /\ future' = [k \in Selections |-> 0]
      /\ fit' = [r \in Fits |-> IF fit[r] = "none" THEN "none" ELSE "over"]
      /\ guardHolder' = Nobody
      /\ editor' = [e \in Editors |-> [AtRest EXCEPT !.ticket = editor[e].ticket]]
      /\ UNCHANGED <<reviewLock, subscription>>
  BY DEF Restart
<1>2. /\ review \in [Selections -> Reviews \cup {NoReview}] /\ editor \in [Editors -> Requests]
  BY DEF QuoteInv, ReviewTypeOK
<1>3. \A e \in Editors : editor'[e] \in Requests /\ editor'[e].pc = "idle"
  <2>1. \A e \in Editors : editor[e].ticket \in 0 .. MaxReviews
    BY <1>2 DEF Requests
  <2>2. \A t \in 0 .. MaxReviews :
          [AtRest EXCEPT !.ticket = t] \in Requests /\ [AtRest EXCEPT !.ticket = t].pc = "idle"
    BY RestingRequest
  <2> QED
    BY <1>1, <2>1, <2>2
<1>4. ASSUME NEW k \in Selections
      PROVE  /\ review'[k] \in Reviews \cup {NoReview} /\ RunOf(k)' = RunOf(k)
             /\ ~Working(k)'
  <2>1. CASE Held(k)
    <3>1. review[k] \in Reviews
      BY <2>1, HeldReview DEF QuoteInv
    <3>2. PICK new : new = [review[k] EXCEPT !.owned = FALSE]
      OBVIOUS
    <3>3. /\ new \in Reviews /\ new.run = review[k].run /\ new.status = review[k].status
          /\ new.owned = FALSE
      BY <3>1, <3>2 DEF Reviews
    <3>4. review'[k] = new
      BY <1>1, <2>1, <3>2
    <3> QED
      BY <3>3, <3>4 DEF RunOf, Held, Working
  <2>2. CASE ~Held(k)
    <3>1. review'[k] = review[k]
      BY <1>1, <2>2
    <3> QED
      BY <1>2, <2>2, <3>1 DEF RunOf, Held, Working
  <2> QED
    BY <2>1, <2>2
<1>5. ReviewTypeOK'
  <2>1. review' \in [Selections -> Reviews \cup {NoReview}]
    BY <1>1, <1>4
  <2>2. editor' \in [Editors -> Requests]
    BY <1>1, <1>3
  <2>3. future' \in [Selections -> 0 .. MaxReviews]
    BY <1>1, ReviewsAssumption
  <2>4. fit' \in [Fits -> {"none", "made", "queued", "fitting", "over"}]
    BY <1>1
  <2> QED
    BY <1>1, <2>1, <2>2, <2>3, <2>4 DEF QuoteInv, ReviewTypeOK
<1>6. RequestsOK'
  BY <1>3 DEF RequestsOK
<1>7. FitsOK'
  <2>1. ASSUME NEW q \in Fits, NEW k \in Selections, FitOf(q, k)' PROVE FitOf(q, k)
    <3>1. future'[k] # q
      BY <1>1 DEF Fits
    <3>2. RunOf(k) = q
      BY <1>3, <1>4, <2>1, <3>1 DEF FitOf, Request
    <3> QED
      BY <3>2 DEF FitOf
  <2>2. \A q \in Fits : fit[q] # "none" => fit'[q] # "none"
    BY <1>1
  <2> QED
    BY <2>1, <2>2, FitsKept
<1> QED
  BY <1>4, <1>5, <1>6, <1>7 DEF QuoteInv, WorkOK

\* A fit begins, a lock runs out, a record is dropped, or nothing happens.
LEMMA ReviewQuietInv ==
    ASSUME QuoteInv,
           \/ \E r \in Fits : StartFit(r)
           \/ \E k \in Selections : ReviewLockRunsOut(k) \/ ReviewDropped(k)
           \/ UNCHANGED reviewVars
    PROVE  QuoteInv'
<1>1. /\ UNCHANGED <<subscription, future, guardHolder, editor>>
      /\ \/ fit' = fit
         \/ \E r \in Fits : fit[r] = "queued" /\ fit' = [fit EXCEPT ![r] = "fitting"]
      /\ \/ review' = review
         \/ \E k \in Selections : review' = [review EXCEPT ![k] = NoReview]
      /\ \/ reviewLock' = reviewLock
         \/ \E k \in Selections : reviewLock' = [reviewLock EXCEPT ![k] = Nobody]
  BY DEF StartFit, ReviewLockRunsOut, ReviewDropped, reviewVars
<1>2. /\ review \in [Selections -> Reviews \cup {NoReview}]
      /\ fit \in [Fits -> {"none", "made", "queued", "fitting", "over"}]
      /\ reviewLock \in [Selections -> Editors \cup {Nobody}]
  BY DEF QuoteInv, ReviewTypeOK
<1>3. \A r \in Fits : fit'[r] = fit[r] \/ (fit[r] = "queued" /\ fit'[r] = "fitting")
  BY <1>1, <1>2
<1>4. \A k \in Selections : review'[k] \in {review[k], NoReview}
  BY <1>1, <1>2
<1>5. \A k \in Selections : /\ RunOf(k)' \in {RunOf(k), 0}
                            /\ Working(k)' => Working(k) /\ review'[k].run = review[k].run
  BY <1>4 DEF RunOf, Held, Working, NoReview
<1>6. FitsOK' /\ WorkOK'
  BY <1>1, <1>3, <1>5, QuietStep
<1>7. ReviewTypeOK'
  <2>1. review' \in [Selections -> Reviews \cup {NoReview}]
    BY <1>1, <1>2
  <2>2. fit' \in [Fits -> {"none", "made", "queued", "fitting", "over"}]
    BY <1>1, <1>2
  <2>3. reviewLock' \in [Selections -> Editors \cup {Nobody}]
    BY <1>1, <1>2
  <2> QED
    BY <1>1, <2>1, <2>2, <2>3 DEF QuoteInv, ReviewTypeOK
<1>8. RequestsOK'
  BY <1>1 DEF QuoteInv, RequestsOK
<1> QED
  BY <1>6, <1>7, <1>8 DEF QuoteInv

LEMMA QuoteInductive ==
    QuoteInv /\ [ReviewNext]_reviewVars => QuoteInv'
<1> SUFFICES ASSUME QuoteInv, [ReviewNext]_reviewVars PROVE QuoteInv'
  OBVIOUS
<1>1. CASE Restart
  BY <1>1, ReviewRestartInv
<1>2. ASSUME NEW e \in Editors, NEW k \in Selections, AskReview(e, k) PROVE QuoteInv'
  BY <1>2, AskQuoteInv
<1>3. ASSUME NEW e \in Editors,
             \/ LeaveReview(e) \/ CancelLeft(e) \/ MarkCancelled(e) \/ JoinReview(e)
             \/ ReplaceReview(e) \/ LaunchReview(e) \/ PollReview(e)
      PROVE  QuoteInv'
  BY <1>3, LeaveQuoteInv, CancelLeftInv, MarkCancelledInv, JoinQuoteInv, ReplaceQuoteInv,
     LaunchQuoteInv, PollQuoteInv
<1>4. ASSUME NEW r \in Fits, EndFit(r) PROVE QuoteInv'
  BY <1>4, EndFitInv
<1>5. ASSUME \/ \E r \in Fits : StartFit(r)
             \/ \E k \in Selections : ReviewLockRunsOut(k) \/ ReviewDropped(k)
             \/ UNCHANGED reviewVars
      PROVE  QuoteInv'
  BY <1>5, ReviewQuietInv
<1> QED
  BY <1>1, <1>2, <1>3, <1>4, <1>5 DEF ReviewNext

LEMMA QuoteStarts == ReviewInit => QuoteInv
<1> SUFFICES ASSUME ReviewInit PROVE QuoteInv
  OBVIOUS
<1>1. AtRest \in Requests /\ AtRest.pc = "idle"
  <2>1. 0 \in 0 .. MaxReviews
    BY ReviewsAssumption
  <2> QED
    BY <2>1, RestingRequest
<1>2. \A e \in Editors : editor[e] \in Requests /\ editor[e].pc = "idle"
  BY <1>1 DEF ReviewInit
<1>3. \A k \in Selections : review[k] = NoReview /\ future[k] = 0
  BY DEF ReviewInit
<1>4. ReviewTypeOK
  BY <1>1, ReviewsAssumption DEF ReviewInit, ReviewTypeOK
<1>5. RequestsOK
  BY <1>2 DEF RequestsOK
<1>6. FitsOK /\ WorkOK
  BY <1>2, <1>3 DEF FitsOK, FitOf, WorkOK, Working, RunOf, Held, Request, NoReview, Fits
<1> QED
  BY <1>4, <1>5, <1>6 DEF QuoteInv

(* Nobody polls a review that nobody works on, for any editors, selections *)
(* and reviewers, whichever lock has run out and whichever record has been *)
(* dropped in the meantime.                                                *)
THEOREM ReviewsAttended == ReviewSpec => []ReviewAttended
<1>1. QuoteInv => ReviewAttended
  <2> SUFFICES ASSUME QuoteInv, NEW k \in Selections, ~Replaced(k, FALSE),
                      review[k].status = "running"
               PROVE  Attended(k)
    BY DEF ReviewAttended, Attended
  <2>1. review[k] \in Reviews
    BY HeldReview DEF Replaced, QuoteInv
  <2>2. Working(k)
    BY <2>1 DEF Replaced, Working, Reviews
  <2> QED
    BY <2>2 DEF QuoteInv, WorkOK
<1> QED
  BY <1>1, QuoteStarts, QuoteInductive, PTL DEF ReviewSpec

\* The records, futures, fits and requests keep their types.
LEMMA ReviewTyped == ReviewSpec => []ReviewTypeOK
<1>1. QuoteInv => ReviewTypeOK
  BY DEF QuoteInv
<1> QED
  BY <1>1, QuoteStarts, QuoteInductive, PTL DEF ReviewSpec
=============================================================================
