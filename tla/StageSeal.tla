------------------------------- MODULE StageSeal -------------------------------
(***************************************************************************)
(* A publication stage and its points, guarded by the triggers             *)
(* protect_publication_stage and protect_staged_point of the baseline      *)
(* migration, under transactions that overlap.  A stage is verified and    *)
(* sealed by one transaction while another, say of a former owner of the   *)
(* job, may still be adding points to it: the trigger reads the stage FOR  *)
(* SHARE, and the lock is kept until the end of the transaction.           *)
(***************************************************************************)
EXTENDS FiniteSets

CONSTANTS
    Writers,   \* database sessions
    Points

VARIABLES
    header,    \* the row of vol_publication_stages
    points,    \* committed rows of vol_publication_stage_points
    writing    \* of each session: rows not yet committed, locks held

sealVars == <<header, points, writing>>

NotWriting == [open |-> FALSE, added |-> {}, shares |-> FALSE]

SealTypeOK ==
    /\ header \in {"missing", "open", "sealed"}
    /\ points \subseteq Points
    /\ writing \in [Writers -> [open : BOOLEAN, added : SUBSET Points, shares : BOOLEAN]]

SealInit ==
    /\ header = "missing"
    /\ points = {}
    /\ writing = [w \in Writers |-> NotWriting]

-----------------------------------------------------------------------------
(* Slip: the stage is read without a lock. *)
ReadUnlocked(w) == header = "open" /\ writing' = [writing EXCEPT ![w].open = TRUE]

(* SELECT ready ... FOR SHARE: the stage exists and is not sealed. *)
ReadForShare(w) ==
    header = "open" /\ writing' = [writing EXCEPT ![w].open = TRUE, ![w].shares = TRUE]

(* A change of the header waits for the shares of other sessions. *)
Exclusive(w) == \A v \in Writers \ {w} : ~writing[v].shares

InsertStage ==
    /\ header = "missing" /\ header' = "open"
    /\ UNCHANGED <<points, writing>>

BeginPoints(w) ==
    /\ ~writing[w].open
    /\ ReadForShare(w)
    /\ UNCHANGED <<header, points>>

AddPoint(w, p) ==
    /\ writing[w].open
    /\ p \notin points \cup writing[w].added
    /\ \A v \in Writers \ {w} : p \notin writing[v].added    \* the primary key waits
    /\ writing' = [writing EXCEPT ![w].added = @ \cup {p}]
    /\ UNCHANGED <<header, points>>

Commit(w) ==
    /\ writing[w].open
    /\ points' = points \cup writing[w].added
    /\ writing' = [writing EXCEPT ![w] = NotWriting]
    /\ UNCHANGED header

Rollback(w) ==
    /\ writing[w].open
    /\ writing' = [writing EXCEPT ![w] = NotWriting]
    /\ UNCHANGED <<header, points>>

(* A session that has added its points seals in the same transaction, or   *)
(* in one of its own; a sealed stage cannot be opened again.               *)
Seal(w) ==
    /\ header = "open" /\ Exclusive(w)
    /\ header' = "sealed"
    /\ points' = points \cup writing[w].added
    /\ writing' = [writing EXCEPT ![w] = NotWriting]

(* Retention deletes the header, and the points with it. *)
DeleteStage ==
    /\ header # "missing" /\ \A w \in Writers : ~writing[w].shares
    /\ header' = "missing" /\ points' = {}
    /\ UNCHANGED writing

SealNext ==
    \/ InsertStage \/ DeleteStage
    \/ \E w \in Writers :
         \/ BeginPoints(w) \/ Commit(w) \/ Rollback(w) \/ Seal(w)
         \/ \E p \in Points : AddPoint(w, p)

SealSpec == SealInit /\ [][SealNext]_sealVars

-----------------------------------------------------------------------------
(* What was sealed is what is activated: the points of a sealed stage are  *)
(* those its sealer saw, also when another session had begun to add points *)
(* while the stage was open.                                               *)
SealedPointsStay ==
    [][header = "sealed" /\ header' = "sealed" => points' = points]_sealVars
=============================================================================
