--------------------------- MODULE PublicationGuards ---------------------------
(***************************************************************************)
(* The lifecycle of calibration runs and surface publications as the       *)
(* database enforces it: the triggers, checks and unique indexes of the    *)
(* baseline migration.  Who writes is left open: any statement may be      *)
(* tried, with any new row, and the triggers let it pass or raise.  A      *)
(* product has a settlement lane (is_active) and, TTF and Brent only, an   *)
(* intraday lane (the pointer table), which must stay apart.               *)
(***************************************************************************)
EXTENDS FiniteSets

CONSTANTS
    Commodities,
    RunIds, PublicationIds,
    Drafts,           \* reviewed intraday drafts
    DraftCommodity,   \* of each draft
    Configurations,   \* configurations of runs: scope, evidence, draft, base
    NoRow

ASSUME DraftsAssumption == DraftCommodity \in [Drafts -> Commodities \cap {"TTF", "BRENT"}]
ASSUME ConfigurationsAssumption ==
    Configurations \subseteq [scope    : {"settlement", "intraday"},
                              evidence : {"settlement", "intraday"},   \* kinds of its snapshots
                              draft    : Drafts \cup {NoRow},
                              base     : PublicationIds \cup {NoRow}]

VARIABLES
    run,           \* vol_calibration_runs
    publication,   \* vol_surface_publications, all of one settlement date
    intraday       \* vol_intraday_active: the pointer of each product

guardVars == <<run, publication, intraday>>

RunStatuses == {"draft", "submitted", "approved", "published", "superseded", "rejected"}
PublicationStatuses == {"approved", "published", "superseded", "rejected"}

RunRows == [status : RunStatuses, configuration : Configurations]

PublicationRows == [run       : RunIds,
                    commodity : Commodities,
                    key       : Drafts \cup {NoRow},   \* draft its idempotency key is made of
                    status    : PublicationStatuses,
                    active    : BOOLEAN]

PointerRows == [publication : PublicationIds, base : PublicationIds, draft : Drafts]

ASSUME RowsAssumption ==
    NoRow \notin Drafts \cup PublicationIds \cup RunRows \cup PublicationRows \cup PointerRows

GuardsTypeOK ==
    /\ run \in [RunIds -> RunRows \cup {NoRow}]
    /\ publication \in [PublicationIds -> PublicationRows \cup {NoRow}]
    /\ intraday \in [Commodities -> PointerRows \cup {NoRow}]

GuardsInit ==
    /\ run = [r \in RunIds |-> NoRow]
    /\ publication = [p \in PublicationIds |-> NoRow]
    /\ intraday = [c \in Commodities |-> NoRow]

Runs == {r \in RunIds : run[r] # NoRow}
Publications == {p \in PublicationIds : publication[p] # NoRow}

-----------------------------------------------------------------------------
(* guard_vol_calibration_run_mutation                                      *)

RunTransitions ==
    {<<"draft", "submitted">>, <<"submitted", "approved">>, <<"submitted", "rejected">>,
     <<"approved", "published">>, <<"approved", "rejected">>, <<"published", "superseded">>}

(* Slip: inputs are frozen by the submission only. *)
RunMayChangeAsDraft(old, new) ==
    /\ old.status # "draft" => new.configuration = old.configuration
    /\ new.status = old.status \/ <<old.status, new.status>> \in RunTransitions

RunMayChange(old, new) ==
    /\ new.configuration = old.configuration
    /\ new.status = old.status \/ <<old.status, new.status>> \in RunTransitions

InsertRun(r) ==
    /\ r \notin Runs
    /\ \E c \in Configurations : run' = [run EXCEPT ![r] = [status |-> "draft", configuration |-> c]]
    /\ UNCHANGED <<publication, intraday>>

UpdateRun(r) ==
    /\ r \in Runs
    /\ \E new \in RunRows : RunMayChange(run[r], new) /\ run' = [run EXCEPT ![r] = new]
    /\ UNCHANGED <<publication, intraday>>

-----------------------------------------------------------------------------
(* guard_vol_surface_publication_mutation, guard_brent_intraday_settlement *)

Configuration(row) == run[row.run].configuration

(* Brent revisions made of intraday evidence stay out of the settlement    *)
(* lane, also when their run does not call itself intraday.                *)
BrentGuard(row) ==
    row.commodity = "BRENT" /\ row.active =>
        Configuration(row).scope # "intraday" /\ Configuration(row).evidence # "intraday"

(* Checks of the table, and its index on active rows. *)
LifecycleCheck(row) ==
    /\ row.status = "published" => row.active \/ (row.commodity \in {"TTF", "BRENT"} /\ row.key # NoRow)
    /\ row.status \in {"superseded", "rejected"} => ~row.active

OneActive(p, row) ==
    row.active => \A q \in Publications \ {p} :
                     publication[q].active => publication[q].commodity # row.commodity

PublicationTransitions ==
    {<<"approved", "published">>, <<"approved", "rejected">>, <<"published", "superseded">>}

(* A published row that is not active has to be an intraday revision of a  *)
(* draft of its product.                                                   *)
Intraday(row) ==
    /\ Configuration(row).scope = "intraday" /\ Configuration(row).draft # NoRow
    /\ DraftCommodity[Configuration(row).draft] = row.commodity

PublicationMayChange(old, new) ==
    /\ [new EXCEPT !.status = old.status, !.active = old.active] = old
    /\ new.status = old.status => new.active = old.active
    /\ new.status = old.status \/ <<old.status, new.status>> \in PublicationTransitions
    /\ new.active => Configuration(new).scope # "intraday"
    /\ new.status = "published" /\ ~new.active => Intraday(new)
    /\ new.status \in {"superseded", "rejected"} => ~new.active

InsertPublication(p) ==
    /\ p \notin Publications
    /\ \E r \in Runs, c \in Commodities, k \in Drafts \cup {NoRow} :
         publication' = [publication EXCEPT ![p] =
            [run |-> r, commodity |-> c, key |-> k, status |-> "approved", active |-> FALSE]]
    /\ UNCHANGED <<run, intraday>>

UpdatePublication(p) ==
    /\ p \in Publications
    /\ \E status \in PublicationStatuses, active \in BOOLEAN :
         LET new == [publication[p] EXCEPT !.status = status, !.active = active]
         IN  /\ PublicationMayChange(publication[p], new)
             /\ BrentGuard(new) /\ LifecycleCheck(new) /\ OneActive(p, new)
             /\ publication' = [publication EXCEPT ![p] = new]
    /\ UNCHANGED <<run, intraday>>

-----------------------------------------------------------------------------
(* guard_intraday_activation                                               *)
MayActivate(c, row) ==
    LET p == publication[row.publication]
        b == publication[row.base]
    IN  /\ row.publication \in Publications /\ row.base \in Publications
        /\ p.commodity = c /\ b.commodity = c /\ DraftCommodity[row.draft] = c
        /\ b.status = "published" /\ b.active
        /\ p.status = "published" /\ ~p.active
        /\ Configuration(p).scope = "intraday"
        /\ Configuration(p).base = row.base /\ Configuration(p).draft = row.draft
        /\ p.key = row.draft

WritePointer(c) ==
    /\ \E row \in PointerRows : MayActivate(c, row) /\ intraday' = [intraday EXCEPT ![c] = row]
    /\ UNCHANGED <<run, publication>>

GuardsNext ==
    \/ \E r \in RunIds : InsertRun(r) \/ UpdateRun(r)
    \/ \E p \in PublicationIds : InsertPublication(p) \/ UpdatePublication(p)
    \/ \E c \in Commodities : WritePointer(c)

GuardsSpec == GuardsInit /\ [][GuardsNext]_guardVars

-----------------------------------------------------------------------------
(* The lanes stay apart whatever is written in whatever order: what is     *)
(* active for settlement is published, was made by a settlement run and,   *)
(* for Brent, without intraday evidence; what the intraday pointer of a    *)
(* product names was made by the intraday run of its own draft on its own  *)
(* base, and neither is nor was in the settlement lane.                    *)
LanesApart ==
    /\ \A p \in Publications : publication[p].active =>
         /\ publication[p].status = "published"
         /\ Configuration(publication[p]).scope = "settlement"
         /\ BrentGuard(publication[p])
    /\ \A c \in Commodities : intraday[c] # NoRow =>
         LET row == intraday[c]
             p == publication[row.publication]
         IN  /\ p.commodity = c /\ ~p.active /\ p.status \in {"published", "superseded"}
             /\ Configuration(p).scope = "intraday"
             /\ Configuration(p).draft = row.draft /\ Configuration(p).base = row.base
             /\ row.base # row.publication
=============================================================================
