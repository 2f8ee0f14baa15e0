------------------------------ MODULE MCParts ------------------------------
(***************************************************************************)
(* The components that share no state with each other, checked side by     *)
(* side: a behaviour is one of one of them, while the rest stay in their   *)
(* initial states.                                                         *)
(***************************************************************************)
EXTENDS AspectJobs, PublicationGuards, StageSeal, PortfolioCache,
        QuoteReview, IntradayPreview, RefreshIntake, SurfacePage, PricerWorkspace, FitPool,
        SurfaceFeed, GovernedPage, LivePrices

VARIABLE part   \* the component that runs

Parts == {"aspects", "guards", "seal", "portfolio", "review", "preview",
          "refresh", "sheet", "pricer", "pool", "feed", "governed", "live"}

Others ==
    /\ UNCHANGED part
    /\ IF part = "aspects" THEN TRUE ELSE UNCHANGED aspectVars
    /\ IF part = "guards" THEN TRUE ELSE UNCHANGED guardVars
    /\ IF part = "seal" THEN TRUE ELSE UNCHANGED sealVars
    /\ IF part = "portfolio" THEN TRUE ELSE UNCHANGED portfolioVars
    /\ IF part = "review" THEN TRUE ELSE UNCHANGED reviewVars
    /\ IF part = "preview" THEN TRUE ELSE UNCHANGED previewVars
    /\ IF part = "refresh" THEN TRUE ELSE UNCHANGED refreshVars
    /\ IF part = "sheet" THEN TRUE ELSE UNCHANGED sheetVars
    /\ IF part = "pricer" THEN TRUE ELSE UNCHANGED pricerVars
    /\ IF part = "pool" THEN TRUE ELSE UNCHANGED poolVars
    /\ IF part = "feed" THEN TRUE ELSE UNCHANGED feedVars
    /\ IF part = "governed" THEN TRUE ELSE UNCHANGED governedVars
    /\ IF part = "live" THEN TRUE ELSE UNCHANGED liveVars

PartsInit ==
    /\ part \in Parts
    /\ AspectInit /\ GuardsInit /\ SealInit /\ PortfolioInit /\ ReviewInit
    /\ PreviewInit /\ RefreshInit /\ SheetInit /\ PricerInit /\ PoolInit
    /\ FeedInit /\ GovernedInit /\ LiveInit
    /\ part # "pool" => budget.stream = 1 /\ budget.start = 1
    /\ part # "feed" => page.ref = 0
    /\ part # "governed" => commodity = "HH"

PartsNext ==
    \/ part = "aspects" /\ Others /\ AspectNext
    \/ part = "guards" /\ Others /\ GuardsNext
    \/ part = "seal" /\ Others /\ SealNext
    \/ part = "portfolio" /\ Others /\ PortfolioNext
    \/ part = "review" /\ Others /\ ReviewNext
    \/ part = "preview" /\ Others /\ PreviewNext
    \/ part = "refresh" /\ Others /\ RefreshNext
    \/ part = "sheet" /\ Others /\ SheetNext
    \/ part = "pricer" /\ Others /\ PricerNext
    \/ part = "pool" /\ Others /\ PoolNext
    \/ part = "feed" /\ Others /\ FeedNext
    \/ part = "governed" /\ Others /\ GovernedNext
    \/ part = "live" /\ Others /\ LiveNext

PartsSpec ==
    PartsInit /\ [][PartsNext]_<<part, aspectVars, guardVars, sealVars, portfolioVars,
                      reviewVars, previewVars, refreshVars, sheetVars, pricerVars, poolVars,
                      feedVars, governedVars, liveVars>>

\* Every component keeps its type.
PartsTypeOK ==
    /\ part \in Parts
    /\ part = "aspects" => AspectTypeOK
    /\ part = "guards" => GuardsTypeOK
    /\ part = "seal" => SealTypeOK
    /\ part = "portfolio" => PortfolioTypeOK
    /\ part = "review" => ReviewTypeOK
    /\ part = "preview" => PreviewTypeOK
    /\ part = "refresh" => RefreshTypeOK
    /\ part = "sheet" => SheetTypeOK
    /\ part = "pricer" => PricerTypeOK
    /\ part = "pool" => PoolTypeOK
    /\ part = "feed" => FeedTypeOK
    /\ part = "governed" => GovernedTypeOK
    /\ part = "live" => LiveTypeOK

\* Nobody replaces what he has not reviewed, on the intraday page (others
\* publish while a proposal waits) and as the desk curve of the Live Prices page.
ReviewedBeforeReplaced == SeenBeforeReplaced /\ DeskReviewed

-----------------------------------------------------------------------------
(* Constants of the instances.                                             *)

MCDraftCommodity == [d \in {"d1"} |-> "TTF"]
MCConfigurations ==
    {[scope |-> "settlement", evidence |-> "intraday", draft |-> NoRow, base |-> NoRow],
     [scope |-> "intraday", evidence |-> "intraday", draft |-> "d1", base |-> "p1"]}
MCInterests == {<<"e1", "k1">>, <<"e1", "k2">>, <<"e2", "k1">>}
MCRefreshProducts == <<"BRENT", "TFO">>
MCDays == 1 .. 2
MCProcessOf == [t \in {"t1", "t2"} |-> "n1"]
=============================================================================
