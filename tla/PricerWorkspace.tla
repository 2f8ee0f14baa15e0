-------------------------- MODULE PricerWorkspace --------------------------
(***************************************************************************)
(* The structures a trader prices on one page.  The browser session keeps  *)
(* two stores across reloads: the workspace (structures and their drafts)  *)
(* and the calculations.  Panels on the page hold the inputs and results   *)
(* shown.  Callbacks read when they are asked and answer later; a later    *)
(* request of the same callback supersedes its answer.  A number stands    *)
(* for the complete inputs of a structure, 0 for the default ones, and for *)
(* the results computed from them.                                         *)
(***************************************************************************)
EXTENDS Naturals, Sequences, FiniteSets, Functions, SequencesExt

CONSTANTS Silent,          \* no answer under way, or no results
          MaxStructures,   \* bound on the structures ever added
          MaxInputs,       \* bound on changes of inputs
          MaxTurns         \* bound on Calculate All and reloads of the page together

ASSUME PricerAssumption ==
    /\ {MaxStructures, MaxInputs, MaxTurns} \subseteq Nat /\ MaxStructures > 0
    /\ \A r \in (0..MaxInputs + MaxTurns) \cup {Silent} : Silent # [results |-> r]

VARIABLES workspace,   \* session store: order, drafts, next
          kept,        \* session store: results per structure
          panels,      \* structures on the page, in their order
          priced,      \* per structure: inputs and results
          fitting,     \* per structure: answer of its calculation
          managing,    \* answer of the workspace callback
          ticking,     \* a draft is to be saved
          keeping,     \* answer of the callback that keeps results
          clicks, changes, reloads

pricerVars == <<workspace, kept, panels, priced, fitting, managing, ticking, keeping,
                clicks, changes, reloads>>

Structures == 1..MaxStructures
OnPage == ToSet(panels)
Panel(i, r) == [inputs |-> i, results |-> r]

\* Results read from the session are shown only on the inputs they are of.
MatchesAny(r, i) == r # Silent
MatchesTemplate(r, i) == r = i

Kept(s) == IF s \in DOMAIN kept THEN kept[s] ELSE Silent
Draft(s) == IF s \in DOMAIN workspace.drafts THEN workspace.drafts[s] ELSE 0

PricerInit ==
    /\ workspace = [order |-> <<1>>, drafts |-> [s \in {} |-> 0], next |-> 2]
    /\ kept = [s \in {} |-> 0]
    /\ panels = <<1>>
    /\ priced = [s \in {1} |-> Panel(0, Silent)]
    /\ fitting = [s \in Structures |-> Silent]
    /\ managing = Silent /\ ticking = FALSE /\ keeping = Silent
    /\ clicks = 0 /\ changes = 0 /\ reloads = 0

\* What keeping the results of panels p would leave of those structures in the
\* session: the results they show, and of panels not yet there what was kept.
Persisted(order, p) ==
    [s \in {x \in ToSet(order) : IF x \in DOMAIN p THEN p[x].results # Silent ELSE x \in DOMAIN kept} |->
       IF s \in DOMAIN p THEN p[s].results ELSE kept[s]]
Keeps(order, p) == keeping' = [kept |-> Persisted(order, p)]

(***************************************************************************)
(* Inputs and results of one structure.                                    *)
(***************************************************************************)

\* What the calculation callback answers to a change of inputs: nothing, or
\* no results.  A committed edit of a leg clears them even if it is undone.
Answer(r) == [results |-> r]
OnChange(i, r) ==
    IF r = Silent THEN {Silent}
    ELSE IF r = i THEN {Silent, Answer(Silent)} ELSE {Answer(Silent)}
Asks(s, answer) == fitting' = [fitting EXCEPT ![s] = answer]

\* An input changes, by the trader, by a callback that fills fields, or by
\* another reading of the published surface; its draft is to be saved.
ChangeInputs(s) ==
    /\ changes < MaxInputs
    /\ changes' = changes + 1
    /\ \E i \in {0, changes'} :
         /\ i # priced[s].inputs
         /\ priced' = [priced EXCEPT ![s].inputs = i]
         /\ \E answer \in OnChange(i, priced[s].results) : Asks(s, answer)
    /\ ticking' = TRUE
    /\ UNCHANGED <<workspace, kept, panels, managing, keeping, clicks, reloads>>

\* Calculate one structure, or all on the page; the calculation may fail.
Calculate(s) ==
    /\ \E r \in {priced[s].inputs, Silent} : Asks(s, Answer(r))
    /\ UNCHANGED <<workspace, kept, panels, priced, managing, ticking, keeping, clicks, changes, reloads>>

CalculateAll ==
    /\ clicks + reloads < MaxTurns
    /\ clicks' = clicks + 1
    /\ \E failed \in {{}, OnPage} :
         fitting' = [s \in Structures |->
                       IF s \notin OnPage THEN Silent
                       ELSE Answer(IF s \in failed THEN Silent ELSE priced[s].inputs)]
    /\ UNCHANGED <<workspace, kept, panels, priced, managing, ticking, keeping, changes, reloads>>

\* The answer arrives; the results of the whole page are then to be kept.
Calculated(s) ==
    /\ fitting[s] # Silent
    /\ priced' = [priced EXCEPT ![s].results = fitting[s].results]
    /\ fitting' = [fitting EXCEPT ![s] = Silent]
    /\ Keeps(workspace.order, priced')
    /\ UNCHANGED <<workspace, kept, panels, managing, ticking, clicks, changes, reloads>>

Persist ==
    /\ keeping # Silent
    /\ kept' = keeping.kept
    /\ keeping' = Silent
    /\ UNCHANGED <<workspace, panels, priced, fitting, managing, ticking, clicks, changes, reloads>>

(***************************************************************************)
(* The workspace: structures are added, duplicated and removed, and drafts *)
(* saved, all by one callback.                                             *)
(***************************************************************************)
\* The template captured from a panel: its inputs, not its results.
Captured(s) == priced[s].inputs

Manages(w, added, removed) ==
    managing' = [workspace |-> w, added |-> added, removed |-> removed, baseline |-> clicks]

AddStructure ==
    /\ workspace.next <= MaxStructures
    /\ Manages([workspace EXCEPT !.order = Append(@, workspace.next), !.next = @ + 1], {workspace.next}, {})
    /\ UNCHANGED <<workspace, kept, panels, priced, fitting, ticking, keeping, clicks, changes, reloads>>

DuplicateStructure(s) ==
    /\ workspace.next <= MaxStructures
    /\ Manages([order |-> Append(workspace.order, workspace.next), next |-> workspace.next + 1,
                drafts |-> [x \in DOMAIN workspace.drafts \cup {workspace.next} |->
                              IF x = workspace.next THEN Captured(s) ELSE workspace.drafts[x]]],
               {workspace.next}, {})
    /\ UNCHANGED <<workspace, kept, panels, priced, fitting, ticking, keeping, clicks, changes, reloads>>

\* No identifier is used again, so a structure has one place.
Place(s) == CHOOSE k \in DOMAIN workspace.order : workspace.order[k] = s

\* Slip: the draft of a removed structure stays.
OutOfOrder(s) == [workspace EXCEPT !.order = RemoveAt(@, Place(s))]

OutOfWorkspace(s) ==
    [order |-> RemoveAt(workspace.order, Place(s)), next |-> workspace.next,
     drafts |-> Restrict(workspace.drafts, DOMAIN workspace.drafts \ {s})]

RemoveStructure(s) ==
    /\ Len(workspace.order) > 1
    /\ s \in ToSet(workspace.order)
    /\ Manages(OutOfWorkspace(s), {}, {Place(s)})
    /\ UNCHANGED <<workspace, kept, panels, priced, fitting, ticking, keeping, clicks, changes, reloads>>

\* The tick asks for the drafts of every panel on the page to be saved.
SaveDrafts ==
    /\ ticking
    /\ ticking' = FALSE
    /\ LET own == ToSet(workspace.order) \cap OnPage
       IN Manages([workspace EXCEPT !.drafts =
                     [x \in DOMAIN @ \cup own |-> IF x \in own THEN Captured(x) ELSE @[x]]], {}, {})
    /\ UNCHANGED <<workspace, kept, panels, priced, fitting, keeping, clicks, changes, reloads>>

\* The answer: the store is replaced, a panel appended or deleted by its
\* place.  A new panel that sees more clicks than it was built with calculates.
Managed ==
    /\ managing # Silent
    /\ workspace' = managing.workspace
    /\ panels' = IF managing.removed # {} THEN RemoveAt(panels, CHOOSE k \in managing.removed : TRUE)
                 ELSE panels \o SetToSeq(managing.added)
    /\ priced' = [s \in ToSet(panels') |->
                   IF s \in managing.added
                     THEN Panel(IF s \in DOMAIN workspace'.drafts THEN workspace'.drafts[s] ELSE 0, Silent)
                     ELSE priced[s]]
    /\ fitting' = [s \in Structures |->
                     IF s \in managing.added /\ clicks > managing.baseline THEN [results |-> priced'[s].inputs]
                     ELSE IF s \in ToSet(panels') THEN fitting[s] ELSE Silent]
    /\ managing' = Silent
    /\ ticking' = (ticking \/ managing.added # {} \/ managing.removed # {})
    /\ Keeps(workspace'.order, priced')
    /\ UNCHANGED <<kept, clicks, changes, reloads>>

\* The page is reloaded at any moment: answers under way are lost, and the
\* panels are built from the session; the page's valuation date may differ.
Reload ==
    /\ clicks + reloads < MaxTurns
    /\ reloads' = reloads + 1
    /\ panels' = workspace.order
    /\ \E moved \in BOOLEAN :
         /\ changes' = IF moved THEN changes + 1 ELSE changes
         /\ priced' = [s \in ToSet(workspace.order) |->
                        LET i == IF moved THEN changes' ELSE Draft(s)
                        IN Panel(i, IF MatchesTemplate(Kept(s), i) THEN Kept(s) ELSE Silent)]
    /\ fitting' = [s \in Structures |-> Silent]
    /\ Keeps(workspace.order, priced')
    /\ managing' = Silent /\ ticking' = FALSE
    /\ clicks' = 0
    /\ UNCHANGED <<workspace, kept>>

PricerNext ==
    \/ \E s \in OnPage : \/ ChangeInputs(s) \/ Calculate(s) \/ Calculated(s)
                         \/ DuplicateStructure(s) \/ RemoveStructure(s)
    \/ CalculateAll \/ Persist \/ AddStructure \/ SaveDrafts \/ Managed \/ Reload

PricerSpec == PricerInit /\ [][PricerNext]_pricerVars

(***************************************************************************)
(* The stores keep their types: page and session agree on which structures *)
(* there are, and no identifier is used again.                             *)
(***************************************************************************)
PricerTypeOK ==
    /\ workspace.next \in 2..MaxStructures + 1
    /\ IsInjective(workspace.order) /\ \A s \in ToSet(workspace.order) : s < workspace.next
    /\ DOMAIN workspace.drafts \subseteq ToSet(workspace.order)
    /\ panels = workspace.order
    /\ DOMAIN priced = OnPage
    /\ \A s \in Structures : fitting[s] # Silent => s \in OnPage
    /\ ticking \in BOOLEAN

(***************************************************************************)
(* A panel whose calculation is not under way shows no results, or those   *)
(* of the very inputs it shows: after edits during a calculation, after    *)
(* Calculate All, and after a reload that finds the draft of one moment    *)
(* and the results of another in the session.                              *)
(***************************************************************************)
ResultsFitInputs ==
    \A s \in OnPage : fitting[s] = Silent => priced[s].results \in {Silent, priced[s].inputs}
=============================================================================
