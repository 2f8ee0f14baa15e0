------------------------- MODULE MCSettlementCalls -------------------------
(***************************************************************************)
(* Two small instances of the settlement modules checked in one run.       *)
(* "hands": a snapshot that is not corrected, a shadow and a publishing    *)
(* job, two processes of which the second only publishes, and publications *)
(* made by hand.  "evidence": one process, a snapshot that is corrected,   *)
(* shadow jobs of both versions and a publishing job of the second.        *)
(***************************************************************************)
EXTENDS SettlementAlerts

VARIABLE focus

callsVars == <<focus, vars>>

LastWorker == CHOOSE w \in Workers : TRUE

InFocus ==
    /\ focus = "hands" =>
         /\ \A c \in Cobs : source'[c] <= 1 /\ phase'[c] # "closed"
         /\ worker'[LastWorker].job # NoJob => worker'[LastWorker].job.mode = "publish"
    /\ focus = "evidence" =>
         /\ worker'[LastWorker] = Idle
         /\ \A c \in Cobs : \A p \in DOMAIN pubs'[c] : pubs'[c][p] # NoJob
         /\ \A w \in Workers : worker'[w].job # NoJob =>
              worker'[w].job.mode = "shadow" \/ worker'[w].job.version = MaxVersion

CallsInit == Init /\ focus \in {"hands", "evidence"}

CallsNext == Next /\ InFocus /\ UNCHANGED focus

(* Fairness is asked of the steps the instance has.                        *)
CallsFairness ==
    /\ \A w \in Workers : WF_callsVars(Step(w) /\ InFocus /\ UNCHANGED focus)
    /\ \A k \in Jobs : WF_callsVars(Unattended(k) /\ Expire(k) /\ InFocus /\ UNCHANGED focus)

CallsSpec == CallsInit /\ [][CallsNext]_callsVars /\ CallsFairness
=============================================================================
