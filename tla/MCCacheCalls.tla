---------------------------- MODULE MCCacheCalls ----------------------------
(***************************************************************************)
(* Three small instances of WorkspaceCache checked in one run: two threads *)
(* that evict each other's keys, two threads and a source that changes,    *)
(* and three threads after one key.                                        *)
(***************************************************************************)
EXTENDS WorkspaceCache

VARIABLE focus

callsVars == <<focus, vars>>

FirstKey == CHOOSE k \in Keys : TRUE
LastThread == CHOOSE t \in Threads : TRUE

Calling(t) == thread'[t].pc # "idle"

InFocus ==
    /\ focus # "changes" => UNCHANGED source
    /\ focus # "evictions" => \A t \in Threads : Calling(t) => thread'[t].key = FirstKey
    /\ focus # "threads" => ~Calling(LastThread)

CallsInit == Init /\ focus \in {"evictions", "changes", "threads"}

CallsNext == Next /\ InFocus /\ UNCHANGED focus

CallsSpec == CallsInit /\ [][CallsNext]_callsVars /\ Fairness
=============================================================================
