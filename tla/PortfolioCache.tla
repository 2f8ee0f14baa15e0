---------------------------- MODULE PortfolioCache ----------------------------
(***************************************************************************)
(* How the portfolio page reads option valuations (greeks.py): server      *)
(* processes share a disk cache (core/snapshots.py), and each has an       *)
(* lru_cache of its own.  Nothing is invalidated in another process:       *)
(* Refresh bumps a generation that is part of every key, so what was       *)
(* loaded before is not found again, also not by loads under way.          *)
(***************************************************************************)
EXTENDS Naturals

CONSTANTS
    Servers,
    MaxSource, MaxGeneration   \* bounds on changes of the table and on refreshes

ASSUME PortfolioBoundsAssumption == MaxSource \in Nat /\ MaxGeneration \in Nat

VARIABLES
    valuations,   \* version of the valuation table
    generation,
    combined,     \* shared entry of each generation; Nothing: none
    buildLock,    \* of each entry: the process that builds it
    local,        \* lru entries of each process, by generation
    reader,       \* one request of each process
    refreshed     \* version of the table at the last refresh

portfolioVars == <<valuations, generation, combined, buildLock, local, reader, refreshed>>

Generations == 0 .. MaxGeneration
Nothing == MaxSource + 1
Cells == 0 .. Nothing

NoRequest == [pc |-> "idle", under |-> 0, fetched |-> 0, data |-> Nothing, floor |-> 0]
NoOne == "nobody"

PortfolioTypeOK ==
    /\ valuations \in 0 .. MaxSource /\ generation \in Generations /\ refreshed \in 0 .. MaxSource
    /\ combined \in [Generations -> Cells]
    /\ buildLock \in [Generations -> Servers \cup {NoOne}]
    /\ local \in [Servers -> [Generations -> Cells]]
    /\ reader \in [Servers -> [pc : {"idle", "lock", "cached", "fetch", "query", "put", "done"},
                               under : Generations, fetched : Generations,
                               data : Cells, floor : 0 .. MaxSource]]

PortfolioInit ==
    /\ valuations = 0 /\ generation = 0 /\ refreshed = 0
    /\ combined = [g \in Generations |-> Nothing]
    /\ buildLock = [g \in Generations |-> NoOne]
    /\ local = [s \in Servers |-> [g \in Generations |-> Nothing]]
    /\ reader = [s \in Servers |-> NoRequest]

-----------------------------------------------------------------------------
Reader(s, pc) == reader[s].pc = pc
ReaderTo(s, row) == reader' = [reader EXCEPT ![s] = row]

(* _combined_option_data: the key is made before the lock is asked for. *)
Ask(s) ==
    /\ Reader(s, "idle")
    /\ ReaderTo(s, [NoRequest EXCEPT !.pc = "lock", !.under = generation, !.floor = refreshed])
    /\ UNCHANGED <<valuations, generation, combined, buildLock, local, refreshed>>

LockEntry(s) ==
    /\ Reader(s, "lock") /\ buildLock[reader[s].under] = NoOne
    /\ buildLock' = [buildLock EXCEPT ![reader[s].under] = s]
    /\ ReaderTo(s, [reader[s] EXCEPT !.pc = "cached"])
    /\ UNCHANGED <<valuations, generation, combined, local, refreshed>>

(* The lock runs out after a minute, also under a slow builder. *)
LockRunsOut(g) ==
    /\ buildLock[g] # NoOne
    /\ buildLock' = [buildLock EXCEPT ![g] = NoOne]
    /\ UNCHANGED <<valuations, generation, combined, local, reader, refreshed>>

(* Whoever holds it by then: releasing deletes the entry of the lock.      *)
Unlock(s) == buildLock' = [buildLock EXCEPT ![reader[s].under] = NoOne]

ReadShared(s) ==
    /\ Reader(s, "cached")
    /\ LET found == combined[reader[s].under]
       IN  IF found # Nothing
             THEN ReaderTo(s, [reader[s] EXCEPT !.pc = "done", !.data = found]) /\ Unlock(s)
             ELSE ReaderTo(s, [reader[s] EXCEPT !.pc = "fetch"]) /\ UNCHANGED buildLock
    /\ UNCHANGED <<valuations, generation, combined, local, refreshed>>

(* fetch_options_data: the generation is read again for the local key. *)
ReadLocal(s) ==
    /\ Reader(s, "fetch")
    /\ LET found == local[s][generation]
       IN  ReaderTo(s, [reader[s] EXCEPT !.fetched = generation, !.data = found,
                                         !.pc = IF found = Nothing THEN "query" ELSE "put"])
    /\ UNCHANGED <<valuations, generation, combined, buildLock, local, refreshed>>

Query(s) ==
    /\ Reader(s, "query")
    /\ local' = [local EXCEPT ![s][reader[s].fetched] = valuations]
    /\ ReaderTo(s, [reader[s] EXCEPT !.pc = "put", !.data = valuations])
    /\ UNCHANGED <<valuations, generation, combined, buildLock, refreshed>>

(* A source that is unavailable is not stored. *)
QueryFails(s) ==
    /\ Reader(s, "query")
    /\ ReaderTo(s, NoRequest) /\ Unlock(s)
    /\ UNCHANGED <<valuations, generation, combined, local, refreshed>>

(* Slip: the key is made when the entry is stored. *)
UnderCurrent(s) == generation

StoredUnder(s) == reader[s].under

PutShared(s) ==
    /\ Reader(s, "put")
    /\ combined' = [combined EXCEPT ![StoredUnder(s)] = reader[s].data]
    /\ ReaderTo(s, [reader[s] EXCEPT !.pc = "done"]) /\ Unlock(s)
    /\ UNCHANGED <<valuations, generation, local, refreshed>>

Show(s) ==
    /\ Reader(s, "done")
    /\ ReaderTo(s, NoRequest)
    /\ UNCHANGED <<valuations, generation, combined, buildLock, local, refreshed>>

-----------------------------------------------------------------------------
(* trigger_data_refresh clears the lru of its own process, then bumps: two  *)
(* statements, but what is stored between them lies under the old key.     *)
Refresh(s) ==
    /\ generation < MaxGeneration
    /\ local' = [local EXCEPT ![s] = [g \in Generations |-> Nothing]]
    /\ generation' = generation + 1
    /\ refreshed' = valuations
    /\ UNCHANGED <<valuations, combined, buildLock, reader>>

EntryExpires(g) ==
    /\ combined[g] # Nothing
    /\ combined' = [combined EXCEPT ![g] = Nothing]
    /\ UNCHANGED <<valuations, generation, buildLock, local, reader, refreshed>>

ValuationsChange ==
    /\ valuations < MaxSource /\ valuations' = valuations + 1
    /\ UNCHANGED <<generation, combined, buildLock, local, reader, refreshed>>

PortfolioNext ==
    \/ ValuationsChange
    \/ \E g \in Generations : LockRunsOut(g) \/ EntryExpires(g)
    \/ \E s \in Servers :
         \/ Ask(s) \/ LockEntry(s) \/ ReadShared(s) \/ ReadLocal(s) \/ Query(s) \/ QueryFails(s)
         \/ PutShared(s) \/ Show(s) \/ Refresh(s)

PortfolioSpec == PortfolioInit /\ [][PortfolioNext]_portfolioVars

-----------------------------------------------------------------------------
(* A request made after Refresh was pressed, in whatever process it was,   *)
(* shows the table at least as it stood then, although loads that began    *)
(* before store what they found afterwards and locks run out.              *)
RefreshedIsFresh ==
    \A s \in Servers : Reader(s, "done") => reader[s].data >= reader[s].floor
=============================================================================
