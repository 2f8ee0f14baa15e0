------------------------ MODULE WorkspaceCacheProofs ------------------------
(***************************************************************************)
(* The two safety properties of the load cache, for any number of threads, *)
(* keys and lock objects.  The order of the entries plays no part in them, *)
(* so the invariant leaves lru out.                                        *)
(***************************************************************************)
EXTENDS WorkspaceCache, TLAPS

(* What is true of the locals of a thread while the source is at s: before *)
(* and after it uses a key lock it has none, a forced call asked for no    *)
(* more than the source now has, and what it loaded is what it asked for   *)
(* or newer; a thread that loads has read the source.                      *)
RowOK(r, s) ==
    /\ r.pc # "idle" => r.key \in Keys
    /\ r.pc \in {"idle", "register", "returned"} => r.lock = NoLock
    /\ r.pc # "idle" => r.asked <= s[r.key]
    /\ r.pc = "loading" => r.value \in Versions
    /\ r.force /\ r.pc \in {"loading", "leave", "returned"} /\ r.value # -1
       => r.value >= r.asked

Typed ==
    /\ source \in [Keys -> Versions]
    /\ entry \in [Keys -> [version : Versions, ttl : TTLs]]
    /\ keyLock \in [Keys -> Locks \cup {NoLock}]
    /\ thread \in [Threads -> Locals]

CacheInv ==
    /\ Typed
    /\ \A t \in Threads : RowOK(thread[t], source)
    /\ NoLeakedLock

LEMMA Constants ==
    /\ MaxVersion \in Nat /\ HealthyTTL \in Nat /\ DegradedTTL \in Nat
    /\ 0 \in Versions /\ 0 \in TTLs /\ HealthyTTL \in TTLs /\ DegradedTTL \in TTLs
BY BoundsAssumption DEF Versions, TTLs

(* The record a thread has, and the record a step gives it.                *)
LEMMA OneThread ==
    ASSUME thread \in [Threads -> Locals], NEW t \in Threads, NEW row \in Locals,
           Becomes(t, row)
    PROVE  /\ thread' \in [Threads -> Locals]
           /\ thread'[t] = row
           /\ \A u \in Threads \ {t} : thread'[u] = thread[u]
BY DEF Becomes

LEMMA RowAt ==
    ASSUME thread \in [Threads -> Locals], NEW t \in Threads
    PROVE  /\ thread[t] \in Locals
           /\ thread[t].pc \in {"idle", "register", "wait", "recheck", "loading", "leave",
                                "returned"}
           /\ thread[t].key \in Keys \cup {NoKey} /\ thread[t].force \in BOOLEAN
           /\ thread[t].lock \in Locks \cup {NoLock} /\ thread[t].asked \in Versions
           /\ thread[t].value \in {-1} \cup Versions
BY DEF Locals

(* A step of one thread that leaves source and registered locks alone      *)
(* keeps the invariant, if the new record is well formed and still holds   *)
(* the lock it held.                                                       *)
LEMMA ThreadStep ==
    ASSUME CacheInv, NEW t \in Threads, NEW row \in Locals, Becomes(t, row),
           RowOK(row, source), row.key = thread[t].key \/ thread[t].lock = NoLock,
           row.lock = thread[t].lock \/ thread[t].lock = NoLock,
           UNCHANGED <<source, keyLock>>, entry' \in [Keys -> [version : Versions, ttl : TTLs]]
    PROVE  CacheInv'
<1>1. /\ thread' \in [Threads -> Locals]
      /\ thread'[t] = row
      /\ \A u \in Threads \ {t} : thread'[u] = thread[u]
  BY OneThread DEF CacheInv, Typed
<1>2. Typed'
  BY <1>1 DEF CacheInv, Typed
<1>3. \A u \in Threads : RowOK(thread'[u], source)
  BY <1>1 DEF CacheInv
<1>4. (\A u \in Threads : RowOK(thread[u], source))'
  BY <1>3
<1>5. NoLeakedLock'
  <2> SUFFICES ASSUME NEW k \in Keys, keyLock[k] # NoLock
               PROVE  \E u \in Threads : thread'[u].key = k /\ thread'[u].lock = keyLock[k]
    BY DEF NoLeakedLock
  <2>1. PICK u \in Threads : thread[u].key = k /\ thread[u].lock = keyLock[k]
    BY DEF CacheInv, NoLeakedLock
  <2>2. CASE u = t
    BY <1>1, <2>1, <2>2
  <2>3. CASE u # t
    BY <1>1, <2>1, <2>3
  <2> QED
    BY <2>2, <2>3
<1> QED
  BY <1>2, <1>4, <1>5 DEF CacheInv

-----------------------------------------------------------------------------
LEMMA CallStep ==
    ASSUME CacheInv, NEW t \in Threads, NEW k \in Keys, NEW force \in BOOLEAN,
           Call(t, k, force)
    PROVE  CacheInv'
<1> DEFINE hit == Asking("returned", k, force, entry[k].version)
           miss == Asking("register", k, force, -1)
<1>1. source[k] \in Versions /\ entry[k].version \in Versions
  BY DEF CacheInv, Typed
<1>2. source[k] \in Int /\ entry[k].version \in Int
  BY <1>1, Constants DEF Versions
<1>3. hit \in Locals /\ miss \in Locals
  BY <1>1 DEF Asking, Locals
<1>4. ~force => RowOK(hit, source)
  BY <1>2 DEF Asking, RowOK
<1>5. RowOK(miss, source)
  BY <1>2 DEF Asking, RowOK
<1>6. thread[t].pc = "idle" /\ thread[t].lock = NoLock
  BY RowAt DEF Call, CacheInv, RowOK
<1>7. UNCHANGED <<source, keyLock>> /\ entry' \in [Keys -> [version : Versions, ttl : TTLs]]
  BY DEF Call, CacheInv, Typed
<1>8. (~force /\ Becomes(t, hit)) \/ Becomes(t, miss)
  BY DEF Call
<1> QED
  BY <1>3, <1>4, <1>5, <1>6, <1>7, <1>8, ThreadStep

LEMMA RegisterStep == ASSUME CacheInv, NEW t \in Threads, Register(t) PROVE CacheInv'
<1>1. /\ thread[t] \in Locals /\ thread[t].pc = "register" /\ thread[t].lock = NoLock
      /\ thread[t].key \in Keys /\ thread[t].asked <= source[thread[t].key]
  BY RowAt DEF Register, CacheInv, Typed, RowOK
<1> DEFINE k == thread[t].key
<1>2. PICK l \in Locks : /\ keyLock[k] = NoLock \/ l = keyLock[k]
                         /\ keyLock' = [keyLock EXCEPT ![k] = l]
                         /\ Becomes(t, [thread[t] EXCEPT !.pc = "wait", !.lock = l])
  BY DEF Register
<1> DEFINE row == [thread[t] EXCEPT !.pc = "wait", !.lock = l]
<1>3. row \in Locals
  BY <1>1 DEF Locals
<1>4. row.pc = "wait" /\ row.lock = l /\ row.key = k /\ row.asked = thread[t].asked
  BY <1>1 DEF Locals
<1>5. /\ thread' \in [Threads -> Locals]
      /\ thread'[t] = row
      /\ \A u \in Threads \ {t} : thread'[u] = thread[u]
  BY <1>2, <1>3, OneThread DEF CacheInv, Typed
<1>6. Typed'
  BY <1>1, <1>2, <1>5 DEF Register, CacheInv, Typed
<1>7. RowOK(row, source)
  BY <1>1, <1>4 DEF RowOK
<1>8. (\A u \in Threads : RowOK(thread[u], source))'
  BY <1>5, <1>7 DEF Register, CacheInv
<1>9. NoLeakedLock'
  <2> SUFFICES ASSUME NEW key \in Keys, keyLock'[key] # NoLock
               PROVE  \E u \in Threads : thread'[u].key = key /\ thread'[u].lock = keyLock'[key]
    BY DEF NoLeakedLock
  <2>1. CASE key = k
    BY <1>1, <1>2, <1>4, <1>5, <2>1 DEF CacheInv, Typed
  <2>2. CASE key # k
    <3>1. keyLock'[key] = keyLock[key]
      BY <1>2, <2>2 DEF CacheInv, Typed
    <3>2. PICK u \in Threads : thread[u].key = key /\ thread[u].lock = keyLock[key]
      BY <3>1 DEF CacheInv, NoLeakedLock
    <3>3. u # t
      BY <2>2, <3>2
    <3> QED
      BY <1>5, <3>1, <3>2, <3>3
  <2> QED
    BY <2>1, <2>2
<1> QED
  BY <1>6, <1>8, <1>9 DEF CacheInv

(* Steps that keep key, force and lock of the thread.                      *)
LEMMA MoveStep ==
    ASSUME CacheInv, NEW t \in Threads,
           NEW pc \in {"wait", "recheck", "loading", "leave"}, NEW value \in {-1} \cup Versions,
           Becomes(t, [thread[t] EXCEPT !.pc = pc, !.value = value]),
           thread[t].pc # "idle",
           thread[t].force /\ pc \in {"loading", "leave"} /\ value # -1
             => value >= thread[t].asked,
           pc = "loading" => value \in Versions,
           UNCHANGED <<source, keyLock>>, entry' \in [Keys -> [version : Versions, ttl : TTLs]]
    PROVE  CacheInv'
<1> DEFINE row == [thread[t] EXCEPT !.pc = pc, !.value = value]
<1>1. /\ thread[t] \in Locals /\ thread[t].key \in Keys
      /\ thread[t].asked <= source[thread[t].key]
  BY RowAt DEF CacheInv, Typed, RowOK
<1>2. row \in Locals
  BY <1>1 DEF Locals
<1>3. /\ row.pc = pc /\ row.value = value /\ row.key = thread[t].key
      /\ row.force = thread[t].force /\ row.lock = thread[t].lock
      /\ row.asked = thread[t].asked
  BY <1>1 DEF Locals
<1>4. RowOK(row, source)
  BY <1>1, <1>3 DEF RowOK
<1> QED
  BY <1>2, <1>3, <1>4, ThreadStep

(* As long as the value is kept.                                           *)
LEMMA SetIsMove ==
    ASSUME thread \in [Threads -> Locals], NEW t \in Threads, NEW pc, Set(t, pc)
    PROVE  Becomes(t, [thread[t] EXCEPT !.pc = pc, !.value = thread[t].value])
BY RowAt DEF Set, Becomes, Locals

LEMMA KeyLockSteps ==
    ASSUME CacheInv, NEW t \in Threads,
           \/ Acquire(t) \/ Recheck(t) \/ LoadFails(t) \/ Release(t)
           \/ \E ttl \in {HealthyTTL, DegradedTTL} : Put(t, ttl)
    PROVE  CacheInv'
<1>1. /\ thread[t] \in Locals /\ thread[t].value \in {-1} \cup Versions
      /\ thread[t].key \in Keys \cup {NoKey} /\ thread[t].asked \in Versions
      /\ RowOK(thread[t], source) /\ thread \in [Threads -> Locals]
      /\ entry \in [Keys -> [version : Versions, ttl : TTLs]] /\ source \in [Keys -> Versions]
  BY RowAt DEF CacheInv, Typed
<1>2. CASE Acquire(t)
  <2>1. Becomes(t, [thread[t] EXCEPT !.pc = "recheck", !.value = thread[t].value])
    BY <1>1, <1>2, SetIsMove DEF Acquire
  <2> QED
    BY <1>1, <1>2, <2>1, MoveStep DEF Acquire
<1>3. CASE Recheck(t)
  <2> DEFINE k == thread[t].key
  <2>1. k \in Keys /\ thread[t].asked <= source[k] /\ thread[t].pc = "recheck"
    BY <1>1, <1>3 DEF Recheck, RowOK
  <2>2. entry[k].version \in Versions /\ source[k] \in Versions
    BY <1>1, <2>1
  <2>3. CASE AcceptsCached(t) /\ Becomes(t, [thread[t] EXCEPT !.pc = "leave", !.value = entry[k].version])
    BY <1>1, <1>3, <2>1, <2>2, <2>3, MoveStep DEF Recheck, AcceptsCached
  <2>4. CASE Becomes(t, [thread[t] EXCEPT !.pc = "loading", !.value = source[k]])
    <3>1. source[k] >= thread[t].asked
      BY <1>1, <2>1, <2>2, Constants DEF Versions
    <3> QED
      BY <1>1, <1>3, <2>1, <2>2, <2>4, <3>1, MoveStep DEF Recheck
  <2> QED
    BY <1>3, <2>3, <2>4 DEF Recheck
<1>4. CASE LoadFails(t)
  BY <1>1, <1>4, MoveStep DEF LoadFails
<1>5. CASE Release(t)
  <2>1. UNCHANGED <<source, entry, keyLock, thread>>
    BY <1>5 DEF Release
  <2> QED
    BY <2>1 DEF CacheInv, Typed, NoLeakedLock
<1>6. ASSUME NEW ttl \in {HealthyTTL, DegradedTTL}, Put(t, ttl) PROVE CacheInv'
  <2>1. thread[t].pc = "loading" /\ thread[t].key \in Keys /\ thread[t].value \in Versions
    BY <1>1, <1>6 DEF Put, RowOK
  <2>2. Becomes(t, [thread[t] EXCEPT !.pc = "leave", !.value = thread[t].value])
    BY <1>1, <1>6, SetIsMove DEF Put
  <2>3. thread[t].force /\ thread[t].value # -1 => thread[t].value >= thread[t].asked
    BY <1>1, <2>1 DEF RowOK
  <2>4. UNCHANGED <<source, keyLock>>
    BY <1>6 DEF Put
  <2>5. entry' \in [Keys -> [version : Versions, ttl : TTLs]]
    BY <1>1, <1>6, <2>1, Constants DEF Put
  <2> QED
    BY <1>1, <2>1, <2>2, <2>3, <2>4, <2>5, MoveStep
<1> QED
  BY <1>2, <1>3, <1>4, <1>5, <1>6

LEMMA FinallyStep == ASSUME CacheInv, NEW t \in Threads, Finally(t) PROVE CacheInv'
<1> DEFINE k == thread[t].key
           row == [thread[t] EXCEPT !.pc = "returned", !.lock = NoLock]
<1>1. /\ thread[t] \in Locals /\ thread[t].pc = "leave" /\ k \in Keys
      /\ RowOK(thread[t], source) /\ Becomes(t, row)
  BY RowAt DEF Finally, CacheInv, Typed, RowOK
<1>2. row \in Locals
  BY <1>1 DEF Locals
<1>3. /\ row.pc = "returned" /\ row.lock = NoLock /\ row.key = k
      /\ row.force = thread[t].force /\ row.value = thread[t].value
      /\ row.asked = thread[t].asked
  BY <1>1 DEF Locals
<1>4. /\ thread' \in [Threads -> Locals]
      /\ thread'[t] = row
      /\ \A u \in Threads \ {t} : thread'[u] = thread[u]
  BY <1>1, <1>2, OneThread DEF CacheInv, Typed
<1>5. /\ keyLock' \in [Keys -> Locks \cup {NoLock}]
      /\ \A key \in Keys \ {k} : keyLock'[key] = keyLock[key]
      /\ keyLock'[k] = IF keyLock[k] = thread[t].lock THEN NoLock ELSE keyLock[k]
  BY <1>1 DEF Finally, Unregistered, CacheInv, Typed
<1>6. Typed'
  BY <1>4, <1>5 DEF Finally, CacheInv, Typed
<1>7. RowOK(row, source)
  BY <1>1, <1>3 DEF RowOK
<1>8. (\A u \in Threads : RowOK(thread[u], source))'
  BY <1>4, <1>7 DEF Finally, CacheInv
<1>9. NoLeakedLock'
  <2> SUFFICES ASSUME NEW key \in Keys, keyLock'[key] # NoLock
               PROVE  \E u \in Threads : thread'[u].key = key /\ thread'[u].lock = keyLock'[key]
    BY DEF NoLeakedLock
  <2>1. keyLock'[key] = keyLock[key] /\ (key = k => keyLock[key] # thread[t].lock)
    BY <1>5
  <2>2. PICK u \in Threads : thread[u].key = key /\ thread[u].lock = keyLock[key]
    BY <2>1 DEF CacheInv, NoLeakedLock
  <2>3. u # t
    BY <2>1, <2>2
  <2> QED
    BY <1>4, <2>1, <2>2, <2>3
<1> QED
  BY <1>6, <1>8, <1>9 DEF CacheInv

LEMMA ReturnStep == ASSUME CacheInv, NEW t \in Threads, Return(t) PROVE CacheInv'
<1>1. thread[t].pc = "returned" /\ thread[t].lock = NoLock
  BY DEF Return, CacheInv, RowOK
<1>2. Idle \in Locals /\ RowOK(Idle, source) /\ Idle.lock = NoLock
  BY Constants DEF Idle, Locals, RowOK
<1> QED
  BY <1>1, <1>2, ThreadStep DEF Return, CacheInv, Typed

(* The source only moves on. *)
LEMMA SourceStep == ASSUME CacheInv, NEW k \in Keys, SourceMoves(k) PROVE CacheInv'
<1>1. source' \in [Keys -> Versions] /\ \A key \in Keys : source[key] <= source'[key]
  BY Constants DEF SourceMoves, CacheInv, Typed, Versions
<1>2. Typed' /\ NoLeakedLock'
  BY <1>1 DEF SourceMoves, CacheInv, Typed, NoLeakedLock
<1>3. ASSUME NEW t \in Threads PROVE RowOK(thread[t], source')
  <2>1. RowOK(thread[t], source) /\ thread[t].asked \in Versions
    BY RowAt DEF CacheInv, Typed
  <2>2. thread[t].pc # "idle" => thread[t].asked <= source'[thread[t].key]
    <3> SUFFICES ASSUME thread[t].pc # "idle" PROVE thread[t].asked <= source'[thread[t].key]
      OBVIOUS
    <3> DEFINE key == thread[t].key
    <3>1. key \in Keys /\ thread[t].asked <= source[key]
      BY <2>1 DEF RowOK
    <3>2. source[key] \in Int /\ source'[key] \in Int /\ thread[t].asked \in Int
      BY <1>1, <2>1, <3>1, Constants DEF Versions, CacheInv, Typed
    <3> QED
      BY <1>1, <3>1, <3>2
  <2> QED
    BY <2>1, <2>2 DEF RowOK
<1>4. (\A t \in Threads : RowOK(thread[t], source))'
  BY <1>3 DEF SourceMoves
<1> QED
  BY <1>2, <1>4 DEF CacheInv

LEMMA TickStep == ASSUME CacheInv, Tick PROVE CacheInv'
<1>1. entry' \in [Keys -> [version : Versions, ttl : TTLs]]
  BY Constants DEF Tick, CacheInv, Typed, TTLs
<1> QED
  BY <1>1 DEF Tick, CacheInv, Typed, NoLeakedLock

LEMMA CacheStep == CacheInv /\ [Next]_vars => CacheInv'
<1> SUFFICES ASSUME CacheInv, [Next]_vars PROVE CacheInv'
  OBVIOUS
<1>1. CASE Clear \/ UNCHANGED vars
  BY <1>1 DEF Clear, vars, CacheInv, Typed, NoLeakedLock
<1>2. CASE Tick
  BY <1>2, TickStep
<1>3. ASSUME NEW k \in Keys, SourceMoves(k) PROVE CacheInv'
  BY <1>3, SourceStep
<1>4. ASSUME NEW t \in Threads,
             \/ \E k \in Keys, force \in BOOLEAN : Call(t, k, force)
             \/ Register(t) \/ Finally(t) \/ Return(t)
      PROVE  CacheInv'
  BY <1>4, CallStep, RegisterStep, FinallyStep, ReturnStep
<1>5. ASSUME NEW t \in Threads,
             \/ Acquire(t) \/ Recheck(t) \/ LoadFails(t) \/ Release(t)
             \/ \E ttl \in {HealthyTTL, DegradedTTL} : Put(t, ttl)
      PROVE  CacheInv'
  BY <1>5, KeyLockSteps
<1> QED
  BY <1>1, <1>2, <1>3, <1>4, <1>5 DEF Next

LEMMA CacheInitially == Init => CacheInv
<1> SUFFICES ASSUME Init PROVE CacheInv
  OBVIOUS
<1>1. Idle \in Locals /\ RowOK(Idle, source)
  BY Constants DEF Idle, Locals, RowOK
<1>2. Typed
  BY <1>1, Constants DEF Init, Typed
<1>3. NoLeakedLock
  BY DEF Init, NoLeakedLock
<1> QED
  BY <1>1, <1>2, <1>3 DEF Init, CacheInv

(* Every reachable state of the cache satisfies CacheInv: the registered   *)
(* locks have an owner, and no thread gives back less than it asked for.   *)
THEOREM CacheInductive == Spec => []CacheInv
BY CacheInitially, CacheStep, PTL DEF Spec

(* A forced refresh never returns a value that was read before it was      *)
(* asked for, however many threads load the key beside it.                 *)
THEOREM ForcedCorrect == Spec => []ForcedIsFresh
<1>1. CacheInv => ForcedIsFresh
  BY DEF CacheInv, RowOK, ForcedIsFresh
<1> QED
  BY <1>1, CacheInductive, PTL

(* No key lock stays registered that no thread will remove.                *)
THEOREM LockCorrect == Spec => []NoLeakedLock
<1>1. CacheInv => NoLeakedLock
  BY DEF CacheInv
<1> QED
  BY <1>1, CacheInductive, PTL
=============================================================================
