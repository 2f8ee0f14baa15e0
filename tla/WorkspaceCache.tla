--------------------------- MODULE WorkspaceCache ---------------------------
(***************************************************************************)
(* The process-local load cache of core/workspace_cache.py: get_or_load    *)
(* called by several threads for keys of one cache.  Each critical section *)
(* of self._lock is one step; the key lock and the loader span steps.      *)
(*                                                                         *)
(* A value is the version of the source it was loaded from; the source     *)
(* moves on by itself.  An entry's ttl is the time left until it expires.  *)
(***************************************************************************)
EXTENDS Integers, Sequences, FiniteSets

CONSTANTS
    Threads, Keys,
    Locks,         \* lock objects; one per thread is enough, unused ones are collected
    NoLock, NoKey,
    MaxEntries,    \* max_entries
    HealthyTTL, DegradedTTL,
    MaxVersion     \* bound on how often the source of a key changes

ASSUME NullsAssumption == NoLock \notin Locks /\ NoKey \notin Keys
ASSUME BoundsAssumption ==
    /\ MaxEntries \in Nat \ {0} /\ MaxVersion \in Nat
    /\ HealthyTTL \in Nat \ {0} /\ DegradedTTL \in Nat \ {0}

VARIABLES
    source,    \* source[k]: the version a load of k would read now
    lru,       \* the keys of _entries, least recently used first
    entry,     \* entry[k]: version and ttl of the cached value, if k is in lru
    keyLock,   \* _key_locks: the lock registered for k, or NoLock
    holder,    \* holder[l]: the thread holding lock l, if any
    thread     \* thread[t]: where t is in get_or_load, and its locals

vars == <<source, lru, entry, keyLock, holder, thread>>

Versions == 0 .. MaxVersion
TTLs == 0 .. (IF HealthyTTL > DegradedTTL THEN HealthyTTL ELSE DegradedTTL)

(* asked is what the source was at when the call began. *)
Locals == [pc    : {"idle", "register", "wait", "recheck", "loading", "leave", "returned"},
           key   : Keys \cup {NoKey},
           force : BOOLEAN,
           lock  : Locks \cup {NoLock},
           asked : Versions,
           value : {-1} \cup Versions]

(* A call on its way, before it has a key lock. *)
Asking(pc, k, force, value) ==
    [pc |-> pc, key |-> k, force |-> force, lock |-> NoLock, asked |-> source[k], value |-> value]

Idle == [pc |-> "idle", key |-> NoKey, force |-> FALSE, lock |-> NoLock,
         asked |-> 0, value |-> -1]

NobodyHolds == NoKey

TypeOK ==
    /\ source \in [Keys -> Versions]
    /\ lru \in Seq(Keys) /\ Len(lru) <= MaxEntries
    /\ \A i, k \in DOMAIN lru : lru[i] = lru[k] => i = k
    /\ entry \in [Keys -> [version : Versions, ttl : TTLs]]
    /\ keyLock \in [Keys -> Locks \cup {NoLock}]
    /\ holder \in [Locks -> Threads \cup {NobodyHolds}]
    /\ thread \in [Threads -> Locals]

Init ==
    /\ source = [k \in Keys |-> 0]
    /\ lru = <<>>
    /\ entry = [k \in Keys |-> [version |-> 0, ttl |-> 0]]
    /\ keyLock = [k \in Keys |-> NoLock]
    /\ holder = [l \in Locks |-> NobodyHolds]
    /\ thread = [t \in Threads |-> Idle]

-----------------------------------------------------------------------------
(* Slips a change to the class could make; each is shown to break one of   *)
(* the properties below when it takes the place of the real operator.      *)
AcceptsCachedWhenForced(t) ==
    \E i \in DOMAIN lru : lru[i] = thread[t].key /\ entry[thread[t].key].ttl > 0

UnregisterOnSuccess(t) ==
    IF keyLock[thread[t].key] = thread[t].lock /\ thread[t].value # -1
      THEN [keyLock EXCEPT ![thread[t].key] = NoLock] ELSE keyLock

-----------------------------------------------------------------------------
Without(k) == SelectSeq(lru, LAMBDA x : x # k)
Cached(k) == \E i \in DOMAIN lru : lru[i] = k
Fresh(k) == Cached(k) /\ entry[k].ttl > 0

Becomes(t, row) == thread' = [thread EXCEPT ![t] = row]
Set(t, pc) == Becomes(t, [thread[t] EXCEPT !.pc = pc])

(* _get: a hit becomes most recently used, an expired entry is dropped.    *)
TouchLRU(k) ==
    lru' = IF Fresh(k) THEN Append(Without(k), k) ELSE Without(k)

-----------------------------------------------------------------------------
(* The call: a forced refresh drops the entry, any other looks it up.      *)
Call(t, k, force) ==
    /\ thread[t].pc = "idle"
    /\ Becomes(t, IF ~force /\ Fresh(k)
                    THEN Asking("returned", k, force, entry[k].version)
                    ELSE Asking("register", k, force, -1))
    /\ IF force THEN lru' = Without(k) ELSE TouchLRU(k)
    /\ UNCHANGED <<source, entry, keyLock, holder>>

InUse(l) ==
    \/ \E k \in Keys : keyLock[k] = l
    \/ \E t \in Threads : thread[t].lock = l

(* setdefault: join the registered lock or register a new one.             *)
Register(t) ==
    /\ thread[t].pc = "register"
    /\ LET k == thread[t].key
       IN  \E l \in Locks :
             /\ IF keyLock[k] = NoLock THEN ~InUse(l) ELSE l = keyLock[k]
             /\ keyLock' = [keyLock EXCEPT ![k] = l]
             /\ Becomes(t, [thread[t] EXCEPT !.pc = "wait", !.lock = l])
    /\ UNCHANGED <<source, lru, entry, holder>>

Acquire(t) ==
    /\ thread[t].pc = "wait"
    /\ holder[thread[t].lock] = NobodyHolds
    /\ holder' = [holder EXCEPT ![thread[t].lock] = t]
    /\ Set(t, "recheck")
    /\ UNCHANGED <<source, lru, entry, keyLock>>

(* Only a call that is not forced takes what another thread has loaded.    *)
AcceptsCached(t) == ~thread[t].force /\ Fresh(thread[t].key)

(* The second look under the key lock; on a miss the loader starts, and    *)
(* reads the source.                                                       *)
Recheck(t) ==
    /\ thread[t].pc = "recheck"
    /\ LET k == thread[t].key
       IN  /\ IF AcceptsCached(t)
                THEN Becomes(t, [thread[t] EXCEPT !.pc = "leave", !.value = entry[k].version])
                ELSE Becomes(t, [thread[t] EXCEPT !.pc = "loading", !.value = source[k]])
           /\ IF thread[t].force THEN UNCHANGED lru ELSE TouchLRU(k)
    /\ UNCHANGED <<source, entry, keyLock, holder>>

(* popitem(last=False) while there are more than max_entries.              *)
Evict(keys) ==
    IF Len(keys) > MaxEntries THEN SubSeq(keys, Len(keys) - MaxEntries + 1, Len(keys))
                              ELSE keys

(* The loader returns and its value is put, with the ttl its health earns. *)
Put(t, ttl) ==
    /\ thread[t].pc = "loading"
    /\ LET k == thread[t].key
       IN  /\ entry' = [entry EXCEPT ![k] = [version |-> thread[t].value, ttl |-> ttl]]
           /\ lru' = Evict(Append(Without(k), k))
    /\ Set(t, "leave")
    /\ UNCHANGED <<source, keyLock, holder>>

(* The loader raises.                                                      *)
LoadFails(t) ==
    /\ thread[t].pc = "loading"
    /\ Becomes(t, [thread[t] EXCEPT !.pc = "leave", !.value = -1])
    /\ UNCHANGED <<source, lru, entry, keyLock, holder>>

(* The finally clause: a thread removes only the lock it registered under. *)
Unregistered(t) ==
    IF keyLock[thread[t].key] = thread[t].lock
      THEN [keyLock EXCEPT ![thread[t].key] = NoLock] ELSE keyLock

(* "with key_lock" ends, then the finally clause runs.                     *)
Release(t) ==
    /\ thread[t].pc = "leave"
    /\ holder[thread[t].lock] = t
    /\ holder' = [holder EXCEPT ![thread[t].lock] = NobodyHolds]
    /\ UNCHANGED <<source, lru, entry, keyLock, thread>>

Finally(t) ==
    /\ thread[t].pc = "leave"
    /\ holder[thread[t].lock] # t
    /\ keyLock' = Unregistered(t)
    /\ Becomes(t, [thread[t] EXCEPT !.pc = "returned", !.lock = NoLock])
    /\ UNCHANGED <<source, lru, entry, holder>>

Return(t) ==
    /\ thread[t].pc = "returned"
    /\ Becomes(t, Idle)
    /\ UNCHANGED <<source, lru, entry, keyLock, holder>>

Clear ==
    /\ lru' = <<>>
    /\ UNCHANGED <<source, entry, keyLock, holder, thread>>

SourceMoves(k) ==
    /\ source[k] < MaxVersion
    /\ source' = [source EXCEPT ![k] = @ + 1]
    /\ UNCHANGED <<lru, entry, keyLock, holder, thread>>

Tick ==
    /\ entry' = [k \in Keys |->
                   [entry[k] EXCEPT !.ttl = IF @ > 0 THEN @ - 1 ELSE 0]]
    /\ UNCHANGED <<source, lru, keyLock, holder, thread>>

Next ==
    \/ Clear
    \/ Tick
    \/ \E k \in Keys : SourceMoves(k)
    \/ \E t \in Threads :
         \/ \E k \in Keys, force \in BOOLEAN : Call(t, k, force)
         \/ Register(t) \/ Acquire(t) \/ Recheck(t)
         \/ \E ttl \in {HealthyTTL, DegradedTTL} : Put(t, ttl)
         \/ LoadFails(t) \/ Release(t) \/ Finally(t) \/ Return(t)

Spec == Init /\ [][Next]_vars

(* A thread inside get_or_load keeps running and its loader ends; a lock   *)
(* that stays free is acquired, but Python locks have no queue, so a lock  *)
(* that is merely free again and again need not be.                        *)
Step(t) ==
    \/ Register(t) \/ Acquire(t) \/ Recheck(t)
    \/ \E ttl \in {HealthyTTL, DegradedTTL} : Put(t, ttl)
    \/ LoadFails(t) \/ Release(t) \/ Finally(t)

Fairness == \A t \in Threads : WF_vars(Step(t))

FairSpec == Spec /\ Fairness

-----------------------------------------------------------------------------
(* Properties.                                                             *)

(* A forced refresh that returns a value returns one read after it was     *)
(* asked for, although older loads may be storing theirs meanwhile.        *)
ForcedIsFresh ==
    \A t \in Threads :
        thread[t].pc = "returned" /\ thread[t].force /\ thread[t].value # -1
        => thread[t].value >= thread[t].asked

(* _key_locks does not leak: a registered lock is in the hands of a thread *)
(* whose finally clause will remove it, whether its load succeeds or not.  *)
NoLeakedLock ==
    \A k \in Keys : keyLock[k] # NoLock =>
        \E t \in Threads : thread[t].key = k /\ thread[t].lock = keyLock[k]

(* No caller is starved by a stream of others for its key, although locks  *)
(* are not fair: the finally clauses retire a lock, so those who come      *)
(* later queue elsewhere.                                                  *)
Answered == \A t \in Threads : thread[t].pc = "wait" ~> thread[t].pc = "returned"

(* What the class promises: loads of one key are serialized.               *)
LoadsSerialized ==
    \A s, t \in Threads :
        /\ thread[s].pc = "loading" /\ thread[t].pc = "loading"
        /\ thread[s].key = thread[t].key
        => s = t
=============================================================================
