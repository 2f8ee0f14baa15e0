---------------------------- MODULE SurfaceFeed ----------------------------
(***************************************************************************)
(* The volatility surfaces every page reads.  One process loads them from  *)
(* the sources and publishes them as an immutable snapshot in a store all  *)
(* processes share; each process activates a snapshot by putting it into   *)
(* its own globals, which its request threads read without a lock, through *)
(* a cache of slices keyed by a generation.  The store may drop a snapshot *)
(* or run out a lock at any time, and a lock that ran out is released all  *)
(* the same by the thread that held it, whoever holds it by then.          *)
(***************************************************************************)
EXTENDS Naturals, Sequences, FiniteSets

CONSTANTS Threads, Processes,  \* request threads, and the processes they belong to
          ProcessOf,           \* [Threads -> Processes]
          NoThread,              \* no thread
          MaxVersion,          \* bound on changes of the sources
          MaxCalls,            \* bound on requests
          MaxRefreshes,        \* bound on refresh clicks and reloads of the page
          MaxRare              \* bound on dropped snapshots, locks run out and watchers

ASSUME FeedAssumption ==
    /\ ProcessOf \in [Threads -> Processes]
    /\ NoThread \notin Threads
    /\ MaxVersion \in Nat \ {0}
    /\ {MaxCalls, MaxRefreshes, MaxRare} \subseteq Nat

VARIABLES version,    \* what the sources hold now
          snapshots,  \* snapshots in the order of their publication: what they hold
          stored,     \* the snapshots the store still has
          latest,     \* its pointer to the newest one, 0 when it is gone
          locks,      \* locks of the store: the thread that holds each
          globals,    \* per process: dataset, slices, generation, active id, lock
          thread,     \* per thread: the request it serves
          page,       \* the browser's reference and its refresh clicks
          calls, rare

feedVars == <<version, snapshots, stored, latest, locks, globals, thread, page, calls, rare>>

FeedRequests == {"page", "render", "operational", "watch"}
Resting == [call |-> "none", pc |-> "idle", force |-> FALSE, ref |-> 0, built |-> 0, seen |-> 0,
            floor |-> 0, stage |-> 0, click |-> 0, gen |-> 0, kept |-> 0, locked |-> FALSE]

\* The store is filled before the servers start; a browser may hold a
\* reference from before, which answered the click it says.
FeedInit ==
    /\ version = 1 /\ snapshots = <<1>> /\ stored = {1} /\ latest = 1
    /\ locks = [l \in {"build", "source"} |-> NoThread]
    /\ globals = [p \in Processes |->
                    [dataset |-> 0, slices |-> <<>>, gen |-> 0, id |-> 0, lock |-> NoThread]]
    /\ thread = [t \in Threads |-> Resting]
    /\ \E kept \in {0, 1} : \E before \in {0, kept} :
         page = [ref |-> kept, clicks |-> 0, answered |-> before, floor |-> 0, due |-> TRUE,
                 lost |-> FALSE, turns |-> 0]
    /\ calls = 0 /\ rare = 0

Moves(t, change) == thread' = [thread EXCEPT ![t] = change]
At(t, pc) == thread[t].pc = pc
Sets(t, g) == globals' = [globals EXCEPT ![ProcessOf[t]] = g]
Own(t) == globals[ProcessOf[t]]
FreeLock(l) == locks' = [locks EXCEPT ![l] = NoThread]

-----------------------------------------------------------------------------
(* Surroundings.                                                           *)

SourcesChange ==
    /\ version < MaxVersion
    /\ version' = version + 1
    /\ UNCHANGED <<snapshots, stored, latest, locks, globals, thread, page, calls, rare>>

\* The trader clicks Refresh, or the poll of publications does.  The click is
\* lost when its count is the one the reference says was answered, before the
\* page was loaded anew.
ClickRefresh ==
    /\ page.turns < MaxRefreshes
    /\ page' = [page EXCEPT !.clicks = @ + 1, !.floor = version, !.due = TRUE, !.turns = @ + 1,
                           !.lost = (page.answered = page.clicks + 1)]
    /\ UNCHANGED <<version, snapshots, stored, latest, locks, globals, thread, calls, rare>>

\* A reloaded page counts its clicks from zero and keeps the reference.
ReloadPage ==
    /\ page.turns < MaxRefreshes
    /\ page' = [page EXCEPT !.clicks = 0, !.floor = 0, !.due = TRUE, !.turns = @ + 1, !.lost = FALSE]
    /\ UNCHANGED <<version, snapshots, stored, latest, locks, globals, thread, calls, rare>>

SnapshotDropped ==
    /\ rare < MaxRare /\ rare' = rare + 1
    /\ \/ \E i \in stored : stored' = stored \ {i} /\ UNCHANGED latest
       \/ latest # 0 /\ latest' = 0 /\ UNCHANGED stored
    /\ UNCHANGED <<version, snapshots, locks, globals, thread, page, calls>>

FeedLockRunsOut(l) ==
    /\ locks[l] # NoThread
    /\ rare < MaxRare /\ rare' = rare + 1
    /\ FreeLock(l)
    /\ UNCHANGED <<version, snapshots, stored, latest, globals, thread, page, calls>>

-----------------------------------------------------------------------------
(* prepare_vol_surface_snapshot, called by every request.                  *)

\* A snapshot is activated unless it is the active one already.
Activate(t, th, id) ==
    [th EXCEPT !.ref = id, !.force = FALSE, !.built = 0, !.pc = IF Own(t).id = id THEN "prepared" ELSE "swap"]

\* A request begins.  The page asks once per load and click, and activates the
\* snapshot it refers to unless a click is to be answered (it reports a click,
\* which takes it two preparations: stages 0 and 2); a render is only ever of
\* the page's snapshot.
BeginRequest(t, c) ==
    /\ At(t, "idle")
    /\ t = CHOOSE u \in Threads : ProcessOf[u] = ProcessOf[t] /\ At(u, "idle")   \* any will do
    /\ calls < MaxCalls /\ calls' = calls + 1
    /\ IF c = "watch" THEN rare < MaxRare /\ rare' = rare + 1 ELSE UNCHANGED rare
    /\ page' = IF c = "page" THEN [page EXCEPT !.due = FALSE] ELSE page
    /\ LET forced == c = "page" /\ page.clicks > 0 /\ page.answered # page.clicks
           th == [Resting EXCEPT !.call = c, !.click = IF c = "page" THEN page.turns ELSE 0,
                                 !.stage = IF c = "page" /\ page.clicks = 0 THEN 2 ELSE 0,
                                 !.force = forced, !.floor = IF c = "watch" THEN version ELSE 0]
           own == c \in {"page", "render"} /\ ~forced /\ page.ref \in stored
       IN /\ c = "page" => page.due
          /\ c = "render" => own
          /\ \E f \in IF c = "operational" THEN BOOLEAN ELSE {forced} :
               Moves(t, IF own THEN Activate(t, th, page.ref)
                               ELSE [th EXCEPT !.pc = "look", !.force = f,
                                               !.floor = IF c = "operational" /\ f THEN version ELSE @])
    /\ UNCHANGED <<version, snapshots, stored, latest, locks, globals>>

\* The latest snapshot is used without a lock if the store has it.
LookLatest(t) ==
    /\ At(t, "look")
    /\ Moves(t, IF ~thread[t].force /\ latest \in stored
                  THEN Activate(t, thread[t], latest)
                  ELSE [thread[t] EXCEPT !.pc = "wait"])
    /\ UNCHANGED <<version, snapshots, stored, latest, locks, globals, page, calls, rare>>

\* Slip: a forced refresh is content with what another builder published.
BuildLockUnforced(t) ==
    /\ At(t, "wait") /\ locks["build"] = NoThread
    /\ locks' = [locks EXCEPT !["build"] = t]
    /\ LET th == [thread[t] EXCEPT !.locked = TRUE] IN
         Moves(t, IF latest \in stored THEN Activate(t, th, latest)
                                       ELSE [th EXCEPT !.pc = "build"])
    /\ UNCHANGED <<version, snapshots, stored, latest, globals, page, calls, rare>>

\* Under the lock it is looked for once more, but not for a forced refresh.
BuildLock(t) ==
    /\ At(t, "wait") /\ locks["build"] = NoThread
    /\ locks' = [locks EXCEPT !["build"] = t]
    /\ LET th == [thread[t] EXCEPT !.locked = TRUE] IN
         Moves(t, IF ~th.force /\ latest \in stored
                    THEN Activate(t, th, latest)
                    ELSE [th EXCEPT !.pc = "build"])
    /\ UNCHANGED <<version, snapshots, stored, latest, globals, page, calls, rare>>

\* The sources are read, or fail; the request fails with them.
Fails(t) ==
    /\ Moves(t, Resting)
    /\ locks' = [l \in DOMAIN locks |->
                   IF (l = "build" /\ thread[t].locked) \/ (l = "source" /\ thread[t].stage \in {3, 5})
                     THEN NoThread ELSE locks[l]]
BuildPayload(t) ==
    /\ At(t, "build")
    /\ \/ /\ Moves(t, [thread[t] EXCEPT !.built = version, !.pc = "publish"])
          /\ UNCHANGED locks
       \/ Fails(t)
    /\ UNCHANGED <<version, snapshots, stored, latest, globals, page, calls, rare>>

\* The snapshot is stored, then pointed at.  Contents equal to the latest are
\* published again only by a forced refresh.
PublishSnapshot(t) ==
    /\ At(t, "publish")
    /\ LET same == ~thread[t].force /\ latest \in stored /\ snapshots[latest] = thread[t].built
           id == IF same THEN latest ELSE Len(snapshots) + 1
       IN /\ latest' = id
          /\ snapshots' = IF same THEN snapshots ELSE Append(snapshots, thread[t].built)
          /\ stored' = stored \cup {id}
          /\ Moves(t, Activate(t, thread[t], id))
    /\ UNCHANGED <<version, locks, globals, page, calls, rare>>

\* The globals are replaced one by one behind a lock no reader takes: the
\* dataset, the cached slices, the generation, the active id.
SwapDataset(t) ==
    /\ At(t, "swap") /\ Own(t).lock = NoThread
    /\ Sets(t, [Own(t) EXCEPT !.dataset = snapshots[thread[t].ref], !.lock = t])
    /\ Moves(t, [thread[t] EXCEPT !.pc = "clear"])
    /\ UNCHANGED <<version, snapshots, stored, latest, locks, page, calls, rare>>
ClearSlices(t) ==
    /\ At(t, "clear")
    /\ Sets(t, [Own(t) EXCEPT !.slices = <<>>])
    /\ Moves(t, [thread[t] EXCEPT !.pc = "generation"])
    /\ UNCHANGED <<version, snapshots, stored, latest, locks, page, calls, rare>>
BumpGeneration(t) ==
    /\ At(t, "generation")
    /\ Sets(t, [Own(t) EXCEPT !.gen = @ + 1])
    /\ Moves(t, [thread[t] EXCEPT !.pc = "name"])
    /\ UNCHANGED <<version, snapshots, stored, latest, locks, page, calls, rare>>
NameActive(t) ==
    /\ At(t, "name")
    /\ Sets(t, [Own(t) EXCEPT !.id = thread[t].ref, !.lock = NoThread])
    /\ Moves(t, [thread[t] EXCEPT !.pc = "prepared"])
    /\ UNCHANGED <<version, snapshots, stored, latest, locks, page, calls, rare>>

\* The lock is given back, and the request goes on with its reference.
GiveBack(t) == IF thread[t].locked THEN FreeLock("build") ELSE UNCHANGED locks
Prepared(t, c) == At(t, "prepared") /\ thread[t].call = c

-----------------------------------------------------------------------------
(* What the requests do with the reference.                                *)

Prepare(th, stage, force) ==
    [th EXCEPT !.pc = "look", !.ref = 0, !.stage = stage, !.force = force, !.locked = FALSE]
Answered(t, id) == [Resting EXCEPT !.call = thread[t].call, !.pc = "answered",
                                   !.kept = id, !.floor = thread[t].floor]

\* A page that reports a click has the reference it will name, and prepares
\* once more: whatever is the latest snapshot now becomes the active one.
FeedbackPage(t) ==
    /\ Prepared(t, "page") /\ thread[t].stage = 0 /\ GiveBack(t)
    /\ Moves(t, Prepare([thread[t] EXCEPT !.kept = thread[t].ref], 2, FALSE))
    /\ UNCHANGED <<version, snapshots, stored, latest, globals, page, calls, rare>>

\* The page keeps the reference, unless a later click or load supersedes it.
AnswerPage(t) ==
    /\ Prepared(t, "page") /\ thread[t].stage = 2 /\ GiveBack(t)
    /\ page' = IF page.turns = thread[t].click
                 THEN [page EXCEPT !.ref = IF thread[t].kept # 0 THEN thread[t].kept ELSE thread[t].ref,
                                   !.answered = page.clicks]
                 ELSE page
    /\ Moves(t, Resting)
    /\ UNCHANGED <<version, snapshots, stored, latest, globals, calls, rare>>

\* A render asks for a slice: its key, the cache, the dataset, the cache.
SliceKey(t) ==
    /\ Prepared(t, "render")
    /\ Moves(t, [thread[t] EXCEPT !.gen = Own(t).gen,
                                  !.pc = IF Own(t).gen \in DOMAIN Own(t).slices THEN "cached" ELSE "rows"])
    /\ UNCHANGED <<version, snapshots, stored, latest, locks, globals, page, calls, rare>>
\* The cache may have been cleared since: the render fails.
CachedSlice(t) ==
    /\ At(t, "cached")
    /\ Moves(t, IF thread[t].gen \in DOMAIN Own(t).slices
                  THEN [Answered(t, thread[t].ref) EXCEPT !.seen = Own(t).slices[thread[t].gen]]
                  ELSE Resting)
    /\ UNCHANGED <<version, snapshots, stored, latest, locks, globals, page, calls, rare>>
ReadRows(t) ==
    /\ At(t, "rows")
    /\ Moves(t, [thread[t] EXCEPT !.seen = Own(t).dataset, !.pc = "keep"])
    /\ UNCHANGED <<version, snapshots, stored, latest, locks, globals, page, calls, rare>>
KeepSlice(t) ==
    /\ At(t, "keep")
    /\ LET g == thread[t].gen IN
         Sets(t, [Own(t) EXCEPT !.slices = [k \in DOMAIN @ \cup {g} |->
                                             IF k = g THEN thread[t].seen ELSE @[k]]])
    /\ Moves(t, [Answered(t, thread[t].ref) EXCEPT !.seen = thread[t].seen])
    /\ UNCHANGED <<version, snapshots, stored, latest, locks, page, calls, rare>>

\* A reader outside the page takes the payload of its reference from the
\* store, never from the globals; it fails if the store has lost it.
PayloadOf(t) == snapshots[thread[t].ref]
AnswerOperational(t) ==
    /\ Prepared(t, "operational")
    /\ IF thread[t].ref \in stored
         THEN Moves(t, [Answered(t, thread[t].ref) EXCEPT !.seen = PayloadOf(t)]) /\ GiveBack(t)
         ELSE Fails(t)
    /\ UNCHANGED <<version, snapshots, stored, latest, globals, page, calls, rare>>

\* The watcher of a source compares the payload of its reference (stage 0)
\* with the source.  A changed publication is fetched by a forced refresh
\* (stage 1); changed values under a lock of their own, after one more look at
\* the latest snapshot (stage 3), by a forced refresh (stage 5), and what the
\* latest snapshot then holds is compared with the source (stage 4).
Stage(t, stage) == Prepared(t, "watch") /\ thread[t].stage = stage
Unmoved == <<version, snapshots, stored, latest, globals, page, calls, rare>>

WatchSource(t) ==
    /\ Stage(t, 0)
    /\ IF thread[t].ref \notin stored THEN Fails(t)
       ELSE LET th == [thread[t] EXCEPT !.seen = version] IN
            /\ GiveBack(t)
            /\ IF PayloadOf(t) = version
                 THEN Moves(t, Answered(t, th.ref))
                 ELSE \/ Moves(t, Prepare([th EXCEPT !.seen = 0], 1, TRUE))
                      \/ Moves(t, [th EXCEPT !.pc = "source", !.ref = 0, !.locked = FALSE])
    /\ UNCHANGED Unmoved
WatchPublished(t) ==
    /\ Stage(t, 1) /\ GiveBack(t)
    /\ Moves(t, Answered(t, thread[t].ref))
    /\ UNCHANGED Unmoved
WatchLock(t) ==
    /\ At(t, "source") /\ locks["source"] = NoThread
    /\ locks' = [locks EXCEPT !["source"] = t]
    /\ Moves(t, Prepare(thread[t], 3, FALSE))
    /\ UNCHANGED Unmoved
\* Another request may have published the replacement already.
WatchReplaced(t) ==
    /\ Stage(t, 3)
    /\ IF thread[t].ref \notin stored THEN Fails(t)
       ELSE IF PayloadOf(t) = thread[t].seen
         THEN /\ locks' = [l \in DOMAIN locks |-> IF l = "source" \/ thread[t].locked THEN NoThread ELSE locks[l]]
              /\ Moves(t, Prepare([thread[t] EXCEPT !.kept = thread[t].ref], 4, FALSE))
         ELSE Moves(t, Prepare(thread[t], 5, TRUE)) /\ GiveBack(t)
    /\ UNCHANGED Unmoved
WatchRefreshed(t) ==
    /\ Stage(t, 5)
    /\ locks' = [locks EXCEPT !["source"] = NoThread, !["build"] = NoThread]
    /\ Moves(t, Prepare([thread[t] EXCEPT !.kept = thread[t].ref], 4, FALSE))
    /\ UNCHANGED Unmoved
WatchReconciled(t) ==
    /\ Stage(t, 4)
    /\ IF thread[t].ref \in stored /\ PayloadOf(t) = thread[t].seen
         THEN Moves(t, Answered(t, thread[t].kept)) /\ GiveBack(t)
         ELSE Fails(t)
    /\ UNCHANGED Unmoved

EndRequest(t) ==
    /\ At(t, "answered")
    /\ Moves(t, Resting)
    /\ UNCHANGED locks /\ UNCHANGED Unmoved

FeedNext ==
    \/ SourcesChange \/ ClickRefresh \/ ReloadPage \/ SnapshotDropped
    \/ \E l \in DOMAIN locks : FeedLockRunsOut(l)
    \/ \E t \in Threads :
         \/ \E c \in FeedRequests : BeginRequest(t, c)
         \/ LookLatest(t) \/ BuildLock(t) \/ BuildPayload(t) \/ PublishSnapshot(t)
         \/ SwapDataset(t) \/ ClearSlices(t) \/ BumpGeneration(t) \/ NameActive(t)
         \/ FeedbackPage(t) \/ AnswerPage(t) \/ SliceKey(t) \/ CachedSlice(t) \/ ReadRows(t) \/ KeepSlice(t)
         \/ AnswerOperational(t) \/ WatchSource(t) \/ WatchPublished(t) \/ WatchLock(t)
         \/ WatchReplaced(t) \/ WatchRefreshed(t) \/ WatchReconciled(t) \/ EndRequest(t)

FeedSpec == FeedInit /\ [][FeedNext]_feedVars

(***************************************************************************)
(* References point at snapshots, and a lock at a thread.                  *)
(***************************************************************************)
FeedTypeOK ==
    /\ version \in 1..MaxVersion /\ stored \subseteq DOMAIN snapshots
    /\ latest \in 0..Len(snapshots) /\ page.ref \in 0..Len(snapshots)
    /\ \A l \in DOMAIN locks : locks[l] \in Threads \cup {NoThread}
    /\ \A t \in Threads : {thread[t].ref, thread[t].kept} \subseteq 0..Len(snapshots)
    /\ \A p \in Processes : globals[p].lock \in Threads \cup {NoThread} /\ globals[p].id \in 0..Len(snapshots)
    /\ calls \in 0..MaxCalls /\ rare \in 0..MaxRare /\ page.turns \in 0..MaxRefreshes

\* Outside an activation, the slices a reader finds are of the active dataset.
SlicesOfDataset ==
    \A p \in Processes :
        globals[p].lock = NoThread /\ globals[p].gen \in DOMAIN globals[p].slices
            => globals[p].slices[globals[p].gen] = globals[p].dataset

\* A page that has answered its last click refers to data read after it.  A
\* click the page could not tell from the one its reference answered before a
\* reload (page.lost) is answered without a refresh, and left out.
PageRefreshed ==
    page.ref # 0 /\ page.answered = page.clicks /\ ~page.lost =>
        snapshots[page.ref] >= page.floor

\* A forced operational answer and what a watcher returns were read, or found
\* unchanged, after they were asked for.
AnswersFresh ==
    \A t \in Threads : At(t, "answered") /\ thread[t].call \in {"operational", "watch"} =>
        snapshots[thread[t].kept] >= thread[t].floor

(***************************************************************************)
(* Nothing stale is left behind, though snapshots are dropped, requests    *)
(* give up half-way, and two builders publish in either order once a lock  *)
(* has run out: no slice of a former dataset is found in the cache of the  *)
(* active one, no click taken as a refresh and no forced reader gets data  *)
(* read before it asked.                                                   *)
(***************************************************************************)
AnsweredAfresh == SlicesOfDataset /\ PageRefreshed /\ AnswersFresh

(***************************************************************************)
(* "Resolve or publish the immutable page dataset used by every renderer": *)
(* the rows a render answers with are those of the snapshot it prepared.   *)
(***************************************************************************)
RenderedAsReferenced ==
    \A t \in Threads : At(t, "answered") /\ thread[t].call = "render" =>
        thread[t].seen = snapshots[thread[t].kept]
=============================================================================
