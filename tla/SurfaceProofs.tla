--------------------------- MODULE SurfaceProofs ----------------------------
(***************************************************************************)
(* Theorems about the volatility surfaces: the snapshots that processes share *)
(* and swap under their readers (SurfaceFeed), and the pages on which a    *)
(* surface is calibrated and published (SurfacePage).                      *)
(***************************************************************************)
EXTENDS SurfaceFeed, SurfacePage, ServerProofs

-----------------------------------------------------------------------------
(* The snapshots of the volatility surfaces.  A request that must see new  *)
(* data is forced until it publishes what it has read, and afterwards      *)
(* refers to it.  The slices of a process are of its dataset except while  *)
(* a thread is between replacing the dataset and counting the generation   *)
(* up, because what a reader keeps late it keeps under a generation past.  *)

FeedPcs == {"idle", "look", "wait", "build", "publish", "swap", "clear", "generation", "name",
            "prepared", "cached", "rows", "keep", "source", "answered"}
Swapping == {"clear", "generation", "name"}
Referring == Swapping \cup {"swap", "prepared"}
Preparing == Swapping \cup {"look", "wait", "build", "publish", "swap"}

FeedThreads ==
    [call : FeedRequests \cup {"none"}, pc : FeedPcs, force : BOOLEAN, ref : Nat, built : Nat,
     seen : Nat, floor : Nat, stage : Nat, click : Nat, gen : Nat, kept : Nat, locked : BOOLEAN]

FeedPages ==
    [ref : Nat, clicks : Nat, answered : Nat, floor : Nat, due : BOOLEAN, lost : BOOLEAN, turns : Nat]

\* The request th will refer to a snapshot of data read at version f or later.
FreshFrom(th, f, s) ==
    /\ (th.pc \in {"look", "wait", "build"}) => th.force
    /\ (th.pc = "publish") => (th.force /\ th.built >= f)
    /\ (th.pc \in Referring) => (s[th.ref] >= f)

PageAsks(th, s, pg) ==
    (th.call = "page" /\ th.pc # "idle") =>
        /\ th.click <= pg.turns
        /\ (th.click = pg.turns) => ~pg.due
        /\ (th.click = pg.turns /\ ~pg.lost /\ pg.floor > 0) =>
             IF th.stage = 2 THEN th.kept \in DOMAIN s /\ s[th.kept] >= pg.floor
                             ELSE FreshFrom(th, pg.floor, s)

WatchAsks(th, s, v) ==
    (th.call = "watch" /\ th.pc # "idle") =>
        /\ th.floor <= v
        /\ (th.stage \in {1, 5}) => FreshFrom(th, th.floor, s)
        /\ (th.stage = 3 \/ th.pc = "source") => (th.seen >= th.floor)
        /\ (th.stage = 4 \/ th.pc = "answered") => (th.kept \in DOMAIN s /\ s[th.kept] >= th.floor)

ReadAsks(th, s, v) ==
    (th.call = "operational" /\ th.pc # "idle") =>
        /\ th.floor <= v
        /\ (th.floor > 0) => FreshFrom(th, th.floor, s)
        /\ (th.pc = "answered") => (th.kept \in DOMAIN s /\ s[th.kept] >= th.floor)

RequestOK(th, s, pg, v) ==
    /\ (th.pc \in Referring) => (th.ref \in DOMAIN s)
    /\ th.ref <= Len(s) /\ th.kept <= Len(s)
    /\ (th.pc = "source") => (th.call = "watch")
    /\ (th.pc \in {"cached", "rows", "keep"}) => (th.call = "render")
    /\ PageAsks(th, s, pg) /\ WatchAsks(th, s, v) /\ ReadAsks(th, s, v)

ProcessOK(p) ==
    /\ DOMAIN globals[p] = {"dataset", "slices", "gen", "id", "lock"}
    /\ globals[p].dataset \in Nat /\ globals[p].gen \in Nat
    /\ globals[p].id \in 0 .. Len(snapshots) /\ globals[p].lock \in Threads \cup {NoThread}
    /\ \A k \in DOMAIN globals[p].slices :
         k \in Nat /\ k <= globals[p].gen /\ globals[p].slices[k] \in Nat

StoreTyped ==
    /\ version \in 1 .. MaxVersion /\ snapshots \in Seq(Nat) /\ stored \subseteq DOMAIN snapshots
    /\ latest \in 0 .. Len(snapshots)
    /\ locks \in [{"build", "source"} -> Threads \cup {NoThread}]
    /\ calls \in 0 .. MaxCalls /\ rare \in 0 .. MaxRare
    /\ DOMAIN globals = Processes /\ \A p \in Processes : ProcessOK(p)

\* What is cached, or about to be, under the generation of process p is of
\* its dataset.
Consistent(p) ==
    /\ (globals[p].gen \in DOMAIN globals[p].slices) =>
         (globals[p].slices[globals[p].gen] = globals[p].dataset)
    /\ \A t \in Threads : (ProcessOf[t] = p /\ At(t, "keep") /\ thread[t].gen = globals[p].gen) =>
         (thread[t].seen = globals[p].dataset)

SlicesInv ==
    /\ \A p \in Processes :
         /\ (globals[p].lock # NoThread) =>
              (ProcessOf[globals[p].lock] = p /\ thread[globals[p].lock].pc \in Swapping)
         /\ (globals[p].lock = NoThread \/ thread[globals[p].lock].pc = "name") => Consistent(p)
    /\ \A t \in Threads :
         /\ thread[t].pc \in Swapping => globals[ProcessOf[t]].lock = t
         /\ thread[t].pc \in {"cached", "rows", "keep"} => thread[t].gen <= globals[ProcessOf[t]].gen

RequestsInv ==
    /\ thread \in [Threads -> FeedThreads]
    /\ \A t \in Threads : RequestOK(thread[t], snapshots, page, version)

PageInv ==
    /\ page \in FeedPages /\ page.turns <= MaxRefreshes /\ page.ref <= Len(snapshots)
    /\ page.floor <= version
    /\ (page.clicks = 0) => (page.floor = 0)
    /\ (page.due /\ page.answered = page.clicks /\ page.clicks > 0) => page.lost
    /\ PageRefreshed

FeedInv == StoreTyped /\ SlicesInv /\ RequestsInv /\ PageInv

\* A request on its way to a reference.
LEMMA StillAsks ==
    ASSUME NEW s, NEW pg, NEW v \in Nat, NEW a \in FeedThreads, NEW b \in FeedThreads,
           RequestOK(a, s, pg, v), pg.floor \in Nat, pg.floor <= v,
           b.call = a.call, b.click = a.click, b.floor = a.floor, b.stage = a.stage,
           b.seen = a.seen, b.kept = a.kept, b.ref <= Len(s),
           a.pc \in Preparing, b.pc \in Preparing \cup {"prepared"},
           b.pc \in Referring => b.ref \in DOMAIN s,
           \A f \in Nat : f <= v /\ FreshFrom(a, f, s) => FreshFrom(b, f, s)
    PROVE  RequestOK(b, s, pg, v)
<1>1. /\ a.pc # "idle" /\ a.floor \in Nat
      /\ b.pc # "answered" /\ b.pc # "source" /\ b.pc \notin {"cached", "rows", "keep"}
  BY DEF Preparing, Swapping, FeedThreads
<1>2. PageAsks(b, s, pg)
  BY <1>1 DEF RequestOK, PageAsks
<1>3. WatchAsks(b, s, v)
  BY <1>1 DEF RequestOK, WatchAsks
<1>4. ReadAsks(b, s, v)
  BY <1>1 DEF RequestOK, ReadAsks
<1> QED
  BY <1>1, <1>2, <1>3, <1>4 DEF RequestOK

LEMMA RestingAsks ==
    /\ Resting \in FeedThreads /\ Resting.pc = "idle" /\ Resting.ref = 0 /\ Resting.kept = 0
    /\ \A s, pg, v : Len(s) \in Nat => RequestOK(Resting, s, pg, v)
<1>1. PICK a : a = Resting
  OBVIOUS
<1>2. /\ a \in FeedThreads /\ a.pc = "idle" /\ a.ref = 0 /\ a.kept = 0 /\ a.call = "none"
  BY <1>1 DEF Resting, FeedThreads, FeedPcs
<1>3. ASSUME NEW s, NEW pg, NEW v, Len(s) \in Nat PROVE RequestOK(a, s, pg, v)
  BY <1>2, <1>3 DEF RequestOK, PageAsks, WatchAsks, ReadAsks, Referring, Swapping
<1> QED
  BY <1>1, <1>2, <1>3

\* A request is answered the same however the store grows.
LEMMA AsksInLarger ==
    ASSUME NEW s, NEW z, NEW pg, NEW v, NEW th \in FeedThreads, RequestOK(th, s, pg, v),
           Len(s) \in Nat, Len(z) \in Nat, Len(s) <= Len(z), DOMAIN s = 1 .. Len(s), DOMAIN z = 1 .. Len(z),
           \A i \in DOMAIN s : z[i] = s[i]
    PROVE  RequestOK(th, z, pg, v)
<1>1. th.ref \in Nat /\ th.kept \in Nat
  BY DEF FeedThreads
<1>2. \A i \in DOMAIN s : i \in DOMAIN z
  OBVIOUS
<1>3. \A f : FreshFrom(th, f, s) => FreshFrom(th, f, z)
  BY <1>2 DEF FreshFrom, RequestOK
<1>4. PageAsks(th, z, pg)
  BY <1>2, <1>3 DEF RequestOK, PageAsks
<1>5. WatchAsks(th, z, v)
  BY <1>2, <1>3 DEF RequestOK, WatchAsks
<1>6. ReadAsks(th, z, v)
  BY <1>2, <1>3 DEF RequestOK, ReadAsks
<1> QED
  BY <1>1, <1>2, <1>4, <1>5, <1>6 DEF RequestOK

\* A thread moves and nothing that others read changes.
LEMMA MovedSlices ==
    ASSUME FeedInv, NEW t \in Threads, NEW row \in FeedThreads, Moves(t, row), globals' = globals,
           thread[t].pc \notin Swapping, row.pc \notin Swapping,
           row.pc \in {"cached", "rows", "keep"} => row.gen <= Own(t).gen,
           row.pc = "keep" => row.seen = Own(t).dataset
    PROVE  SlicesInv'
<1>1. thread' = [thread EXCEPT ![t] = row] /\ thread \in [Threads -> FeedThreads]
  BY DEF Moves, FeedInv, RequestsInv
<1>2. thread'[t] = row /\ \A u \in Threads : u # t => thread'[u] = thread[u]
  BY <1>1
<1>3. ASSUME NEW p \in Processes
      PROVE  /\ globals[p].lock # NoThread =>
                  ProcessOf[globals[p].lock] = p /\ thread'[globals[p].lock].pc \in Swapping
             /\ (globals[p].lock = NoThread \/ thread'[globals[p].lock].pc = "name") => Consistent(p)'
  <2>1. globals[p].lock \in Threads \cup {NoThread}
    BY DEF FeedInv, StoreTyped, ProcessOK
  <2>2. globals[p].lock # NoThread => globals[p].lock # t /\ thread'[globals[p].lock] = thread[globals[p].lock]
    BY <1>2, <2>1 DEF FeedInv, SlicesInv
  <2>3. Consistent(p) => Consistent(p)'
    BY <1>2 DEF Consistent, At, Own
  <2> QED
    BY <2>2, <2>3 DEF FeedInv, SlicesInv
<1>4. \A u \in Threads :
        /\ thread'[u].pc \in Swapping => globals[ProcessOf[u]].lock = u
        /\ thread'[u].pc \in {"cached", "rows", "keep"} => thread'[u].gen <= globals[ProcessOf[u]].gen
  BY <1>2 DEF FeedInv, SlicesInv, Own
<1> QED
  BY <1>3, <1>4 DEF SlicesInv

LEMMA AskingThread ==
    ASSUME FeedInv, NEW t \in Threads
    PROVE  /\ thread[t] \in FeedThreads /\ RequestOK(thread[t], snapshots, page, version)
           /\ ProcessOf[t] \in Processes /\ t # NoThread /\ Own(t) = globals[ProcessOf[t]]
           /\ Len(snapshots) \in Nat /\ DOMAIN snapshots = 1 .. Len(snapshots)
           /\ \A i \in DOMAIN snapshots : snapshots[i] \in Nat
           /\ version \in Nat /\ page \in FeedPages /\ page.floor \in Nat /\ page.floor <= version
           /\ page.turns \in Nat /\ page.lost \in BOOLEAN /\ stored \subseteq DOMAIN snapshots
           /\ latest \in 0 .. Len(snapshots)
<1>1. thread \in [Threads -> FeedThreads] /\ RequestOK(thread[t], snapshots, page, version)
  BY DEF FeedInv, RequestsInv
<1>2. ProcessOf[t] \in Processes /\ t # NoThread
  BY FeedAssumption
<1>3. snapshots \in Seq(Nat) /\ version \in Nat /\ stored \subseteq DOMAIN snapshots /\ latest \in 0 .. Len(snapshots)
  BY FeedAssumption DEF FeedInv, StoreTyped
<1>4. page \in FeedPages /\ page.floor <= version
  BY DEF FeedInv, PageInv
<1>5. page.floor \in Nat /\ page.turns \in Nat /\ page.lost \in BOOLEAN
  BY <1>4 DEF FeedPages
<1> QED
  BY <1>1, <1>2, <1>3, <1>4, <1>5 DEF Own

\* A thread moves, and only it and the locks of the store change.
LEMMA MovedInv ==
    ASSUME FeedInv, NEW t \in Threads, NEW row \in FeedThreads, Moves(t, row), UNCHANGED Unmoved,
           locks' \in [{"build", "source"} -> Threads \cup {NoThread}],
           thread[t].pc \notin Swapping, row.pc \notin Swapping,
           row.pc \in {"cached", "rows", "keep"} => row.gen <= Own(t).gen,
           row.pc = "keep" => row.seen = Own(t).dataset,
           RequestOK(row, snapshots, page, version)
    PROVE  FeedInv'
<1>1. thread \in [Threads -> FeedThreads] /\ thread' = [thread EXCEPT ![t] = row]
  BY DEF FeedInv, RequestsInv, Moves
<1>2. thread' \in [Threads -> FeedThreads] /\ thread'[t] = row /\ \A u \in Threads : u # t => thread'[u] = thread[u]
  BY <1>1
<1>3. SlicesInv'
  BY MovedSlices DEF Unmoved
<1>4. RequestsInv'
  BY <1>2 DEF FeedInv, RequestsInv, Unmoved
<1>5. StoreTyped'
  BY DEF FeedInv, StoreTyped, ProcessOK, Unmoved
<1>6. PageInv'
  BY DEF FeedInv, PageInv, PageRefreshed, Unmoved
<1> QED
  BY <1>3, <1>4, <1>5, <1>6 DEF FeedInv

\* The locks of the store stay locks.
LEMMA LocksKept ==
    ASSUME FeedInv, NEW t \in Threads
    PROVE  /\ (UNCHANGED locks) => locks' \in [{"build", "source"} -> Threads \cup {NoThread}]
           /\ GiveBack(t) => locks' \in [{"build", "source"} -> Threads \cup {NoThread}]
           /\ \A l : FreeLock(l) => locks' \in [{"build", "source"} -> Threads \cup {NoThread}]
           /\ \A l : locks' = [locks EXCEPT ![l] = t] => locks' \in [{"build", "source"} -> Threads \cup {NoThread}]
           /\ DOMAIN locks = {"build", "source"}
  BY DEF FeedInv, StoreTyped, GiveBack, FreeLock

\* Its request over, a thread rests.
LEMMA RestsInv ==
    ASSUME FeedInv, NEW t \in Threads, Moves(t, Resting), UNCHANGED Unmoved,
           locks' \in [{"build", "source"} -> Threads \cup {NoThread}], thread[t].pc \notin Swapping
    PROVE  FeedInv'
<1>1. Len(snapshots) \in Nat
  BY AskingThread
<1>2. RequestOK(Resting, snapshots, page, version)
  BY <1>1, RestingAsks
<1>3. Resting.pc = "idle" /\ Resting \in FeedThreads
  BY RestingAsks
<1>4. Resting.pc \notin Swapping /\ Resting.pc \notin {"cached", "rows", "keep"} /\ Resting.pc # "keep"
  BY <1>3 DEF Swapping
<1> HIDE DEF Resting
<1> QED
  BY <1>2, <1>3, <1>4, MovedInv

LEMMA FailsInv ==
    ASSUME FeedInv, NEW t \in Threads, Fails(t), UNCHANGED Unmoved, thread[t].pc \notin Swapping
    PROVE  FeedInv'
<1>1. locks' \in [{"build", "source"} -> Threads \cup {NoThread}]
  BY DEF Fails, FeedInv, StoreTyped
<1> QED
  BY <1>1, RestsInv DEF Fails

\* A request activates a snapshot, or finds it active.
LEMMA ActivateOK ==
    ASSUME NEW t, NEW s, NEW pg, NEW v \in Nat, NEW a \in FeedThreads, NEW id \in DOMAIN s,
           DOMAIN s = 1 .. Len(s), Len(s) \in Nat, pg.floor \in Nat, pg.floor <= v,
           RequestOK(a, s, pg, v), a.pc \in Preparing,
           \A f \in Nat : f <= v /\ FreshFrom(a, f, s) => s[id] >= f
    PROVE  /\ Activate(t, a, id) \in FeedThreads /\ RequestOK(Activate(t, a, id), s, pg, v)
           /\ Activate(t, a, id).pc \in {"prepared", "swap"} /\ Activate(t, a, id).ref = id
<1>1. PICK row : row = Activate(t, a, id)
  OBVIOUS
<1>a. PICK x \in {"prepared", "swap"} : x = IF Own(t).id = id THEN "prepared" ELSE "swap"
  OBVIOUS
<1>b. row = [a EXCEPT !.ref = id, !.force = FALSE, !.built = 0, !.pc = x] /\ id \in Nat /\ x \in FeedPcs
  BY <1>1, <1>a DEF Activate, FeedPcs
<1>2. /\ row \in FeedThreads /\ row.pc \in {"prepared", "swap"} /\ row.ref = id
      /\ row.call = a.call /\ row.click = a.click /\ row.floor = a.floor /\ row.stage = a.stage
      /\ row.seen = a.seen /\ row.kept = a.kept
  BY <1>a, <1>b DEF FeedThreads
<1>3. row.pc \in Preparing \cup {"prepared"} /\ row.ref <= Len(s)
  BY <1>2 DEF Preparing
<1>4. row.pc \notin {"look", "wait", "build", "publish"}
  BY <1>2
<1>5. \A f \in Nat : f <= v /\ FreshFrom(a, f, s) => FreshFrom(row, f, s)
  BY <1>2, <1>4 DEF FreshFrom
<1>6. RequestOK(row, s, pg, v)
  BY <1>2, <1>3, <1>5, StillAsks
<1> QED
  BY <1>1, <1>2, <1>6

\* The steps that only lead to a reference.
LEMMA LookLatestInv ==
    ASSUME FeedInv, NEW t \in Threads, LookLatest(t)
    PROVE  FeedInv'
<1>1. UNCHANGED Unmoved /\ UNCHANGED locks /\ At(t, "look")
  BY DEF LookLatest, Unmoved
<1>2. PICK th : th = thread[t]
  OBVIOUS
<1>3. th \in FeedThreads /\ RequestOK(th, snapshots, page, version) /\ th.pc = "look" /\ th.ref <= Len(snapshots)
  BY <1>1, <1>2, AskingThread DEF At, RequestOK
<1>4. locks' \in [{"build", "source"} -> Threads \cup {NoThread}]
  BY <1>1, LocksKept
<1>5. th.pc \in Preparing /\ th.pc \notin Swapping
  BY <1>3 DEF Preparing, Swapping
<1>6. CASE ~th.force /\ latest \in stored
  <2>1. Moves(t, Activate(t, th, latest)) /\ latest \in DOMAIN snapshots
    BY <1>2, <1>6, AskingThread DEF LookLatest
  <2>2. \A f \in Nat : f <= version /\ FreshFrom(th, f, snapshots) => snapshots[latest] >= f
    BY <1>3, <1>6 DEF FreshFrom
  <2>3. PICK row : row = Activate(t, th, latest)
    OBVIOUS
  <2>4. row \in FeedThreads /\ RequestOK(row, snapshots, page, version) /\ row.pc \in {"prepared", "swap"}
    BY <1>3, <1>5, <2>1, <2>2, <2>3, ActivateOK, AskingThread
  <2>5. row.pc \notin Swapping /\ row.pc \notin {"cached", "rows", "keep"} /\ row.pc # "keep" /\ Moves(t, row)
    BY <2>1, <2>3, <2>4 DEF Swapping
  <2> QED
    BY <1>1, <1>2, <1>4, <1>5, <2>4, <2>5, MovedInv
<1>7. CASE ~(~th.force /\ latest \in stored)
  <2>1. PICK row : row = [th EXCEPT !.pc = "wait"]
    OBVIOUS
  <2>2. Moves(t, row)
    BY <1>2, <1>7, <2>1 DEF LookLatest
  <2>3. /\ row \in FeedThreads /\ row.pc = "wait" /\ row.ref = th.ref /\ row.force = th.force
        /\ row.call = th.call /\ row.click = th.click /\ row.floor = th.floor /\ row.stage = th.stage
        /\ row.seen = th.seen /\ row.kept = th.kept
    BY <1>3, <2>1 DEF FeedThreads, FeedPcs
  <2>4. row.pc \notin Swapping /\ row.pc \notin Referring /\ row.pc \in Preparing /\ row.ref <= Len(snapshots)
    BY <1>3, <2>3 DEF Swapping, Referring, Preparing
  <2>5. \A f \in Nat : f <= version /\ FreshFrom(th, f, snapshots) => FreshFrom(row, f, snapshots)
    BY <1>3, <2>3, <2>4 DEF FreshFrom
  <2>6. RequestOK(row, snapshots, page, version)
    BY <1>3, <1>5, <2>3, <2>4, <2>5, StillAsks, AskingThread
  <2> QED
    BY <1>1, <1>2, <1>4, <1>5, <2>2, <2>3, <2>4, <2>6, MovedInv
<1> QED
  BY <1>6, <1>7

LEMMA BuildLockInv ==
    ASSUME FeedInv, NEW t \in Threads, BuildLock(t)
    PROVE  FeedInv'
<1>1. UNCHANGED Unmoved /\ At(t, "wait") /\ locks' = [locks EXCEPT !["build"] = t]
  BY DEF BuildLock, Unmoved
<1>2. PICK old : old = thread[t]
  OBVIOUS
<1>3. PICK th : th = [old EXCEPT !.locked = TRUE]
  OBVIOUS
<1>a. old \in FeedThreads /\ RequestOK(old, snapshots, page, version) /\ old.pc = "wait" /\ old.ref <= Len(snapshots)
  BY <1>1, <1>2, AskingThread DEF At, RequestOK
<1>b. /\ th \in FeedThreads /\ th.pc = "wait" /\ th.ref = old.ref /\ th.force = old.force
      /\ th.call = old.call /\ th.click = old.click /\ th.floor = old.floor /\ th.stage = old.stage
      /\ th.seen = old.seen /\ th.kept = old.kept
  BY <1>3, <1>a DEF FeedThreads
<1>c. old.pc \in Preparing /\ th.pc \in Preparing /\ old.pc \notin Swapping /\ th.pc \notin Referring
  BY <1>a, <1>b DEF Preparing, Swapping, Referring
<1>d. \A f \in Nat : f <= version /\ FreshFrom(old, f, snapshots) => FreshFrom(th, f, snapshots)
  BY <1>a, <1>b, <1>c DEF FreshFrom
<1>e. RequestOK(th, snapshots, page, version)
  BY <1>a, <1>b, <1>c, <1>d, StillAsks, AskingThread
<1>4. locks' \in [{"build", "source"} -> Threads \cup {NoThread}]
  BY <1>1, LocksKept
<1>6. CASE ~th.force /\ latest \in stored
  <2>1. Moves(t, Activate(t, th, latest)) /\ latest \in DOMAIN snapshots
    BY <1>2, <1>3, <1>6, AskingThread DEF BuildLock
  <2>2. \A f \in Nat : f <= version /\ FreshFrom(th, f, snapshots) => snapshots[latest] >= f
    BY <1>b, <1>6 DEF FreshFrom
  <2>3. PICK row : row = Activate(t, th, latest)
    OBVIOUS
  <2>4. row \in FeedThreads /\ RequestOK(row, snapshots, page, version) /\ row.pc \in {"prepared", "swap"}
    BY <1>b, <1>c, <1>e, <2>1, <2>2, <2>3, ActivateOK, AskingThread
  <2>5. row.pc \notin Swapping /\ row.pc \notin {"cached", "rows", "keep"} /\ row.pc # "keep" /\ Moves(t, row)
    BY <2>1, <2>3, <2>4 DEF Swapping
  <2> QED
    BY <1>1, <1>2, <1>4, <1>c, <2>4, <2>5, MovedInv
<1>7. CASE ~(~th.force /\ latest \in stored)
  <2>1. PICK row : row = [th EXCEPT !.pc = "build"]
    OBVIOUS
  <2>2. Moves(t, row)
    BY <1>2, <1>3, <1>7, <2>1 DEF BuildLock
  <2>3. /\ row \in FeedThreads /\ row.pc = "build" /\ row.ref = th.ref /\ row.force = th.force
        /\ row.call = th.call /\ row.click = th.click /\ row.floor = th.floor /\ row.stage = th.stage
        /\ row.seen = th.seen /\ row.kept = th.kept
    BY <1>b, <2>1 DEF FeedThreads, FeedPcs
  <2>4. row.pc \notin Swapping /\ row.pc \notin Referring /\ row.pc \in Preparing /\ row.ref <= Len(snapshots)
    BY <1>a, <1>b, <2>3 DEF Swapping, Referring, Preparing
  <2>5. \A f \in Nat : f <= version /\ FreshFrom(th, f, snapshots) => FreshFrom(row, f, snapshots)
    BY <1>b, <2>3, <2>4 DEF FreshFrom
  <2>6. RequestOK(row, snapshots, page, version)
    BY <1>b, <1>c, <1>e, <2>3, <2>4, <2>5, StillAsks, AskingThread
  <2> QED
    BY <1>1, <1>2, <1>4, <1>c, <2>2, <2>3, <2>4, <2>6, MovedInv
<1> QED
  BY <1>6, <1>7

LEMMA BuildPayloadInv ==
    ASSUME FeedInv, NEW t \in Threads, BuildPayload(t)
    PROVE  FeedInv'
<1>1. UNCHANGED Unmoved /\ At(t, "build")
  BY DEF BuildPayload, Unmoved
<1>2. PICK th : th = thread[t]
  OBVIOUS
<1>3. th \in FeedThreads /\ RequestOK(th, snapshots, page, version) /\ th.pc = "build" /\ th.ref <= Len(snapshots)
  BY <1>1, <1>2, AskingThread DEF At, RequestOK
<1>5. th.pc \in Preparing /\ th.pc \notin Swapping
  BY <1>3 DEF Preparing, Swapping
<1>6. CASE Fails(t)
  BY <1>1, <1>2, <1>5, <1>6, FailsInv
<1>7. CASE Moves(t, [thread[t] EXCEPT !.built = version, !.pc = "publish"]) /\ UNCHANGED locks
  <2>1. PICK row : row = [th EXCEPT !.built = version, !.pc = "publish"]
    OBVIOUS
  <2>2. Moves(t, row) /\ locks' \in [{"build", "source"} -> Threads \cup {NoThread}]
    BY <1>2, <1>7, <2>1, LocksKept
  <2>a. version \in Nat
    BY AskingThread
  <2>3. /\ row \in FeedThreads /\ row.pc = "publish" /\ row.ref = th.ref /\ row.force = th.force
        /\ row.call = th.call /\ row.click = th.click /\ row.floor = th.floor /\ row.stage = th.stage
        /\ row.seen = th.seen /\ row.kept = th.kept /\ row.built = version
    BY <1>3, <2>1, <2>a DEF FeedThreads, FeedPcs
  <2>4. row.pc \notin Swapping /\ row.pc \notin Referring /\ row.pc \in Preparing /\ row.ref <= Len(snapshots)
    BY <1>3, <2>3 DEF Swapping, Referring, Preparing
  <2>5. \A f \in Nat : f <= version /\ FreshFrom(th, f, snapshots) => FreshFrom(row, f, snapshots)
    BY <1>3, <2>a, <2>3, <2>4 DEF FreshFrom
  <2>6. RequestOK(row, snapshots, page, version)
    BY <1>3, <1>5, <2>3, <2>4, <2>5, StillAsks, AskingThread
  <2> QED
    BY <1>1, <1>2, <1>5, <2>2, <2>3, <2>4, <2>6, MovedInv
<1> QED
  BY <1>6, <1>7 DEF BuildPayload

\* What a watcher prepares next, and how a reader outside the page is answered.
LEMMA PreparesOK ==
    ASSUME NEW s, NEW pg, NEW v \in Nat, NEW row \in FeedThreads, Len(s) \in Nat,
           row.pc = "look", row.ref = 0, row.call = "watch", row.floor <= v, row.kept <= Len(s),
           row.stage \in {1, 5} => row.force, row.stage = 3 => row.seen >= row.floor,
           row.stage = 4 => row.kept \in DOMAIN s /\ s[row.kept] >= row.floor
    PROVE  RequestOK(row, s, pg, v)
<1>3. row.stage \in {1, 5} => FreshFrom(row, row.floor, s)
  BY DEF FreshFrom, Referring, Swapping
<1>4. WatchAsks(row, s, v)
  BY <1>3 DEF WatchAsks
<1> QED
  BY <1>4 DEF RequestOK, PageAsks, ReadAsks, Referring, Swapping

LEMMA AnsweredOK ==
    ASSUME FeedInv, NEW t \in Threads, NEW id \in DOMAIN snapshots, thread[t].call = "watch",
           thread[t].floor <= version, snapshots[id] >= thread[t].floor
    PROVE  /\ Answered(t, id) \in FeedThreads /\ RequestOK(Answered(t, id), snapshots, page, version)
           /\ Answered(t, id).pc = "answered"
<1>1. PICK rest : rest = Resting
  OBVIOUS
<1>2. rest \in FeedThreads /\ rest.ref = 0 /\ rest.stage = 0
  BY <1>1, RestingAsks DEF Resting
<1>3. PICK th \in FeedThreads : th = thread[t]
  BY AskingThread
<1>4. id \in Nat /\ id <= Len(snapshots) /\ Len(snapshots) \in Nat
  BY AskingThread
<1>5. PICK row : row = Answered(t, id)
  OBVIOUS
<1>6. row = [rest EXCEPT !.call = th.call, !.pc = "answered", !.kept = id, !.floor = th.floor]
  BY <1>1, <1>3, <1>5 DEF Answered
<1>7. /\ row \in FeedThreads /\ row.pc = "answered" /\ row.call = "watch" /\ row.kept = id
      /\ row.floor = th.floor /\ row.ref = 0 /\ row.stage = 0
  BY <1>2, <1>3, <1>4, <1>6 DEF FeedThreads, FeedPcs
<1>8. RequestOK(row, snapshots, page, version)
  BY <1>3, <1>4, <1>7 DEF RequestOK, PageAsks, WatchAsks, ReadAsks, Referring, Swapping
<1> QED
  BY <1>5, <1>7, <1>8

\* A thread that is at rest after its step, looks once more, or is answered.
LEMMA QuietInv ==
    ASSUME FeedInv, NEW t \in Threads, NEW row \in FeedThreads, Moves(t, row), UNCHANGED Unmoved,
           locks' \in [{"build", "source"} -> Threads \cup {NoThread}],
           thread[t].pc \in {"prepared", "source", "answered"}, row.pc \in {"look", "source", "answered"},
           RequestOK(row, snapshots, page, version)
    PROVE  FeedInv'
<1>1. thread[t].pc \notin Swapping /\ row.pc \notin Swapping /\ row.pc \notin {"cached", "rows", "keep"} /\ row.pc # "keep"
  BY DEF Swapping
<1> QED
  BY <1>1, MovedInv

\* What a watcher that has its reference knows.
LEMMA Watching ==
    ASSUME FeedInv, NEW t \in Threads, thread[t].call = "watch", thread[t].pc = "prepared"
    PROVE  /\ thread[t].ref \in DOMAIN snapshots /\ thread[t].kept <= Len(snapshots)
           /\ thread[t].floor <= version
           /\ thread[t].stage \in {1, 5} => snapshots[thread[t].ref] >= thread[t].floor
           /\ thread[t].stage = 3 => thread[t].seen >= thread[t].floor
           /\ thread[t].stage = 4 => thread[t].kept \in DOMAIN snapshots /\ snapshots[thread[t].kept] >= thread[t].floor
<1>1. RequestOK(thread[t], snapshots, page, version)
  BY AskingThread
<1> QED
  BY <1>1 DEF RequestOK, WatchAsks, FreshFrom, Referring

LEMMA WatchSourceInv ==
    ASSUME FeedInv, NEW t \in Threads, WatchSource(t)
    PROVE  FeedInv'
<1>1. UNCHANGED Unmoved /\ thread[t].pc = "prepared" /\ thread[t].call = "watch" /\ thread[t].stage = 0
  BY DEF WatchSource, Stage, Prepared, At
<1>2. PICK th \in FeedThreads : th = thread[t]
  BY AskingThread
<1>3. /\ th.ref \in DOMAIN snapshots /\ th.kept <= Len(snapshots) /\ th.floor <= version
      /\ version \in Nat /\ Len(snapshots) \in Nat
  BY <1>1, <1>2, Watching, AskingThread
<1>4. CASE thread[t].ref \notin stored
  <2>1. Fails(t)
    BY <1>4 DEF WatchSource
  <2>2. thread[t].pc \notin Swapping
    BY <1>1 DEF Swapping
  <2> QED
    BY <1>1, <2>1, <2>2, FailsInv
<1>5. CASE thread[t].ref \in stored /\ PayloadOf(t) = version
  <2>1. Moves(t, Answered(t, th.ref)) /\ GiveBack(t)
    BY <1>2, <1>5 DEF WatchSource
  <2>2. snapshots[th.ref] >= th.floor
    BY <1>2, <1>3, <1>5 DEF PayloadOf, FeedThreads
  <2>3. PICK row : row = Answered(t, th.ref)
    OBVIOUS
  <2>4. row \in FeedThreads /\ RequestOK(row, snapshots, page, version) /\ row.pc = "answered"
    BY <1>1, <1>2, <1>3, <2>2, <2>3, AnsweredOK
  <2>5. Moves(t, row) /\ locks' \in [{"build", "source"} -> Threads \cup {NoThread}]
    BY <2>1, <2>3, LocksKept
  <2> QED
    BY <1>1, <2>4, <2>5, QuietInv
<1>6. CASE thread[t].ref \in stored /\ PayloadOf(t) # version
  <2>1. GiveBack(t) /\ \/ Moves(t, Prepare([[thread[t] EXCEPT !.seen = version] EXCEPT !.seen = 0], 1, TRUE))
                       \/ Moves(t, [[thread[t] EXCEPT !.seen = version] EXCEPT !.pc = "source", !.ref = 0, !.locked = FALSE])
    BY <1>6 DEF WatchSource
  <2>2. locks' \in [{"build", "source"} -> Threads \cup {NoThread}]
    BY <2>1, LocksKept
  <2>3. CASE Moves(t, Prepare([[thread[t] EXCEPT !.seen = version] EXCEPT !.seen = 0], 1, TRUE))
    <3>1. PICK b : b = [[th EXCEPT !.seen = version] EXCEPT !.seen = 0]
      OBVIOUS
    <3>2. b \in FeedThreads /\ b.call = "watch" /\ b.floor = th.floor /\ b.kept = th.kept
      BY <1>1, <1>2, <1>3, <3>1 DEF FeedThreads
    <3>3. PICK row : row = Prepare(b, 1, TRUE)
      OBVIOUS
    <3>6. /\ row \in FeedThreads /\ row.pc = "look" /\ row.ref = 0 /\ row.stage = 1 /\ row.force
          /\ row.call = "watch" /\ row.floor = th.floor /\ row.kept = th.kept
      BY <3>2, <3>3 DEF Prepare, FeedThreads, FeedPcs
    <3>4. RequestOK(row, snapshots, page, version)
      BY <1>3, <3>6, PreparesOK
    <3>5. Moves(t, row)
      BY <1>2, <2>3, <3>1, <3>3
    <3> QED
      BY <1>1, <2>2, <3>4, <3>5, <3>6, QuietInv
  <2>4. CASE Moves(t, [[thread[t] EXCEPT !.seen = version] EXCEPT !.pc = "source", !.ref = 0, !.locked = FALSE])
    <3>1. PICK row : row = [[th EXCEPT !.seen = version] EXCEPT !.pc = "source", !.ref = 0, !.locked = FALSE]
      OBVIOUS
    <3>2. /\ row \in FeedThreads /\ row.pc = "source" /\ row.call = "watch" /\ row.floor = th.floor
          /\ row.ref = 0 /\ row.seen = version /\ row.stage = 0 /\ row.kept = th.kept
      BY <1>1, <1>2, <1>3, <3>1 DEF FeedThreads, FeedPcs
    <3>3. RequestOK(row, snapshots, page, version)
      BY <1>3, <3>2 DEF RequestOK, PageAsks, WatchAsks, ReadAsks, Referring, Swapping, FeedThreads
    <3>4. Moves(t, row)
      BY <1>2, <2>4, <3>1
    <3> QED
      BY <1>1, <2>2, <3>2, <3>3, <3>4, QuietInv
  <2> QED
    BY <2>1, <2>3, <2>4
<1> QED
  BY <1>4, <1>5, <1>6

LEMMA WatchPublishedInv ==
    ASSUME FeedInv, NEW t \in Threads, WatchPublished(t)
    PROVE  FeedInv'
<1>1. UNCHANGED Unmoved /\ thread[t].pc = "prepared" /\ thread[t].call = "watch" /\ thread[t].stage = 1
  BY DEF WatchPublished, Stage, Prepared, At
<1>2. PICK id : id = thread[t].ref
  OBVIOUS
<1>3. id \in DOMAIN snapshots /\ thread[t].floor <= version /\ snapshots[id] >= thread[t].floor
  BY <1>1, <1>2, Watching
<1>4. PICK row : row = Answered(t, id)
  OBVIOUS
<1>5. row \in FeedThreads /\ RequestOK(row, snapshots, page, version) /\ row.pc = "answered"
  BY <1>1, <1>3, <1>4, AnsweredOK
<1>6. Moves(t, row) /\ locks' \in [{"build", "source"} -> Threads \cup {NoThread}]
  BY <1>2, <1>4, LocksKept DEF WatchPublished
<1> QED
  BY <1>1, <1>5, <1>6, QuietInv

LEMMA WatchLockInv ==
    ASSUME FeedInv, NEW t \in Threads, WatchLock(t)
    PROVE  FeedInv'
<1>1. UNCHANGED Unmoved /\ thread[t].pc = "source" /\ locks' = [locks EXCEPT !["source"] = t]
  BY DEF WatchLock, At
<1>2. PICK th \in FeedThreads : th = thread[t] /\ RequestOK(th, snapshots, page, version)
  BY AskingThread
<1>3. /\ th.kept <= Len(snapshots) /\ th.floor <= version /\ th.seen >= th.floor /\ th.call = "watch"
      /\ version \in Nat /\ Len(snapshots) \in Nat
  BY <1>1, <1>2, AskingThread DEF RequestOK, WatchAsks
<1>4. PICK row : row = Prepare(th, 3, FALSE)
  OBVIOUS
<1>7. /\ row \in FeedThreads /\ row.pc = "look" /\ row.ref = 0 /\ row.stage = 3
      /\ row.call = "watch" /\ row.floor = th.floor /\ row.kept = th.kept /\ row.seen = th.seen
  BY <1>2, <1>3, <1>4 DEF Prepare, FeedThreads, FeedPcs
<1>5. RequestOK(row, snapshots, page, version)
  BY <1>3, <1>7, PreparesOK
<1>6. Moves(t, row) /\ locks' \in [{"build", "source"} -> Threads \cup {NoThread}]
  BY <1>1, <1>2, <1>4, LocksKept DEF WatchLock
<1> QED
  BY <1>1, <1>5, <1>6, <1>7, QuietInv

LEMMA WatchReplacedInv ==
    ASSUME FeedInv, NEW t \in Threads, WatchReplaced(t)
    PROVE  FeedInv'
<1>1. UNCHANGED Unmoved /\ thread[t].pc = "prepared" /\ thread[t].call = "watch" /\ thread[t].stage = 3
  BY DEF WatchReplaced, Stage, Prepared, At
<1>2. PICK th \in FeedThreads : th = thread[t]
  BY AskingThread
<1>3. /\ th.ref \in DOMAIN snapshots /\ th.kept <= Len(snapshots) /\ th.floor <= version /\ th.seen >= th.floor
      /\ version \in Nat /\ Len(snapshots) \in Nat /\ DOMAIN snapshots = 1 .. Len(snapshots)
  BY <1>1, <1>2, Watching, AskingThread
<1>4. CASE thread[t].ref \notin stored
  <2>1. Fails(t)
    BY <1>4 DEF WatchReplaced
  <2>2. thread[t].pc \notin Swapping
    BY <1>1 DEF Swapping
  <2> QED
    BY <1>1, <2>1, <2>2, FailsInv
<1>5. CASE thread[t].ref \in stored /\ PayloadOf(t) = thread[t].seen
  <2>1. /\ Moves(t, Prepare([th EXCEPT !.kept = th.ref], 4, FALSE))
        /\ locks' = [l \in DOMAIN locks |-> IF l = "source" \/ thread[t].locked THEN NoThread ELSE locks[l]]
    BY <1>2, <1>5 DEF WatchReplaced
  <2>2. locks' \in [{"build", "source"} -> Threads \cup {NoThread}]
    BY <2>1 DEF FeedInv, StoreTyped
  <2>3. snapshots[th.ref] >= th.floor /\ th.ref \in Nat /\ th.ref <= Len(snapshots)
    BY <1>2, <1>3, <1>5 DEF PayloadOf
  <2>4. PICK row : row = Prepare([th EXCEPT !.kept = th.ref], 4, FALSE)
    OBVIOUS
  <2>5. /\ row \in FeedThreads /\ row.pc = "look" /\ row.ref = 0 /\ row.stage = 4
        /\ row.call = "watch" /\ row.floor = th.floor /\ row.kept = th.ref
    BY <1>1, <1>2, <2>3, <2>4 DEF Prepare, FeedThreads, FeedPcs
  <2>6. RequestOK(row, snapshots, page, version)
    BY <1>3, <2>3, <2>5, PreparesOK
  <2>7. Moves(t, row)
    BY <2>1, <2>4
  <2> QED
    BY <1>1, <2>2, <2>5, <2>6, <2>7, QuietInv
<1>6. CASE thread[t].ref \in stored /\ PayloadOf(t) # thread[t].seen
  <2>1. Moves(t, Prepare(th, 5, TRUE)) /\ GiveBack(t)
    BY <1>2, <1>6 DEF WatchReplaced
  <2>2. locks' \in [{"build", "source"} -> Threads \cup {NoThread}]
    BY <2>1, LocksKept
  <2>4. PICK row : row = Prepare(th, 5, TRUE)
    OBVIOUS
  <2>5. /\ row \in FeedThreads /\ row.pc = "look" /\ row.ref = 0 /\ row.stage = 5 /\ row.force
        /\ row.call = "watch" /\ row.floor = th.floor /\ row.kept = th.kept
    BY <1>1, <1>2, <2>4 DEF Prepare, FeedThreads, FeedPcs
  <2>6. RequestOK(row, snapshots, page, version)
    BY <1>3, <2>5, PreparesOK
  <2>7. Moves(t, row)
    BY <2>1, <2>4
  <2> QED
    BY <1>1, <2>2, <2>5, <2>6, <2>7, QuietInv
<1> QED
  BY <1>4, <1>5, <1>6

LEMMA WatchRefreshedInv ==
    ASSUME FeedInv, NEW t \in Threads, WatchRefreshed(t)
    PROVE  FeedInv'
<1>1. UNCHANGED Unmoved /\ thread[t].pc = "prepared" /\ thread[t].call = "watch" /\ thread[t].stage = 5
  BY DEF WatchRefreshed, Stage, Prepared, At
<1>2. PICK th \in FeedThreads : th = thread[t]
  BY AskingThread
<1>3. /\ th.ref \in DOMAIN snapshots /\ th.floor <= version /\ snapshots[th.ref] >= th.floor
      /\ version \in Nat /\ Len(snapshots) \in Nat /\ DOMAIN snapshots = 1 .. Len(snapshots)
  BY <1>1, <1>2, Watching, AskingThread
<1>4. th.ref \in Nat /\ th.ref <= Len(snapshots)
  BY <1>3
<1>5. locks' \in [{"build", "source"} -> Threads \cup {NoThread}]
  BY DEF FeedInv, StoreTyped, WatchRefreshed
<1>6. PICK row : row = Prepare([th EXCEPT !.kept = th.ref], 4, FALSE)
  OBVIOUS
<1>7. /\ row \in FeedThreads /\ row.pc = "look" /\ row.ref = 0 /\ row.stage = 4
      /\ row.call = "watch" /\ row.floor = th.floor /\ row.kept = th.ref
  BY <1>1, <1>2, <1>4, <1>6 DEF Prepare, FeedThreads, FeedPcs
<1>8. RequestOK(row, snapshots, page, version)
  BY <1>3, <1>4, <1>7, PreparesOK
<1>9. Moves(t, row)
  BY <1>2, <1>6 DEF WatchRefreshed
<1> QED
  BY <1>1, <1>5, <1>7, <1>8, <1>9, QuietInv

LEMMA WatchReconciledInv ==
    ASSUME FeedInv, NEW t \in Threads, WatchReconciled(t)
    PROVE  FeedInv'
<1>1. UNCHANGED Unmoved /\ thread[t].pc = "prepared" /\ thread[t].call = "watch" /\ thread[t].stage = 4
  BY DEF WatchReconciled, Stage, Prepared, At
<1>2. PICK id : id = thread[t].kept
  OBVIOUS
<1>3. id \in DOMAIN snapshots /\ thread[t].floor <= version /\ snapshots[id] >= thread[t].floor
  BY <1>1, <1>2, Watching
<1>4. CASE thread[t].ref \in stored /\ PayloadOf(t) = thread[t].seen
  <2>1. PICK row : row = Answered(t, id)
    OBVIOUS
  <2>2. row \in FeedThreads /\ RequestOK(row, snapshots, page, version) /\ row.pc = "answered"
    BY <1>1, <1>3, <2>1, AnsweredOK
  <2>3. Moves(t, row) /\ locks' \in [{"build", "source"} -> Threads \cup {NoThread}]
    BY <1>2, <1>4, <2>1, LocksKept DEF WatchReconciled
  <2> QED
    BY <1>1, <2>2, <2>3, QuietInv
<1>5. CASE ~(thread[t].ref \in stored /\ PayloadOf(t) = thread[t].seen)
  <2>1. Fails(t)
    BY <1>5 DEF WatchReconciled
  <2>2. thread[t].pc \notin Swapping
    BY <1>1 DEF Swapping
  <2> QED
    BY <1>1, <2>1, <2>2, FailsInv
<1> QED
  BY <1>4, <1>5

LEMMA AnswerOperationalInv ==
    ASSUME FeedInv, NEW t \in Threads, AnswerOperational(t)
    PROVE  FeedInv'
<1>1. UNCHANGED Unmoved /\ thread[t].pc = "prepared" /\ thread[t].call = "operational"
  BY DEF AnswerOperational, Unmoved, Prepared, At
<1>2. PICK th \in FeedThreads : th = thread[t] /\ RequestOK(th, snapshots, page, version)
  BY AskingThread
<1>3. /\ th.ref \in DOMAIN snapshots /\ Len(snapshots) \in Nat
      /\ th.ref \in Nat /\ th.ref <= Len(snapshots) /\ snapshots[th.ref] \in Nat
  BY <1>1, <1>2, AskingThread DEF RequestOK, Referring
<1>4. CASE thread[t].ref \in stored
  <2>1. Moves(t, [Answered(t, th.ref) EXCEPT !.seen = snapshots[th.ref]]) /\ GiveBack(t)
    BY <1>2, <1>4 DEF AnswerOperational, PayloadOf
  <2>2. PICK rest : rest = Resting
    OBVIOUS
  <2>3. rest \in FeedThreads /\ rest.ref = 0
    BY <2>2, RestingAsks
  <2>4. PICK row : row = [Answered(t, th.ref) EXCEPT !.seen = snapshots[th.ref]]
    OBVIOUS
  <2>9. PICK b : b = [rest EXCEPT !.call = th.call, !.pc = "answered", !.kept = th.ref, !.floor = th.floor]
    OBVIOUS
  <2>a. /\ b \in FeedThreads /\ b.pc = "answered" /\ b.call = "operational" /\ b.kept = th.ref /\ b.ref = 0
        /\ b.floor = th.floor
    BY <1>1, <1>2, <1>3, <2>3, <2>9 DEF FeedThreads, FeedPcs
  <2>5. row = [b EXCEPT !.seen = snapshots[th.ref]]
    BY <1>2, <2>2, <2>4, <2>9 DEF Answered
  <2>6. /\ row \in FeedThreads /\ row.pc = "answered" /\ row.call = "operational" /\ row.kept = th.ref
        /\ row.floor = th.floor /\ row.ref = 0
    BY <1>3, <2>a, <2>5 DEF FeedThreads
  <2>b. th.floor \in Nat /\ th.floor <= version /\ snapshots[th.ref] >= th.floor
    BY <1>1, <1>2, <1>3 DEF RequestOK, ReadAsks, FreshFrom, Referring, FeedThreads
  <2>7. RequestOK(row, snapshots, page, version)
    BY <1>3, <2>6, <2>b DEF RequestOK, PageAsks, WatchAsks, ReadAsks, FreshFrom, Referring, Swapping
  <2>8. Moves(t, row) /\ locks' \in [{"build", "source"} -> Threads \cup {NoThread}]
    BY <2>1, <2>4, LocksKept
  <2> QED
    BY <1>1, <2>6, <2>7, <2>8, QuietInv
<1>5. CASE thread[t].ref \notin stored
  <2>1. Fails(t)
    BY <1>5 DEF AnswerOperational
  <2>2. thread[t].pc \notin Swapping
    BY <1>1 DEF Swapping
  <2> QED
    BY <1>1, <2>1, <2>2, FailsInv
<1> QED
  BY <1>4, <1>5

LEMMA EndRequestInv ==
    ASSUME FeedInv, NEW t \in Threads, EndRequest(t)
    PROVE  FeedInv'
<1>1. UNCHANGED Unmoved /\ UNCHANGED locks /\ Moves(t, Resting) /\ thread[t].pc = "answered"
  BY DEF EndRequest, Unmoved, At
<1>2. thread[t].pc \notin Swapping
  BY <1>1 DEF Swapping
<1>3. locks' \in [{"build", "source"} -> Threads \cup {NoThread}]
  BY <1>1, LocksKept
<1> QED
  BY <1>1, <1>2, <1>3, RestsInv

\* A render is answered with rows it has read or found.
LEMMA RenderAnswered ==
    ASSUME FeedInv, NEW t \in Threads, thread[t].call = "render", NEW rows \in Nat
    PROVE  \E row \in FeedThreads : /\ row = [Answered(t, thread[t].ref) EXCEPT !.seen = rows]
                                   /\ row.pc = "answered" /\ RequestOK(row, snapshots, page, version)
<1>1. PICK th \in FeedThreads : th = thread[t] /\ RequestOK(th, snapshots, page, version)
  BY AskingThread
<1>2. PICK rest : rest = Resting
  OBVIOUS
<1>3. rest \in FeedThreads /\ rest.ref = 0
  BY <1>2, RestingAsks
<1>4. PICK b : b = [rest EXCEPT !.call = th.call, !.pc = "answered", !.kept = th.ref, !.floor = th.floor]
  OBVIOUS
<1>5. b \in FeedThreads /\ b.pc = "answered" /\ b.call = "render" /\ b.kept = th.ref /\ b.ref = 0
  BY <1>1, <1>3, <1>4 DEF FeedThreads, FeedPcs
<1>6. PICK row : row = [b EXCEPT !.seen = rows]
  OBVIOUS
<1>7. row = [Answered(t, thread[t].ref) EXCEPT !.seen = rows]
  BY <1>1, <1>2, <1>4, <1>6 DEF Answered
<1>8. row \in FeedThreads /\ row.pc = "answered" /\ row.call = "render" /\ row.kept = th.ref /\ row.ref = 0
  BY <1>5, <1>6 DEF FeedThreads
<1>9. Len(snapshots) \in Nat
  BY AskingThread
<1>10. RequestOK(row, snapshots, page, version)
  BY <1>1, <1>8, <1>9 DEF RequestOK, PageAsks, WatchAsks, ReadAsks, Referring, Swapping
<1> QED
  BY <1>7, <1>8, <1>10

LEMMA CachedSliceInv ==
    ASSUME FeedInv, NEW t \in Threads, CachedSlice(t)
    PROVE  FeedInv'
<1>1. UNCHANGED Unmoved /\ UNCHANGED locks /\ thread[t].pc = "cached"
  BY DEF CachedSlice, Unmoved, At
<1>2. thread[t].pc \notin Swapping /\ thread[t].call = "render"
  BY <1>1, AskingThread DEF Swapping, RequestOK
<1>3. locks' \in [{"build", "source"} -> Threads \cup {NoThread}]
  BY <1>1, LocksKept
<1>4. CASE thread[t].gen \in DOMAIN Own(t).slices
  <2>1. PICK rows \in Nat : rows = Own(t).slices[thread[t].gen]
    BY <1>4, AskingThread DEF FeedInv, StoreTyped, ProcessOK
  <2>2. PICK row \in FeedThreads : /\ row = [Answered(t, thread[t].ref) EXCEPT !.seen = rows]
                                  /\ row.pc = "answered" /\ RequestOK(row, snapshots, page, version)
    BY <1>2, RenderAnswered
  <2>3. Moves(t, row)
    BY <1>4, <2>1, <2>2 DEF CachedSlice
  <2>4. row.pc \notin Swapping /\ row.pc \notin {"cached", "rows", "keep"} /\ row.pc # "keep"
    BY <2>2 DEF Swapping
  <2> QED
    BY <1>1, <1>2, <1>3, <2>2, <2>3, <2>4, MovedInv
<1>5. CASE thread[t].gen \notin DOMAIN Own(t).slices
  <2>1. Moves(t, Resting)
    BY <1>5 DEF CachedSlice
  <2> QED
    BY <1>1, <1>2, <1>3, <2>1, RestsInv
<1> QED
  BY <1>4, <1>5

LEMMA SliceKeyInv ==
    ASSUME FeedInv, NEW t \in Threads, SliceKey(t)
    PROVE  FeedInv'
<1>1. UNCHANGED Unmoved /\ UNCHANGED locks /\ thread[t].pc = "prepared" /\ thread[t].call = "render"
  BY DEF SliceKey, Unmoved, Prepared, At
<1>2. PICK th \in FeedThreads : th = thread[t] /\ RequestOK(th, snapshots, page, version)
  BY AskingThread
<1>3. Own(t).gen \in Nat
  BY AskingThread DEF FeedInv, StoreTyped, ProcessOK
<1>4. PICK x \in {"cached", "rows"} : x = IF Own(t).gen \in DOMAIN Own(t).slices THEN "cached" ELSE "rows"
  OBVIOUS
<1>5. PICK row : row = [th EXCEPT !.gen = Own(t).gen, !.pc = x]
  OBVIOUS
<1>6. /\ row \in FeedThreads /\ row.pc = x /\ row.call = "render" /\ row.gen = Own(t).gen
      /\ row.ref = th.ref /\ row.kept = th.kept
  BY <1>1, <1>2, <1>3, <1>4, <1>5 DEF FeedThreads, FeedPcs
<1>7. RequestOK(row, snapshots, page, version)
  BY <1>2, <1>4, <1>6 DEF RequestOK, PageAsks, WatchAsks, ReadAsks, Referring, Swapping
<1>8. Moves(t, row) /\ locks' \in [{"build", "source"} -> Threads \cup {NoThread}]
  BY <1>1, <1>2, <1>4, <1>5, LocksKept DEF SliceKey
<1>9. /\ thread[t].pc \notin Swapping /\ row.pc \notin Swapping /\ row.pc # "keep" /\ row.gen <= Own(t).gen
  BY <1>1, <1>3, <1>4, <1>6 DEF Swapping
<1> QED
  BY <1>1, <1>6, <1>7, <1>8, <1>9, MovedInv

LEMMA ReadRowsInv ==
    ASSUME FeedInv, NEW t \in Threads, ReadRows(t)
    PROVE  FeedInv'
<1>1. UNCHANGED Unmoved /\ UNCHANGED locks /\ thread[t].pc = "rows"
  BY DEF ReadRows, Unmoved, At
<1>2. PICK th \in FeedThreads : th = thread[t] /\ RequestOK(th, snapshots, page, version)
  BY AskingThread
<1>3. Own(t).dataset \in Nat /\ th.gen <= Own(t).gen
  BY <1>1, <1>2, AskingThread DEF FeedInv, StoreTyped, ProcessOK, SlicesInv
<1>5. PICK row : row = [th EXCEPT !.seen = Own(t).dataset, !.pc = "keep"]
  OBVIOUS
<1>6. /\ row \in FeedThreads /\ row.pc = "keep" /\ row.call = th.call /\ row.gen = th.gen
      /\ row.ref = th.ref /\ row.kept = th.kept /\ row.seen = Own(t).dataset
  BY <1>2, <1>3, <1>5 DEF FeedThreads, FeedPcs
<1>7. th.call = "render"
  BY <1>1, <1>2 DEF RequestOK
<1>8. RequestOK(row, snapshots, page, version)
  BY <1>2, <1>6, <1>7 DEF RequestOK, PageAsks, WatchAsks, ReadAsks, Referring, Swapping
<1>9. Moves(t, row) /\ locks' \in [{"build", "source"} -> Threads \cup {NoThread}]
  BY <1>1, <1>2, <1>5, LocksKept DEF ReadRows
<1>10. thread[t].pc \notin Swapping /\ row.pc \notin Swapping
  BY <1>1, <1>6 DEF Swapping
<1> QED
  BY <1>1, <1>3, <1>6, <1>8, <1>9, <1>10, MovedInv

\* A request asks the same when the sources or the page move on.
LEMMA AsksLater ==
    ASSUME NEW s, NEW pg, NEW pg2, NEW v \in Nat, NEW v2 \in Nat, NEW th \in FeedThreads,
           RequestOK(th, s, pg, v), v <= v2, pg.turns \in Nat, pg2.turns \in Nat,
           \/ pg2.turns > pg.turns
           \/ pg2.turns = pg.turns /\ (pg2.due => pg.due) /\ pg2.lost = pg.lost /\ pg2.floor = pg.floor
    PROVE  RequestOK(th, s, pg2, v2)
<1>1. th.floor \in Nat /\ th.click \in Nat
  BY DEF FeedThreads
<1>2. PageAsks(th, s, pg2)
  BY <1>1 DEF RequestOK, PageAsks
<1>3. WatchAsks(th, s, v2)
  BY <1>1 DEF RequestOK, WatchAsks
<1>4. ReadAsks(th, s, v2)
  BY <1>1 DEF RequestOK, ReadAsks
<1> QED
  BY <1>2, <1>3, <1>4 DEF RequestOK

LEMMA SourcesChangeInv ==
    ASSUME FeedInv, SourcesChange
    PROVE  FeedInv'
<1>1. StoreTyped'
  BY FeedAssumption DEF FeedInv, StoreTyped, ProcessOK, SourcesChange
<1>2. SlicesInv'
  BY DEF FeedInv, SlicesInv, Consistent, At, SourcesChange
<1>3. version \in Nat /\ version' \in Nat /\ version <= version' /\ page.turns \in Nat /\ page' = page
      /\ snapshots' = snapshots /\ thread' = thread
  BY FeedAssumption DEF FeedInv, StoreTyped, PageInv, FeedPages, SourcesChange
<1>4. RequestsInv'
  <2>1. thread \in [Threads -> FeedThreads] /\ \A t \in Threads : RequestOK(thread[t], snapshots, page, version)
    BY DEF FeedInv, RequestsInv
  <2>2. ASSUME NEW t \in Threads PROVE RequestOK(thread[t], snapshots, page, version')
    BY <1>3, <2>1, AsksLater
  <2> QED
    BY <1>3, <2>1, <2>2 DEF RequestsInv
<1>5. PageInv'
  BY <1>3 DEF FeedInv, PageInv, PageRefreshed, FeedPages
<1> QED
  BY <1>1, <1>2, <1>4, <1>5 DEF FeedInv

\* The page goes on to its next turn.
LEMMA NextTurn ==
    ASSUME FeedInv, page' \in FeedPages, page'.turns = page.turns + 1,
           UNCHANGED <<version, snapshots, stored, latest, locks, globals, thread, calls, rare>>
    PROVE  StoreTyped' /\ SlicesInv' /\ RequestsInv'
<1>1. StoreTyped'
  BY DEF FeedInv, StoreTyped, ProcessOK
<1>2. SlicesInv'
  BY DEF FeedInv, SlicesInv, Consistent, At
<1>3. version \in Nat /\ page.turns \in Nat /\ page'.turns \in Nat /\ page'.turns > page.turns
  BY FeedAssumption DEF FeedInv, StoreTyped, PageInv, FeedPages
<1>4. thread \in [Threads -> FeedThreads] /\ \A t \in Threads : RequestOK(thread[t], snapshots, page, version)
  BY DEF FeedInv, RequestsInv
<1>5. ASSUME NEW t \in Threads PROVE RequestOK(thread[t], snapshots, page', version)
  BY <1>3, <1>4, AsksLater
<1>6. RequestsInv'
  BY <1>4, <1>5 DEF RequestsInv
<1> QED
  BY <1>1, <1>2, <1>6

LEMMA ClickRefreshInv ==
    ASSUME FeedInv, ClickRefresh
    PROVE  FeedInv'
<1>1. page \in FeedPages /\ version \in Nat /\ Len(snapshots) \in Nat /\ MaxRefreshes \in Nat
  BY FeedAssumption DEF FeedInv, StoreTyped, PageInv
<1>2. PICK x \in BOOLEAN : x = (page.answered = page.clicks + 1)
  OBVIOUS
<1>3. /\ page' = [page EXCEPT !.clicks = @ + 1, !.floor = version, !.due = TRUE, !.turns = @ + 1, !.lost = x]
      /\ page.turns < MaxRefreshes
  BY <1>2 DEF ClickRefresh
<1>a. PICK pg \in FeedPages : pg = page
  BY <1>1
<1>b. PICK c \in Nat, n \in Nat : c = pg.clicks + 1 /\ n = pg.turns + 1
  BY DEF FeedPages
<1>c. page' = [pg EXCEPT !.clicks = c, !.floor = version, !.due = TRUE, !.turns = n, !.lost = x]
  BY <1>3, <1>a, <1>b
<1>d. /\ page' \in FeedPages /\ page'.ref = pg.ref /\ page'.clicks = c /\ page'.lost = x
      /\ page'.answered = pg.answered /\ page'.floor = version /\ page'.turns = n
  BY <1>1, <1>2, <1>c DEF FeedPages
<1>e. page.clicks \in Nat /\ page.turns \in Nat
  BY <1>1 DEF FeedPages
<1>4. /\ page' \in FeedPages /\ page'.ref = page.ref /\ page'.clicks = page.clicks + 1
      /\ page'.answered = page.answered /\ page'.floor = version /\ page'.turns = page.turns + 1
      /\ page'.lost = x /\ page.clicks \in Nat /\ page.turns \in Nat
  BY <1>a, <1>b, <1>d, <1>e
<1>5. /\ UNCHANGED <<version, snapshots, stored, latest, locks, globals, thread, calls, rare>>
      /\ page.ref <= Len(snapshots)
  BY DEF ClickRefresh, FeedInv, PageInv
<1>f. (page'.answered = page'.clicks) => page'.lost
  BY <1>2, <1>4
<1>6. PageInv'
  <2>1. page'.turns <= MaxRefreshes /\ page'.floor <= version' /\ (page'.clicks = 0 => page'.floor = 0)
    BY <1>1, <1>3, <1>4, <1>5
  <2> QED
    BY <1>4, <1>5, <1>f, <2>1 DEF PageInv, PageRefreshed
<1> QED
  BY <1>4, <1>5, <1>6, NextTurn DEF FeedInv

LEMMA ReloadPageInv ==
    ASSUME FeedInv, ReloadPage
    PROVE  FeedInv'
<1>1. page \in FeedPages /\ version \in Nat /\ snapshots \in Seq(Nat) /\ MaxRefreshes \in Nat
  BY FeedAssumption DEF FeedInv, StoreTyped, PageInv
<1>3. /\ page' = [page EXCEPT !.clicks = 0, !.floor = 0, !.due = TRUE, !.turns = @ + 1, !.lost = FALSE]
      /\ page.turns < MaxRefreshes
  BY DEF ReloadPage
<1>a. PICK pg \in FeedPages : pg = page
  BY <1>1
<1>b. PICK n \in Nat : n = pg.turns + 1
  BY DEF FeedPages
<1>c. page' = [pg EXCEPT !.clicks = 0, !.floor = 0, !.due = TRUE, !.turns = n, !.lost = FALSE]
  BY <1>3, <1>a, <1>b
<1>d. /\ page' \in FeedPages /\ page'.ref = pg.ref /\ page'.clicks = 0
      /\ page'.floor = 0 /\ page'.turns = n
  BY <1>c DEF FeedPages
<1>4. /\ page' \in FeedPages /\ page'.ref = page.ref /\ page'.clicks = 0 /\ page.ref \in Nat
      /\ page'.floor = 0 /\ page'.turns = page.turns + 1 /\ page.turns \in Nat
  BY <1>a, <1>b, <1>d DEF FeedPages
<1>5. /\ UNCHANGED <<version, snapshots, stored, latest, locks, globals, thread, calls, rare>>
      /\ page.ref <= Len(snapshots)
  BY DEF ReloadPage, FeedInv, PageInv
<1>6. page.ref # 0 => snapshots[page.ref] \in Nat
  BY <1>1, <1>4, <1>5
<1>7. PageInv'
  BY <1>1, <1>3, <1>4, <1>5, <1>6 DEF PageInv, PageRefreshed
<1> QED
  BY <1>4, <1>5, <1>7, NextTurn DEF FeedInv

\* The store loses a snapshot, its pointer or a lock.
LEMMA StoreLosesInv ==
    ASSUME FeedInv, SnapshotDropped \/ \E l \in DOMAIN locks : FeedLockRunsOut(l)
    PROVE  FeedInv'
<1>1. /\ UNCHANGED <<version, snapshots, globals, thread, page, calls>>
      /\ rare < MaxRare /\ rare' = rare + 1
  BY DEF SnapshotDropped, FeedLockRunsOut
<1>2. /\ stored' \subseteq stored /\ latest' \in {latest, 0}
      /\ locks' \in [{"build", "source"} -> Threads \cup {NoThread}]
  <2>1. CASE SnapshotDropped
    BY <2>1 DEF SnapshotDropped, FeedInv, StoreTyped
  <2>2. CASE \E l \in DOMAIN locks : FeedLockRunsOut(l)
    BY <2>2 DEF FeedLockRunsOut, FreeLock, FeedInv, StoreTyped
  <2> QED
    BY <2>1, <2>2
<1>6. rare' \in 0 .. MaxRare /\ stored' \subseteq DOMAIN snapshots /\ latest' \in 0 .. Len(snapshots)
  BY <1>1, <1>2, FeedAssumption DEF FeedInv, StoreTyped
<1>3. StoreTyped'
  BY <1>1, <1>2, <1>6 DEF FeedInv, StoreTyped, ProcessOK
<1>4. SlicesInv'
  BY <1>1 DEF FeedInv, SlicesInv, Consistent, At
<1>5. RequestsInv' /\ PageInv'
  BY <1>1 DEF FeedInv, RequestsInv, PageInv, PageRefreshed
<1> QED
  BY <1>3, <1>4, <1>5 DEF FeedInv

\* A snapshot is stored, and every other request refers to what it did.
LEMMA PublishSnapshotInv ==
    ASSUME FeedInv, NEW t \in Threads, PublishSnapshot(t)
    PROVE  FeedInv'
<1>1. UNCHANGED <<version, locks, globals, page, calls, rare>> /\ thread[t].pc = "publish"
  BY DEF PublishSnapshot, At
<1>2. PICK th \in FeedThreads : th = thread[t] /\ RequestOK(th, snapshots, page, version)
  BY AskingThread
<1>3. PICK same \in BOOLEAN : same = (~th.force /\ latest \in stored /\ snapshots[latest] = th.built)
  OBVIOUS
<1>4. PICK id : id = IF same THEN latest ELSE Len(snapshots) + 1
  OBVIOUS
<1>5. PICK z : z = IF same THEN snapshots ELSE Append(snapshots, th.built)
  OBVIOUS
<1>6. latest' = id /\ snapshots' = z /\ stored' = stored \cup {id} /\ Moves(t, Activate(t, th, id))
  BY <1>2, <1>3, <1>4, <1>5 DEF PublishSnapshot
<1>7. /\ snapshots \in Seq(Nat) /\ stored \subseteq DOMAIN snapshots /\ version \in Nat /\ th.built \in Nat
      /\ Len(snapshots) \in Nat /\ DOMAIN snapshots = 1 .. Len(snapshots) /\ page.floor \in Nat /\ page.floor <= version
  BY <1>2, AskingThread DEF FeedInv, StoreTyped, FeedThreads
<1>8. /\ z \in Seq(Nat) /\ Len(z) \in Nat /\ Len(snapshots) <= Len(z) /\ DOMAIN z = 1 .. Len(z)
      /\ id \in DOMAIN z /\ \A i \in DOMAIN snapshots : z[i] = snapshots[i]
  <2>1. CASE same
    <3>1. latest \in stored
      BY <1>3, <2>1
    <3>2. z = snapshots /\ id = latest
      BY <1>4, <1>5, <2>1
    <3>3. z \in Seq(Nat) /\ Len(z) \in Nat /\ Len(snapshots) <= Len(z) /\ DOMAIN z = 1 .. Len(z)
      BY <1>7, <3>2
    <3> QED
      BY <1>7, <3>1, <3>2, <3>3
  <2>2. CASE ~same
    <3>1. z = Append(snapshots, th.built) /\ id = Len(snapshots) + 1
      BY <1>4, <1>5, <2>2
    <3>2. z \in Seq(Nat) /\ Len(z) = Len(snapshots) + 1 /\ DOMAIN z = 1 .. Len(z)
      BY <1>7, <3>1
    <3>3. \A i \in DOMAIN snapshots : z[i] = snapshots[i]
      BY <1>7, <3>1
    <3> QED
      BY <1>7, <3>1, <3>2, <3>3
  <2> QED
    BY <2>1, <2>2
<1>9. \A f \in Nat : f <= version /\ FreshFrom(th, f, z) => z[id] >= f
  <2>1. CASE same
    BY <1>1, <1>2, <1>3, <2>1 DEF FreshFrom
  <2>2. CASE ~same
    <3>1. z[id] = th.built
      BY <1>4, <1>5, <1>7, <2>2
    <3> QED
      BY <1>1, <1>2, <3>1 DEF FreshFrom
  <2> QED
    BY <2>1, <2>2
<1>10. RequestOK(th, z, page, version)
  BY <1>2, <1>7, <1>8, AsksInLarger
<1>11. th.pc \in Preparing
  BY <1>1, <1>2 DEF Preparing
<1>12. PICK row : row = Activate(t, th, id)
  OBVIOUS
<1>13. row \in FeedThreads /\ RequestOK(row, z, page, version) /\ row.pc \in {"prepared", "swap"}
  BY <1>7, <1>8, <1>9, <1>10, <1>11, <1>12, ActivateOK
<1>14. thread \in [Threads -> FeedThreads] /\ thread' = [thread EXCEPT ![t] = row] /\ Moves(t, row)
  BY <1>6, <1>12 DEF FeedInv, RequestsInv, Moves
<1>15. SlicesInv'
  <2>1. /\ thread[t].pc \notin Swapping /\ row.pc \notin Swapping /\ row.pc \notin {"cached", "rows", "keep"}
        /\ row.pc # "keep" /\ globals' = globals
    BY <1>1, <1>13 DEF Swapping
  <2> QED
    BY <1>13, <1>14, <2>1, MovedSlices
<1>16. RequestsInv'
  <2>1. ASSUME NEW u \in Threads PROVE RequestOK(thread'[u], z, page, version)
    <3>1. CASE u = t
      BY <1>13, <1>14, <3>1
    <3>2. CASE u # t
      <4>1. thread[u] \in FeedThreads /\ RequestOK(thread[u], snapshots, page, version) /\ thread'[u] = thread[u]
        BY <1>14, <3>2, AskingThread
      <4>2. RequestOK(thread[u], z, page, version)
        BY <1>7, <1>8, <4>1, AsksInLarger
      <4> QED
        BY <4>1, <4>2
    <3> QED
      BY <3>1, <3>2
  <2> QED
    BY <1>1, <1>6, <1>13, <1>14, <2>1 DEF RequestsInv
<1>17. StoreTyped'
  <2>1. id \in 0 .. Len(z) /\ stored \cup {id} \subseteq DOMAIN z
    BY <1>7, <1>8
  <2>2. \A p \in Processes : ProcessOK(p)'
    BY <1>1, <1>6, <1>7, <1>8 DEF FeedInv, StoreTyped, ProcessOK
  <2> QED
    BY <1>1, <1>6, <1>8, <2>1, <2>2 DEF FeedInv, StoreTyped
<1>18. PageInv'
  <2>1. page \in FeedPages /\ page.ref \in Nat /\ page.ref <= Len(snapshots) /\ PageRefreshed
    BY DEF FeedInv, PageInv, FeedPages
  <2>2. page.ref <= Len(z) /\ (page.ref # 0 => z[page.ref] = snapshots[page.ref])
    BY <1>7, <1>8, <2>1
  <2>3. PageRefreshed'
    BY <1>1, <1>6, <2>1, <2>2 DEF PageRefreshed
  <2> QED
    BY <1>1, <1>6, <2>2, <2>3 DEF FeedInv, PageInv
<1> QED
  BY <1>15, <1>16, <1>17, <1>18 DEF FeedInv

\* The page has the reference that answers its click, and prepares once more.
LEMMA FeedbackPageInv ==
    ASSUME FeedInv, NEW t \in Threads, FeedbackPage(t)
    PROVE  FeedInv'
<1>1. /\ UNCHANGED Unmoved /\ GiveBack(t)
      /\ thread[t].pc = "prepared" /\ thread[t].call = "page" /\ thread[t].stage = 0
  BY DEF FeedbackPage, Unmoved, Prepared, At
<1>2. PICK th \in FeedThreads : th = thread[t] /\ RequestOK(th, snapshots, page, version)
  BY AskingThread
<1>3. th.ref \in DOMAIN snapshots /\ th.ref \in Nat /\ th.ref <= Len(snapshots) /\ Len(snapshots) \in Nat
  BY <1>1, <1>2, AskingThread DEF RequestOK, Referring
<1>4. PICK row : row = [th EXCEPT !.kept = th.ref, !.pc = "look", !.ref = 0, !.stage = 2,
                                  !.force = FALSE, !.locked = FALSE]
  OBVIOUS
<1>5. Moves(t, row)
  BY <1>2, <1>4 DEF FeedbackPage, Prepare
<1>6. /\ row \in FeedThreads /\ row.pc = "look" /\ row.call = "page" /\ row.stage = 2
      /\ row.ref = 0 /\ row.kept = th.ref /\ row.click = th.click
  BY <1>1, <1>2, <1>3, <1>4 DEF FeedThreads, FeedPcs
<1>7. PageAsks(row, snapshots, page)
  <2>1. th.stage # 2 /\ th.pc \in Referring /\ th.pc # "idle" /\ th.call = "page"
    BY <1>1, <1>2 DEF Referring
  <2> QED
    BY <1>2, <1>3, <1>6, <2>1 DEF RequestOK, PageAsks, FreshFrom
<1>8. RequestOK(row, snapshots, page, version)
  BY <1>3, <1>6, <1>7 DEF RequestOK, WatchAsks, ReadAsks, Referring, Swapping
<1>9. locks' \in [{"build", "source"} -> Threads \cup {NoThread}]
  BY <1>1, LocksKept
<1> QED
  BY <1>1, <1>5, <1>6, <1>8, <1>9, QuietInv

\* The page keeps the reference it was waiting for.
LEMMA AnswerPageInv ==
    ASSUME FeedInv, NEW t \in Threads, AnswerPage(t)
    PROVE  FeedInv'
<1>1. /\ UNCHANGED <<version, snapshots, stored, latest, globals, calls, rare>> /\ Moves(t, Resting)
      /\ thread[t].pc = "prepared" /\ thread[t].call = "page" /\ thread[t].stage = 2 /\ GiveBack(t)
  BY DEF AnswerPage, Prepared, At
<1>2. PICK th \in FeedThreads : th = thread[t] /\ RequestOK(th, snapshots, page, version)
  BY AskingThread
<1>3. /\ th.ref \in DOMAIN snapshots /\ th.ref \in Nat /\ th.ref <= Len(snapshots)
      /\ Len(snapshots) \in Nat /\ version \in Nat /\ DOMAIN snapshots = 1 .. Len(snapshots)
      /\ page.turns \in Nat /\ th.kept \in Nat /\ th.kept <= Len(snapshots)
  BY <1>1, <1>2, AskingThread DEF RequestOK, Referring, FeedThreads
<1>a. PICK id \in DOMAIN snapshots : id = IF th.kept # 0 THEN th.kept ELSE th.ref
  BY <1>3
<1>b. id \in Nat /\ id <= Len(snapshots) /\ snapshots[id] \in Nat
  BY <1>3, AskingThread
<1>4. PICK pg \in FeedPages : pg = page
  BY DEF FeedInv, PageInv
<1>5. page' = IF pg.turns = th.click THEN [pg EXCEPT !.ref = id, !.answered = pg.clicks] ELSE pg
  BY <1>2, <1>4, <1>a DEF AnswerPage
<1>6. /\ page' \in FeedPages /\ page'.turns = page.turns /\ page'.due = page.due /\ page'.lost = page.lost
      /\ page'.floor = page.floor /\ page'.clicks = page.clicks
  BY <1>b, <1>4, <1>5 DEF FeedPages
<1>7. PICK rest : rest = Resting
  OBVIOUS
<1>8. rest \in FeedThreads /\ rest.pc = "idle" /\ RequestOK(rest, snapshots, page, version)
  BY <1>3, <1>7, RestingAsks
<1>9. thread \in [Threads -> FeedThreads] /\ thread' = [thread EXCEPT ![t] = rest] /\ Moves(t, rest)
  BY <1>1, <1>7 DEF FeedInv, RequestsInv, Moves
<1>10. SlicesInv'
  <2>1. /\ thread[t].pc \notin Swapping /\ rest.pc \notin Swapping /\ rest.pc \notin {"cached", "rows", "keep"}
        /\ rest.pc # "keep" /\ globals' = globals
    BY <1>1, <1>8 DEF Swapping
  <2> QED
    BY <1>8, <1>9, <2>1, MovedSlices
<1>11. RequestsInv'
  <2>1. ASSUME NEW u \in Threads PROVE RequestOK(thread'[u], snapshots, page', version)
    <3>1. thread'[u] \in FeedThreads /\ RequestOK(thread'[u], snapshots, page, version)
      BY <1>8, <1>9, AskingThread
    <3> QED
      BY <1>3, <1>6, <3>1, AsksLater
  <2> QED
    BY <1>1, <1>8, <1>9, <2>1 DEF RequestsInv
<1>12. StoreTyped'
  <2>1. locks' \in [{"build", "source"} -> Threads \cup {NoThread}]
    BY <1>1, LocksKept
  <2> QED
    BY <1>1, <2>1 DEF FeedInv, StoreTyped, ProcessOK
<1>13. PageInv'
  <2>1. CASE pg.turns = th.click
    <3>1. page'.ref = id /\ page'.answered = page.clicks
      BY <1>b, <1>4, <1>5, <2>1 DEF FeedPages
    <3>2. /\ ~page.due
          /\ ~page.lost /\ page.floor > 0 => th.kept \in DOMAIN snapshots /\ snapshots[th.kept] >= page.floor
      BY <1>1, <1>2, <1>4, <2>1 DEF RequestOK, PageAsks
    <3>a. ~page.lost /\ page.floor > 0 => snapshots[id] >= page.floor
      BY <1>3, <1>a, <3>2
    <3>3. ~page.lost => snapshots[id] >= page.floor
      BY <1>b, <1>4, <3>a DEF FeedPages
    <3>4. PageRefreshed'
      BY <1>1, <1>6, <3>1, <3>3 DEF PageRefreshed
    <3> QED
      BY <1>1, <1>3, <1>b, <1>6, <3>1, <3>2, <3>4 DEF FeedInv, PageInv
  <2>2. CASE pg.turns # th.click
    BY <1>1, <1>4, <1>5, <2>2 DEF FeedInv, PageInv, PageRefreshed
  <2> QED
    BY <2>1, <2>2
<1> QED
  BY <1>10, <1>11, <1>12, <1>13 DEF FeedInv

\* A thread changes the globals of its process.
LEMMA GlobalsMoved ==
    ASSUME FeedInv, NEW t \in Threads, NEW row \in FeedThreads, Moves(t, row), NEW g, Sets(t, g),
           UNCHANGED <<version, snapshots, stored, latest, locks, page, calls, rare>>,
           RequestOK(row, snapshots, page, version), row.pc \notin {"cached", "rows", "keep"},
           DOMAIN g = {"dataset", "slices", "gen", "id", "lock"},
           g.dataset \in Nat, g.gen \in Nat, g.id \in 0 .. Len(snapshots), g.lock \in {t, NoThread},
           \A k \in DOMAIN g.slices : k \in Nat /\ k <= g.gen /\ g.slices[k] \in Nat,
           Own(t).gen <= g.gen, Own(t).lock \in {t, NoThread},
           g.lock = t => row.pc \in Swapping, row.pc \in Swapping => g.lock = t,
           (g.lock = NoThread \/ row.pc = "name") =>
              /\ g.gen \in DOMAIN g.slices => g.slices[g.gen] = g.dataset
              /\ \A u \in Threads \ {t} :
                   (ProcessOf[u] = ProcessOf[t] /\ thread[u].pc = "keep" /\ thread[u].gen = g.gen)
                      => thread[u].seen = g.dataset
    PROVE  FeedInv'
<1>1. thread \in [Threads -> FeedThreads] /\ thread' = [thread EXCEPT ![t] = row]
  BY DEF FeedInv, RequestsInv, Moves
<1>2. thread' \in [Threads -> FeedThreads] /\ thread'[t] = row /\ \A u \in Threads : u # t => thread'[u] = thread[u]
  BY <1>1
<1>3. PICK home \in Processes : home = ProcessOf[t]
  BY AskingThread
<1>4. /\ DOMAIN globals = Processes /\ DOMAIN globals' = Processes /\ globals'[home] = g
      /\ \A p \in Processes : p # home => globals'[p] = globals[p]
  BY <1>3 DEF Sets, FeedInv, StoreTyped
<1>5. t # NoThread /\ \A u \in Threads : u # NoThread /\ ProcessOf[u] \in Processes
  BY FeedAssumption
<1>6. StoreTyped'
  <2>1. ASSUME NEW p \in Processes PROVE ProcessOK(p)'
    <3>1. CASE p = home
      BY <1>4, <3>1 DEF ProcessOK
    <3>2. CASE p # home
      BY <1>4, <3>2 DEF FeedInv, StoreTyped, ProcessOK
    <3> QED
      BY <3>1, <3>2
  <2> QED
    BY <1>4, <2>1 DEF FeedInv, StoreTyped
<1>7. RequestsInv' /\ PageInv'
  BY <1>2 DEF FeedInv, RequestsInv, PageInv, PageRefreshed
<1>8. SlicesInv'
  <2>1. ASSUME NEW p \in Processes
        PROVE  /\ globals'[p].lock # NoThread =>
                    ProcessOf[globals'[p].lock] = p /\ thread'[globals'[p].lock].pc \in Swapping
               /\ (globals'[p].lock = NoThread \/ thread'[globals'[p].lock].pc = "name") => Consistent(p)'
    <3>1. CASE p = home
      <4>1. globals'[p].lock # NoThread =>
              ProcessOf[globals'[p].lock] = p /\ thread'[globals'[p].lock].pc \in Swapping
        BY <1>2, <1>3, <1>4, <3>1
      <4>2. (globals'[p].lock = NoThread \/ thread'[globals'[p].lock].pc = "name") => Consistent(p)'
        BY <1>2, <1>3, <1>4, <3>1 DEF Consistent, At
      <4> QED
        BY <4>1, <4>2
    <3>2. CASE p # home
      <4>1. globals'[p] = globals[p] /\ globals[p].lock \in Threads \cup {NoThread}
        BY <1>4, <3>2 DEF FeedInv, StoreTyped, ProcessOK
      <4>2. globals[p].lock # NoThread =>
              ProcessOf[globals[p].lock] = p /\ thread'[globals[p].lock] = thread[globals[p].lock]
        BY <1>2, <1>3, <3>2, <4>1 DEF FeedInv, SlicesInv
      <4>3. Consistent(p) => Consistent(p)'
        BY <1>2, <1>3, <3>2, <4>1 DEF Consistent, At
      <4> QED
        BY <4>1, <4>2, <4>3 DEF FeedInv, SlicesInv
    <3> QED
      BY <3>1, <3>2
  <2>2. ASSUME NEW u \in Threads
        PROVE  /\ thread'[u].pc \in Swapping => globals'[ProcessOf[u]].lock = u
               /\ thread'[u].pc \in {"cached", "rows", "keep"} => thread'[u].gen <= globals'[ProcessOf[u]].gen
    <3>1. CASE u = t
      BY <1>2, <1>3, <1>4, <3>1
    <3>2. CASE u # t /\ ProcessOf[u] = home
      <4>1. thread'[u] = thread[u] /\ thread[u] \in FeedThreads /\ globals'[ProcessOf[u]] = g /\ Own(t) = globals[ProcessOf[u]]
        BY <1>2, <1>3, <1>4, <3>2, AskingThread DEF Own
      <4>2. thread[u].pc \notin Swapping
        BY <1>5, <3>2, <4>1 DEF FeedInv, SlicesInv
      <4>3. thread[u].gen \in Nat /\ Own(t).gen \in Nat
        BY <1>3, <4>1, <3>2 DEF FeedThreads, FeedInv, StoreTyped, ProcessOK, Own
      <4>4. thread[u].pc \in {"cached", "rows", "keep"} => thread[u].gen <= Own(t).gen
        BY <4>1 DEF FeedInv, SlicesInv
      <4>5. thread[u].pc \in {"cached", "rows", "keep"} => thread[u].gen <= g.gen
        BY <4>3, <4>4
      <4> QED
        BY <4>1, <4>2, <4>5
    <3>3. CASE ProcessOf[u] # home
      <4>1. thread'[u] = thread[u] /\ globals'[ProcessOf[u]] = globals[ProcessOf[u]]
        BY <1>2, <1>3, <1>4, <1>5, <3>3
      <4> QED
        BY <4>1 DEF FeedInv, SlicesInv
    <3> QED
      BY <3>1, <3>2, <3>3
  <2> QED
    BY <2>1, <2>2 DEF SlicesInv
<1> QED
  BY <1>6, <1>7, <1>8 DEF FeedInv

\* Replacing the globals, one by one.
LEMMA ActivationInv ==
    ASSUME FeedInv, NEW t \in Threads, SwapDataset(t) \/ ClearSlices(t) \/ BumpGeneration(t) \/ NameActive(t)
    PROVE  FeedInv'
<1>1. /\ UNCHANGED <<version, snapshots, stored, latest, locks, page, calls, rare>>
      /\ thread[t].pc \in Swapping \cup {"swap"}
  BY DEF SwapDataset, ClearSlices, BumpGeneration, NameActive, At, Swapping
<1>2. PICK th \in FeedThreads : th = thread[t] /\ RequestOK(th, snapshots, page, version)
  BY AskingThread
<1>3. /\ th.ref \in DOMAIN snapshots /\ snapshots[th.ref] \in Nat /\ th.ref <= Len(snapshots)
      /\ Len(snapshots) \in Nat /\ DOMAIN snapshots = 1 .. Len(snapshots) /\ version \in Nat
      /\ page.floor \in Nat /\ page.floor <= version /\ t # NoThread
  BY <1>1, <1>2, AskingThread DEF RequestOK, Referring
<1>4. PICK own : own = Own(t)
  OBVIOUS
<1>5. /\ DOMAIN own = {"dataset", "slices", "gen", "id", "lock"}
      /\ own.dataset \in Nat /\ own.gen \in Nat /\ own.id \in 0 .. Len(snapshots)
      /\ \A k \in DOMAIN own.slices : k \in Nat /\ k <= own.gen /\ own.slices[k] \in Nat
      /\ ProcessOf[t] \in Processes /\ own = globals[ProcessOf[t]]
  BY <1>4, AskingThread DEF FeedInv, StoreTyped, ProcessOK
<1>6. own.lock = IF th.pc \in Swapping THEN t ELSE own.lock
  BY <1>2, <1>5 DEF FeedInv, SlicesInv
<1>7. ASSUME NEW x \in {"clear", "generation", "name", "prepared"}
      PROVE  /\ [th EXCEPT !.pc = x] \in FeedThreads /\ [th EXCEPT !.pc = x].pc = x
             /\ RequestOK([th EXCEPT !.pc = x], snapshots, page, version)
  <2>1. PICK row : row = [th EXCEPT !.pc = x]
    OBVIOUS
  <2>2. x \in FeedPcs /\ x \in Preparing \cup {"prepared"} /\ x \in Referring /\ x \notin {"look", "wait", "build", "publish"}
    BY DEF FeedPcs, Preparing, Referring, Swapping
  <2>3. /\ row \in FeedThreads /\ row.pc = x /\ row.ref = th.ref
        /\ row.call = th.call /\ row.click = th.click /\ row.floor = th.floor /\ row.stage = th.stage
        /\ row.seen = th.seen /\ row.kept = th.kept
    BY <2>1, <2>2 DEF FeedThreads
  <2>4. th.pc \in Preparing /\ th.pc \in Referring
    BY <1>1, <1>2 DEF Preparing, Referring, Swapping
  <2>5. \A f \in Nat : f <= version /\ FreshFrom(th, f, snapshots) => FreshFrom(row, f, snapshots)
    BY <2>2, <2>3, <2>4 DEF FreshFrom
  <2>6. RequestOK(row, snapshots, page, version)
    BY <1>2, <1>3, <2>2, <2>3, <2>4, <2>5, StillAsks
  <2> QED
    BY <2>1, <2>3, <2>6
<1>8. CASE SwapDataset(t)
  <2>1. PICK g : g = [own EXCEPT !.dataset = snapshots[th.ref], !.lock = t]
    OBVIOUS
  <2>2. PICK row : row = [th EXCEPT !.pc = "clear"]
    OBVIOUS
  <2>3. Sets(t, g) /\ Moves(t, row) /\ own.lock = NoThread
    BY <1>2, <1>4, <1>8, <2>1, <2>2 DEF SwapDataset
  <2>4. row \in FeedThreads /\ row.pc = "clear" /\ RequestOK(row, snapshots, page, version)
    BY <1>7, <2>2
  <2>5. /\ DOMAIN g = {"dataset", "slices", "gen", "id", "lock"} /\ g.dataset = snapshots[th.ref]
        /\ g.slices = own.slices /\ g.gen = own.gen /\ g.id = own.id /\ g.lock = t
    BY <1>5, <2>1
  <2>6. row.pc \notin {"cached", "rows", "keep"} /\ row.pc \in Swapping /\ row.pc # "name"
    BY <2>4 DEF Swapping
  <2>9. (g.lock = NoThread \/ row.pc = "name") =>
              /\ g.gen \in DOMAIN g.slices => g.slices[g.gen] = g.dataset
              /\ \A u \in Threads \ {t} :
                   (ProcessOf[u] = ProcessOf[t] /\ thread[u].pc = "keep" /\ thread[u].gen = g.gen)
                      => thread[u].seen = g.dataset
    BY <1>3, <2>4, <2>5
  <2>10. /\ g.dataset \in Nat /\ g.gen \in Nat /\ g.id \in 0 .. Len(snapshots) /\ g.lock \in {t, NoThread}
         /\ \A k \in DOMAIN g.slices : k \in Nat /\ k <= g.gen /\ g.slices[k] \in Nat
         /\ Own(t).gen <= g.gen /\ Own(t).lock \in {t, NoThread}
    BY <1>3, <1>4, <1>5, <2>3, <2>5
  <2> QED
    BY <1>1, <2>3, <2>4, <2>5, <2>6, <2>9, <2>10, <1>3, GlobalsMoved
<1>9. CASE ClearSlices(t)
  <2>1. PICK g : g = [own EXCEPT !.slices = <<>>]
    OBVIOUS
  <2>2. PICK row : row = [th EXCEPT !.pc = "generation"]
    OBVIOUS
  <2>3. Sets(t, g) /\ Moves(t, row) /\ th.pc \in Swapping
    BY <1>2, <1>4, <1>9, <2>1, <2>2 DEF ClearSlices, At, Swapping
  <2>4. row \in FeedThreads /\ row.pc = "generation" /\ RequestOK(row, snapshots, page, version)
    BY <1>7, <2>2
  <2>5. /\ DOMAIN g = {"dataset", "slices", "gen", "id", "lock"} /\ g.dataset = own.dataset
        /\ g.slices = <<>> /\ g.gen = own.gen /\ g.id = own.id /\ g.lock = t /\ own.lock = t
    BY <1>5, <1>6, <2>1, <2>3
  <2>6. row.pc \notin {"cached", "rows", "keep"} /\ row.pc \in Swapping /\ row.pc # "name"
    BY <2>4 DEF Swapping
  <2>7. \A k \in DOMAIN g.slices : k \in Nat /\ k <= g.gen /\ g.slices[k] \in Nat
    BY <2>5
  <2>9. (g.lock = NoThread \/ row.pc = "name") =>
              /\ g.gen \in DOMAIN g.slices => g.slices[g.gen] = g.dataset
              /\ \A u \in Threads \ {t} :
                   (ProcessOf[u] = ProcessOf[t] /\ thread[u].pc = "keep" /\ thread[u].gen = g.gen)
                      => thread[u].seen = g.dataset
    BY <1>3, <2>4, <2>5
  <2>10. /\ g.dataset \in Nat /\ g.gen \in Nat /\ g.id \in 0 .. Len(snapshots) /\ g.lock \in {t, NoThread}
         /\ \A k \in DOMAIN g.slices : k \in Nat /\ k <= g.gen /\ g.slices[k] \in Nat
         /\ Own(t).gen <= g.gen /\ Own(t).lock \in {t, NoThread}
    BY <1>3, <1>4, <1>5, <2>3, <2>5, <2>7
  <2> QED
    BY <1>1, <2>3, <2>4, <2>5, <2>6, <2>9, <2>10, <1>3, GlobalsMoved
<1>10. CASE BumpGeneration(t)
  <2>1. PICK g : g = [own EXCEPT !.gen = own.gen + 1]
    OBVIOUS
  <2>2. PICK row : row = [th EXCEPT !.pc = "name"]
    OBVIOUS
  <2>3. Sets(t, g) /\ Moves(t, row) /\ th.pc \in Swapping
    BY <1>2, <1>4, <1>10, <2>1, <2>2 DEF BumpGeneration, At, Swapping
  <2>4. row \in FeedThreads /\ row.pc = "name" /\ RequestOK(row, snapshots, page, version)
    BY <1>7, <2>2
  <2>5. /\ DOMAIN g = {"dataset", "slices", "gen", "id", "lock"} /\ g.dataset = own.dataset
        /\ g.slices = own.slices /\ g.gen = own.gen + 1 /\ g.id = own.id /\ g.lock = t /\ own.lock = t
    BY <1>5, <1>6, <2>1, <2>3
  <2>6. row.pc \notin {"cached", "rows", "keep"} /\ row.pc \in Swapping
    BY <2>4 DEF Swapping
  <2>7. /\ g.gen \notin DOMAIN g.slices /\ g.gen \in Nat /\ own.gen <= g.gen
        /\ \A k \in DOMAIN g.slices : k \in Nat /\ k <= g.gen /\ g.slices[k] \in Nat
    BY <1>5, <2>5
  <2>8. \A u \in Threads : (ProcessOf[u] = ProcessOf[t] /\ thread[u].pc = "keep") => thread[u].gen # g.gen
    <3>1. \A u \in Threads : (ProcessOf[u] = ProcessOf[t] /\ thread[u].pc = "keep") => thread[u].gen <= own.gen
      BY <1>5 DEF FeedInv, SlicesInv
    <3>2. \A u \in Threads : thread[u].gen \in Nat
      BY DEF FeedInv, RequestsInv, FeedThreads
    <3> QED
      BY <1>5, <2>5, <3>1, <3>2
  <2>9. (g.lock = NoThread \/ row.pc = "name") =>
              /\ g.gen \in DOMAIN g.slices => g.slices[g.gen] = g.dataset
              /\ \A u \in Threads \ {t} :
                   (ProcessOf[u] = ProcessOf[t] /\ thread[u].pc = "keep" /\ thread[u].gen = g.gen)
                      => thread[u].seen = g.dataset
    BY <2>7, <2>8
  <2>10. /\ g.dataset \in Nat /\ g.gen \in Nat /\ g.id \in 0 .. Len(snapshots) /\ g.lock \in {t, NoThread}
         /\ \A k \in DOMAIN g.slices : k \in Nat /\ k <= g.gen /\ g.slices[k] \in Nat
         /\ Own(t).gen <= g.gen /\ Own(t).lock \in {t, NoThread}
    BY <1>3, <1>4, <1>5, <2>3, <2>5, <2>7
  <2> QED
    BY <1>1, <2>3, <2>4, <2>5, <2>6, <2>9, <2>10, <1>3, GlobalsMoved
<1>11. CASE NameActive(t)
  <2>1. PICK g : g = [own EXCEPT !.id = th.ref, !.lock = NoThread]
    OBVIOUS
  <2>2. PICK row : row = [th EXCEPT !.pc = "prepared"]
    OBVIOUS
  <2>3. Sets(t, g) /\ Moves(t, row) /\ th.pc \in Swapping /\ th.pc = "name"
    BY <1>2, <1>4, <1>11, <2>1, <2>2 DEF NameActive, At, Swapping
  <2>4. row \in FeedThreads /\ row.pc = "prepared" /\ RequestOK(row, snapshots, page, version)
    BY <1>7, <2>2
  <2>5. /\ DOMAIN g = {"dataset", "slices", "gen", "id", "lock"} /\ g.dataset = own.dataset
        /\ g.slices = own.slices /\ g.gen = own.gen /\ g.id = th.ref /\ g.lock = NoThread /\ own.lock = t
    BY <1>5, <1>6, <2>1, <2>3
  <2>6. row.pc \notin {"cached", "rows", "keep"} /\ row.pc \notin Swapping /\ g.lock # t /\ g.id \in 0 .. Len(snapshots)
    BY <1>3, <2>4, <2>5 DEF Swapping
  <2>7. Consistent(ProcessOf[t])
    BY <1>2, <1>5, <2>3, <2>5 DEF FeedInv, SlicesInv
  <2>8. /\ g.gen \in DOMAIN g.slices => g.slices[g.gen] = g.dataset
        /\ \A u \in Threads \ {t} :
             (ProcessOf[u] = ProcessOf[t] /\ thread[u].pc = "keep" /\ thread[u].gen = g.gen)
                => thread[u].seen = g.dataset
    BY <1>5, <2>5, <2>7 DEF Consistent, At
  <2>9. (g.lock = NoThread \/ row.pc = "name") =>
              /\ g.gen \in DOMAIN g.slices => g.slices[g.gen] = g.dataset
              /\ \A u \in Threads \ {t} :
                   (ProcessOf[u] = ProcessOf[t] /\ thread[u].pc = "keep" /\ thread[u].gen = g.gen)
                      => thread[u].seen = g.dataset
    BY <2>8
  <2>10. /\ g.dataset \in Nat /\ g.gen \in Nat /\ g.id \in 0 .. Len(snapshots) /\ g.lock \in {t, NoThread}
         /\ \A k \in DOMAIN g.slices : k \in Nat /\ k <= g.gen /\ g.slices[k] \in Nat
         /\ Own(t).gen <= g.gen /\ Own(t).lock \in {t, NoThread}
    BY <1>3, <1>4, <1>5, <2>3, <2>5, <2>6
  <2> QED
    BY <1>1, <2>3, <2>4, <2>5, <2>6, <2>9, <2>10, <1>3, GlobalsMoved
<1> QED
  BY <1>8, <1>9, <1>10, <1>11

\* A slice is kept, under the generation its reader found.
LEMMA KeepSliceInv ==
    ASSUME FeedInv, NEW t \in Threads, KeepSlice(t)
    PROVE  FeedInv'
<1>1. /\ UNCHANGED <<version, snapshots, stored, latest, locks, page, calls, rare>>
      /\ thread[t].pc = "keep"
  BY DEF KeepSlice, At
<1>2. PICK th \in FeedThreads : th = thread[t]
  BY AskingThread
<1>3. PICK own : own = Own(t)
  OBVIOUS
<1>4. /\ DOMAIN own = {"dataset", "slices", "gen", "id", "lock"}
      /\ own.dataset \in Nat /\ own.gen \in Nat /\ own.id \in 0 .. Len(snapshots)
      /\ \A k \in DOMAIN own.slices : k \in Nat /\ k <= own.gen /\ own.slices[k] \in Nat
      /\ ProcessOf[t] \in Processes /\ own = globals[ProcessOf[t]] /\ own.lock \in Threads \cup {NoThread}
      /\ th.gen \in Nat /\ th.gen <= own.gen /\ own.lock # t
  <2>1. ProcessOf[t] \in Processes /\ own = globals[ProcessOf[t]] /\ t # NoThread
    BY <1>3, AskingThread
  <2>2. ProcessOK(ProcessOf[t]) /\ th.gen \in Nat
    BY <1>2, <2>1 DEF FeedInv, StoreTyped, FeedThreads
  <2>3. th.gen <= own.gen /\ own.lock # t
    BY <1>1, <1>2, <2>1 DEF FeedInv, SlicesInv, Swapping
  <2> QED
    BY <2>1, <2>2, <2>3 DEF ProcessOK
<1>5. PICK cut : cut = [k \in DOMAIN own.slices \cup {th.gen} |-> IF k = th.gen THEN th.seen ELSE own.slices[k]]
  OBVIOUS
<1>6. PICK g : g = [own EXCEPT !.slices = cut]
  OBVIOUS
<1>9. /\ th.seen \in Nat /\ th.call = "render" /\ th.pc = "keep"
      /\ RequestOK(th, snapshots, page, version)
  BY <1>1, <1>2, AskingThread DEF RequestOK, FeedThreads
<1>10. PICK rest \in FeedThreads :
         /\ rest = [Answered(t, thread[t].ref) EXCEPT !.seen = th.seen]
         /\ rest.pc = "answered" /\ RequestOK(rest, snapshots, page, version)
  BY <1>2, <1>9, RenderAnswered
<1>7. Sets(t, g) /\ Moves(t, rest)
  BY <1>2, <1>3, <1>5, <1>6, <1>10 DEF KeepSlice
<1>8. /\ DOMAIN g = {"dataset", "slices", "gen", "id", "lock"} /\ g.dataset = own.dataset
      /\ g.slices = cut /\ g.gen = own.gen /\ g.id = own.id /\ g.lock = own.lock
  BY <1>4, <1>6
<1>11. rest \in FeedThreads /\ rest.pc = "answered" /\ RequestOK(rest, snapshots, page, version)
  BY <1>10
<1>12. thread \in [Threads -> FeedThreads] /\ thread' = [thread EXCEPT ![t] = rest]
  BY <1>7 DEF FeedInv, RequestsInv, Moves
<1>13. thread' \in [Threads -> FeedThreads] /\ thread'[t] = rest /\ \A u \in Threads : u # t => thread'[u] = thread[u]
  BY <1>11, <1>12
<1>14. PICK home \in Processes : home = ProcessOf[t]
  BY <1>4
<1>15. /\ DOMAIN globals = Processes /\ DOMAIN globals' = Processes /\ globals'[home] = g
       /\ \A p \in Processes : p # home => globals'[p] = globals[p]
  BY <1>7, <1>14 DEF Sets, FeedInv, StoreTyped
<1>16. \A k \in DOMAIN cut : k \in Nat /\ k <= own.gen /\ cut[k] \in Nat
  BY <1>4, <1>5, <1>9
<1>17. StoreTyped'
  <2>1. ASSUME NEW p \in Processes PROVE ProcessOK(p)'
    <3>1. CASE p = home
      BY <1>1, <1>4, <1>8, <1>15, <1>16, <3>1 DEF ProcessOK
    <3>2. CASE p # home
      BY <1>1, <1>15, <3>2 DEF FeedInv, StoreTyped, ProcessOK
    <3> QED
      BY <3>1, <3>2
  <2> QED
    BY <1>1, <1>15, <2>1 DEF FeedInv, StoreTyped
<1>18. RequestsInv' /\ PageInv'
  BY <1>1, <1>11, <1>13 DEF FeedInv, RequestsInv, PageInv, PageRefreshed
<1>19. SlicesInv'
  <2>1. ASSUME NEW p \in Processes
        PROVE  /\ globals'[p].lock # NoThread =>
                    ProcessOf[globals'[p].lock] = p /\ thread'[globals'[p].lock].pc \in Swapping
               /\ (globals'[p].lock = NoThread \/ thread'[globals'[p].lock].pc = "name") => Consistent(p)'
    <3>1. globals'[p].lock = globals[p].lock /\ globals[p].lock \in Threads \cup {NoThread}
          /\ globals'[p].gen = globals[p].gen /\ globals'[p].dataset = globals[p].dataset
      BY <1>4, <1>8, <1>14, <1>15 DEF FeedInv, StoreTyped, ProcessOK
    <3>2. globals[p].lock # NoThread =>
            ProcessOf[globals[p].lock] = p /\ thread'[globals[p].lock] = thread[globals[p].lock]
            /\ thread[globals[p].lock].pc \in Swapping
      BY <1>1, <1>13, <3>1 DEF FeedInv, SlicesInv, Swapping
    <3>3. (globals[p].lock = NoThread \/ thread[globals[p].lock].pc = "name") => Consistent(p)
      BY DEF FeedInv, SlicesInv
    <3>4. Consistent(p) => Consistent(p)'
      <4>1. \A u \in Threads : thread'[u].pc = "keep" => thread'[u] = thread[u]
        BY <1>11, <1>13
      <4>2. CASE p = home
        <5>1. globals'[p].slices = cut /\ globals[p] = own
          BY <1>4, <1>8, <1>14, <1>15, <4>2
        <5>2. Consistent(p) /\ own.gen \in DOMAIN cut => cut[own.gen] = own.dataset
          BY <1>1, <1>2, <1>5, <1>14, <4>2, <5>1 DEF Consistent, At
        <5> QED
          BY <3>1, <4>1, <5>1, <5>2 DEF Consistent, At
      <4>3. CASE p # home
        BY <1>15, <4>1, <4>3 DEF Consistent, At
      <4> QED
        BY <4>2, <4>3
    <3> QED
      BY <3>1, <3>2, <3>3, <3>4
  <2>2. ASSUME NEW u \in Threads
        PROVE  /\ thread'[u].pc \in Swapping => globals'[ProcessOf[u]].lock = u
               /\ thread'[u].pc \in {"cached", "rows", "keep"} => thread'[u].gen <= globals'[ProcessOf[u]].gen
    <3>1. ProcessOf[u] \in Processes /\ globals'[ProcessOf[u]].lock = globals[ProcessOf[u]].lock
          /\ globals'[ProcessOf[u]].gen = globals[ProcessOf[u]].gen
      BY <1>4, <1>8, <1>14, <1>15, AskingThread
    <3>2. CASE u = t
      BY <1>11, <1>13, <3>2 DEF Swapping
    <3>3. CASE u # t
      BY <1>13, <3>1, <3>3 DEF FeedInv, SlicesInv
    <3> QED
      BY <3>2, <3>3
  <2> QED
    BY <2>1, <2>2 DEF SlicesInv
<1> QED
  BY <1>17, <1>18, <1>19 DEF FeedInv

\* A request begins; a click that is not forced was answered, or lost.
LEMMA BeginRequestInv ==
    ASSUME FeedInv, NEW t \in Threads, NEW c \in FeedRequests, BeginRequest(t, c)
    PROVE  FeedInv'
<1>1. /\ UNCHANGED <<version, snapshots, stored, latest, locks, globals>> /\ thread[t].pc = "idle"
      /\ calls < MaxCalls /\ calls' = calls + 1
      /\ (rare < MaxRare /\ rare' = rare + 1) \/ rare' = rare
      /\ c = "page" => page.due
      /\ page' = IF c = "page" THEN [page EXCEPT !.due = FALSE] ELSE page
  BY DEF BeginRequest, At
<1>2. PICK rest : rest = Resting
  OBVIOUS
<1>3. /\ rest \in FeedThreads /\ rest.pc = "idle" /\ rest.ref = 0 /\ rest.kept = 0 /\ rest.stage = 0
  BY <1>2, RestingAsks DEF Resting
<1>4. PICK pg \in FeedPages : pg = page
  BY DEF FeedInv, PageInv
<1>5. /\ Len(snapshots) \in Nat /\ DOMAIN snapshots = 1 .. Len(snapshots) /\ version \in Nat
      /\ \A i \in DOMAIN snapshots : snapshots[i] \in Nat
      /\ page.floor \in Nat /\ page.floor <= version /\ stored \subseteq DOMAIN snapshots
      /\ page.clicks \in Nat /\ page.turns \in Nat /\ page.lost \in BOOLEAN
  BY AskingThread DEF FeedPages
<1>6. /\ page' \in FeedPages /\ page'.turns = page.turns /\ (page'.due => page.due) /\ page'.lost = page.lost
      /\ page'.floor = page.floor /\ page'.ref = page.ref /\ page'.clicks = page.clicks
      /\ page'.answered = page.answered /\ (c = "page" => ~page'.due)
  BY <1>1, <1>4 DEF FeedPages
<1>7. PICK forced \in BOOLEAN : forced = (c = "page" /\ page.clicks > 0 /\ page.answered # page.clicks)
  OBVIOUS
<1>8. PICK turn \in Nat : turn = IF c = "page" THEN page.turns ELSE 0
  BY <1>5
<1>9. PICK base \in Nat : base = IF c = "watch" THEN version ELSE 0
  BY <1>5
<1>a. PICK st \in Nat : st = IF c = "page" /\ page.clicks = 0 THEN 2 ELSE 0
  OBVIOUS
<1>10. PICK th : th = [rest EXCEPT !.call = c, !.click = turn, !.stage = st, !.force = forced, !.floor = base]
  OBVIOUS
<1>11. /\ th \in FeedThreads /\ th.call = c /\ th.click = turn /\ th.force = forced /\ th.floor = base
       /\ th.ref = 0 /\ th.kept = 0 /\ th.stage = st
  <2>1. c \in FeedRequests \cup {"none"}
    OBVIOUS
  <2>2. th \in FeedThreads
    BY <1>3, <1>10, <2>1 DEF FeedThreads
  <2>3. /\ th.call = c /\ th.click = turn /\ th.force = forced /\ th.floor = base /\ th.stage = st
        /\ th.ref = rest.ref /\ th.kept = rest.kept
    BY <1>3, <1>10 DEF FeedThreads
  <2> QED
    BY <1>3, <2>2, <2>3
<1>12. PICK own \in BOOLEAN : own = (c \in {"page", "render"} /\ ~forced /\ page.ref \in stored)
  OBVIOUS
<1>13. PICK f \in BOOLEAN :
         /\ c # "operational" => f = forced
         /\ Moves(t, IF own THEN Activate(t, th, page.ref)
                            ELSE [th EXCEPT !.pc = "look", !.force = f,
                                            !.floor = IF c = "operational" /\ f THEN version ELSE @])
  <2>1. \E f \in IF c = "operational" THEN BOOLEAN ELSE {forced} :
          Moves(t, IF own THEN Activate(t, th, page.ref)
                          ELSE [th EXCEPT !.pc = "look", !.force = f,
                                          !.floor = IF c = "operational" /\ f THEN version ELSE @])
    BY <1>2, <1>7, <1>8, <1>9, <1>a, <1>10, <1>12 DEF BeginRequest
  <2> QED
    BY <2>1
<1>b. PICK low \in Nat : low = IF ~own /\ c = "operational" /\ f THEN version ELSE base
  BY <1>5
<1>14. (c = "page" /\ page.floor > 0 /\ ~page.lost) => forced /\ st = 0
  <2>1. SUFFICES ASSUME c = "page", page.floor > 0, ~page.lost PROVE forced /\ st = 0
    OBVIOUS
  <2>2. page.due /\ page.clicks # 0
    BY <1>1, <1>5, <2>1 DEF FeedInv, PageInv
  <2>3. page.clicks > 0
    BY <1>5, <2>2
  <2>4. page.answered # page.clicks
    BY <2>1, <2>2, <2>3 DEF FeedInv, PageInv
  <2>5. forced
    BY <1>7, <2>1, <2>3, <2>4
  <2>6. st = 0
    BY <1>a, <2>2
  <2> QED
    BY <2>5, <2>6
<1>15. PICK row : row = IF own THEN Activate(t, th, page.ref)
                              ELSE [th EXCEPT !.pc = "look", !.force = f, !.floor = low]
  OBVIOUS
<1>16. own => page.ref \in DOMAIN snapshots /\ page.ref \in Nat
  <2>1. SUFFICES ASSUME own PROVE page.ref \in stored
    BY <1>5
  <2> QED
    BY <1>12, <2>1
<1>17. /\ row \in FeedThreads /\ row.call = c /\ row.click = turn /\ row.floor = low /\ row.stage = st /\ row.kept = 0
       /\ own => row.ref = page.ref /\ row.pc \in {"prepared", "swap"}
       /\ ~own => row.ref = 0 /\ row.pc = "look" /\ row.force = f
  <2>1. CASE own
    <3>1. PICK x \in {"prepared", "swap"} : x = IF Own(t).id = page.ref THEN "prepared" ELSE "swap"
      OBVIOUS
    <3>2. row = [th EXCEPT !.ref = page.ref, !.force = FALSE, !.built = 0, !.pc = x] /\ x \in FeedPcs
      BY <1>15, <2>1, <3>1 DEF Activate, FeedPcs
    <3>3. /\ row \in FeedThreads /\ row.call = c /\ row.click = turn /\ row.floor = low /\ row.stage = st
          /\ row.kept = 0 /\ row.ref = page.ref /\ row.pc = x
      BY <1>11, <1>16, <1>b, <2>1, <3>2 DEF FeedThreads
    <3> QED
      BY <2>1, <3>1, <3>3
  <2>2. CASE ~own
    <3>1. row = [th EXCEPT !.pc = "look", !.force = f, !.floor = low] /\ "look" \in FeedPcs
      BY <1>15, <2>2 DEF FeedPcs
    <3>3. /\ row \in FeedThreads /\ row.call = c /\ row.click = turn /\ row.floor = low /\ row.stage = st
          /\ row.kept = 0 /\ row.ref = 0 /\ row.pc = "look" /\ row.force = f
      BY <1>11, <3>1 DEF FeedThreads
    <3> QED
      BY <2>2, <3>3
  <2> QED
    BY <2>1, <2>2
<1>18. RequestOK(row, snapshots, page', version)
  <2>1. row.pc \in {"prepared", "swap", "look"} /\ row.ref <= Len(snapshots) /\ row.kept <= Len(snapshots)
        /\ (row.pc \in Referring => row.ref \in DOMAIN snapshots)
    BY <1>5, <1>16, <1>17 DEF Referring, Swapping
  <2>2. PageAsks(row, snapshots, page')
    <3>1. SUFFICES ASSUME c = "page" PROVE PageAsks(row, snapshots, page')
      BY <1>17 DEF PageAsks
    <3>2. turn = page.turns /\ ~page'.due
      BY <1>6, <1>8, <3>1
    <3>3. ~page.lost /\ page.floor > 0 => row.stage = 0 /\ FreshFrom(row, page.floor, snapshots)
      <4>1. SUFFICES ASSUME ~page.lost, page.floor > 0
                     PROVE  row.stage = 0 /\ FreshFrom(row, page.floor, snapshots)
        OBVIOUS
      <4>2. forced
        BY <1>14, <3>1, <4>1
      <4>3. ~own /\ f /\ row.stage = 0
        BY <1>12, <1>13, <1>14, <1>17, <3>1, <4>1, <4>2
      <4> QED
        BY <1>17, <4>3 DEF FreshFrom, Referring, Swapping
    <3> QED
      BY <1>5, <1>6, <1>17, <3>2, <3>3 DEF PageAsks
  <2>3. WatchAsks(row, snapshots, version)
    <3>1. SUFFICES ASSUME c = "watch" PROVE WatchAsks(row, snapshots, version)
      BY <1>17 DEF WatchAsks
    <3>2. low = version /\ st = 0
      BY <1>9, <1>a, <1>b, <3>1
    <3> QED
      BY <1>5, <1>17, <2>1, <3>2 DEF WatchAsks
  <2>4. ReadAsks(row, snapshots, version)
    <3>1. SUFFICES ASSUME c = "operational" PROVE ReadAsks(row, snapshots, version)
      BY <1>17 DEF ReadAsks
    <3>2. ~own /\ low <= version /\ (low > 0 => f)
      <4>1. ~own
        BY <1>12, <3>1
      <4>2. low = IF f THEN version ELSE 0
        BY <1>9, <1>b, <3>1, <4>1
      <4>3. low <= version
        BY <1>5, <4>2
      <4>4. low > 0 => f
        BY <4>2
      <4> QED
        BY <4>1, <4>3, <4>4
    <3> QED
      BY <1>17, <2>1, <3>2 DEF ReadAsks, FreshFrom, Referring, Swapping
  <2> QED
    BY <2>1, <2>2, <2>3, <2>4 DEF RequestOK
<1>19. thread \in [Threads -> FeedThreads] /\ thread' = [thread EXCEPT ![t] = row] /\ Moves(t, row)
  <2>1. CASE own
    BY <1>13, <1>15, <2>1 DEF FeedInv, RequestsInv, Moves
  <2>2. CASE ~own
    <3>1. low = IF c = "operational" /\ f THEN version ELSE th.floor
      BY <1>11, <1>b, <2>2
    <3> QED
      BY <1>13, <1>15, <2>2, <3>1 DEF FeedInv, RequestsInv, Moves
  <2> QED
    BY <2>1, <2>2
<1>20. SlicesInv'
  <2>1. /\ thread[t].pc \notin Swapping /\ row.pc \notin Swapping /\ row.pc \notin {"cached", "rows", "keep"}
        /\ row.pc # "keep" /\ globals' = globals
    BY <1>1, <1>17 DEF Swapping
  <2> QED
    BY <1>17, <1>19, <2>1, MovedSlices
<1>21. RequestsInv'
  <2>1. ASSUME NEW u \in Threads PROVE RequestOK(thread'[u], snapshots, page', version)
    <3>1. CASE u = t
      BY <1>18, <1>19, <3>1
    <3>2. CASE u # t
      <4>1. thread'[u] = thread[u] /\ thread[u] \in FeedThreads /\ RequestOK(thread[u], snapshots, page, version)
        BY <1>19, <3>2, AskingThread
      <4>2. RequestOK(thread[u], snapshots, page', version)
        BY <1>5, <1>6, <4>1, AsksLater
      <4> QED
        BY <4>1, <4>2
    <3> QED
      BY <3>1, <3>2
  <2> QED
    BY <1>1, <1>17, <1>19, <2>1 DEF RequestsInv
<1>22. StoreTyped'
  <2>1. calls' \in 0 .. MaxCalls /\ rare' \in 0 .. MaxRare
    BY <1>1, FeedAssumption DEF FeedInv, StoreTyped
  <2> QED
    BY <1>1, <2>1 DEF FeedInv, StoreTyped, ProcessOK
<1>23. PageInv'
  BY <1>1, <1>6 DEF FeedInv, PageInv, PageRefreshed
<1> QED
  BY <1>20, <1>21, <1>22, <1>23 DEF FeedInv

LEMMA FeedInvInit == FeedInit => FeedInv
<1> SUFFICES ASSUME FeedInit PROVE FeedInv
  OBVIOUS
<1>1. PICK rest : rest = Resting
  OBVIOUS
<1>2. rest \in FeedThreads /\ rest.pc = "idle"
  BY <1>1, RestingAsks
<1>3. thread = [t \in Threads |-> rest]
  BY <1>1 DEF FeedInit
<1>4. /\ version = 1 /\ snapshots = <<1>> /\ stored = {1} /\ latest = 1
      /\ Len(snapshots) = 1 /\ snapshots \in Seq(Nat) /\ snapshots[1] = 1 /\ DOMAIN snapshots = {1}
  BY DEF FeedInit
<1>a. PICK held \in {0, 1} :
        \E before \in {0, held} :
          page = [ref |-> held, clicks |-> 0, answered |-> before, floor |-> 0, due |-> TRUE,
                  lost |-> FALSE, turns |-> 0]
  BY DEF FeedInit
<1>5. PICK done \in {0, held} :
        page = [ref |-> held, clicks |-> 0, answered |-> done, floor |-> 0, due |-> TRUE,
                lost |-> FALSE, turns |-> 0]
  BY <1>a
<1>6. PageInv
  BY <1>4, <1>5, FeedAssumption DEF PageInv, FeedPages, PageRefreshed
<1>7. \A p \in Processes : /\ DOMAIN globals[p] = {"dataset", "slices", "gen", "id", "lock"}
                           /\ globals[p].dataset = 0 /\ globals[p].gen = 0 /\ globals[p].id = 0
                           /\ globals[p].slices = <<>> /\ globals[p].lock = NoThread
  BY DEF FeedInit
<1>8. StoreTyped
  <2>1. \A p \in Processes : ProcessOK(p)
    BY <1>4, <1>7 DEF ProcessOK
  <2>2. locks \in [{"build", "source"} -> Threads \cup {NoThread}] /\ DOMAIN globals = Processes
        /\ calls \in 0 .. MaxCalls /\ rare \in 0 .. MaxRare /\ version \in 1 .. MaxVersion
    BY <1>4, FeedAssumption DEF FeedInit
  <2> QED
    BY <1>4, <2>1, <2>2 DEF StoreTyped
<1>9. SlicesInv
  <2>1. \A p \in Processes : Consistent(p)
    BY <1>2, <1>3, <1>7 DEF Consistent, At
  <2> QED
    BY <1>2, <1>3, <1>7, <2>1 DEF SlicesInv, Swapping
<1>10. RequestsInv
  <2>1. RequestOK(rest, snapshots, page, version)
    BY <1>1, <1>4, RestingAsks
  <2> QED
    BY <1>2, <1>3, <2>1 DEF RequestsInv
<1> QED
  BY <1>6, <1>8, <1>9, <1>10 DEF FeedInv

LEMMA FeedInvStep == FeedInv /\ [FeedNext]_feedVars => FeedInv'
<1> SUFFICES ASSUME FeedInv, [FeedNext]_feedVars PROVE FeedInv'
  OBVIOUS
<1>1. CASE SourcesChange
  BY <1>1, SourcesChangeInv
<1>2. CASE ClickRefresh
  BY <1>2, ClickRefreshInv
<1>3. CASE ReloadPage
  BY <1>3, ReloadPageInv
<1>4. CASE SnapshotDropped \/ \E l \in DOMAIN locks : FeedLockRunsOut(l)
  BY <1>4, StoreLosesInv
<1>5. ASSUME NEW t \in Threads, \E c \in FeedRequests : BeginRequest(t, c) PROVE FeedInv'
  BY <1>5, BeginRequestInv
<1>6. ASSUME NEW t \in Threads, LookLatest(t) \/ BuildLock(t) \/ BuildPayload(t) \/ PublishSnapshot(t) PROVE FeedInv'
  BY <1>6, LookLatestInv, BuildLockInv, BuildPayloadInv, PublishSnapshotInv
<1>7. ASSUME NEW t \in Threads, SwapDataset(t) \/ ClearSlices(t) \/ BumpGeneration(t) \/ NameActive(t) PROVE FeedInv'
  BY <1>7, ActivationInv
<1>8. ASSUME NEW t \in Threads, FeedbackPage(t) \/ AnswerPage(t) \/ AnswerOperational(t) \/ EndRequest(t)
      PROVE  FeedInv'
  BY <1>8, FeedbackPageInv, AnswerPageInv, AnswerOperationalInv, EndRequestInv
<1>9. ASSUME NEW t \in Threads, SliceKey(t) \/ CachedSlice(t) \/ ReadRows(t) \/ KeepSlice(t) PROVE FeedInv'
  BY <1>9, SliceKeyInv, CachedSliceInv, ReadRowsInv, KeepSliceInv
<1>10. ASSUME NEW t \in Threads,
              \/ WatchSource(t) \/ WatchPublished(t) \/ WatchLock(t)
              \/ WatchReplaced(t) \/ WatchRefreshed(t) \/ WatchReconciled(t)
       PROVE  FeedInv'
  BY <1>10, WatchSourceInv, WatchPublishedInv, WatchLockInv, WatchReplacedInv, WatchRefreshedInv, WatchReconciledInv
<1>11. CASE UNCHANGED feedVars
  BY <1>11 DEF feedVars, FeedInv, StoreTyped, ProcessOK, SlicesInv, Consistent, At, RequestsInv, PageInv, PageRefreshed
<1> QED
  BY <1>1, <1>2, <1>3, <1>4, <1>5, <1>6, <1>7, <1>8, <1>9, <1>10, <1>11 DEF FeedNext

LEMMA FeedInvFresh == FeedInv => AnsweredAfresh /\ FeedTypeOK
<1> SUFFICES ASSUME FeedInv PROVE AnsweredAfresh /\ FeedTypeOK
  OBVIOUS
<1>1. SlicesOfDataset
  BY DEF FeedInv, SlicesInv, Consistent, SlicesOfDataset
<1>2. PageRefreshed
  BY DEF FeedInv, PageInv
<1>3. AnswersFresh
  BY AskingThread DEF AnswersFresh, At, RequestOK, WatchAsks, ReadAsks
<1>4. FeedTypeOK
  <2>1. ASSUME NEW t \in Threads PROVE {thread[t].ref, thread[t].kept} \subseteq 0 .. Len(snapshots)
    BY AskingThread DEF RequestOK, FeedThreads
  <2>2. page.ref \in 0 .. Len(snapshots) /\ page.turns \in 0 .. MaxRefreshes
    BY FeedAssumption DEF FeedInv, PageInv, FeedPages, StoreTyped
  <2> QED
    BY <2>1, <2>2 DEF FeedTypeOK, FeedInv, StoreTyped, ProcessOK
<1> QED
  BY <1>1, <1>2, <1>3, <1>4 DEF AnsweredAfresh

(* References, locks and counters stay what they are.                      *)
LEMMA FeedTyped == FeedSpec => []FeedTypeOK
  BY FeedInvInit, FeedInvStep, FeedInvFresh, PTL DEF FeedSpec

(* However threads swap the globals of their process under each other,     *)
(* store locks run out, snapshots are dropped and requests fail half-way:  *)
(* a slice found in the cache outside an activation is of the active       *)
(* dataset; the page that has answered a click it took for a refresh       *)
(* refers to data read after the click, whatever was published before its  *)
(* second preparation; and what a forced reader or a watcher is given was  *)
(* read, or found unchanged, after it asked.  (That a render reads the     *)
(* dataset it prepared does not hold, and is not claimed.)                 *)
THEOREM FeedAnswersFresh == FeedSpec => []AnsweredAfresh
  BY FeedInvInit, FeedInvStep, FeedInvFresh, PTL DEF FeedSpec

-----------------------------------------------------------------------------
(* The calibration workspaces.  The accepted batch that a page keeps, or   *)
(* that an answer brings, names the inputs its table was fitted to; so     *)
(* whatever else arrived, what is published is the table of a batch with   *)
(* the inputs it is published under.                                       *)
StateOK(s) == s # Blank => "fitted" \in DOMAIN s.table /\ s.table.fitted.inputs = s.inputs

AnswerOK(a) == a # Blank /\ "state" \in DOMAIN a => StateOK(a.state)

SheetInv ==
    /\ DOMAIN awaited = Callbacks /\ IsSeq(surfaces)
    /\ "state" \in DOMAIN sheet /\ StateOK(sheet.state)
    /\ \A c \in Callbacks : AnswerOK(awaited[c])
    /\ PublishedAsCalibrated

LEMMA AnswerStep ==
    ASSUME SheetInv, UNCHANGED <<sheet, surfaces>>, NEW c \in Callbacks, NEW a, AnswerOK(a),
           Answers(c, a)
    PROVE  SheetInv'
BY DEF SheetInv, Answers, AnswerOK, StateOK, PublishedAsCalibrated

(* An answer that brings no batch, or brings it with its inputs.           *)
LEMMA PlainAnswers ==
    /\ \A x : AnswerOK([base |-> x]) /\ AnswerOK([table |-> x]) /\ AnswerOK([state |-> Blank])
              /\ AnswerOK([job |-> x, state |-> Blank]) /\ AnswerOK([market |-> x])
    /\ \A x, y : AnswerOK([nodes |-> x, table |-> y]) /\ AnswerOK([nodes |-> x, state |-> Blank])
BY DEF AnswerOK, StateOK

LEMMA FittedState ==
    ASSUME NEW s, NEW p, p.inputs = Inputs(s), NEW good, NEW j
    PROVE  StateOK(BatchState(s, p, good, j))
<1>1. BatchState(s, p, good, j).inputs = Inputs(s) /\ BatchState(s, p, good, j).table = Fitted(p)
  BY DEF BatchState
<1>2. "fitted" \in DOMAIN Fitted(p) /\ Fitted(p).fitted = p
  BY DEF Fitted
<1> QED
  BY <1>1, <1>2 DEF StateOK

LEMMA SurfaceAdded ==
    ASSUME SheetInv, NEW s, surfaces' = Append(surfaces, s),
           s.table # Blank =>
             /\ "fitted" \in DOMAIN s.table /\ s.table.fitted.inputs = s.inputs
             /\ s.replaced \in {0, s.inputs.base}
    PROVE  IsSeq(surfaces') /\ PublishedAsCalibrated'
<1>1. /\ IsSeq(surfaces') /\ DOMAIN surfaces = 1 .. Len(surfaces) /\ Len(surfaces) \in Nat
      /\ DOMAIN surfaces' = 1 .. Len(surfaces) + 1
      /\ \A i \in 1 .. Len(surfaces) : surfaces'[i] = surfaces[i]
      /\ surfaces'[Len(surfaces) + 1] = s
  BY AppendAny DEF SheetInv
<1>2. \A i \in DOMAIN surfaces' : i \in DOMAIN surfaces \/ i = Len(surfaces) + 1
  BY <1>1
<1> QED
  BY <1>1, <1>2 DEF SheetInv, PublishedAsCalibrated

LEMMA PublishSheetInv ==
    ASSUME SheetInv, PublishSheet PROVE SheetInv'
<1>1. "publish" \in Callbacks /\ sheet' = sheet
  BY DEF PublishSheet, Callbacks
<1>2. ASSUME NEW i, Answers("publish", [base |-> i]), UNCHANGED surfaces PROVE SheetInv'
  BY <1>1, <1>2, AnswerStep, PlainAnswers
<1>3. ASSUME NEW i, Answers("publish", [base |-> i]),
             surfaces' = Append(surfaces, [inputs |-> Inputs(sheet), table |-> sheet.table,
                                           replaced |-> Expected(sheet)])
      PROVE  SheetInv'
  <2>1. PICK s : s = [inputs |-> Inputs(sheet), table |-> sheet.table,
                      replaced |-> Expected(sheet)]
    OBVIOUS
  <2>2. s.inputs = Inputs(sheet) /\ s.table = sheet.table /\ s.replaced = Expected(sheet)
    BY <2>1
  <2>3. /\ "fitted" \in DOMAIN sheet.table /\ sheet.table.fitted.inputs = Inputs(sheet)
    BY DEF PublishSheet, BatchStateReady, SheetInv, StateOK
  <2>4. Expected(sheet) \in {0, Inputs(sheet).base}
    BY DEF Expected, Inputs
  <2>5. IsSeq(surfaces') /\ PublishedAsCalibrated'
    BY <1>3, <2>1, <2>2, <2>3, <2>4, SurfaceAdded
  <2>6. DOMAIN awaited' = Callbacks /\ \A c \in Callbacks : AnswerOK(awaited[c])'
    BY <1>1, <1>3, PlainAnswers DEF SheetInv, Answers, AnswerOK, StateOK
  <2> QED
    BY <1>1, <2>5, <2>6 DEF SheetInv, StateOK
<1> QED
  BY <1>2, <1>3 DEF PublishSheet

LEMMA BatchAnswers ==
    ASSUME SheetInv, RunBatch \/ CalibrateHere \/ PollBatch PROVE SheetInv'
<1>1. {"batch", "poll"} \subseteq Callbacks /\ UNCHANGED <<sheet, surfaces>>
  BY DEF RunBatch, CalibrateHere, PollBatch, Callbacks
<1>2. CASE RunBatch
  <2>1. \E j : Answers("batch", [job |-> j, state |-> Blank])
    BY <1>2 DEF RunBatch
  <2> QED
    BY <1>1, <2>1, AnswerStep, PlainAnswers
<1>3. CASE CalibrateHere
  <2>1. PICK good \in BOOLEAN :
          Answers("batch", [job |-> 0, table |-> Fitted(Payload(sheet)),
                            state |-> BatchState(sheet, Payload(sheet), good, 0)])
    BY <1>3 DEF CalibrateHere
  <2>2. Payload(sheet).inputs = Inputs(sheet)
    BY DEF Payload
  <2>3. StateOK(BatchState(sheet, Payload(sheet), good, 0))
    BY <2>2, FittedState
  <2>4. AnswerOK([job |-> 0, table |-> Fitted(Payload(sheet)),
                  state |-> BatchState(sheet, Payload(sheet), good, 0)])
    BY <2>3 DEF AnswerOK
  <2> QED
    BY <1>1, <2>1, <2>4, AnswerStep
<1>4. CASE PollBatch
  <2>1. PICK p :
          \/ Answers("poll", [state |-> Blank])
          \/ /\ StillAsSubmitted(sheet, p)
             /\ Answers("poll", [state |-> BatchState(sheet, p, TRUE, sheet.job),
                                 table |-> Fitted(p)])
    BY <1>4 DEF PollBatch
  <2>2. CASE Answers("poll", [state |-> Blank])
    BY <1>1, <2>2, AnswerStep, PlainAnswers
  <2>3. CASE /\ StillAsSubmitted(sheet, p)
             /\ Answers("poll", [state |-> BatchState(sheet, p, TRUE, sheet.job),
                                 table |-> Fitted(p)])
    <3>1. p.inputs = Inputs(sheet)
      BY <2>3 DEF StillAsSubmitted, Payload
    <3>2. StateOK(BatchState(sheet, p, TRUE, sheet.job))
      BY <3>1, FittedState
    <3>3. AnswerOK([state |-> BatchState(sheet, p, TRUE, sheet.job), table |-> Fitted(p)])
      BY <3>2 DEF AnswerOK
    <3> QED
      BY <1>1, <2>3, <3>3, AnswerStep
  <2> QED
    BY <2>1, <2>2, <2>3
<1> QED
  BY <1>2, <1>3, <1>4

LEMMA SheetInductive == SheetInv /\ [SheetNext]_sheetVars => SheetInv'
<1> SUFFICES ASSUME SheetInv, [SheetNext]_sheetVars PROVE SheetInv'
  OBVIOUS
<1>1. ASSUME UNCHANGED <<sheet, surfaces, awaited>> PROVE SheetInv'
  BY <1>1 DEF SheetInv, PublishedAsCalibrated, AnswerOK, StateOK
<1>2. ASSUME NEW d \in Days, OtherPublishes(d) PROVE SheetInv'
  <2>1. PICK s : s = [inputs |-> [day |-> d], table |-> Blank, replaced |-> Newest(OfDay(d))]
    OBVIOUS
  <2>2. s.table = Blank /\ surfaces' = Append(surfaces, s) /\ UNCHANGED <<sheet, awaited>>
    BY <1>2, <2>1 DEF OtherPublishes
  <2>3. IsSeq(surfaces') /\ PublishedAsCalibrated'
    BY <2>2, SurfaceAdded
  <2> QED
    BY <2>2, <2>3 DEF SheetInv, AnswerOK, StateOK
<1>3. ASSUME NEW d \in Days, OpenDay(d) PROVE SheetInv'
  <2>1. PICK m, b :
          awaited' = [awaited EXCEPT !["market"] = [market |-> m],
                                     !["base"] = [base |-> b],
                                     !["clear"] = [nodes |-> 0, state |-> Blank]]
    BY <1>3 DEF OpenDay
  <2>2. DOMAIN awaited' = Callbacks /\ \A c \in Callbacks :
          awaited'[c] \in {awaited[c], [market |-> m], [base |-> b], [nodes |-> 0, state |-> Blank]}
    BY <2>1 DEF SheetInv
  <2>3. \A c \in Callbacks : AnswerOK(awaited[c])'
    BY <2>2, PlainAnswers DEF SheetInv, AnswerOK, StateOK
  <2>4. sheet' = [sheet EXCEPT !.day = d] /\ surfaces' = surfaces
    BY <1>3 DEF OpenDay
  <2>5. "state" \in DOMAIN sheet' /\ sheet'.state = sheet.state
    BY <2>4 DEF SheetInv
  <2> QED
    BY <2>2, <2>3, <2>4, <2>5 DEF SheetInv, StateOK, PublishedAsCalibrated
<1>4. ASSUME NEW c \in Callbacks, Arrives(c) PROVE SheetInv'
  <2>1. /\ awaited[c] # Blank /\ surfaces' = surfaces
        /\ sheet' = [f \in DOMAIN sheet |->
                      IF f \in DOMAIN awaited[c] THEN awaited[c][f] ELSE sheet[f]]
        /\ awaited' = [awaited EXCEPT ![c] = Blank]
    BY <1>4 DEF Arrives, Answers
  <2>2. /\ "state" \in DOMAIN sheet'
        /\ sheet'.state = IF "state" \in DOMAIN awaited[c] THEN awaited[c].state ELSE sheet.state
    BY <2>1 DEF SheetInv
  <2>3. StateOK(sheet'.state)
    BY <2>1, <2>2 DEF SheetInv, AnswerOK
  <2>4. DOMAIN awaited' = Callbacks /\ \A k \in Callbacks : awaited'[k] \in {awaited[k], Blank}
    BY <2>1 DEF SheetInv
  <2>5. \A k \in Callbacks : AnswerOK(awaited[k])'
    BY <2>4 DEF SheetInv, AnswerOK, StateOK
  <2> QED
    BY <2>1, <2>2, <2>3, <2>4, <2>5 DEF SheetInv, StateOK, PublishedAsCalibrated
<1>5. CASE UpdateParamTable
  <2>1. PICK x : sheet' = [sheet EXCEPT !.table = x]
    BY <1>5 DEF UpdateParamTable
  <2>2. "state" \in DOMAIN sheet' /\ sheet'.state = sheet.state
    BY <2>1 DEF SheetInv
  <2> QED
    BY <1>5, <2>2 DEF UpdateParamTable, SheetInv, StateOK, AnswerOK, PublishedAsCalibrated
<1>6. CASE BuildCandidate \/ ValidateNodeEdits \/ HandleCalibration
  <2>1. UNCHANGED <<sheet, surfaces>> /\ {"candidate", "nodes", "compare"} \subseteq Callbacks
    BY <1>6 DEF BuildCandidate, ValidateNodeEdits, HandleCalibration, Edit, Callbacks
  <2>2. \E c \in {"candidate", "nodes", "compare"} :
          \/ \E x, y : Answers(c, [nodes |-> x, table |-> y])
          \/ \E x : Answers(c, [table |-> x])
    BY <1>6 DEF BuildCandidate, ValidateNodeEdits, HandleCalibration, Edit, NodesAndTable
  <2> QED
    BY <2>1, <2>2, AnswerStep, PlainAnswers
<1>7. ASSUME NEW j, BatchEnds(j) PROVE SheetInv'
  BY <1>1, <1>7 DEF BatchEnds
<1>8. UNCHANGED sheetVars => SheetInv'
  BY <1>1 DEF sheetVars
<1> QED
  BY <1>2, <1>3, <1>4, <1>5, <1>6, <1>7, <1>8, PublishSheetInv, BatchAnswers DEF SheetNext

(* A published surface was fitted to exactly what it is published with,    *)
(* in whatever order the answers of the callbacks arrived.                 *)
THEOREM SurfaceCalibrated == SheetSpec => []PublishedAsCalibrated
<1>1. SheetInit => SheetInv
  <2> SUFFICES ASSUME SheetInit PROVE SheetInv
    OBVIOUS
  <2>1. IsSeq(surfaces)
    <3>1. <<>> \in Seq({}) /\ surfaces = <<>>
      BY DEF SheetInit
    <3> QED
      BY <3>1 DEF IsSeq
  <2>2. PICK d : /\ sheet = [day |-> d, market |-> Blank, base |-> Blank, nodes |-> 0,
                             table |-> Blank, state |-> Blank, job |-> 0]
                 /\ awaited = [c \in Callbacks |->
                         CASE c = "market" -> [market |-> <<d, 0>>]
                           [] c = "base" -> [base |-> 0]
                           [] OTHER -> Blank]
    BY DEF SheetInit
  <2>3. "state" \in DOMAIN sheet /\ sheet.state = Blank
    BY <2>2
  <2>4. DOMAIN awaited = Callbacks /\ \A c \in Callbacks :
          awaited[c] \in {[market |-> <<d, 0>>], [base |-> 0], Blank}
    BY <2>2
  <2>5. \A c \in Callbacks : AnswerOK(awaited[c])
    BY <2>4, PlainAnswers DEF AnswerOK
  <2>6. PublishedAsCalibrated
    BY DEF SheetInit, PublishedAsCalibrated
  <2> QED
    BY <2>1, <2>3, <2>4, <2>5, <2>6 DEF SheetInv, StateOK
<1>2. SheetInv => PublishedAsCalibrated
  BY DEF SheetInv
<1> QED
  BY <1>1, <1>2, SheetInductive, PTL DEF SheetSpec

(* What the stores of a calibration workspace hold: every answer brings    *)
(* what they may hold, and the lists they point into only grow.            *)
SheetStores == {"day", "market", "base", "nodes", "table", "state", "job"}

StoresHold(e, b, n, r) ==
    /\ "nodes" \in DOMAIN r => r.nodes \in 0 .. e
    /\ "job" \in DOMAIN r => r.job \in 0 .. b
    /\ "base" \in DOMAIN r => r.base = Blank \/ r.base \in 0 .. n

AnswerTyped(e, b, n, a) == a # Blank => "day" \notin DOMAIN a /\ StoresHold(e, b, n, a)

SheetTyped ==
    /\ DOMAIN sheet = SheetStores /\ sheet.day \in Days
    /\ StoresHold(edits, Len(batches), Len(surfaces), sheet)
    /\ IsSeq(batches) /\ IsSeq(surfaces)
    /\ DOMAIN awaited = Callbacks
    /\ \A c \in Callbacks : AnswerTyped(edits, Len(batches), Len(surfaces), awaited[c])
    /\ rebuild \in BOOLEAN /\ opens \in 0 .. MaxOpens /\ edits \in 0 .. MaxEdits
    /\ Len(batches) <= MaxBatches /\ Len(surfaces) <= MaxSurfaces

LEMMA SheetBounds ==
    ASSUME SheetTyped
    PROVE  /\ Len(batches) \in Nat /\ DOMAIN batches = 1 .. Len(batches)
           /\ Len(surfaces) \in Nat /\ DOMAIN surfaces = 1 .. Len(surfaces)
           /\ edits \in Nat /\ opens \in Nat
           /\ MaxOpens \in Nat /\ MaxEdits \in Nat /\ MaxBatches \in Nat /\ MaxSurfaces \in Nat
<1>1. /\ Len(batches) \in Nat /\ DOMAIN batches = 1 .. Len(batches)
      /\ Len(surfaces) \in Nat /\ DOMAIN surfaces = 1 .. Len(surfaces)
  BY AppendAny DEF SheetTyped
<1> QED
  BY <1>1, SurfaceAssumption DEF SheetTyped

LEMMA TypedLater ==
    ASSUME NEW e \in Nat, NEW f \in Nat, e <= f, NEW b \in Nat, NEW g \in Nat, b <= g,
           NEW n \in Nat, NEW m \in Nat, n <= m
    PROVE  /\ \A r : StoresHold(e, b, n, r) => StoresHold(f, g, m, r)
           /\ \A a : AnswerTyped(e, b, n, a) => AnswerTyped(f, g, m, a)
<1>1. 0 .. e \subseteq 0 .. f /\ 0 .. b \subseteq 0 .. g /\ 0 .. n \subseteq 0 .. m
  OBVIOUS
<1> QED
  BY <1>1 DEF StoresHold, AnswerTyped

(* The newest of some publications or batches is one of them.              *)
LEMMA NewestIs ==
    ASSUME NEW S, NEW n \in Nat, S \subseteq 1 .. n
    PROVE  Newest(S) \in 0 .. n /\ (S # {} => Newest(S) \in S)
<1>1. CASE S = {}
  BY <1>1 DEF Newest
<1>2. CASE S # {}
  <2>1. S \in SUBSET Nat /\ \A i \in S : i <= n
    OBVIOUS
  <2>2. \E i \in S : \A k \in S : k <= i
    BY <1>2, <2>1, GreatestExists
  <2>3. Newest(S) \in S
    BY <1>2, <2>2 DEF Newest
  <2>4. PICK i : i = Newest(S)
    OBVIOUS
  <2>5. i \in 1 .. n
    BY <2>3, <2>4
  <2> QED
    BY <2>3, <2>4, <2>5
<1> QED
  BY <1>1, <1>2

LEMMA LatestIs ==
    ASSUME SheetTyped, NEW d \in Days
    PROVE  LatestSurface(d) \in 0 .. Len(surfaces)
<1>1. PICK days : days = {e \in Days : e <= d /\ OfDay(e) # {}}
  OBVIOUS
<1>2. LatestSurface(d) = IF days = {} THEN 0
                         ELSE Newest(OfDay(CHOOSE e \in days : \A f \in days : f <= e))
  BY <1>1 DEF LatestSurface
<1>3. \A e : OfDay(e) \subseteq 1 .. Len(surfaces)
  BY SheetBounds DEF OfDay
<1>4. \A e : Newest(OfDay(e)) \in 0 .. Len(surfaces)
  BY <1>3, SheetBounds, NewestIs
<1> QED
  BY <1>2, <1>4, SheetBounds

(* A callback asks, and the page goes on as it was.                        *)
LEMMA AskTyped ==
    ASSUME SheetTyped, NEW c \in Callbacks, NEW a, Answers(c, a), UNCHANGED <<sheet, rebuild, opens>>,
           edits' \in 0 .. MaxEdits, edits <= edits',
           IsSeq(batches'), Len(batches) <= Len(batches'), Len(batches') <= MaxBatches,
           IsSeq(surfaces'), Len(surfaces) <= Len(surfaces'), Len(surfaces') <= MaxSurfaces,
           AnswerTyped(edits', Len(batches'), Len(surfaces'), a)
    PROVE  SheetTyped'
<1>1. /\ Len(batches') \in Nat /\ Len(surfaces') \in Nat /\ edits' \in Nat
      /\ Len(batches) \in Nat /\ Len(surfaces) \in Nat /\ edits \in Nat
  BY SheetBounds, AppendAny
<1>2. /\ \A r : StoresHold(edits, Len(batches), Len(surfaces), r) =>
                StoresHold(edits', Len(batches'), Len(surfaces'), r)
      /\ \A r : AnswerTyped(edits, Len(batches), Len(surfaces), r) =>
                AnswerTyped(edits', Len(batches'), Len(surfaces'), r)
  BY <1>1, TypedLater
<1>3. DOMAIN awaited' = Callbacks /\ \A k \in Callbacks : awaited'[k] \in {awaited[k], a}
  BY DEF SheetTyped, Answers
<1>4. \A k \in Callbacks : AnswerTyped(edits', Len(batches'), Len(surfaces'), awaited'[k])
  BY <1>2, <1>3 DEF SheetTyped
<1> QED
  BY <1>2, <1>3, <1>4 DEF SheetTyped

(* Nothing but the lists of batches and publications moves.                *)
LEMMA ListsTyped ==
    ASSUME SheetTyped, UNCHANGED <<sheet, awaited, rebuild, opens, edits>>,
           IsSeq(batches'), Len(batches) <= Len(batches'), Len(batches') <= MaxBatches,
           IsSeq(surfaces'), Len(surfaces) <= Len(surfaces'), Len(surfaces') <= MaxSurfaces
    PROVE  SheetTyped'
<1>1. /\ Len(batches') \in Nat /\ Len(surfaces') \in Nat
      /\ Len(batches) \in Nat /\ Len(surfaces) \in Nat /\ edits \in Nat
  BY SheetBounds, AppendAny
<1>2. /\ \A r : StoresHold(edits, Len(batches), Len(surfaces), r) =>
                StoresHold(edits, Len(batches'), Len(surfaces'), r)
      /\ \A r : AnswerTyped(edits, Len(batches), Len(surfaces), r) =>
                AnswerTyped(edits, Len(batches'), Len(surfaces'), r)
  BY <1>1, TypedLater
<1> QED
  BY <1>2 DEF SheetTyped

(* The answers, each with what it brings.                                  *)
LEMMA AnswersTyped ==
    ASSUME NEW e, NEW b, NEW n
    PROVE  /\ AnswerTyped(e, b, n, Blank)
           /\ \A x : AnswerTyped(e, b, n, [market |-> x]) /\ AnswerTyped(e, b, n, [table |-> x])
                     /\ AnswerTyped(e, b, n, [state |-> x])
           /\ \A x, y : AnswerTyped(e, b, n, [state |-> x, table |-> y])
           /\ \A x \in 0 .. n : AnswerTyped(e, b, n, [base |-> x])
           /\ \A x \in 0 .. e : \A y : /\ AnswerTyped(e, b, n, [nodes |-> x, table |-> y])
                                       /\ AnswerTyped(e, b, n, [nodes |-> x, state |-> y])
           /\ \A x \in 0 .. b : \A y : AnswerTyped(e, b, n, [job |-> x, state |-> y])
           /\ \A x \in 0 .. b : \A y, z : AnswerTyped(e, b, n, [job |-> x, table |-> y, state |-> z])
BY DEF AnswerTyped, StoresHold

LEMMA OpenDayTyped ==
    ASSUME SheetTyped, NEW d \in Days, OpenDay(d)
    PROVE  SheetTyped'
<1>1. PICK b \in 0 .. Len(surfaces) : \E m :
        awaited' = [awaited EXCEPT !["market"] = [market |-> m],
                                   !["base"] = [base |-> b],
                                   !["clear"] = [nodes |-> 0, state |-> Blank]]
  <2>1. PICK r : awaited' = [awaited EXCEPT !["market"] = [market |-> <<d, r>>],
                                            !["base"] = [base |-> LatestSurface(d)],
                                            !["clear"] = [nodes |-> 0, state |-> Blank]]
    BY DEF OpenDay
  <2> QED
    BY <2>1, LatestIs
<1>2. PICK m :
        awaited' = [awaited EXCEPT !["market"] = [market |-> m],
                                   !["base"] = [base |-> b],
                                   !["clear"] = [nodes |-> 0, state |-> Blank]]
  BY <1>1
<1>3. /\ opens < MaxOpens /\ opens' = opens + 1 /\ sheet' = [sheet EXCEPT !.day = d]
      /\ UNCHANGED <<rebuild, edits, batches, surfaces>>
  BY DEF OpenDay
<1>4. DOMAIN awaited' = Callbacks /\ \A c \in Callbacks :
        awaited'[c] \in {awaited[c], [market |-> m], [base |-> b], [nodes |-> 0, state |-> Blank]}
  BY <1>2 DEF SheetTyped
<1>5. \A c \in Callbacks : AnswerTyped(edits, Len(batches), Len(surfaces), awaited'[c])
  <2>1. 0 \in 0 .. edits
    BY SheetBounds
  <2>2. /\ AnswerTyped(edits, Len(batches), Len(surfaces), [market |-> m])
        /\ AnswerTyped(edits, Len(batches), Len(surfaces), [base |-> b])
        /\ AnswerTyped(edits, Len(batches), Len(surfaces), [nodes |-> 0, state |-> Blank])
    BY <1>1, <2>1, AnswersTyped
  <2> QED
    BY <1>4, <2>2 DEF SheetTyped
<1>6. /\ DOMAIN sheet' = SheetStores /\ sheet'.day = d
      /\ \A f \in SheetStores : f # "day" => sheet'[f] = sheet[f]
  BY <1>3 DEF SheetTyped, SheetStores
<1>7. StoresHold(edits, Len(batches), Len(surfaces), sheet')
  BY <1>6 DEF SheetTyped, StoresHold, SheetStores
<1>8. opens' \in 0 .. MaxOpens
  BY <1>3, SheetBounds
<1> QED
  BY <1>3, <1>4, <1>5, <1>6, <1>7, <1>8 DEF SheetTyped

LEMMA ArrivesTyped ==
    ASSUME SheetTyped, NEW c \in Callbacks, Arrives(c)
    PROVE  SheetTyped'
<1>1. /\ awaited[c] # Blank
      /\ sheet' = [f \in DOMAIN sheet |->
                    IF f \in DOMAIN awaited[c] THEN awaited[c][f] ELSE sheet[f]]
      /\ awaited' = [awaited EXCEPT ![c] = Blank]
      /\ UNCHANGED <<opens, edits, batches, surfaces>>
  BY DEF Arrives, Answers
<1>2. rebuild' \in BOOLEAN
  BY DEF Arrives
<1>3. PICK a : a = awaited[c]
  OBVIOUS
<1>4. "day" \notin DOMAIN a /\ StoresHold(edits, Len(batches), Len(surfaces), a)
  BY <1>1, <1>3 DEF SheetTyped, AnswerTyped
<1>5. /\ DOMAIN sheet' = SheetStores
      /\ \A f \in SheetStores : sheet'[f] = IF f \in DOMAIN a THEN a[f] ELSE sheet[f]
  BY <1>1, <1>3 DEF SheetTyped
<1>6. {"day", "nodes", "job", "base"} \subseteq SheetStores
  BY DEF SheetStores
<1>7. sheet'.day = sheet.day
  BY <1>4, <1>5, <1>6
<1>8. StoresHold(edits, Len(batches), Len(surfaces), sheet')
  BY <1>4, <1>5, <1>6 DEF SheetTyped, StoresHold
<1>9. DOMAIN awaited' = Callbacks
      /\ \A k \in Callbacks : AnswerTyped(edits, Len(batches), Len(surfaces), awaited'[k])
  <2>1. DOMAIN awaited' = Callbacks /\ \A k \in Callbacks : awaited'[k] \in {awaited[k], Blank}
    BY <1>1 DEF SheetTyped
  <2> QED
    BY <2>1, AnswersTyped DEF SheetTyped
<1> QED
  BY <1>1, <1>2, <1>5, <1>7, <1>8, <1>9 DEF SheetTyped

LEMMA TableTyped ==
    ASSUME SheetTyped, UpdateParamTable
    PROVE  SheetTyped'
<1>1. PICK x : sheet' = [sheet EXCEPT !.table = x]
  BY DEF UpdateParamTable
<1>2. rebuild' = FALSE /\ UNCHANGED <<awaited, opens, edits, batches, surfaces>>
  BY DEF UpdateParamTable
<1>3. /\ DOMAIN sheet' = SheetStores
      /\ \A f \in SheetStores : f # "table" => sheet'[f] = sheet[f]
  BY <1>1 DEF SheetTyped
<1>4. sheet'.day \in Days /\ StoresHold(edits, Len(batches), Len(surfaces), sheet')
  BY <1>3 DEF SheetTyped, StoresHold, SheetStores
<1> QED
  BY <1>2, <1>3, <1>4 DEF SheetTyped

LEMMA EditTyped ==
    ASSUME SheetTyped, BuildCandidate \/ ValidateNodeEdits \/ HandleCalibration
    PROVE  SheetTyped'
<1>1. /\ edits < MaxEdits /\ edits' = edits + 1 /\ UNCHANGED <<sheet, rebuild, opens, batches, surfaces>>
      /\ {"candidate", "nodes", "compare"} \subseteq Callbacks
  BY DEF BuildCandidate, ValidateNodeEdits, HandleCalibration, Edit, Callbacks
<1>2. PICK c \in {"candidate", "nodes", "compare"} :
        \/ \E x \in {0, edits + 1} : \E y : Answers(c, [nodes |-> x, table |-> y])
        \/ \E x : Answers(c, [table |-> x])
  BY DEF BuildCandidate, ValidateNodeEdits, HandleCalibration, Edit, NodesAndTable
<1>3. /\ edits' \in 0 .. MaxEdits /\ edits <= edits' /\ {0, edits + 1} \subseteq 0 .. edits'
      /\ Len(batches) <= Len(batches') /\ Len(batches') <= MaxBatches /\ IsSeq(batches')
      /\ Len(surfaces) <= Len(surfaces') /\ Len(surfaces') <= MaxSurfaces /\ IsSeq(surfaces')
  BY <1>1, SheetBounds DEF SheetTyped
<1>4. ASSUME NEW a, Answers(c, a), AnswerTyped(edits', Len(batches'), Len(surfaces'), a)
      PROVE  SheetTyped'
  BY <1>1, <1>2, <1>3, <1>4, AskTyped
<1>5. ASSUME NEW x \in {0, edits + 1}, NEW y, Answers(c, [nodes |-> x, table |-> y]) PROVE SheetTyped'
  <2>1. AnswerTyped(edits', Len(batches'), Len(surfaces'), [nodes |-> x, table |-> y])
    BY <1>3, AnswersTyped
  <2> QED
    BY <1>4, <1>5, <2>1
<1>6. ASSUME NEW x, Answers(c, [table |-> x]) PROVE SheetTyped'
  <2>1. AnswerTyped(edits', Len(batches'), Len(surfaces'), [table |-> x])
    BY AnswersTyped
  <2> QED
    BY <1>4, <1>6, <2>1
<1> QED
  BY <1>2, <1>5, <1>6

(* A batch is asked for, and answered with one that is in the list.        *)
LEMMA BatchTyped ==
    ASSUME SheetTyped, RunBatch \/ CalibrateHere
    PROVE  SheetTyped'
<1>1. /\ UNCHANGED <<sheet, rebuild, opens, edits, surfaces>> /\ "batch" \in Callbacks
  BY DEF RunBatch, CalibrateHere, Callbacks
<1>2. /\ edits' \in 0 .. MaxEdits /\ edits <= edits'
      /\ Len(surfaces) <= Len(surfaces') /\ Len(surfaces') <= MaxSurfaces /\ IsSeq(surfaces')
  BY <1>1, SheetBounds DEF SheetTyped
<1>3. ASSUME NEW a, Answers("batch", a), IsSeq(batches'), Len(batches) <= Len(batches'),
             Len(batches') <= MaxBatches, AnswerTyped(edits', Len(batches'), Len(surfaces'), a)
      PROVE  SheetTyped'
  BY <1>1, <1>2, <1>3, AskTyped
<1>4. ASSUME NEW x \in 0 .. Len(batches), UNCHANGED batches, Answers("batch", [job |-> x, state |-> Blank])
      PROVE  SheetTyped'
  <2>1. IsSeq(batches') /\ Len(batches) <= Len(batches') /\ Len(batches') <= MaxBatches
    BY <1>4, SheetBounds DEF SheetTyped
  <2>2. AnswerTyped(edits', Len(batches'), Len(surfaces'), [job |-> x, state |-> Blank])
    BY <1>4, AnswersTyped
  <2> QED
    BY <1>3, <1>4, <2>1, <2>2
<1>5. ASSUME NEW row, Len(batches) < MaxBatches, batches' = Append(batches, row)
      PROVE  /\ IsSeq(batches') /\ Len(batches') = Len(batches) + 1
             /\ Len(batches) <= Len(batches') /\ Len(batches') <= MaxBatches
             /\ 0 \in 0 .. Len(batches') /\ Len(batches') \in 0 .. Len(batches')
  <2>1. IsSeq(batches') /\ Len(batches') = Len(batches) + 1
    BY <1>5, AppendAny DEF SheetTyped
  <2> QED
    BY <1>5, <2>1, SheetBounds
<1>6. CASE RunBatch
  <2>1. PICK same : same = {j \in DOMAIN batches : /\ batches[j].payload = Payload(sheet)
                                                   /\ batches[j].status \in {"running", "succeeded"}}
    OBVIOUS
  <2>2. \/ Answers("batch", [job |-> Newest(same), state |-> Blank]) /\ UNCHANGED batches
        \/ /\ Len(batches) < MaxBatches
           /\ batches' = Append(batches, [payload |-> Payload(sheet), status |-> "running"])
           /\ Answers("batch", [job |-> Len(batches'), state |-> Blank])
        \/ Answers("batch", [job |-> 0, state |-> Blank]) /\ UNCHANGED batches
    BY <1>6, <2>1 DEF RunBatch
  <2>3. CASE Answers("batch", [job |-> Newest(same), state |-> Blank]) /\ UNCHANGED batches
    <3>1. same \subseteq 1 .. Len(batches)
      BY <2>1, SheetBounds
    <3>2. Newest(same) \in 0 .. Len(batches)
      BY <3>1, SheetBounds, NewestIs
    <3> QED
      BY <1>4, <2>3, <3>2
  <2>4. CASE /\ Len(batches) < MaxBatches
             /\ batches' = Append(batches, [payload |-> Payload(sheet), status |-> "running"])
             /\ Answers("batch", [job |-> Len(batches'), state |-> Blank])
    <3>1. /\ IsSeq(batches') /\ Len(batches) <= Len(batches') /\ Len(batches') <= MaxBatches
          /\ Len(batches') \in 0 .. Len(batches')
      BY <1>5, <2>4
    <3>2. AnswerTyped(edits', Len(batches'), Len(surfaces'), [job |-> Len(batches'), state |-> Blank])
      BY <3>1, AnswersTyped
    <3> QED
      BY <1>3, <2>4, <3>1, <3>2
  <2>5. CASE Answers("batch", [job |-> 0, state |-> Blank]) /\ UNCHANGED batches
    <3>1. 0 \in 0 .. Len(batches)
      BY SheetBounds
    <3> QED
      BY <1>4, <2>5, <3>1
  <2> QED
    BY <2>2, <2>3, <2>4, <2>5
<1>7. CASE CalibrateHere
  <2>1. PICK y, z : Answers("batch", [job |-> 0, table |-> y, state |-> z])
    BY <1>7 DEF CalibrateHere
  <2>2. Len(batches) < MaxBatches /\ batches' = Append(batches, [payload |-> Payload(sheet), status |-> "here"])
    BY <1>7 DEF CalibrateHere
  <2>3. /\ IsSeq(batches') /\ Len(batches) <= Len(batches') /\ Len(batches') <= MaxBatches
        /\ 0 \in 0 .. Len(batches')
    BY <1>5, <2>2
  <2>4. AnswerTyped(edits', Len(batches'), Len(surfaces'), [job |-> 0, table |-> y, state |-> z])
    BY <2>3, AnswersTyped
  <2> QED
    BY <1>3, <2>1, <2>3, <2>4
<1> QED
  BY <1>6, <1>7

LEMMA PollTyped ==
    ASSUME SheetTyped, PollBatch
    PROVE  SheetTyped'
<1>1. UNCHANGED <<sheet, rebuild, opens, edits, batches, surfaces>> /\ "poll" \in Callbacks
  BY DEF PollBatch, Callbacks
<1>2. /\ edits' \in 0 .. MaxEdits /\ edits <= edits'
      /\ Len(batches) <= Len(batches') /\ Len(batches') <= MaxBatches /\ IsSeq(batches')
      /\ Len(surfaces) <= Len(surfaces') /\ Len(surfaces') <= MaxSurfaces /\ IsSeq(surfaces')
  BY <1>1, SheetBounds DEF SheetTyped
<1>3. PICK x, y : Answers("poll", [state |-> x]) \/ Answers("poll", [state |-> x, table |-> y])
  BY DEF PollBatch
<1>4. /\ AnswerTyped(edits', Len(batches'), Len(surfaces'), [state |-> x])
      /\ AnswerTyped(edits', Len(batches'), Len(surfaces'), [state |-> x, table |-> y])
  BY AnswersTyped
<1> QED
  BY <1>1, <1>2, <1>3, <1>4, AskTyped

LEMMA PublishTyped ==
    ASSUME SheetTyped, PublishSheet
    PROVE  SheetTyped'
<1>1. UNCHANGED <<sheet, rebuild, opens, edits, batches>> /\ "publish" \in Callbacks
  BY DEF PublishSheet, Callbacks
<1>2. /\ edits' \in 0 .. MaxEdits /\ edits <= edits'
      /\ Len(batches) <= Len(batches') /\ Len(batches') <= MaxBatches /\ IsSeq(batches')
  BY <1>1, SheetBounds DEF SheetTyped
<1>3. PICK again : again = {i \in DOMAIN surfaces : /\ surfaces[i].inputs = Inputs(sheet)
                                                    /\ surfaces[i].table = sheet.table}
  OBVIOUS
<1>4. Newest(again) \in 0 .. Len(surfaces)
  <2>1. again \subseteq 1 .. Len(surfaces)
    BY <1>3, SheetBounds
  <2> QED
    BY <2>1, SheetBounds, NewestIs
<1>5. \/ Answers("publish", [base |-> Newest(again)]) /\ UNCHANGED surfaces
      \/ /\ Len(surfaces) < MaxSurfaces
         /\ \E s : surfaces' = Append(surfaces, s)
         /\ Answers("publish", [base |-> Len(surfaces')])
  BY <1>3 DEF PublishSheet
<1>6. ASSUME NEW x \in 0 .. Len(surfaces'), Answers("publish", [base |-> x]), IsSeq(surfaces'),
             Len(surfaces) <= Len(surfaces'), Len(surfaces') <= MaxSurfaces
      PROVE  SheetTyped'
  <2>1. AnswerTyped(edits', Len(batches'), Len(surfaces'), [base |-> x])
    BY <1>6, AnswersTyped
  <2> QED
    BY <1>1, <1>2, <1>6, <2>1, AskTyped
<1>7. CASE Answers("publish", [base |-> Newest(again)]) /\ UNCHANGED surfaces
  <2>1. IsSeq(surfaces') /\ Len(surfaces) <= Len(surfaces') /\ Len(surfaces') <= MaxSurfaces
    BY <1>7, SheetBounds DEF SheetTyped
  <2> QED
    BY <1>4, <1>6, <1>7, <2>1
<1>8. CASE /\ Len(surfaces) < MaxSurfaces
           /\ \E s : surfaces' = Append(surfaces, s)
           /\ Answers("publish", [base |-> Len(surfaces')])
  <2>1. IsSeq(surfaces') /\ Len(surfaces') = Len(surfaces) + 1
    BY <1>8, AppendAny DEF SheetTyped
  <2>2. Len(surfaces) <= Len(surfaces') /\ Len(surfaces') <= MaxSurfaces
        /\ Len(surfaces') \in 0 .. Len(surfaces')
    BY <1>8, <2>1, SheetBounds
  <2> QED
    BY <1>6, <1>8, <2>1, <2>2
<1> QED
  BY <1>5, <1>7, <1>8

LEMMA SheetTypedInductive == SheetTyped /\ [SheetNext]_sheetVars => SheetTyped'
<1> SUFFICES ASSUME SheetTyped, [SheetNext]_sheetVars PROVE SheetTyped'
  OBVIOUS
<1>1. CASE UNCHANGED sheetVars
  BY <1>1 DEF sheetVars, SheetTyped
<1>2. ASSUME NEW d \in Days, OtherPublishes(d) PROVE SheetTyped'
  <2>1. /\ Len(surfaces) < MaxSurfaces /\ \E s : surfaces' = Append(surfaces, s)
        /\ UNCHANGED <<sheet, awaited, rebuild, opens, edits, batches>>
    BY <1>2 DEF OtherPublishes
  <2>2. IsSeq(surfaces') /\ Len(surfaces') = Len(surfaces) + 1
    BY <2>1, AppendAny DEF SheetTyped
  <2>3. /\ Len(surfaces) <= Len(surfaces') /\ Len(surfaces') <= MaxSurfaces
        /\ IsSeq(batches') /\ Len(batches) <= Len(batches') /\ Len(batches') <= MaxBatches
    BY <2>1, <2>2, SheetBounds DEF SheetTyped
  <2> QED
    BY <2>1, <2>2, <2>3, ListsTyped
<1>3. ASSUME NEW j \in DOMAIN batches, BatchEnds(j) PROVE SheetTyped'
  <2>1. PICK row : batches' = [batches EXCEPT ![j] = row]
    BY <1>3 DEF BatchEnds
  <2>2. UNCHANGED <<sheet, awaited, rebuild, opens, edits, surfaces>>
    BY <1>3 DEF BatchEnds
  <2>3. IsSeq(batches') /\ Len(batches') = Len(batches)
    <3>1. PICK S : batches \in Seq(S)
      BY DEF SheetTyped, IsSeq
    <3>2. PICK T : T = S \cup {row}
      OBVIOUS
    <3>3. batches \in Seq(T) /\ row \in T
      BY <3>1, <3>2
    <3>4. batches' \in Seq(T) /\ Len(batches') = Len(batches)
      BY <2>1, <3>3
    <3> QED
      BY <3>4 DEF IsSeq
  <2>4. /\ Len(surfaces) <= Len(surfaces') /\ Len(surfaces') <= MaxSurfaces /\ IsSeq(surfaces')
        /\ Len(batches) <= Len(batches') /\ Len(batches') <= MaxBatches
    BY <2>2, <2>3, SheetBounds DEF SheetTyped
  <2> QED
    BY <2>2, <2>3, <2>4, ListsTyped
<1> QED
  BY <1>1, <1>2, <1>3, OpenDayTyped, ArrivesTyped, TableTyped, EditTyped, BatchTyped, PollTyped,
     PublishTyped DEF SheetNext

(* The stores of a workspace point at batches and surfaces that exist.     *)
LEMMA SheetIsTyped == SheetSpec => []SheetTypeOK
<1>1. SheetInit => SheetTyped
  <2> SUFFICES ASSUME SheetInit PROVE SheetTyped
    OBVIOUS
  <2>1. /\ batches = <<>> /\ surfaces = <<>> /\ rebuild = FALSE /\ opens = 0 /\ edits = 0
    BY DEF SheetInit
  <2>2. IsSeq(<<>>) /\ Len(batches) = 0 /\ Len(surfaces) = 0
    <3>1. <<>> \in Seq({})
      OBVIOUS
    <3> QED
      BY <2>1, <3>1 DEF IsSeq
  <2>3. PICK d : /\ d = CHOOSE e \in Days : \A f \in Days : f <= e
                 /\ sheet = [day |-> d, market |-> Blank, base |-> Blank, nodes |-> 0,
                             table |-> Blank, state |-> Blank, job |-> 0]
                 /\ awaited = [c \in Callbacks |->
                         CASE c = "market" -> [market |-> <<d, 0>>]
                           [] c = "base" -> [base |-> 0]
                           [] OTHER -> Blank]
    BY DEF SheetInit
  <2>4. d \in Days
    BY <2>3, SurfaceAssumption
  <2>5. /\ DOMAIN sheet = SheetStores /\ sheet.day = d /\ StoresHold(0, 0, 0, sheet)
    BY <2>3 DEF SheetStores, StoresHold
  <2>6. \A c \in Callbacks : awaited[c] \in {[market |-> <<d, 0>>], [base |-> 0], Blank}
    BY <2>3
  <2>7. /\ AnswerTyped(0, 0, 0, [market |-> <<d, 0>>]) /\ AnswerTyped(0, 0, 0, [base |-> 0])
        /\ AnswerTyped(0, 0, 0, Blank)
    <3>1. 0 \in 0 .. 0
      OBVIOUS
    <3> QED
      BY <3>1, AnswersTyped
  <2>8. DOMAIN awaited = Callbacks /\ \A c \in Callbacks : AnswerTyped(0, 0, 0, awaited[c])
    BY <2>3, <2>6, <2>7
  <2>9. /\ StoresHold(edits, Len(batches), Len(surfaces), sheet)
        /\ \A c \in Callbacks : AnswerTyped(edits, Len(batches), Len(surfaces), awaited[c])
    BY <2>1, <2>2, <2>5, <2>8
  <2>10. MaxOpens \in Nat /\ MaxEdits \in Nat /\ MaxBatches \in Nat /\ MaxSurfaces \in Nat
    BY SurfaceAssumption
  <2>11. opens \in 0 .. MaxOpens /\ edits \in 0 .. MaxEdits /\ Len(batches) <= MaxBatches
         /\ Len(surfaces) <= MaxSurfaces
    BY <2>1, <2>2, <2>10
  <2>12. rebuild \in BOOLEAN /\ IsSeq(batches) /\ IsSeq(surfaces)
    BY <2>1, <2>2
  <2> QED
    BY <2>4, <2>5, <2>8, <2>9, <2>11, <2>12 DEF SheetTyped
<1>2. SheetTyped => SheetTypeOK
  <2> SUFFICES ASSUME SheetTyped PROVE SheetTypeOK
    OBVIOUS
  <2>1. /\ sheet.nodes \in 0 .. edits /\ sheet.job \in 0 .. Len(batches)
        /\ sheet.base = Blank \/ sheet.base \in 0 .. Len(surfaces)
    BY DEF SheetTyped, StoresHold, SheetStores
  <2>2. sheet.nodes \in 0 .. MaxEdits
    BY <2>1, SheetBounds DEF SheetTyped
  <2> QED
    BY <2>1, <2>2 DEF SheetTyped, SheetTypeOK
<1> QED
  BY <1>1, <1>2, SheetTypedInductive, PTL DEF SheetSpec
=============================================================================
