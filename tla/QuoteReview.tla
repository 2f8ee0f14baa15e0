------------------------------ MODULE QuoteReview ------------------------------
(***************************************************************************)
(* Reviews of ICE quotes (ice_quotes/jobs.py).  A selection of quotes is   *)
(* fitted once, in a thread of the server; every editor that asks for it   *)
(* joins the same job.  The record of a job lies in the shared disk cache  *)
(* behind a lock that runs out after ten seconds, the future of its fit in *)
(* the process behind a mutex, and the two are taken in either order.  How *)
(* long ago something was written is not kept: what a clock decides, may   *)
(* be decided either way at any time.                                      *)
(***************************************************************************)
EXTENDS Naturals, FiniteSets

CONSTANTS
    Editors, Selections,
    Reviewers,      \* threads that fit (two)
    FutureLimit,    \* entries of _FUTURES (eight)
    MaxReviews,     \* bound on fits ever launched
    Interests       \* bound: the pairs of an editor and a selection to ask for

ASSUME ReviewsAssumption ==
    /\ Reviewers \in Nat \ {0} /\ FutureLimit \in Nat \ {0}
    /\ MaxReviews \in Nat \ {0}
    /\ Interests \subseteq Editors \X Selections

VARIABLES
    review,         \* the record of each selection
    reviewLock,     \* who holds the lock of the record
    subscription,   \* the selection each editor asked for last
    future,         \* _FUTURES: the fit of each selection; 0: none
    fit,            \* each fit
    guardHolder,    \* _GUARD
    editor          \* one request of each editor

reviewVars == <<review, reviewLock, subscription, future, fit, guardHolder, editor>>

Fits == 1 .. MaxReviews
NoSelection == "no selection"
Nobody == "nobody"

Reviews == [run : 0 .. MaxReviews,       \* 0: a record without an id
            status : {"running", "complete", "failed", "cancelled"},
            subscribers : SUBSET Editors,
            owned : BOOLEAN]             \* by the process that is running
NoReview == [status |-> "absent"]

Requests == [pc : {"idle", "leave", "cancel", "mark", "subscribe", "launch"},
             for : Selections \cup {NoSelection}, deserted : BOOLEAN, run : 0 .. MaxReviews,
             ticket : 0 .. MaxReviews]                \* kept by the page

AtRest == [pc |-> "idle", for |-> NoSelection, deserted |-> FALSE, run |-> 0,
           ticket |-> 0]

ReviewTypeOK ==
    /\ review \in [Selections -> Reviews \cup {NoReview}]
    /\ reviewLock \in [Selections -> Editors \cup {Nobody}]
    /\ subscription \in [Editors -> Selections \cup {NoSelection}]
    /\ future \in [Selections -> 0 .. MaxReviews]
    /\ fit \in [Fits -> {"none", "made", "queued", "fitting", "over"}]
    /\ guardHolder \in Editors \cup {Nobody}
    /\ editor \in [Editors -> Requests]

ReviewInit ==
    /\ review = [k \in Selections |-> NoReview]
    /\ reviewLock = [k \in Selections |-> Nobody]
    /\ subscription = [e \in Editors |-> NoSelection]
    /\ future = [k \in Selections |-> 0]
    /\ fit = [r \in Fits |-> "none"]
    /\ guardHolder = Nobody
    /\ editor = [e \in Editors |-> AtRest]

-----------------------------------------------------------------------------
Request(e, pc) == editor[e].pc = pc
RequestTo(e, row) == editor' = [editor EXCEPT ![e] = row]
Unlocked(k) == reviewLock[k] = Nobody
Held(k) == review[k].status # "absent"
RunOf(k) == IF Held(k) THEN review[k].run ELSE 0

(* update of _fit_bundle: nothing when the record has another id by now.   *)
Report(r, status) ==
    /\ \A k \in Selections : RunOf(k) = r => Unlocked(k)
    /\ review' = [k \in Selections |->
          IF RunOf(k) = r THEN [review[k] EXCEPT !.status = status] ELSE review[k]]

(* The callback of the future. *)
Forgotten(r) == [k \in Selections |-> IF future[k] = r THEN 0 ELSE future[k]]

-----------------------------------------------------------------------------
(* submit, up to the lock of the old record.                               *)
AskReview(e, k) ==
    /\ Request(e, "idle") /\ <<e, k>> \in Interests
    /\ RequestTo(e, [editor[e] EXCEPT !.for = k, !.deserted = FALSE,
          !.pc = IF subscription[e] \in {NoSelection, k} THEN "subscribe" ELSE "leave"])
    /\ UNCHANGED <<review, reviewLock, subscription, future, fit, guardHolder>>

(* Whether anybody is left is decided here and used in CancelLeft; an      *)
(* entry whose two minutes are over still counts.                          *)
LeaveReview(e) ==
    LET old == subscription[e]
        left == IF Held(old) THEN review[old].subscribers \ {e} ELSE {}
    IN  /\ Request(e, "leave") /\ Unlocked(old)
        /\ review' = [review EXCEPT ![old] =
              IF Held(old) THEN [@ EXCEPT !.subscribers = left] ELSE @]
        /\ RequestTo(e, [editor[e] EXCEPT !.pc = "cancel", !.deserted = (left = {})])
        /\ UNCHANGED <<reviewLock, subscription, future, fit, guardHolder>>

(* Slip: the future is cancelled and the record left as it is. *)
OnWithIt(e) == guardHolder' = guardHolder /\ RequestTo(e, [editor[e] EXCEPT !.pc = "subscribe"])

(* _GUARD is kept while the record's lock is waited for. *)
ToTheRecord(e) == guardHolder' = e /\ RequestTo(e, [editor[e] EXCEPT !.pc = "mark"])

CancelLeft(e) ==
    LET r == future[subscription[e]]
    IN  /\ Request(e, "cancel") /\ guardHolder = Nobody
        /\ IF r # 0 /\ editor[e].deserted /\ fit[r] = "queued"
             THEN /\ fit' = [fit EXCEPT ![r] = "over"]
                  /\ future' = Forgotten(r)
                  /\ ToTheRecord(e)
             ELSE /\ RequestTo(e, [editor[e] EXCEPT !.pc = "subscribe"])
                  /\ UNCHANGED <<future, fit, guardHolder>>
        /\ UNCHANGED <<review, reviewLock, subscription>>

(* Whatever run the record belongs to by now; a record that has gone is    *)
(* left with a status and no id.                                           *)
MarkCancelled(e) ==
    LET old == subscription[e]
    IN  /\ Request(e, "mark") /\ Unlocked(old)
        /\ review' = [review EXCEPT ![old] =
              IF Held(old) THEN [@ EXCEPT !.status = "cancelled"]
              ELSE [run |-> 0, status |-> "cancelled", subscribers |-> {}, owned |-> FALSE]]
        /\ guardHolder' = Nobody
        /\ RequestTo(e, [editor[e] EXCEPT !.pc = "subscribe"])
        /\ UNCHANGED <<reviewLock, subscription, future, fit>>

(* A running job is outdated after three minutes, and any job that has     *)
(* lost one of its candidates.                                             *)
Replaced(k, outdated) ==
    \/ ~Held(k)
    \/ review[k].status \in {"cancelled", "failed"}
    \/ review[k].status = "running" /\ ~review[k].owned
    \/ outdated

JoinReview(e) ==
    LET k == editor[e].for
    IN  /\ Request(e, "subscribe") /\ Unlocked(k)
        /\ subscription' = [subscription EXCEPT ![e] = k]
        /\ ~Replaced(k, FALSE)
        /\ review' = [review EXCEPT ![k].subscribers = @ \cup {e}]
        /\ RequestTo(e, [AtRest EXCEPT !.ticket = review[k].run])
        /\ UNCHANGED <<reviewLock, future, fit, guardHolder>>

NextFit == {r \in Fits : fit[r] = "none" /\ \A q \in Fits : q < r => fit[q] # "none"}

(* The new record is written before _launch asks for _GUARD, which it does *)
(* under the record's lock.                                                *)
ReplaceReview(e) ==
    LET k == editor[e].for
    IN  /\ Request(e, "subscribe") /\ Unlocked(k)
        /\ \E outdated \in BOOLEAN : Replaced(k, outdated)
        /\ subscription' = [subscription EXCEPT ![e] = k]
        /\ reviewLock' = [reviewLock EXCEPT ![k] = e]
        /\ \E r \in NextFit :
             /\ review' = [review EXCEPT ![k] = [run |-> r, status |-> "running", subscribers |-> {e},
                                                 owned |-> TRUE]]
             /\ fit' = [fit EXCEPT ![r] = "made"]
             /\ RequestTo(e, [editor[e] EXCEPT !.pc = "launch", !.run = r])
        /\ UNCHANGED <<future, guardHolder>>

(* _launch.  The entry of an older fit of the selection is overwritten, so *)
(* that it does not count any more.  Releasing deletes the lock, whoever   *)
(* holds it by then.                                                       *)
LaunchReview(e) ==
    LET k == editor[e].for
        r == editor[e].run
        room == Cardinality({s \in Selections : future[s] # 0}) < FutureLimit
    IN  /\ Request(e, "launch") /\ guardHolder = Nobody
        /\ fit' = [fit EXCEPT ![r] = IF room THEN "queued" ELSE "over"]
        /\ IF room
             THEN /\ future' = [future EXCEPT ![k] = r]
                  /\ RequestTo(e, [AtRest EXCEPT !.ticket = r])
                  /\ UNCHANGED review
             ELSE /\ review' = [review EXCEPT ![k] = NoReview]
                  /\ RequestTo(e, AtRest)
                  /\ UNCHANGED future
        /\ reviewLock' = [reviewLock EXCEPT ![k] = Nobody]
        /\ UNCHANGED <<subscription, guardHolder>>

-----------------------------------------------------------------------------
(* poll: subscribes again; the page stops at the first end it is told.     *)
PollReview(e) ==
    LET Mine(k) == RunOf(k) = editor[e].ticket
        unended == \E k \in Selections : Mine(k) /\ review[k].status = "running" /\ review[k].owned
    IN  /\ editor[e].ticket # 0
        /\ \A k \in Selections : Mine(k) => Unlocked(k)
        /\ review' = [k \in Selections |->
              IF Mine(k) THEN [review[k] EXCEPT !.subscribers = @ \cup {e}] ELSE review[k]]
        /\ RequestTo(e, [editor[e] EXCEPT !.ticket = IF unended THEN @ ELSE 0])
        /\ UNCHANGED <<reviewLock, subscription, future, fit, guardHolder>>

(* _fit_bundle in a thread of the pool.                                    *)
StartFit(r) ==
    /\ fit[r] = "queued" /\ Cardinality({q \in Fits : fit[q] = "fitting"}) < Reviewers
    /\ fit' = [fit EXCEPT ![r] = "fitting"]
    /\ UNCHANGED <<review, reviewLock, subscription, future, guardHolder, editor>>

(* Every mode has been fitted, an error, or cancelled: the record is no    *)
(* longer of this fit, three minutes are over, or all subscriptions.       *)
EndFit(r) ==
    /\ fit[r] = "fitting" /\ guardHolder = Nobody
    /\ \E status \in {"complete", "failed", "cancelled"} : Report(r, status)
    /\ fit' = [fit EXCEPT ![r] = "over"]
    /\ future' = Forgotten(r)
    /\ UNCHANGED <<reviewLock, subscription, guardHolder, editor>>

-----------------------------------------------------------------------------
ReviewLockRunsOut(k) ==
    /\ ~Unlocked(k)
    /\ reviewLock' = [reviewLock EXCEPT ![k] = Nobody]
    /\ UNCHANGED <<review, subscription, future, fit, guardHolder, editor>>

(* Half an hour after it was written, or to keep the cache in its size.    *)
ReviewDropped(k) ==
    /\ Held(k)
    /\ review' = [review EXCEPT ![k] = NoReview]
    /\ UNCHANGED <<reviewLock, subscription, future, fit, guardHolder, editor>>

Restart ==
    /\ review' = [k \in Selections |->
          IF Held(k) THEN [review[k] EXCEPT !.owned = FALSE] ELSE review[k]]
    /\ future' = [k \in Selections |-> 0]
    /\ fit' = [r \in Fits |-> IF fit[r] = "none" THEN "none" ELSE "over"]
    /\ guardHolder' = Nobody
    /\ editor' = [e \in Editors |-> [AtRest EXCEPT !.ticket = editor[e].ticket]]
    /\ UNCHANGED <<reviewLock, subscription>>

ReviewNext ==
    \/ Restart
    \/ \E e \in Editors, k \in Selections : AskReview(e, k)
    \/ \E e \in Editors :
         \/ LeaveReview(e) \/ CancelLeft(e) \/ MarkCancelled(e) \/ JoinReview(e) \/ ReplaceReview(e)
         \/ LaunchReview(e) \/ PollReview(e)
    \/ \E r \in Fits : StartFit(r) \/ EndFit(r)
    \/ \E k \in Selections : ReviewLockRunsOut(k) \/ ReviewDropped(k)

ReviewSpec == ReviewInit /\ [][ReviewNext]_reviewVars

-----------------------------------------------------------------------------
(* Nobody polls a review that nobody works on: while a record says running *)
(* and may still be joined, its fit is queued or under way, or the request *)
(* that made it is about to launch it, or the one that cancelled it about  *)
(* to say so - whichever lock has run out in the meantime.                 *)
ReviewAttended ==
    \A k \in Selections : ~Replaced(k, FALSE) /\ review[k].status = "running" =>
        \/ fit[review[k].run] \in {"queued", "fitting"}
        \/ \E e \in Editors : Request(e, "launch") /\ editor[e].run = review[k].run
        \/ \E e \in Editors : Request(e, "mark") /\ subscription[e] = k
===============================================================================
