--------------------------- MODULE SettlementAlerts ---------------------------
(***************************************************************************)
(* What the settlement daemons alert about (refresh_alerts of              *)
(* settlement_operations.py), over SettlementWorker.  A daemon recomputes  *)
(* the alerts of its mode at every poll, keeps those that are due and      *)
(* resolves the others; so the alerts are a function of the rows, and      *)
(* what matters is that the function says what the operator has to know.   *)
(***************************************************************************)
EXTENDS SettlementWorker

Modes == {"shadow", "publish"}

(* Sessions that are ready, and the job of the mode that was created last. *)
Ready == {c \in reviewed : phase[c] # "before"}
Submitted(mode, c) == {k \in Jobs : k.mode = mode /\ k.cob = c /\ job[k].status # "absent"}
LastJobs(mode, c) == {k \in Submitted(mode, c) :
                        \A o \in Submitted(mode, c) : job[o].born <= job[k].born}

(* The first kind that applies. *)
KindOf(k) ==
    LET row == job[k] IN
    CASE row.status \in {"failed", "cancelled"} ->
           {IF row.kind = "retryable" THEN "execution_failed" ELSE "settlement_held"}
      [] row.status = "succeeded" /\ row.state # (IF k.mode = "shadow" THEN "shadow" ELSE "published") ->
           {"completion_inconsistent"}
      [] row.status = "succeeded" /\ ~row.timely -> {"deadline_missed"}
      [] row.status = "succeeded" /\ row.timely /\ source[k.cob] > 0 /\ ~Current(k) -> {"source_correction"}
      [] row.status \notin Terminal /\ phase[k.cob] = "closed" -> {"deadline_missed"}
      [] OTHER -> {}

(* Slip: only dates that have jobs are looked at. *)
KindsOfJobs(mode, c) == UNION {KindOf(k) : k \in LastJobs(mode, c)}

KindsOf(mode, c) ==
    IF LastJobs(mode, c) = {}
      THEN IF phase[c] = "closed" THEN {"deadline_missed"} ELSE {}
      ELSE UNION {KindOf(k) : k \in LastJobs(mode, c)}

-----------------------------------------------------------------------------
Settled(mode, c) ==
    \E k \in LastJobs(mode, c) : job[k].status = "succeeded" /\ job[k].timely /\ Current(k)

(* Nothing ends unnoticed, and nothing is alerted that was made good: of a *)
(* session that closed, the next refresh alerts exactly when its last job  *)
(* is no timely success on the current source, also when no snapshot ever  *)
(* came, the job was cancelled, held or lost its last claim, or the source *)
(* was corrected afterwards.  While a session is open, a success that      *)
(* stands raises nothing.                                                  *)
AlertsExact ==
    \A mode \in Modes : \A c \in Ready :
        /\ phase[c] = "closed" => (KindsOf(mode, c) = {}) = Settled(mode, c)
        /\ Settled(mode, c) => KindsOf(mode, c) = {}
=============================================================================
