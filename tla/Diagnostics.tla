----------------------------- MODULE Diagnostics -----------------------------
(***************************************************************************)
(* CapacityReport and assess_capacity (src/bulklink/capacity.py and        *)
(* src/bulklink/_internal/diagnostics.py): the findings drawn from one     *)
(* status.  Texts are left out, and so is the finding about wait times.    *)
(***************************************************************************)
EXTENDS Status

CONSTANTS
    MinDecisions,       \* _MIN_CAPACITY_DECISIONS
    MinQueueHistory,    \* _MIN_QUEUE_HISTORY
    LargeRoom,          \* _LARGE_WAITING_ROOM_MINIMUM
    LargeRoomFactor     \* _LARGE_WAITING_ROOM_MULTIPLIER

ASSUME DiagnosticsAssumption ==
    {MinDecisions, MinQueueHistory, LargeRoom, LargeRoomFactor} \subseteq Nat \ {0}

Finding(code, severity) == [code |-> code, severity |-> severity]

-----------------------------------------------------------------------------
(* The present: _add_current_pressure_findings, of an open bulkhead.       *)

RoomFull(s) == WaitingRoom > 0 /\ s.waiting >= WaitingRoom

OverCapacity(s) ==
    IF IsOverCapacity(s)
    THEN {Finding("ACTIVE_WORK_ABOVE_CAPACITY",
                  IF s.waiting > 0 THEN "WARNING" ELSE "NOTICE")}
    ELSE {}

Full(s) ==
    IF IsOverCapacity(s) THEN {}
    ELSE {Finding("EXECUTION_FULL",
                  IF s.waiting > 0 \/ WaitingRoom = 0 THEN "WARNING" ELSE "NOTICE")}

NearlyFull(s) ==
    IF WaitingRoom > 0 /\ 5 * s.waiting >= 4 * WaitingRoom
    THEN {Finding("WAITING_ROOM_NEAR_CAPACITY", "WARNING")}
    ELSE {}

\* A full waiting room is the last thing the report looks at.
CurrentPressure(s) ==
    IF ~IsSaturated(s) THEN {}
    ELSE OverCapacity(s) \cup
         IF RoomFull(s) THEN {Finding("WAITING_ROOM_FULL", "CRITICAL")}
         ELSE Full(s) \cup NearlyFull(s)

-----------------------------------------------------------------------------
(* The past: the ratios of CapacityReport, each as a fraction.             *)

Ratio(part, whole) == [part |-> part, whole |-> whole]

\* At least n out of d; a ratio of nothing is 0.
AtLeast(ratio, n, d) == ratio.whole > 0 /\ ratio.part * d >= n * ratio.whole

\* Faulty: a rejection at shutdown looks like pressure.
CapacityRejected_WithClosed(s) ==
    s.totals["saturated"] + s.totals["expired"] + s.totals["closed_while_waiting"]

\* capacity_rejected_total and capacity_decisions_total.
CapacityRejected(s) == s.totals["saturated"] + s.totals["expired"]
CapacityDecisions(s) == s.totals["admitted"] + s.totals["saturated"] + s.totals["expired"]

OpenAdmissions(s) == DirectAdmitted(s) + s.totals["queued"] + s.totals["saturated"]

RejectionRatio(s) == Ratio(CapacityRejected(s), CapacityDecisions(s))
QueueEntryRatio(s) == Ratio(s.totals["queued"], OpenAdmissions(s))
ExpirationRatio(s) == Ratio(s.totals["expired"], s.totals["queued"])

\* _rate_severity, of a warning at w percent and a critical rate at c percent.
Rated(code, ratio, w, c) ==
    IF AtLeast(ratio, c, 100) THEN {Finding(code, "CRITICAL")}
    ELSE IF AtLeast(ratio, w, 100) THEN {Finding(code, "WARNING")}
    ELSE {}

\* _add_historical_findings.
History(s) ==
    UNION {
        IF OpenAdmissions(s) >= MinDecisions /\ AtLeast(QueueEntryRatio(s), 1, 2)
        THEN {Finding("FREQUENT_QUEUEING", "NOTICE")} ELSE {},
        IF CapacityDecisions(s) >= MinDecisions
        THEN Rated("ELEVATED_REJECTION_RATE", RejectionRatio(s), 5, 20) ELSE {},
        IF s.totals["queued"] >= MinQueueHistory
        THEN Rated("ELEVATED_EXPIRATION_RATE", ExpirationRatio(s), 10, 30) ELSE {}
    }

-----------------------------------------------------------------------------

\* assess_capacity; limited says whether the bulkhead has a wait_limit.
Findings(s, limited) ==
    UNION {
        IF s.is_closed /\ ~IsDrained(s)
        THEN {Finding("CLOSED_WITH_ACTIVE_WORK", "NOTICE")} ELSE {},
        IF s.is_closed THEN {} ELSE CurrentPressure(s),
        IF WaitingRoom > 0 /\ ~limited
        THEN {Finding("UNBOUNDED_QUEUE_WAIT", "NOTICE")} ELSE {},
        IF WaitingRoom >= LargeRoom /\ WaitingRoom >= s.parallelism * LargeRoomFactor
        THEN {Finding("LARGE_WAITING_ROOM", "NOTICE")} ELSE {},
        History(s)
    }

Codes(findings) == {f.code : f \in findings}

\* The highest severity of a report.
SeverityOf(findings) ==
    LET severities == {f.severity : f \in findings} IN
    IF "CRITICAL" \in severities THEN "CRITICAL"
    ELSE IF "WARNING" \in severities THEN "WARNING"
    ELSE IF "NOTICE" \in severities THEN "NOTICE"
    ELSE "OK"

RequiresAttention(findings) == SeverityOf(findings) \in {"WARNING", "CRITICAL"}

-----------------------------------------------------------------------------
(* Properties.                                                             *)

\* The calls a capacity decision was made for, and those it refused.
Refused == {c \in Calls : pc[c] = "rejected" \/ entry[c] = "EXPIRED"}
Admitted ==
    {c \in Calls : pc[c] \in {"running", "releasing", "finished"} \/ entry[c] = "ADMITTED"}

\* A report says of an open bulkhead what a call that comes now would meet: no
\* finding of pressure exactly when it is admitted, a full waiting room exactly
\* when it is refused, and a refusal is never reported as less than a warning,
\* save by a bulkhead without a waiting room that is being shrunk.  Of a closed
\* one it says whether wait_closed still waits.  Its ratios count real calls, and
\* neither shutdown nor cancellation (docs/concepts/capacity-diagnostics.md).
DiagnosisMatchesAdmission ==
    \A limited \in BOOLEAN :
        LET s == Status
            report == Findings(s, limited)
            codes == Codes(report)
            refuses == ~CanAdmitDirectly /\ Len(waiters) >= WaitingRoom IN
        /\ ~closed =>
              /\ CanAdmitDirectly <=>
                    codes \cap {"ACTIVE_WORK_ABOVE_CAPACITY", "EXECUTION_FULL",
                                "WAITING_ROOM_FULL"} = {}
              /\ "WAITING_ROOM_FULL" \in codes <=> refuses /\ WaitingRoom > 0
              /\ refuses /\ ~(WaitingRoom = 0 /\ in_flight > parallelism)
                    => RequiresAttention(report)
        /\ closed => ("CLOSED_WITH_ACTIVE_WORK" \in codes <=> ~drained)
        /\ CapacityRejected(s) = Cardinality(Refused)
        /\ CapacityDecisions(s) = Cardinality(Refused) + Cardinality(Admitted)
        /\ \A ratio \in {RejectionRatio(s), QueueEntryRatio(s), ExpirationRatio(s)} :
              0 <= ratio.part /\ ratio.part <= ratio.whole
=============================================================================
