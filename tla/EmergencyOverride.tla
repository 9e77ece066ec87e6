------------------------- MODULE EmergencyOverride -------------------------
(***************************************************************************)
(* The emergency mode of an edge whose cloud does not answer: heartbeats   *)
(* that count failures and switch the mode on, the operator who switches   *)
(* it by hand, the changes of printers it lets through, and the            *)
(* reconciliation with the cloud that ends it.                             *)
(*                                                                         *)
(* The record of the connection is written by the cycle and by the         *)
(* operator, each from what it has read before.  One cycle is at work at a *)
(* time (SyncCycle); an action is one access to the database, one request  *)
(* or one answer.                                                          *)
(***************************************************************************)
EXTENDS Naturals, FiniteSets

CONSTANTS
    Writers,            \* calls that change printers, at work at a time
    MaxRow,             \* bound: local changes
    FailureThreshold,   \* EMERGENCY_OVERRIDE_FAILURE_THRESHOLD
    SilenceAfter,       \* EMERGENCY_OVERRIDE_AFTER_MS, in ticks of the clock
    ManualTtl,          \* MANUAL_EMERGENCY_OVERRIDE_TTL_MS, in ticks
    SuppressFor,        \* AUTO_ACTIVATION_SUPPRESSION_MS, in ticks
    MaxMishaps,         \* bound: switches of the operator, crashes, failures, limits
    Mixes               \* what a run may consist of

(***************************************************************************)
(*   end     the operator ends the mode                                    *)
(*   across  printers are changed while a reconciliation is at work        *)
(*   crash   the process stops and starts again                            *)
(*   fail    an access to the database fails                               *)
(*   limit   the cloud answers 429, or the clocks are too far apart        *)
(***************************************************************************)
Events == {"end", "across", "crash", "fail", "limit"}

\* up: answers.  down: refuses or times out.  broken: answers 5xx.
Links == {"up", "down", "broken"}

ASSUME OverrideAssumption ==
    /\ MaxRow \in Nat /\ MaxMishaps \in Nat
    /\ FailureThreshold \in Nat \ {0} /\ SilenceAfter \in Nat \ {0}
    /\ ManualTtl \in Nat \ {0} /\ SuppressFor \in Nat \ {0}
    /\ Mixes \subseteq SUBSET Events

VARIABLES
    may,        \* the events of this run
    link,       \* what the cloud is like
    conn,       \* the record in cloud-connection
    cyc,        \* the sync cycle at work
    row,        \* pending-local-overrides
    admitted,   \* writers that cloudManaged has let through
    discarding, \* the operator's call has still to remove the rows
    mishaps     \* switches, crashes, failures and limits so far

vars == <<may, link, conn, cyc, row, admitted, discarding, mishaps>>

Rows == 1..MaxRow

\* since, silence: ticks since emergencyOverrideSince and lastHeartbeatOk, as far
\* as the code asks for them;  suppressed: ticks to emergencyOverrideSuppressedUntil
\* failures: consecutiveHeartbeatFailures, up to the threshold
Connections ==
    [on : BOOLEAN, source : {"none", "AUTO", "MANUAL"}, since : 0..ManualTtl,
     suppressed : 0..SuppressFor, failures : 0..FailureThreshold, silence : 0..SilenceAfter]

Quiet == [on |-> FALSE, source |-> "none", since |-> 0, suppressed |-> 0,
          failures |-> 0, silence |-> 0]

Steps == {"idle", "heartbeat", "refresh", "reread", "find", "call", "delete", "mark", "off"}

\* read: what the cycle still uses of the connection as it has read it last
\* stale: the operator has switched since then
CycleRecords ==
    [at : Steps, read : Connections, stale : BOOLEAN,
     sent : SUBSET Rows, accepted : SUBSET Rows]

NoCycle == [at |-> "idle", read |-> Quiet, stale |-> FALSE, sent |-> {}, accepted |-> {}]

\* applied is pending here, though the cloud has taken it over already.
Statuses == {"free", "pending", "applied", "conflict", "removed"}

\* Types of the connection, the cycle and the rows.  The fields of the mode go
\* together, though two writers patch them.
TypeOK ==
    /\ may \in Mixes
    /\ link \in Links
    /\ conn \in Connections
    /\ conn.on <=> conn.source # "none"
    /\ ~conn.on => conn.since = 0
    /\ cyc \in CycleRecords
    /\ row \in [Rows -> Statuses]
    /\ admitted \subseteq Writers
    /\ discarding \in BOOLEAN
    /\ mishaps \in 0..MaxMishaps

Init ==
    /\ may \in Mixes
    /\ link \in Links
    /\ conn = Quiet
    /\ cyc = NoCycle
    /\ row = [i \in Rows |-> "free"]
    /\ admitted = {}
    /\ discarding = FALSE
    /\ mishaps = 0

-----------------------------------------------------------------------------
May(x)   == x \in may
At(step) == cyc.at = step
Goes(step) == cyc' = [cyc EXCEPT !.at = step]
Ends == cyc' = NoCycle

world == <<may, link>>
local == <<row, admitted, discarding>>

Mishap == mishaps < MaxMishaps /\ mishaps' = mishaps + 1

Pending == {i \in Rows : row[i] \in {"pending", "applied"}}

\* The rows of some ids get another status, if they are still pending.
Becomes(ids, status) ==
    row' = [i \in Rows |-> IF i \in ids \cap Pending THEN status ELSE row[i]]

ForHeartbeat(c) == [c EXCEPT !.source = "none", !.since = 0]
ForReconcile(c) == [Quiet EXCEPT !.on = TRUE, !.source = c.source, !.since = c.since]

Least(m, n) == IF m < n THEN m ELSE n

isManualOverrideStillValid(c) == c.source = "MANUAL" /\ c.since < ManualTtl
isOverrideSuppressed(c)       == c.suppressed > 0

\* shouldActivateEmergencyOverride
shouldActivate(c, failures) ==
    /\ ~c.on /\ ~isOverrideSuppressed(c)
    /\ failures >= FailureThreshold \/ c.silence >= SilenceAfter

\* shouldAutoDeactivateEmergencyOverride, called with no pending row
shouldDeactivate(c, conflicts) == conflicts = {} /\ ~isManualOverrideStillValid(c)

-----------------------------------------------------------------------------
\* The heartbeat of a cycle, and how it ends.

Begin ==
    /\ At("idle")
    /\ cyc' = [NoCycle EXCEPT !.at = "heartbeat", !.read = ForHeartbeat(conn)]
    /\ UNCHANGED <<world, conn, local, mishaps>>

\* One that is answered; clocks too far apart end the cycle.
HeartbeatOk ==
    /\ At("heartbeat") /\ link = "up"
    /\ conn' = [conn EXCEPT !.failures = 0, !.silence = 0]
    /\ \/ Goes("refresh") /\ UNCHANGED mishaps
       \/ May("limit") /\ Mishap /\ Ends
    /\ UNCHANGED <<world, local>>

\* 429 is no failure, and the cycle waits for the next tick.
HeartbeatThrottled ==
    /\ At("heartbeat") /\ link = "up" /\ May("limit") /\ Mishap
    /\ Ends
    /\ UNCHANGED <<world, conn, local>>

\* Mutant: a cloud that cannot be reached ends the cycle before it is counted.
HeartbeatFails_uncounted ==
    /\ At("heartbeat") /\ link \in {"down", "broken"}
    /\ Ends
    /\ UNCHANGED <<world, conn, local, mishaps>>

\* The connection with one more failure: the counter and the decision go by what
\* was read before the request.
Counted ==
    LET failures == Least(cyc.read.failures + 1, FailureThreshold)
        counted  == [conn EXCEPT !.failures = failures]
    IN  IF shouldActivate(cyc.read, failures)
        THEN [counted EXCEPT !.on = TRUE, !.source = "AUTO", !.since = 0] ELSE counted

\* No answer, an error, or an answer that cannot be stored.  Only a cloud that
\* cannot be reached ends the cycle.
HeartbeatFails ==
    /\ At("heartbeat")
    /\ IF link = "down" THEN Ends ELSE Goes("refresh")
    /\ \/ link # "up" /\ conn' = Counted /\ UNCHANGED mishaps
       \/ May("fail") /\ Mishap /\ conn' \in {conn, Counted}
    /\ UNCHANGED <<world, local>>

-----------------------------------------------------------------------------
\* runReconcileOverrides

Refresh ==
    /\ At("refresh")
    /\ \/ /\ IF conn.on THEN cyc' = [cyc EXCEPT !.at = "reread", !.read = ForReconcile(conn), !.stale = FALSE]
             ELSE Ends
          /\ UNCHANGED mishaps
       \/ May("fail") /\ Mishap /\ Ends
    /\ UNCHANGED <<world, conn, local>>

\* Mutant: the decision goes by the snapshot of the cycle.
Reread_snapshot ==
    /\ At("reread")
    /\ cyc' = [cyc EXCEPT !.at = "find", !.stale = FALSE]
    /\ UNCHANGED <<world, conn, local, mishaps>>

\* The record again; the snapshot if it cannot be read.
Reread ==
    /\ At("reread")
    /\ \/ /\ IF conn.on THEN cyc' = [cyc EXCEPT !.at = "find", !.read = ForReconcile(conn), !.stale = FALSE]
             ELSE Ends
          /\ UNCHANGED mishaps
       \/ May("fail") /\ Mishap /\ Goes("find")
    /\ UNCHANGED <<world, conn, local>>

\* findPendingOverrides; without a row the mode ends and the cloud is not asked.
FindPending ==
    /\ At("find")
    /\ May("across") \/ admitted = {}
    /\ \/ /\ Pending # {}
          /\ cyc' = [cyc EXCEPT !.at = "call", !.sent = Pending]
          /\ UNCHANGED mishaps
       \/ /\ Pending = {}
          /\ IF shouldDeactivate(cyc.read, {}) THEN Goes("off") ELSE Ends
          /\ UNCHANGED mishaps
       \/ May("fail") /\ Mishap /\ Ends
    /\ UNCHANGED <<world, conn, local>>

\* The cloud decides about every row: it takes it over, or refuses it because its
\* own value has changed.
Answered ==
    /\ At("call") /\ link = "up"
    /\ \E accepted \in SUBSET cyc.sent :
         /\ Becomes(accepted, "applied")
         /\ cyc' = [cyc EXCEPT !.at = "delete", !.accepted = accepted]
    /\ UNCHANGED <<world, conn, admitted, discarding, mishaps>>

\* Mutant: the mode ends although the cloud has not decided.
CallFails_ends ==
    /\ At("call") /\ link # "up"
    /\ Goes("off")
    /\ UNCHANGED <<world, conn, local, mishaps>>

\* The call is refused, or its answer is lost on the way.
CallFails ==
    /\ At("call")
    /\ \/ /\ link # "up"
          /\ \E accepted \in SUBSET cyc.sent : Becomes(accepted, "applied")
          /\ UNCHANGED mishaps
       \/ link = "up" /\ May("limit") /\ Mishap /\ UNCHANGED row
    /\ Ends
    /\ UNCHANGED <<world, conn, admitted, discarding>>

\* Mutant: every row that is pending by now is removed.
DeleteAccepted_pending ==
    /\ At("delete")
    /\ Becomes(Rows \ (cyc.sent \ cyc.accepted), "removed")
    /\ Goes("mark")
    /\ UNCHANGED <<world, conn, admitted, discarding, mishaps>>

\* deleteOverridesByIds; the operator may have discarded a row meanwhile.
DeleteAccepted ==
    /\ At("delete")
    /\ \/ /\ Becomes(cyc.accepted, "removed")
          /\ Goes("mark")
          /\ UNCHANGED mishaps
       \/ May("fail") /\ Mishap /\ Ends /\ UNCHANGED row
    /\ UNCHANGED <<world, conn, admitted, discarding>>

\* Mutant: what the cloud refuses stays pending.
MarkConflicts_pending ==
    /\ At("mark")
    /\ IF shouldDeactivate(cyc.read, cyc.sent \ cyc.accepted) THEN Goes("off") ELSE Ends
    /\ UNCHANGED <<world, conn, local, mishaps>>

\* markOverridesConflicted, and the decision about the mode.
MarkConflicts ==
    LET conflicts == cyc.sent \ cyc.accepted IN
    /\ At("mark")
    /\ \/ /\ Becomes(conflicts, "conflict")
          /\ IF shouldDeactivate(cyc.read, conflicts) THEN Goes("off") ELSE Ends
          /\ UNCHANGED mishaps
       \/ May("fail") /\ Mishap /\ Ends /\ UNCHANGED row
    /\ UNCHANGED <<world, conn, admitted, discarding>>

\* The patch that ends the mode; one that fails is ignored.
SwitchesOff ==
    /\ At("off")
    /\ \/ /\ conn' = [conn EXCEPT !.on = FALSE, !.source = "none", !.since = 0]
          /\ UNCHANGED mishaps
       \/ May("fail") /\ Mishap /\ UNCHANGED conn
    /\ Ends
    /\ UNCHANGED <<world, local>>

-----------------------------------------------------------------------------
\* setEmergencyOverride

Crosses == cyc' = [cyc EXCEPT !.stale = ~At("idle")]

OperatorOn ==
    /\ ~discarding /\ Mishap
    /\ conn' = [conn EXCEPT !.on = TRUE, !.source = "MANUAL", !.since = 0, !.suppressed = 0]
    /\ Crosses
    /\ UNCHANGED <<world, local>>

\* The mode ends first, the rows are removed after it, and only if asked for.
OperatorOff ==
    /\ May("end") /\ ~discarding /\ Mishap
    /\ conn' = [conn EXCEPT !.on = FALSE, !.source = "none", !.since = 0,
                            !.suppressed = SuppressFor, !.failures = 0]
    /\ Crosses
    /\ discarding' \in BOOLEAN
    /\ UNCHANGED <<world, row, admitted>>

\* discardPendingOverrides
Discard ==
    /\ discarding
    /\ discarding' = FALSE
    /\ \/ Becomes(Rows, "removed") /\ UNCHANGED mishaps
       \/ May("fail") /\ Mishap /\ UNCHANGED row
    /\ UNCHANGED <<world, conn, cyc, admitted>>

-----------------------------------------------------------------------------
\* A change of printers, let through by cloudManaged while the mode is on.
Admit(w) ==
    /\ w \notin admitted /\ conn.on
    /\ May("across") \/ cyc.at \in {"idle", "heartbeat", "refresh", "reread"}
    /\ Cardinality(admitted) < Cardinality({i \in Rows : row[i] = "free"})
    /\ admitted' = admitted \cup {w}
    /\ UNCHANGED <<world, conn, cyc, row, discarding, mishaps>>

\* recordEmergencyOverride, after the location is patched; a failed insert is
\* logged only.
Insert(w) ==
    /\ w \in admitted
    /\ admitted' = admitted \ {w}
    /\ \/ /\ \E i \in Rows :
               /\ row[i] = "free" /\ \A j \in Rows : row[j] = "free" => i <= j
               /\ row' = [row EXCEPT ![i] = "pending"]
          /\ UNCHANGED mishaps
       \/ May("fail") /\ Mishap /\ UNCHANGED row
    /\ UNCHANGED <<world, conn, cyc, discarding>>

-----------------------------------------------------------------------------
LinkChanges ==
    /\ link' \in Links \ {link}
    /\ UNCHANGED <<may, conn, cyc, local, mishaps>>

Crash ==
    /\ May("crash") /\ Mishap
    /\ cyc' = NoCycle
    /\ admitted' = {}
    /\ discarding' = FALSE
    /\ UNCHANGED <<world, conn, row>>

Older(c) == [c EXCEPT !.since = IF c.on THEN Least(@ + 1, ManualTtl) ELSE 0,
                      !.suppressed = IF @ = 0 THEN 0 ELSE @ - 1,
                      !.silence = Least(@ + 1, SilenceAfter)]

\* Time passes, for the record and for what the cycle has read of it.
Tick ==
    /\ conn' = Older(conn)
    /\ cyc' = [cyc EXCEPT !.read = IF At("idle") THEN @ ELSE Older(@)]
    /\ <<conn, cyc>>' # <<conn, cyc>>
    /\ UNCHANGED <<world, local, mishaps>>

CycleStep ==
    \/ Begin \/ HeartbeatOk \/ HeartbeatThrottled \/ HeartbeatFails
    \/ Refresh \/ Reread \/ FindPending \/ Answered \/ CallFails
    \/ DeleteAccepted \/ MarkConflicts \/ SwitchesOff

Next ==
    \/ CycleStep
    \/ OperatorOn \/ OperatorOff \/ Discard
    \/ \E w \in Writers : Admit(w) \/ Insert(w)
    \/ LinkChanges \/ Crash \/ Tick

Spec == Init /\ [][Next]_vars

\* The scheduler goes on, requests end by an answer or their timeout, calls go
\* on, and time passes.
FairSpec ==
    /\ Spec
    /\ WF_vars(CycleStep) /\ WF_vars(Tick) /\ WF_vars(Discard)
    /\ \A w \in Writers : WF_vars(Insert(w))

-----------------------------------------------------------------------------
\* Properties

\* A change leaves the table only if the cloud has taken it over or the operator
\* discards it: not with the answer to other rows, and not with an answer lost.
RemovedIsInCloud ==
    [][\A i \in Rows : row[i] = "pending" /\ row'[i] = "removed" => discarding]_vars

\* Changes the cloud has still to decide about keep the mode on, whatever fails
\* or restarts: with the mode off nothing would send them.  An operator who ends
\* the mode and changes that cross a reconciliation leave such rows behind.
RowsKeepMode ==
    (~May("end") /\ ~May("across") /\ Pending # {}) => conn.on

\* What the operator has switched the cycle does not take back in time: a manual
\* activation lasts for its two hours, and after a manual end the mode does not
\* come back by itself while the suppression lasts.  Only a switch that falls
\* between a reading of the record and the write that follows it may be lost.
OperatorDecides ==
    [][~cyc.stale =>
         /\ (conn.on /\ isManualOverrideStillValid(conn)) =>
              \/ conn'.on /\ conn'.source = "MANUAL"
              \/ ~conn'.on /\ conn'.suppressed = SuppressFor
         /\ (~conn.on /\ isOverrideSuppressed(conn) /\ conn'.on) => conn'.source = "MANUAL"]_vars

\* A cloud that cannot be reached any more has the mode on for good in the end,
\* whatever was switched, suppressed or lost before.
OutageOpensMode == <>[](link = "down") => <>[]conn.on

InConflict == {i \in Rows : row[i] = "conflict"}

\* A cloud that is back for good, with no change in conflict, ends the mode for
\* good, whatever failed or was switched before: changes are decided, and a manual
\* activation expires.
ModeEnds == <>[](link = "up" /\ InConflict = {}) => <>[]~conn.on

\* What ADR 0001 and the comment in runReconcileOverrides say: as long as a change
\* is in conflict the mode stays on, unless the operator ends it.
ConflictsKeepMode == [][conn.on /\ InConflict # {} /\ ~May("end") => conn'.on]_vars
=============================================================================
