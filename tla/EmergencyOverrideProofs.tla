---------------------- MODULE EmergencyOverrideProofs ----------------------
(***************************************************************************)
(* Proofs about the emergency mode, for any number of writers and changes, *)
(* any thresholds and times.                                               *)
(***************************************************************************)
EXTENDS EmergencyOverride, FiniteSetTheorems, TLAPS

-----------------------------------------------------------------------------
\* Type correctness.

LEMMA Zero ==
  /\ 0 \in 0..ManualTtl /\ 0 \in 0..SilenceAfter /\ 0 \in 0..FailureThreshold
  /\ 0 \in 0..SuppressFor /\ SuppressFor \in 0..SuppressFor /\ 0 \in 0..MaxMishaps
BY OverrideAssumption

LEMMA LeastTyped ==
  ASSUME NEW n \in Nat, NEW m \in 0..n
  PROVE  Least(m + 1, n) \in 0..n
BY DEF Least

LEMMA OlderTyped ==
  ASSUME NEW c \in Connections
  PROVE  /\ Older(c) \in Connections
         /\ Older(c).on = c.on /\ Older(c).source = c.source
         /\ ~c.on => Older(c).since = 0
<1>1. /\ 0 \in 0..ManualTtl
      /\ Least(c.since + 1, ManualTtl) \in 0..ManualTtl
      /\ Least(c.silence + 1, SilenceAfter) \in 0..SilenceAfter
  BY OverrideAssumption, LeastTyped DEF Connections
<1>2. (IF c.suppressed = 0 THEN 0 ELSE c.suppressed - 1) \in 0..SuppressFor
  BY OverrideAssumption DEF Connections
<1> QED
  BY <1>1, <1>2 DEF Older, Connections

LEMMA ReadTyped ==
  ASSUME NEW c \in Connections
  PROVE  ForHeartbeat(c) \in Connections /\ ForReconcile(c) \in Connections
BY Zero DEF ForHeartbeat, ForReconcile, Quiet, Connections

LEMMA BecomesTyped ==
  ASSUME row \in [Rows -> Statuses], NEW ids, NEW status \in Statuses, Becomes(ids, status)
  PROVE  row' \in [Rows -> Statuses]
BY DEF Becomes

LEMMA MishapTyped ==
  ASSUME TypeOK, Mishap \/ UNCHANGED mishaps
  PROVE  mishaps' \in 0..MaxMishaps
BY OverrideAssumption DEF TypeOK, Mishap

LEMMA GoesTyped ==
  ASSUME TypeOK, NEW step \in Steps, Goes(step) \/ Ends
  PROVE  cyc' \in CycleRecords
<1>1. NoCycle \in CycleRecords
  BY Zero DEF NoCycle, CycleRecords, Quiet, Connections, Steps
<1> QED
  BY <1>1 DEF Goes, Ends, TypeOK, CycleRecords

\* The record of the connection.
ConnOK(c) == c \in Connections /\ (c.on <=> c.source # "none") /\ (~c.on => c.since = 0)

LEMMA HeartbeatFailsTyped ==
  ASSUME TypeOK, HeartbeatFails
  PROVE  ConnOK(conn')
<1> DEFINE failures == Least(cyc.read.failures + 1, FailureThreshold)
           counted  == [conn EXCEPT !.failures = failures]
           opened   == [counted EXCEPT !.on = TRUE, !.source = "AUTO", !.since = 0]
<1>1. failures \in 0..FailureThreshold
  BY OverrideAssumption, LeastTyped DEF TypeOK, CycleRecords, Connections
<1>2. ConnOK(conn)
  BY DEF TypeOK, ConnOK
<1>3. ConnOK(counted)
  BY <1>1, <1>2 DEF ConnOK, Connections
<1>4. ConnOK(opened)
  BY <1>3, Zero DEF ConnOK, Connections
<1>5. conn' \in {conn, counted, opened}
  BY DEF HeartbeatFails, Counted
<1> QED
  BY <1>2, <1>3, <1>4, <1>5

LEMMA TypeNext ==
  ASSUME TypeOK, [Next]_vars
  PROVE  TypeOK'
<1> DEFINE Rest == /\ may' \in Mixes /\ link' \in Links
                   /\ row' \in [Rows -> Statuses]
                   /\ admitted' \subseteq Writers /\ discarding' \in BOOLEAN
                   /\ mishaps' \in 0..MaxMishaps
<1> SUFFICES ConnOK(conn') /\ cyc' \in CycleRecords /\ Rest
  BY DEF TypeOK, ConnOK
<1>0. ConnOK(conn)
  BY DEF TypeOK, ConnOK
<1>1. CASE Begin
  BY <1>1, <1>0, ReadTyped DEF Begin, TypeOK, world, local, ConnOK, NoCycle, CycleRecords, Steps
<1>2. CASE HeartbeatOk
  <2>1. ConnOK(conn')
    BY <1>2, <1>0, Zero DEF HeartbeatOk, ConnOK, Connections
  <2> QED
    BY <1>2, <2>1, GoesTyped, MishapTyped DEF HeartbeatOk, TypeOK, world, local, Steps
<1>3. CASE HeartbeatThrottled
  BY <1>3, <1>0, GoesTyped, MishapTyped DEF HeartbeatThrottled, TypeOK, world, local, Steps
<1>4. CASE HeartbeatFails
  BY <1>4, HeartbeatFailsTyped, GoesTyped, MishapTyped DEF HeartbeatFails, TypeOK, world, local, Steps
<1>5. CASE Refresh
  <2>1. cyc' \in CycleRecords
    BY <1>5, <1>0, ReadTyped, GoesTyped DEF Refresh, ConnOK, TypeOK, CycleRecords, Steps
  <2> QED
    BY <1>5, <1>0, <2>1, MishapTyped DEF Refresh, TypeOK, world, local
<1>6. CASE Reread
  <2>1. cyc' \in CycleRecords
    BY <1>6, <1>0, ReadTyped, GoesTyped DEF Reread, ConnOK, TypeOK, CycleRecords, Steps
  <2> QED
    BY <1>6, <1>0, <2>1, MishapTyped DEF Reread, TypeOK, world, local
<1>7. CASE FindPending
  <2>1. cyc' \in CycleRecords
    BY <1>7, GoesTyped DEF FindPending, TypeOK, CycleRecords, Steps, Pending
  <2> QED
    BY <1>7, <1>0, <2>1, MishapTyped DEF FindPending, TypeOK, world, local
<1>8. CASE Answered
  <2>1. PICK accepted \in SUBSET cyc.sent :
          /\ Becomes(accepted, "applied")
          /\ cyc' = [cyc EXCEPT !.at = "delete", !.accepted = accepted]
    BY <1>8 DEF Answered
  <2>2. cyc' \in CycleRecords
    BY <2>1 DEF TypeOK, CycleRecords, Steps
  <2> QED
    BY <1>8, <1>0, <2>1, <2>2, BecomesTyped DEF Answered, TypeOK, world, Statuses
<1>9. CASE CallFails
  <2>1. row' \in [Rows -> Statuses]
    BY <1>9, BecomesTyped DEF CallFails, TypeOK, Statuses
  <2> QED
    BY <1>9, <1>0, <2>1, GoesTyped, MishapTyped DEF CallFails, TypeOK, world, Steps
<1>10. CASE DeleteAccepted
  <2>1. row' \in [Rows -> Statuses]
    BY <1>10, BecomesTyped DEF DeleteAccepted, TypeOK, Statuses
  <2> QED
    BY <1>10, <1>0, <2>1, GoesTyped, MishapTyped DEF DeleteAccepted, TypeOK, world, Steps
<1>11. CASE MarkConflicts
  <2>1. row' \in [Rows -> Statuses]
    BY <1>11, BecomesTyped DEF MarkConflicts, TypeOK, Statuses
  <2> QED
    BY <1>11, <1>0, <2>1, GoesTyped, MishapTyped DEF MarkConflicts, TypeOK, world, Steps
<1>12. CASE SwitchesOff
  <2>1. ConnOK(conn')
    BY <1>12, <1>0, Zero DEF SwitchesOff, ConnOK, Connections
  <2> QED
    BY <1>12, <2>1, GoesTyped, MishapTyped DEF SwitchesOff, TypeOK, world, local, Steps
<1>13. CASE OperatorOn
  <2>1. ConnOK(conn')
    BY <1>13, <1>0, Zero DEF OperatorOn, ConnOK, Connections
  <2>2. cyc' \in CycleRecords
    BY <1>13 DEF OperatorOn, Crosses, TypeOK, CycleRecords, At
  <2> QED
    BY <1>13, <2>1, <2>2, MishapTyped DEF OperatorOn, TypeOK, world, local
<1>14. CASE OperatorOff
  <2>1. ConnOK(conn')
    BY <1>14, <1>0, Zero DEF OperatorOff, ConnOK, Connections
  <2>2. cyc' \in CycleRecords
    BY <1>14 DEF OperatorOff, Crosses, TypeOK, CycleRecords, At
  <2> QED
    BY <1>14, <2>1, <2>2, MishapTyped DEF OperatorOff, TypeOK, world
<1>15. CASE Discard
  <2>1. row' \in [Rows -> Statuses]
    BY <1>15, BecomesTyped DEF Discard, TypeOK, Statuses
  <2> QED
    BY <1>15, <1>0, <2>1, MishapTyped DEF Discard, TypeOK, world
<1>16. ASSUME NEW w \in Writers, Admit(w) PROVE ConnOK(conn') /\ cyc' \in CycleRecords /\ Rest
  BY <1>16, <1>0 DEF Admit, TypeOK, world
<1>17. ASSUME NEW w \in Writers, Insert(w) PROVE ConnOK(conn') /\ cyc' \in CycleRecords /\ Rest
  <2>1. row' \in [Rows -> Statuses]
    BY <1>17 DEF Insert, TypeOK, Statuses
  <2> QED
    BY <1>17, <1>0, <2>1, MishapTyped DEF Insert, TypeOK, world
<1>18. CASE LinkChanges
  BY <1>18, <1>0 DEF LinkChanges, TypeOK, local
<1>19. CASE Crash
  BY <1>19, <1>0, GoesTyped, MishapTyped DEF Crash, Ends, TypeOK, world, Steps
<1>20. CASE Tick
  <2>1. ConnOK(conn')
    BY <1>20, <1>0, OlderTyped DEF Tick, ConnOK
  <2>2. cyc' \in CycleRecords
    BY <1>20, OlderTyped DEF Tick, TypeOK, CycleRecords
  <2> QED
    BY <1>20, <2>1, <2>2 DEF Tick, TypeOK, world, local
<1>21. CASE UNCHANGED vars
  BY <1>21, <1>0 DEF vars, TypeOK
<1> QED
  BY <1>1, <1>2, <1>3, <1>4, <1>5, <1>6, <1>7, <1>8, <1>9, <1>10, <1>11, <1>12, <1>13, <1>14,
     <1>15, <1>16, <1>17, <1>18, <1>19, <1>20, <1>21 DEF Next, CycleStep

\* The type invariant; the fields of the mode go together, whichever of its two
\* writers patches them.
THEOREM OverrideTypeCorrect == Spec => []TypeOK
<1>1. Init => TypeOK
  <2>1. Quiet \in Connections
    BY Zero DEF Quiet, Connections
  <2>2. NoCycle \in CycleRecords
    BY <2>1 DEF NoCycle, CycleRecords, Steps
  <2>3. ~Quiet.on /\ Quiet.source = "none" /\ Quiet.since = 0
    BY DEF Quiet
  <2> QED
    BY Zero, <2>1, <2>2, <2>3 DEF Init, TypeOK, Statuses
<1>2. TypeOK /\ [Next]_vars => TypeOK'
  BY TypeNext
<1> QED
  BY <1>1, <1>2, PTL DEF Spec

-----------------------------------------------------------------------------
\* What the cycle holds.  Rows it has sent are not free again; those the cloud has
\* accepted are no longer merely pending.
Held ==
    /\ cyc.at \in {"call", "delete", "mark"} => \A i \in cyc.sent : row[i] # "free"
    /\ cyc.at = "delete" => \A i \in cyc.accepted : row[i] \notin {"free", "pending"}

\* Unless the operator has switched since it was read, what the cycle has read of
\* the connection is still true, as far as it is used.
Known ==
    ~cyc.stale =>
      /\ cyc.at = "heartbeat" => cyc.read.on = conn.on /\ cyc.read.suppressed = conn.suppressed
      /\ cyc.at \in {"reread", "find", "call", "delete", "mark"} =>
           /\ conn.on /\ cyc.read.on
           /\ cyc.read.source = conn.source /\ cyc.read.since = conn.since
      /\ cyc.at = "off" => ~isManualOverrideStillValid(conn)

\* Rows that are open, or about to be, keep the mode on; a cycle that is about to
\* end it has decided about all of them.
Kept ==
    (~May("end") /\ ~May("across")) =>
      /\ Pending # {} \/ admitted # {} => conn.on
      /\ cyc.at \in {"call", "delete", "mark", "off"} => admitted = {}
      /\ cyc.at \in {"call", "delete"} => Pending \subseteq cyc.sent
      /\ cyc.at = "mark" => Pending \subseteq cyc.sent \ cyc.accepted
      /\ cyc.at = "off" => Pending = {}

LEMMA GoesTo ==
  ASSUME TypeOK, NEW step, Goes(step)
  PROVE  /\ cyc'.at = step /\ cyc'.read = cyc.read /\ cyc'.stale = cyc.stale
         /\ cyc'.sent = cyc.sent /\ cyc'.accepted = cyc.accepted
BY DEF Goes, TypeOK, CycleRecords

LEMMA EndsIdle ==
  ASSUME Ends
  PROVE  cyc'.at = "idle" /\ ~cyc'.stale
BY DEF Ends, NoCycle

LEMMA ReconcileReads ==
  ASSUME NEW c \in Connections, c.on
  PROVE  /\ ForReconcile(c).on /\ ForReconcile(c).source = c.source
         /\ ForReconcile(c).since = c.since
BY DEF ForReconcile, Quiet

LEMMA HeldNext ==
  ASSUME TypeOK, Held, [Next]_vars
  PROVE  Held'
<1>1. CASE Begin \/ HeartbeatOk \/ HeartbeatThrottled \/ HeartbeatFails \/ Refresh \/ Reread \/ SwitchesOff
  <2>1. cyc'.at \in {"idle", "heartbeat", "refresh", "reread", "find"}
    BY <1>1, GoesTo, EndsIdle DEF Begin, HeartbeatOk, HeartbeatThrottled, HeartbeatFails,
       Refresh, Reread, SwitchesOff, NoCycle, TypeOK, CycleRecords
  <2> QED
    BY <2>1 DEF Held
<1>2. CASE FindPending
  <2>1. CASE cyc' = [cyc EXCEPT !.at = "call", !.sent = Pending]
    BY <1>2, <2>1 DEF FindPending, Held, TypeOK, CycleRecords, Pending, local
  <2>2. CASE Goes("off") \/ Ends
    BY <2>2, GoesTo, EndsIdle DEF Held
  <2> QED
    BY <1>2, <2>1, <2>2 DEF FindPending
<1>3. CASE Answered
  <2>1. PICK accepted \in SUBSET cyc.sent :
          /\ Becomes(accepted, "applied")
          /\ cyc' = [cyc EXCEPT !.at = "delete", !.accepted = accepted]
    BY <1>3 DEF Answered
  <2>2. \A i \in cyc.sent : row'[i] # "free" /\ (i \in accepted => row'[i] # "pending")
    BY <1>3, <2>1 DEF Answered, Becomes, Pending, Held, At, TypeOK, CycleRecords
  <2> QED
    BY <2>1, <2>2 DEF Held, TypeOK, CycleRecords
<1>4. CASE CallFails
  BY <1>4 DEF CallFails, Ends, NoCycle, Held
<1>5. CASE DeleteAccepted
  BY <1>5 DEF DeleteAccepted, Becomes, Pending, Goes, Ends, NoCycle, At, Held, TypeOK, CycleRecords
<1>6. CASE MarkConflicts
  BY <1>6 DEF MarkConflicts, Goes, Ends, NoCycle, Held, TypeOK, CycleRecords
<1>7. CASE OperatorOn \/ OperatorOff
  BY <1>7 DEF OperatorOn, OperatorOff, Crosses, local, Held, TypeOK, CycleRecords
<1>8. CASE Discard
  BY <1>8 DEF Discard, Becomes, Pending, Held, TypeOK, CycleRecords
<1>9. ASSUME NEW w \in Writers, Admit(w) \/ Insert(w) PROVE Held'
  BY <1>9 DEF Admit, Insert, Held, TypeOK, CycleRecords
<1>10. CASE LinkChanges \/ UNCHANGED vars
  BY <1>10 DEF LinkChanges, vars, local, Held
<1>11. CASE Crash
  BY <1>11 DEF Crash, NoCycle, Held
<1>12. CASE Tick
  BY <1>12 DEF Tick, local, Held, TypeOK, CycleRecords
<1> QED
  BY <1>1, <1>2, <1>3, <1>4, <1>5, <1>6, <1>7, <1>8, <1>9, <1>10, <1>11, <1>12 DEF Next, CycleStep

LEMMA KnownNext ==
  ASSUME TypeOK, Known, [Next]_vars
  PROVE  Known'
<1>1. CASE Begin
  BY <1>1 DEF Begin, ForHeartbeat, NoCycle, Known, TypeOK, Connections
<1>2. CASE HeartbeatOk \/ HeartbeatThrottled \/ HeartbeatFails
  BY <1>2, GoesTo, EndsIdle DEF HeartbeatOk, HeartbeatThrottled, HeartbeatFails, Known
<1>3. CASE Refresh
  <2>1. CASE conn.on /\ cyc' = [cyc EXCEPT !.at = "reread", !.read = ForReconcile(conn), !.stale = FALSE]
    <3>1. cyc'.at = "reread" /\ cyc'.read = ForReconcile(conn) /\ conn' = conn /\ conn \in Connections
      BY <1>3, <2>1 DEF Refresh, TypeOK, CycleRecords
    <3> QED
      BY <2>1, <3>1, ReconcileReads DEF Known
  <2>2. CASE Ends
    BY <2>2, EndsIdle DEF Known
  <2> QED
    BY <1>3, <2>1, <2>2 DEF Refresh
<1>4. CASE Reread
  <2>1. CASE conn.on /\ cyc' = [cyc EXCEPT !.at = "find", !.read = ForReconcile(conn), !.stale = FALSE]
    <3>1. cyc'.at = "find" /\ cyc'.read = ForReconcile(conn) /\ conn' = conn /\ conn \in Connections
      BY <1>4, <2>1 DEF Reread, TypeOK, CycleRecords
    <3> QED
      BY <2>1, <3>1, ReconcileReads DEF Known
  <2>2. CASE Goes("find")
    BY <1>4, <2>2, GoesTo DEF Reread, At, Known
  <2>3. CASE Ends
    BY <2>3, EndsIdle DEF Known
  <2> QED
    BY <1>4, <2>1, <2>2, <2>3 DEF Reread
<1>5. CASE FindPending
  <2>1. CASE cyc' = [cyc EXCEPT !.at = "call", !.sent = Pending]
    BY <1>5, <2>1 DEF FindPending, At, Known, TypeOK, CycleRecords
  <2>2. CASE shouldDeactivate(cyc.read, {}) /\ Goes("off")
    BY <1>5, <2>2, GoesTo DEF FindPending, shouldDeactivate, isManualOverrideStillValid, At, Known
  <2>3. CASE Ends
    BY <2>3, EndsIdle DEF Known
  <2> QED
    BY <1>5, <2>1, <2>2, <2>3 DEF FindPending
<1>6. CASE Answered \/ CallFails
  BY <1>6, GoesTo, EndsIdle DEF Answered, CallFails, isManualOverrideStillValid, At, Known, TypeOK, CycleRecords
<1>7. CASE DeleteAccepted
  BY <1>7, GoesTo, EndsIdle DEF DeleteAccepted, isManualOverrideStillValid, At, Known, TypeOK, CycleRecords
<1>8. CASE MarkConflicts
  BY <1>8, GoesTo, EndsIdle DEF MarkConflicts, shouldDeactivate, isManualOverrideStillValid, At,
     Known, TypeOK, CycleRecords
<1>9. CASE SwitchesOff
  BY <1>9, GoesTo, EndsIdle DEF SwitchesOff, isManualOverrideStillValid, Known
<1>10. CASE OperatorOn \/ OperatorOff
  BY <1>10 DEF OperatorOn, OperatorOff, Crosses, At, Known, TypeOK, CycleRecords
<1>11. CASE Discard \/ LinkChanges \/ UNCHANGED vars
  BY <1>11 DEF Discard, LinkChanges, vars, Known, isManualOverrideStillValid
<1>12. ASSUME NEW w \in Writers, Admit(w) \/ Insert(w) PROVE Known'
  BY <1>12 DEF Admit, Insert, Known, isManualOverrideStillValid
<1>13. CASE Crash
  BY <1>13 DEF Crash, NoCycle, Known
<1>14. CASE Tick
  <2>1. ASSUME cyc.at # "idle"
        PROVE  cyc'.at = cyc.at /\ cyc'.stale = cyc.stale /\ cyc'.read = Older(cyc.read)
    BY <1>14, <2>1 DEF Tick, At, TypeOK, CycleRecords
  <2>2. cyc.at = "idle" => cyc'.at = "idle"
    BY <1>14 DEF Tick, TypeOK, CycleRecords
  <2>3. ASSUME ~isManualOverrideStillValid(conn)
        PROVE  ~isManualOverrideStillValid(Older(conn))
    BY <2>3, OverrideAssumption DEF isManualOverrideStillValid, Older, Least, TypeOK, Connections
  <2>4. /\ conn' = Older(conn)
        /\ Older(conn).on = conn.on /\ Older(conn).source = conn.source
        /\ Older(cyc.read).on = cyc.read.on /\ Older(cyc.read).source = cyc.read.source
    BY <1>14, OlderTyped DEF Tick, TypeOK, CycleRecords
  <2>5. ASSUME cyc.read.suppressed = conn.suppressed
        PROVE  Older(cyc.read).suppressed = Older(conn).suppressed
    BY <2>5 DEF Older, TypeOK, CycleRecords, Connections
  <2>6. ASSUME cyc.read.on, conn.on, cyc.read.since = conn.since
        PROVE  Older(cyc.read).since = Older(conn).since
    BY <2>6 DEF Older, TypeOK, CycleRecords, Connections
  <2>7. isManualOverrideStillValid(conn)' = isManualOverrideStillValid(Older(conn))
    BY <2>4 DEF isManualOverrideStillValid
  <2> QED
    BY <2>1, <2>2, <2>3, <2>4, <2>5, <2>6, <2>7 DEF Known
<1> QED
  BY <1>1, <1>2, <1>3, <1>4, <1>5, <1>6, <1>7, <1>8, <1>9, <1>10, <1>11, <1>12, <1>13, <1>14
  DEF Next, CycleStep

LEMMA KeptNext ==
  ASSUME TypeOK, Kept, [Next]_vars
  PROVE  Kept'
<1> SUFFICES ASSUME ~May("end"), ~May("across") PROVE Kept'
  BY DEF Next, CycleStep, vars, Kept, May, Begin, HeartbeatOk, HeartbeatThrottled, HeartbeatFails,
     Refresh, Reread, FindPending, Answered, CallFails, DeleteAccepted, MarkConflicts, SwitchesOff,
     OperatorOn, OperatorOff, Discard, Admit, Insert, LinkChanges, Crash, Tick, world
<1>1. CASE Begin \/ HeartbeatOk \/ HeartbeatThrottled \/ HeartbeatFails \/ Refresh \/ Reread
  <2>1. cyc'.at \in {"idle", "heartbeat", "refresh", "reread", "find"}
    BY <1>1, GoesTo, EndsIdle DEF Begin, HeartbeatOk, HeartbeatThrottled, HeartbeatFails,
       Refresh, Reread, NoCycle, TypeOK, CycleRecords
  <2>2. conn.on => conn'.on
    BY <1>1 DEF Begin, HeartbeatOk, HeartbeatThrottled, HeartbeatFails, Counted, Refresh, Reread,
       TypeOK, Connections
  <2>3. UNCHANGED local
    BY <1>1 DEF Begin, HeartbeatOk, HeartbeatThrottled, HeartbeatFails, Refresh, Reread
  <2> QED
    BY <2>1, <2>2, <2>3 DEF local, Kept, Pending
<1>2. CASE FindPending
  <2>1. admitted = {} /\ UNCHANGED <<conn, local>>
    BY <1>2 DEF FindPending
  <2>2. CASE cyc' = [cyc EXCEPT !.at = "call", !.sent = Pending]
    BY <2>1, <2>2 DEF local, Kept, Pending, TypeOK, CycleRecords
  <2>3. CASE Pending = {} /\ (Goes("off") \/ Ends)
    BY <2>1, <2>3, GoesTo, EndsIdle DEF local, Kept, Pending
  <2>4. CASE Ends
    BY <2>1, <2>4, EndsIdle DEF local, Kept, Pending
  <2> QED
    BY <1>2, <2>2, <2>3, <2>4 DEF FindPending
<1>3. CASE Answered
  <2>1. PICK accepted \in SUBSET cyc.sent :
          /\ Becomes(accepted, "applied")
          /\ cyc' = [cyc EXCEPT !.at = "delete", !.accepted = accepted]
    BY <1>3 DEF Answered
  <2>2. Pending' = Pending
    BY <2>1 DEF Becomes, Pending, TypeOK
  <2> QED
    BY <1>3, <2>1, <2>2 DEF Answered, At, Kept, TypeOK, CycleRecords
<1>4. CASE CallFails
  <2>1. Pending' = Pending
    BY <1>4 DEF CallFails, Becomes, Pending, TypeOK
  <2> QED
    BY <1>4, <2>1, EndsIdle DEF CallFails, Kept
<1>5. CASE DeleteAccepted
  <2>1. CASE Becomes(cyc.accepted, "removed") /\ Goes("mark")
    <3>1. Pending' = Pending \ cyc.accepted
      BY <2>1 DEF Becomes, Pending, TypeOK
    <3> QED
      BY <1>5, <2>1, <3>1, GoesTo DEF DeleteAccepted, At, Kept
  <2>2. CASE Ends /\ UNCHANGED row
    BY <1>5, <2>2, EndsIdle DEF DeleteAccepted, Kept, Pending
  <2> QED
    BY <1>5, <2>1, <2>2 DEF DeleteAccepted
<1>6. CASE MarkConflicts
  <2> DEFINE conflicts == cyc.sent \ cyc.accepted
  <2>1. CASE Becomes(conflicts, "conflict")
    <3>1. Pending' = Pending \ conflicts
      BY <2>1 DEF Becomes, Pending, TypeOK
    <3>2. Pending' = {} /\ admitted = {}
      BY <1>6, <3>1 DEF MarkConflicts, At, Kept
    <3>3. cyc'.at \in {"off", "idle"}
      BY <1>6, GoesTo, EndsIdle DEF MarkConflicts
    <3> QED
      BY <1>6, <3>2, <3>3 DEF MarkConflicts, Kept
  <2>2. CASE Ends /\ UNCHANGED row
    BY <1>6, <2>2, EndsIdle DEF MarkConflicts, Kept, Pending
  <2> QED
    BY <1>6, <2>1, <2>2 DEF MarkConflicts
<1>7. CASE SwitchesOff
  BY <1>7, EndsIdle DEF SwitchesOff, At, local, Kept, Pending
<1>8. CASE OperatorOn
  <2>1. conn'.on
    BY <1>8 DEF OperatorOn, TypeOK, Connections
  <2>2. cyc'.at = cyc.at /\ cyc'.sent = cyc.sent /\ cyc'.accepted = cyc.accepted
    BY <1>8 DEF OperatorOn, Crosses, TypeOK, CycleRecords
  <2> QED
    BY <1>8, <2>1, <2>2 DEF OperatorOn, local, Kept, Pending
<1>9. CASE OperatorOff
  BY <1>9 DEF OperatorOff
<1>10. CASE Discard
  <2>1. Pending' \subseteq Pending
    BY <1>10 DEF Discard, Becomes, Pending, TypeOK
  <2> QED
    BY <1>10, <2>1 DEF Discard, Kept
<1>11. ASSUME NEW w \in Writers, Admit(w) PROVE Kept'
  BY <1>11 DEF Admit, Kept, Pending
<1>12. ASSUME NEW w \in Writers, Insert(w) PROVE Kept'
  <2>1. conn.on /\ cyc.at \notin {"call", "delete", "mark", "off"}
    BY <1>12 DEF Insert, Kept
  <2> QED
    BY <1>12, <2>1 DEF Insert, Kept
<1>13. CASE LinkChanges \/ UNCHANGED vars
  BY <1>13 DEF LinkChanges, vars, local, Kept, Pending
<1>14. CASE Crash
  BY <1>14 DEF Crash, NoCycle, Kept, Pending
<1>15. CASE Tick
  <2>1. conn'.on = conn.on
    BY <1>15, OlderTyped DEF Tick, TypeOK
  <2>2. cyc'.at = cyc.at /\ cyc'.sent = cyc.sent /\ cyc'.accepted = cyc.accepted
    BY <1>15 DEF Tick, TypeOK, CycleRecords
  <2> QED
    BY <1>15, <2>1, <2>2 DEF Tick, local, Kept, Pending
<1> QED
  BY <1>1, <1>2, <1>3, <1>4, <1>5, <1>6, <1>7, <1>8, <1>9, <1>10, <1>11, <1>12, <1>13, <1>14,
     <1>15 DEF Next, CycleStep

OverrideInv == Held /\ Known /\ Kept

LEMMA OverrideInvAlways == Spec => []OverrideInv
<1>1. Init => OverrideInv
  BY DEF Init, NoCycle, OverrideInv, Held, Known, Kept, Pending
<1>2. TypeOK /\ OverrideInv /\ [Next]_vars => OverrideInv'
  BY HeldNext, KnownNext, KeptNext DEF OverrideInv
<1> QED
  BY <1>1, <1>2, OverrideTypeCorrect, PTL DEF Spec

-----------------------------------------------------------------------------
\* While the operator does not end the mode and no change crosses a
\* reconciliation, open changes keep the mode on, whatever fails or restarts.
THEOREM RowsSafe == Spec => []RowsKeepMode
<1>1. OverrideInv => RowsKeepMode
  BY DEF OverrideInv, Kept, RowsKeepMode
<1> QED
  BY <1>1, OverrideInvAlways, PTL

LEMMA OnlyDeleteRemoves ==
  ASSUME TypeOK, [Next]_vars, NEW i \in Rows, row[i] = "pending", row'[i] = "removed"
  PROVE  discarding \/ (At("delete") /\ i \in cyc.accepted)
<1>1. ASSUME NEW ids, NEW status, Becomes(ids, status) PROVE status = "removed" /\ i \in ids
  BY <1>1 DEF Becomes, TypeOK
<1>2. row' # row
  OBVIOUS
<1>3. CASE Answered \/ CallFails
  <2>1. ASSUME NEW ids, Becomes(ids, "applied") PROVE FALSE
    BY <1>1, <2>1
  <2> QED
    BY <1>2, <1>3, <2>1 DEF Answered, CallFails
<1>4. CASE DeleteAccepted
  BY <1>1, <1>2, <1>4 DEF DeleteAccepted
<1>5. CASE MarkConflicts
  BY <1>1, <1>2, <1>5 DEF MarkConflicts
<1>6. CASE Discard
  BY <1>6 DEF Discard
<1>7. ASSUME NEW w \in Writers, Insert(w) PROVE FALSE
  BY <1>7 DEF Insert, TypeOK
<1> QED
  BY <1>2, <1>3, <1>4, <1>5, <1>6, <1>7
  DEF Next, CycleStep, vars, local, Begin, HeartbeatOk, HeartbeatThrottled, HeartbeatFails, Refresh,
     Reread, FindPending, SwitchesOff, OperatorOn, OperatorOff, Admit, LinkChanges, Crash, Tick

\* A change is removed only if the cloud has taken it over or the operator discards it.
THEOREM RemovedSafe == Spec => RemovedIsInCloud
<1>1. TypeOK /\ OverrideInv /\ [Next]_vars =>
        [\A i \in Rows : row[i] = "pending" /\ row'[i] = "removed" => discarding]_vars
  BY OnlyDeleteRemoves DEF OverrideInv, Held, At
<1> QED
  BY <1>1, OverrideTypeCorrect, OverrideInvAlways, PTL DEF Spec, RemovedIsInCloud

\* What a step may do to the connection.
Respects ==
  ~cyc.stale =>
    /\ (conn.on /\ isManualOverrideStillValid(conn)) =>
         \/ conn'.on /\ conn'.source = "MANUAL"
         \/ ~conn'.on /\ conn'.suppressed = SuppressFor
    /\ (~conn.on /\ isOverrideSuppressed(conn) /\ conn'.on) => conn'.source = "MANUAL"

LEMMA StepRespects ==
  ASSUME TypeOK, Known, Next
  PROVE  Respects
<1>1. CASE HeartbeatOk
  BY <1>1 DEF HeartbeatOk, Respects, isManualOverrideStillValid, TypeOK, Connections
<1>2. CASE HeartbeatFails
  <2> SUFFICES ASSUME ~cyc.stale PROVE Respects
    BY DEF Respects
  <2>1. cyc.read.on = conn.on /\ cyc.read.suppressed = conn.suppressed
    BY <1>2 DEF HeartbeatFails, At, Known
  <2>2. CASE shouldActivate(cyc.read, Least(cyc.read.failures + 1, FailureThreshold))
    <3>1. ~conn.on /\ ~isOverrideSuppressed(conn)
      BY <2>1, <2>2 DEF shouldActivate, isOverrideSuppressed
    <3> QED
      BY <3>1 DEF Respects
  <2>3. CASE ~shouldActivate(cyc.read, Least(cyc.read.failures + 1, FailureThreshold))
    <3>1. conn'.on = conn.on /\ conn'.source = conn.source
      BY <1>2, <2>3 DEF HeartbeatFails, Counted, TypeOK, Connections
    <3> QED
      BY <3>1 DEF Respects, isManualOverrideStillValid
  <2> QED
    BY <2>2, <2>3
<1>3. CASE SwitchesOff
  <2>1. ~conn'.on \/ UNCHANGED conn
    BY <1>3 DEF SwitchesOff, TypeOK, Connections
  <2> QED
    BY <1>3, <2>1 DEF SwitchesOff, At, Known, Respects, isManualOverrideStillValid
<1>4. CASE OperatorOn
  BY <1>4 DEF OperatorOn, Respects, TypeOK, Connections
<1>5. CASE OperatorOff
  BY <1>5 DEF OperatorOff, Respects, TypeOK, Connections
<1>6. CASE Tick
  <2>1. conn'.on = conn.on /\ conn'.source = conn.source
    BY <1>6, OlderTyped DEF Tick, TypeOK
  <2> QED
    BY <2>1 DEF Respects, isManualOverrideStillValid
<1>7. CASE UNCHANGED conn
  BY <1>7 DEF Respects, isManualOverrideStillValid
<1> QED
  BY <1>1, <1>2, <1>3, <1>4, <1>5, <1>6, <1>7
  DEF Next, CycleStep, Begin, HeartbeatThrottled, Refresh, Reread, FindPending, Answered, CallFails,
     DeleteAccepted, MarkConflicts, Discard, Admit, Insert, LinkChanges, Crash

\* The cycle takes back nothing the operator has switched, unless the switch falls
\* between a reading of the record and the write that follows it.
THEOREM OperatorSafe == Spec => OperatorDecides
<1>1. TypeOK /\ OverrideInv /\ [Next]_vars => [Respects]_vars
  BY StepRespects DEF OverrideInv
<1> QED
  BY <1>1, OverrideTypeCorrect, OverrideInvAlways, PTL DEF Spec, OperatorDecides, Respects
=============================================================================
