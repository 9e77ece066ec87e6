----------------------------- MODULE SyncOutbox -----------------------------
(***************************************************************************)
(* The transactional push path of the edge: every local change of a        *)
(* syncable record is recorded as a row of the sync-outbox, and a worker   *)
(* pushes the rows to the cloud in batches.                                *)
(*                                                                         *)
(*   request handlers   write a record, read it back, record a row         *)
(*   worker             fetch, coalesce, send, read the answer, settle     *)
(*   cloud (external)   applies or refuses every op on its own             *)
(*   operator           re-enqueues, retries or discards rows              *)
(*   process            may stop and boot again, the database survives     *)
(*                                                                         *)
(* A record is abstracted to the version of its content, a row carries the *)
(* version it would put into the cloud.  A row's id stands for its uuidv7: *)
(* the ids of one process are issued in increasing order.  An entity       *)
(* stands for a pair (service, entityId).                                  *)
(***************************************************************************)
EXTENDS Naturals, FiniteSets

CONSTANTS
    Entities,      \* records of the syncable services
    Workers,       \* push cycles that may run at once (one, if the mutex holds)
    BatchSize,     \* PUSH_BATCH_SIZE
    MaxAttempts,   \* MAX_RETRY_ATTEMPTS
    RecoverLimit,  \* $limit of the boot recovery
    Disturbances,  \* what the environment may do, see AllDisturbances
    MaxVersion,    \* bound: changes of one record
    MaxId          \* bound: outbox rows ever created

(***************************************************************************)
(*   overlap    two handlers may work on the same record at once           *)
(*   recorder   creating an outbox row fails (and is only logged)          *)
(*   patch      patching the status of a row fails (and is swallowed)      *)
(*   siblings   the sibling query of the coalescing fails                  *)
(*   network    a push fails without a usable answer, or is rate limited   *)
(*   late       ops of a push that was given up still reach the cloud      *)
(*   restart    the process stops while no handler is at work              *)
(*   crash      the process stops at any moment                            *)
(*   operator   the operator re-enqueues and retries rows                  *)
(*   discard    the operator deletes rows                                  *)
(*   retention  the nightly retention deletes finished rows                *)
(***************************************************************************)
AllDisturbances ==
    {"overlap", "recorder", "patch", "siblings", "network", "late",
     "restart", "crash", "operator", "discard", "retention"}

ASSUME BoundsAssumption ==
    /\ BatchSize \in Nat \ {0}
    /\ MaxAttempts \in Nat \ {0}
    /\ RecoverLimit \in Nat \ {0}
    /\ MaxVersion \in Nat
    /\ MaxId \in Nat

ASSUME DisturbancesAssumption == Disturbances \subseteq AllDisturbances

VARIABLES
    record,     \* edge database: version of every record, and whether it exists
    calls,      \* open request handlers and re-enqueue calls
    outbox,     \* rows of the sync-outbox table
    nextId,     \* the next uuidv7
    pc,         \* what a push cycle is doing
    batch,      \* the rows a push cycle fetched, as they were then
    wire,       \* the ops of a push the cloud has not processed yet
    answer,     \* verdicts of the cloud on a push, not yet settled
    late,       \* ops of given-up pushes that are still travelling
    cloud,      \* cloud database: version of every record
    conflicts,  \* ids of the rows for which a sync-conflict was opened
    accepted,   \* history: ids the cloud has accepted
    refused,    \* history: ids the cloud has refused
    latest      \* history: the greatest id ever recorded for an entity

edgeVars   == <<record, calls>>
tableVars  == <<outbox, nextId, latest>>
workerVars == <<pc, batch, answer>>
cloudVars  == <<wire, late, cloud, accepted, refused>>
vars == <<record, calls, outbox, nextId, pc, batch, wire, answer, late,
          cloud, conflicts, accepted, refused, latest>>

-----------------------------------------------------------------------------
(* Types *)

Ids      == 1..MaxId
Versions == 0..MaxVersion
Ops      == {"write", "remove"}
Statuses == {"pending", "in-flight", "acked", "rejected", "superseded"}
Rows     == [id : Ids, ent : Entities, op : Ops, ver : Versions,
             status : Statuses, attempts : 0..MaxAttempts, due : BOOLEAN]
PushOps  == [id : Ids, ent : Entities, ver : Versions]
Calls    == [kind : {"mutation", "requeue"}, ent : Entities, op : Ops,
             key : Nat, ver : Versions, stage : {"open", "read", "created"}]
Verdicts == {"accepted", "transient", "conflict", "terminal", "escalated"}
Answers  == [id : Ids, verdict : Verdicts]

TypeOK ==
    /\ record \in [Entities -> [ver : Versions, live : BOOLEAN]]
    /\ calls \subseteq Calls
    /\ outbox \subseteq Rows
    /\ nextId \in 1..(MaxId + 1)
    /\ pc \in [Workers -> {"idle", "fetched", "chosen", "sent", "settling"}]
    /\ batch \in [Workers -> SUBSET Rows]
    /\ wire \in [Workers -> SUBSET PushOps]
    /\ answer \in [Workers -> SUBSET Answers]
    /\ late \subseteq PushOps
    /\ cloud \in [Entities -> Versions]
    /\ conflicts \subseteq Ids
    /\ accepted \subseteq Ids
    /\ refused \subseteq Ids
    /\ latest \in [Entities -> 0..MaxId]

Init ==
    /\ record = [e \in Entities |-> [ver |-> 0, live |-> FALSE]]
    /\ calls = {}
    /\ outbox = {}
    /\ nextId = 1
    /\ pc = [w \in Workers |-> "idle"]
    /\ batch = [w \in Workers |-> {}]
    /\ wire = [w \in Workers |-> {}]
    /\ answer = [w \in Workers |-> {}]
    /\ late = {}
    /\ cloud = [e \in Entities |-> 0]
    /\ conflicts = {}
    /\ accepted = {}
    /\ refused = {}
    /\ latest = [e \in Entities |-> 0]

-----------------------------------------------------------------------------
(* Helpers *)

May(d) == d \in Disturbances

\* The table after the rows with the given ids were patched.
Patched(ids, F(_)) == {IF r.id \in ids THEN F(r) ELSE r : r \in outbox}

IdsOf(rows) == {r.id : r \in rows}

\* The ops a batch is sent as.
OpsOf(rows) == {[id |-> r.id, ent |-> r.ent, ver |-> r.ver] : r \in rows}

\* The ids whose patch succeeds: a failed patch is swallowed row by row.
Succeeding(ids) == IF May("patch") THEN SUBSET ids ELSE {ids}

Busy(e) == \E c \in calls : c.ent = e

\* A handler may start: no other one is at work on the record, unless handlers
\* overlap; and (bound) every open handler still finds a free row id.
MayStart(e) ==
    /\ May("overlap") \/ ~Busy(e)
    /\ nextId + Cardinality(calls) <= MaxId

-----------------------------------------------------------------------------
(* Request handlers *)

\* create or patch of a record: the write itself.
Write(e) ==
    /\ MayStart(e)
    /\ record[e].live \/ record[e].ver = 0
    /\ record[e].ver < MaxVersion
    /\ record' = [record EXCEPT ![e] = [ver |-> record[e].ver + 1, live |-> TRUE]]
    /\ calls' = calls \cup
         {[kind |-> "mutation", ent |-> e, op |-> "write",
           key |-> record[e].ver + 1, ver |-> 0, stage |-> "open"]}
    /\ UNCHANGED <<tableVars, workerVars, cloudVars, conflicts>>

\* remove of a record: the payload of its row is empty, nothing is read back.
Remove(e) ==
    /\ MayStart(e)
    /\ record[e].live
    /\ record[e].ver < MaxVersion
    /\ record' = [record EXCEPT ![e] = [ver |-> record[e].ver + 1, live |-> FALSE]]
    /\ calls' = calls \cup
         {[kind |-> "mutation", ent |-> e, op |-> "remove",
           key |-> record[e].ver + 1, ver |-> record[e].ver + 1, stage |-> "read"]}
    /\ UNCHANGED <<tableVars, workerVars, cloudVars, conflicts>>

\* The database adapter selects the record to build context.result; for a
\* re-enqueue this is the refetch of the record.  If the record has been
\* removed meanwhile the call fails and leaves no row.
ReadBack(c) ==
    /\ c.stage = "open"
    /\ calls' = (calls \ {c}) \cup
         IF record[c.ent].live
           THEN {[c EXCEPT !.ver = record[c.ent].ver, !.stage = "read"]}
           ELSE {}
    /\ UNCHANGED <<record, tableVars, workerVars, cloudVars, conflicts>>

\* recordSyncOutbox, after every after-hook of the service has run, and the
\* create of reEnqueueOutboxEntry: the id is drawn here, not at the write.
Record(c) ==
    /\ c.stage = "read"
    /\ nextId <= MaxId
    /\ outbox' = outbox \cup
         {[id |-> nextId, ent |-> c.ent, op |-> c.op, ver |-> c.ver,
           status |-> "pending", attempts |-> 0, due |-> TRUE]}
    /\ nextId' = nextId + 1
    /\ latest' = [latest EXCEPT ![c.ent] = nextId]
    /\ calls' = (calls \ {c}) \cup
         IF c.kind = "requeue" THEN {[c EXCEPT !.stage = "created"]} ELSE {}
    /\ UNCHANGED <<record, workerVars, cloudVars, conflicts>>

\* The row could not be written.  The recorder logs and swallows the error;
\* a re-enqueue fails and keeps the rejected row.
RecordFails(c) ==
    /\ May("recorder")
    /\ c.stage = "read"
    /\ calls' = calls \ {c}
    /\ UNCHANGED <<record, tableVars, workerVars, cloudVars, conflicts>>

-----------------------------------------------------------------------------
(* Operator *)

\* reEnqueueOutboxEntry up to its status check.  The op is kept; a removal
\* needs no refetch.
ReEnqueue(r) ==
    /\ May("operator")
    /\ r.status = "rejected"
    /\ MayStart(r.ent)
    /\ calls' = calls \cup
         {[kind |-> "requeue", ent |-> r.ent, op |-> r.op, key |-> r.id,
           ver |-> IF r.op = "remove" THEN r.ver ELSE 0,
           stage |-> IF r.op = "remove" THEN "read" ELSE "open"]}
    /\ UNCHANGED <<record, tableVars, workerVars, cloudVars, conflicts>>

\* The end of reEnqueueOutboxEntry: the old row is removed.
RemoveRequeued(c) ==
    /\ c.stage = "created"
    /\ outbox' = {r \in outbox : r.id # c.key}
    /\ calls' = calls \ {c}
    /\ UNCHANGED <<record, nextId, latest, workerVars, cloudVars, conflicts>>

\* patchRetry of the admin panel.  The service does not look at the status, so
\* a list that is out of date may name a row in any status.
OperatorRetry(r) ==
    /\ May("operator")
    /\ outbox' = Patched({r.id},
         LAMBDA q : [q EXCEPT !.status = "pending", !.attempts = 0, !.due = TRUE])
    /\ UNCHANGED <<edgeVars, nextId, latest, workerVars, cloudVars, conflicts>>

\* discardRejected and discardRetrying of the admin panel.
Discard(r) ==
    /\ May("discard")
    /\ r.status \in {"pending", "rejected"}
    /\ outbox' = outbox \ {r}
    /\ UNCHANGED <<edgeVars, nextId, latest, workerVars, cloudVars, conflicts>>

\* runOutboxRetention; the age of the row is abstracted.
Retire(r) ==
    /\ May("retention")
    /\ r.status \in {"acked", "superseded"}
    /\ outbox' = outbox \ {r}
    /\ UNCHANGED <<edgeVars, nextId, latest, workerVars, cloudVars, conflicts>>

-----------------------------------------------------------------------------
(* Worker.  runPush repeats runPushBatch while the fetched batch was full;    *)
(* that is Fetch from idle once more.                                         *)

Due == {r \in outbox : r.status = "pending" /\ r.due}

\* The $limit oldest due rows.
NextBatch == {r \in Due : Cardinality({q \in Due : q.id < r.id}) < BatchSize}

Fetch(w) ==
    /\ pc[w] = "idle"
    /\ Due # {}
    /\ pc' = [pc EXCEPT ![w] = "fetched"]
    /\ batch' = [batch EXCEPT ![w] = NextBatch]
    /\ UNCHANGED <<edgeVars, tableVars, answer, cloudVars, conflicts>>

\* Mutants: a row is its own successor; any other row counts; only pending rows count.
HasSuccessor_reflexive(r) == \E s \in outbox : s.ent = r.ent /\ s.id >= r.id
HasSuccessor_anyOther(r) == \E s \in outbox : s.ent = r.ent /\ s.id # r.id
HasSuccessor_pendingOnly(r) ==
    \E s \in outbox : s.ent = r.ent /\ s.id > r.id /\ s.status = "pending"

\* A younger row of the same entity exists, whatever its status.
HasSuccessor(r) == \E s \in outbox : s.ent = r.ent /\ s.id > r.id

\* Rows of the batch that coalescing takes out of it; none if the sibling
\* query failed.
Outdated(w, blind) == {r \in batch[w] : ~blind /\ HasSuccessor(r)}

Coalesce(w) ==
    \E blind \in {FALSE} \cup {May("siblings")} :
    \E ok \in Succeeding(IdsOf(Outdated(w, blind))) :
      /\ pc[w] = "fetched"
      /\ outbox' = Patched(ok, LAMBDA r : [r EXCEPT !.status = "superseded"])
      /\ batch' = [batch EXCEPT ![w] = @ \ Outdated(w, blind)]
      /\ pc' = [pc EXCEPT ![w] =
                   IF batch[w] \subseteq Outdated(w, blind) THEN "idle" ELSE "chosen"]
      /\ UNCHANGED <<edgeVars, nextId, latest, answer, cloudVars, conflicts>>

\* The batch is marked in-flight and the request leaves the edge.
Send(w) ==
    \E ok \in Succeeding(IdsOf(batch[w])) :
      /\ pc[w] = "chosen"
      /\ outbox' = Patched(ok, LAMBDA r : [r EXCEPT !.status = "in-flight"])
      /\ wire' = [wire EXCEPT ![w] = OpsOf(batch[w])]
      /\ pc' = [pc EXCEPT ![w] = "sent"]
      /\ UNCHANGED <<edgeVars, nextId, latest, batch, answer, late, cloud,
                     conflicts, accepted, refused>>

\* Back to idle once nothing is left to settle.
Proceed(w, rest) ==
    /\ answer' = [answer EXCEPT ![w] = rest]
    /\ pc' = [pc EXCEPT ![w] = IF rest = {} THEN "idle" ELSE "settling"]
    /\ batch' = [batch EXCEPT ![w] = IF rest = {} THEN {} ELSE @]

\* Mutant: the whole batch is acked on any usable answer.
ReadAnswer_acksBatch(w) ==
    /\ pc[w] = "sent"
    /\ wire[w] = {}
    /\ outbox' = Patched(IdsOf(batch[w]), LAMBDA r : [r EXCEPT !.status = "acked"])
    /\ Proceed(w, {})
    /\ UNCHANGED <<edgeVars, nextId, latest, cloudVars, conflicts>>

\* The answer names every op of the request; the accepted ones are acked first.
ReadAnswer(w) ==
    LET acks == {a \in answer[w] : a.verdict = "accepted"} IN
    \E ok \in Succeeding(IdsOf(acks)) :
      /\ pc[w] = "sent"
      /\ wire[w] = {}
      /\ outbox' = Patched(ok, LAMBDA r : [r EXCEPT !.status = "acked"])
      /\ Proceed(w, answer[w] \ acks)
      /\ UNCHANGED <<edgeVars, nextId, latest, cloudVars, conflicts>>

\* Mutant: a failed push is counted twice.
OneMore_twice(w, id) ==
    2 + CHOOSE n \in 0..MaxAttempts : \E r \in batch[w] : r.id = id /\ r.attempts = n

\* The attempts a push cycle read when it fetched the row, one more; only the
\* comparison with the limit matters, so counting stops there.
OneMore(w, id) ==
    LET seen == CHOOSE n \in 0..MaxAttempts : \E r \in batch[w] : r.id = id /\ r.attempts = n
    IN  IF seen < MaxAttempts THEN seen + 1 ELSE MaxAttempts

\* Mutant: retrying never ends.
shouldEscalateAfterRetry_never(w, id) == FALSE

shouldEscalateAfterRetry(w, id) == OneMore(w, id) >= MaxAttempts

\* Rejections are settled one after the other; an escalation is completed
\* before the next one.
Current(w, a) ==
    /\ pc[w] = "settling"
    /\ a \in answer[w]
    /\ \A b \in answer[w] : b.verdict = "escalated" => b = a

markOutboxRetry(w, ids) ==
    Patched(ids, LAMBDA r : [r EXCEPT !.status = "pending", !.due = FALSE,
                                      !.attempts = OneMore(w, r.id)])

SettleRetry(w, a) ==
    \E ok \in Succeeding({a.id}) :
      /\ Current(w, a)
      /\ a.verdict = "transient"
      /\ ~shouldEscalateAfterRetry(w, a.id)
      /\ outbox' = markOutboxRetry(w, ok)
      /\ Proceed(w, answer[w] \ {a})
      /\ UNCHANGED <<edgeVars, nextId, latest, cloudVars, conflicts>>

\* escalateToConflict: the conflict is created first (which may fail), the row
\* becomes terminal in a step of its own.
Escalate(w, a) ==
    \E opened \in Succeeding({a.id}) :
      /\ Current(w, a)
      /\ \/ a.verdict = "conflict"
         \/ a.verdict = "transient" /\ shouldEscalateAfterRetry(w, a.id)
      /\ conflicts' = conflicts \cup opened
      /\ Proceed(w, (answer[w] \ {a}) \cup {[a EXCEPT !.verdict = "escalated"]})
      /\ UNCHANGED <<edgeVars, tableVars, cloudVars>>

SettleTerminal(w, a) ==
    \E ok \in Succeeding({a.id}) :
      /\ Current(w, a)
      /\ a.verdict \in {"terminal", "escalated"}
      /\ outbox' = Patched(ok, LAMBDA r : [r EXCEPT !.status = "rejected"])
      /\ Proceed(w, answer[w] \ {a})
      /\ UNCHANGED <<edgeVars, nextId, latest, cloudVars, conflicts>>

\* The ops of a given-up push: lost, or still on their way to the cloud.
GiveUp(w) ==
    /\ wire' = [wire EXCEPT ![w] = {}]
    /\ late' = IF May("late") THEN late \cup wire[w] ELSE late

\* Mutant: rows that have used up their attempts are rejected on a network error.
PushFails_rejects(w) ==
    /\ May("network")
    /\ pc[w] = "sent"
    /\ outbox' = Patched(IdsOf(batch[w]), LAMBDA r :
         [r EXCEPT !.status = IF OneMore(w, r.id) = MaxAttempts THEN "rejected" ELSE "pending"])
    /\ GiveUp(w)
    /\ Proceed(w, {})
    /\ UNCHANGED <<edgeVars, nextId, latest, cloud, conflicts, accepted, refused>>

\* Network error, timeout, 5xx, 401 or an unreadable answer: the whole batch
\* goes back to pending with one more attempt, whatever the cloud did with it.
PushFails(w) ==
    \E ok \in Succeeding(IdsOf(batch[w])) :
      /\ May("network")
      /\ pc[w] = "sent"
      /\ outbox' = markOutboxRetry(w, ok)
      /\ GiveUp(w)
      /\ Proceed(w, {})
      /\ UNCHANGED <<edgeVars, nextId, latest, cloud, conflicts, accepted, refused>>

\* 429: the cloud has not looked at a single op, no attempt is counted.
PushRateLimited(w) ==
    \E ok \in Succeeding(IdsOf(batch[w])) :
      /\ May("network")
      /\ pc[w] = "sent"
      /\ answer[w] = {}
      /\ outbox' = Patched(ok, LAMBDA r : [r EXCEPT !.status = "pending", !.due = FALSE])
      /\ wire' = [wire EXCEPT ![w] = {}]
      /\ Proceed(w, {})
      /\ UNCHANGED <<edgeVars, nextId, latest, late, cloud, conflicts, accepted, refused>>

\* nextAttemptAt is reached.
BackoffElapses(r) ==
    /\ r.status = "pending"
    /\ ~r.due
    /\ outbox' = Patched({r.id}, LAMBDA q : [q EXCEPT !.due = TRUE])
    /\ UNCHANGED <<edgeVars, nextId, latest, workerVars, cloudVars, conflicts>>

-----------------------------------------------------------------------------
(* Cloud (external): every op is an unconditional upsert of its own, the ops  *)
(* of a batch run in parallel.                                                *)

CloudAccepts(w, r) ==
    /\ r \in wire[w]
    /\ wire' = [wire EXCEPT ![w] = @ \ {r}]
    /\ cloud' = [cloud EXCEPT ![r.ent] = r.ver]
    /\ accepted' = accepted \cup {r.id}
    /\ answer' = [answer EXCEPT ![w] = @ \cup {[id |-> r.id, verdict |-> "accepted"]}]
    /\ UNCHANGED <<edgeVars, tableVars, pc, batch, late, conflicts, refused>>

CloudRefuses(w, r, v) ==
    /\ r \in wire[w]
    /\ wire' = [wire EXCEPT ![w] = @ \ {r}]
    /\ refused' = refused \cup {r.id}
    /\ answer' = [answer EXCEPT ![w] = @ \cup {[id |-> r.id, verdict |-> v]}]
    /\ UNCHANGED <<edgeVars, tableVars, pc, batch, late, cloud, conflicts, accepted>>

LateArrives(r) ==
    /\ late' = late \ {r}
    /\ cloud' = [cloud EXCEPT ![r.ent] = r.ver]
    /\ accepted' = accepted \cup {r.id}
    /\ UNCHANGED <<edgeVars, tableVars, workerVars, wire, conflicts, refused>>

LateIsLost(r) ==
    /\ late' = late \ {r}
    /\ UNCHANGED <<edgeVars, tableVars, workerVars, wire, cloud, conflicts,
                   accepted, refused>>

-----------------------------------------------------------------------------
(* Process *)

InFlight == {r \in outbox : r.status = "in-flight"}

\* Mutant: no recovery at boot.
Recovered_none == {{}}

\* What recoverInFlightOutbox resets: as many in-flight rows as its $limit.
Recovered ==
    {ids \in SUBSET IdsOf(InFlight) :
        IF Cardinality(IdsOf(InFlight)) <= RecoverLimit
          THEN ids = IdsOf(InFlight)
          ELSE Cardinality(ids) = RecoverLimit}

\* The process stops: handlers and push cycles are gone, the tables stay.  The
\* next start resets the in-flight rows before the first cycle.
Restart ==
    \E ids \in Recovered :
    \E ok \in Succeeding(ids) :
      /\ May("crash") \/ (May("restart") /\ calls = {})
      /\ outbox' = Patched(ok, LAMBDA r : [r EXCEPT !.status = "pending"])
      /\ calls' = {}
      /\ pc' = [w \in Workers |-> "idle"]
      /\ batch' = [w \in Workers |-> {}]
      /\ answer' = [w \in Workers |-> {}]
      /\ wire' = [w \in Workers |-> {}]
      /\ late' = IF May("late") THEN late \cup UNION {wire[w] : w \in Workers} ELSE late
      /\ UNCHANGED <<record, nextId, latest, cloud, conflicts, accepted, refused>>

-----------------------------------------------------------------------------
HandlerStep ==
    \/ \E e \in Entities : Write(e) \/ Remove(e)
    \/ \E c \in calls : ReadBack(c) \/ Record(c) \/ RecordFails(c) \/ RemoveRequeued(c)

TableStep ==
    \E r \in outbox :
        ReEnqueue(r) \/ OperatorRetry(r) \/ Discard(r) \/ Retire(r) \/ BackoffElapses(r)

WorkerStep(w) ==
    \/ Fetch(w) \/ Coalesce(w) \/ Send(w) \/ ReadAnswer(w)
    \/ \E a \in answer[w] : SettleRetry(w, a) \/ Escalate(w, a) \/ SettleTerminal(w, a)
    \/ PushFails(w) \/ PushRateLimited(w)

CloudStep ==
    \/ \E w \in Workers : \E r \in wire[w] :
          \/ CloudAccepts(w, r)
          \/ \E v \in {"transient", "conflict", "terminal"} : CloudRefuses(w, r, v)
    \/ \E r \in late : LateArrives(r) \/ LateIsLost(r)

Next ==
    \/ HandlerStep
    \/ TableStep
    \/ \E w \in Workers : WorkerStep(w)
    \/ CloudStep
    \/ Restart

Spec == Init /\ [][Next]_vars

-----------------------------------------------------------------------------
(* Properties *)

(***************************************************************************)
(* A row is acked only if the cloud has accepted its op.  The nightly      *)
(* cleanup deletes audit events on the strength of an acked row            *)
(* (audit-cleanup.worker.ts, "EXISTS ... o.status = 'acked'"), so an acked *)
(* row without a delivery would destroy the only copy.                     *)
(***************************************************************************)
AckedIsDelivered ==
    \A r \in outbox : r.status = "acked" => r.id \in accepted

(***************************************************************************)
(* A row becomes rejected, and a conflict is opened, only after the cloud  *)
(* has judged and refused its op: rate limits, timeouts, crashes and       *)
(* retries alone never make the operator see a data conflict (the promise  *)
(* of markOutboxRateLimited and ADR 0019).                                 *)
(***************************************************************************)
RejectedWasRefused ==
    /\ \A r \in outbox : r.status = "rejected" => r.id \in refused
    /\ conflicts \subseteq refused

(***************************************************************************)
(* Coalescing never takes the youngest row of an entity out of the queue:  *)
(* whenever a row is superseded, a younger row of the entity was recorded  *)
(* (coalescePendingEntries, "Der juengste Eintrag ... wird nie             *)
(* superseded").                                                           *)
(***************************************************************************)
SupersededHasSuccessor ==
    \A r \in outbox : r.status = "superseded" => r.id < latest[r.ent]

(***************************************************************************)
(* An in-flight row always belongs to a push that is still under way, so   *)
(* no row waits for the next start of the process: fetchPendingOutbox asks *)
(* for pending rows only, and nothing but the boot recovery looks at       *)
(* in-flight ones.  Holds as long as status patches succeed.               *)
(***************************************************************************)
Unsettled(w) ==
    CASE pc[w] = "sent"     -> IdsOf(batch[w])
      [] pc[w] = "settling" -> IdsOf(answer[w])
      [] OTHER              -> {}

NoOrphanInFlight ==
    \A r \in InFlight : \E w \in Workers : r.id \in Unsettled(w)

(***************************************************************************)
(* Coalescing drops only outdated intermediate states ("Coalescing         *)
(* verwirft also nie Zustand, nur veraltete Zwischenstaende"): while a row *)
(* is superseded, a younger row of the entity carries a state at least as  *)
(* new.  Needs handlers of one record not to overlap.                      *)
(***************************************************************************)
CoalescingKeepsState ==
    \A r \in outbox : r.status = "superseded" =>
        \E s \in outbox : s.ent = r.ent /\ s.id > r.id /\ s.ver >= r.ver

(***************************************************************************)
(* The outbox owes the cloud nothing: once no handler is at work on a      *)
(* record, its current version is in the cloud or the youngest row carries *)
(* it and is still to be pushed or decided on by the operator.             *)
(***************************************************************************)
Youngest(r) == ~HasSuccessor(r)

NothingForgotten ==
    \A e \in Entities :
        Busy(e) \/ \/ record[e].ver = cloud[e]
                  \/ \E r \in outbox :
                        /\ r.ent = e /\ Youngest(r)
                        /\ r.ver = record[e].ver
                        /\ r.status \in {"pending", "in-flight", "rejected"}

(***************************************************************************)
(* The push path implements RecordSync: seen from outside, a record in the *)
(* cloud moves forward through the versions it has had on the edge.  No    *)
(* stale overwrite (ADR 0010), and nothing the edge has not written.       *)
(***************************************************************************)
Sync == INSTANCE RecordSync WITH edge <- [e \in Entities |-> record[e].ver]

Replicates == Sync!Spec

(***************************************************************************)
(* Convergence: if from some time on pushes stop failing, the operator     *)
(* retries nothing and the process stays up, every record ends up in the   *)
(* cloud in its current version, or rejected and left to the operator.     *)
(***************************************************************************)
Disturbed ==
    \/ Restart \/ \E r \in outbox : OperatorRetry(r)
    \/ \E w \in Workers : PushFails(w) \/ PushRateLimited(w)

InSync(e) ==
    \/ cloud[e] = record[e].ver
    \/ \E r \in outbox : r.ent = e /\ Youngest(r) /\ r.status = "rejected"

Converges ==
    (<>[][~Disturbed]_vars) => \A e \in Entities : <>[]InSync(e)

(***************************************************************************)
(* Fairness.  Handlers and the push cycle run on an event loop that is     *)
(* never blocked for good, ticks recur, a backoff ends, and the cloud      *)
(* works on what reaches it.  Nothing is assumed of the operator, of       *)
(* failures or of restarts.                                                *)
(***************************************************************************)
Fairness ==
    /\ WF_vars(\E c \in calls : ReadBack(c) \/ Record(c) \/ RemoveRequeued(c))
    /\ WF_vars(\E r \in outbox : BackoffElapses(r))
    /\ \A w \in Workers :
         /\ WF_vars(Fetch(w) \/ Coalesce(w) \/ Send(w) \/ ReadAnswer(w))
         /\ WF_vars(\E a \in answer[w] :
                       SettleRetry(w, a) \/ Escalate(w, a) \/ SettleTerminal(w, a))
    /\ WF_vars(CloudStep)

FairSpec == Spec /\ Fairness
=============================================================================
