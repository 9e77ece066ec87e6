-------------------------- MODULE SyncOutboxProofs --------------------------
(***************************************************************************)
(* What holds of the push path for every number of records, push cycles,   *)
(* batch size, attempt limit and every combination of disturbances.        *)
(***************************************************************************)
EXTENDS SyncOutbox, FiniteSetTheorems, TLAPS

(***************************************************************************)
(* The inductive invariant.  Rounds ties what the cloud may still answer   *)
(* to the batch a push cycle holds; Honest says that an unsettled verdict  *)
(* was really given by the cloud; Identity says that an id names one       *)
(* entity for good, in the table and in every batch read from it.          *)
(***************************************************************************)
Rounds ==
    \A w \in Workers :
        /\ wire[w] \subseteq OpsOf(batch[w])
        /\ \A a \in answer[w] : a.id \in IdsOf(batch[w])
        /\ pc[w] # "sent" => wire[w] = {}
        /\ pc[w] \in {"idle", "fetched", "chosen"} => answer[w] = {}

Honest ==
    \A w \in Workers : \A a \in answer[w] :
        IF a.verdict = "accepted" THEN a.id \in accepted ELSE a.id \in refused

Identity ==
    /\ \A r \in outbox : r.id < nextId /\ r.id <= latest[r.ent]
    /\ \A q, r \in outbox : q.id = r.id => q.ent = r.ent
    /\ \A w \in Workers : \A r \in batch[w] :
         r.id < nextId /\ \A q \in outbox : q.id = r.id => q.ent = r.ent

IInv ==
    /\ TypeOK
    /\ Rounds
    /\ Honest
    /\ Identity
    /\ AckedIsDelivered
    /\ RejectedWasRefused
    /\ SupersededHasSuccessor

(***************************************************************************)
(* The table changes by patches only: every row of the next state is a row *)
(* of this one, and where its status is a new one, the new status is s and *)
(* the row is one of ids.                                                  *)
(***************************************************************************)
PatchedTo(ids, s) ==
    \A q \in outbox' :
        /\ q \in Rows
        /\ \E r \in outbox :
             /\ q.id = r.id /\ q.ent = r.ent
             /\ q.status = r.status \/ (q.id \in ids /\ q.status = s)

-----------------------------------------------------------------------------
(* Initially the invariant holds: there are no rows and no pushes. *)
LEMMA Initially == Init => IInv
  BY BoundsAssumption, SMT DEF Init, IInv, TypeOK, Rounds, Honest, Identity,
     AckedIsDelivered, RejectedWasRefused, SupersededHasSuccessor, Versions, Ids

(* A worker that is given the row it fetched counts an attempt within the   *)
(* limit.                                                                   *)
LEMMA OneMoreInRange ==
    ASSUME TypeOK, NEW w \in Workers, NEW id \in IdsOf(batch[w])
    PROVE  OneMore(w, id) \in 0..MaxAttempts
<1>1. PICK r \in batch[w] : r.id = id
  BY DEF IdsOf
<1>2. r \in Rows
  BY <1>1 DEF TypeOK
<1>3. r.attempts \in 0..MaxAttempts
  BY <1>2 DEF Rows
<1>4. \E n \in 0..MaxAttempts : \E q \in batch[w] : q.id = id /\ q.attempts = n
  BY <1>1, <1>3
<1>. DEFINE seen == CHOOSE n \in 0..MaxAttempts : \E q \in batch[w] : q.id = id /\ q.attempts = n
<1>5. seen \in 0..MaxAttempts
  BY <1>4
<1>6. OneMore(w, id) = IF seen < MaxAttempts THEN seen + 1 ELSE MaxAttempts
  BY DEF OneMore
<1>. HIDE DEF seen
<1>. QED
  BY <1>5, <1>6, BoundsAssumption

(* Patching the status of rows is a patch in the sense of PatchedTo, *)
(* and so is leaving rows out or leaving the table alone.            *)
LEMMA StatusPatch ==
    ASSUME TypeOK, NEW ids, NEW s \in Statuses,
           outbox' = Patched(ids, LAMBDA r : [r EXCEPT !.status = s])
    PROVE  PatchedTo(ids, s)
  BY SMT DEF TypeOK, Patched, PatchedTo, Rows

LEMMA NoPatch ==
    ASSUME TypeOK, outbox' \subseteq outbox
    PROVE  PatchedTo({}, "pending")
  BY SMT DEF TypeOK, PatchedTo

LEMMA RetryPatch ==
    ASSUME TypeOK, NEW w \in Workers, NEW ids \in SUBSET IdsOf(batch[w]),
           outbox' = markOutboxRetry(w, ids)
    PROVE  PatchedTo(ids, "pending")
<1>. SUFFICES ASSUME NEW q \in outbox'
     PROVE  /\ q \in Rows
            /\ \E r \in outbox : /\ q.id = r.id /\ q.ent = r.ent
                                 /\ q.status = r.status \/ (q.id \in ids /\ q.status = "pending")
  BY DEF PatchedTo
<1>1. PICK r \in outbox : 
        q = IF r.id \in ids
              THEN [r EXCEPT !.status = "pending", !.due = FALSE, !.attempts = OneMore(w, r.id)]
              ELSE r
  BY DEF markOutboxRetry, Patched
<1>2. r \in Rows
  BY DEF TypeOK
<1>3. CASE r.id \in ids
  <2>1. OneMore(w, r.id) \in 0..MaxAttempts
    BY <1>3, OneMoreInRange
  <2>2. [r EXCEPT !.status = "pending", !.due = FALSE, !.attempts = OneMore(w, r.id)] \in Rows
    BY <1>2, <2>1, Zenon DEF Rows, Statuses
  <2>. QED
    BY <1>1, <1>2, <1>3, <2>2 DEF Rows
<1>4. CASE r.id \notin ids
  BY <1>1, <1>2, <1>4
<1>. QED
  BY <1>3, <1>4

LEMMA DelayPatch ==
    ASSUME TypeOK, NEW ids,
           outbox' = Patched(ids, LAMBDA r : [r EXCEPT !.status = "pending", !.due = FALSE])
    PROVE  PatchedTo(ids, "pending")
<1>. SUFFICES ASSUME NEW q \in outbox'
     PROVE  /\ q \in Rows
            /\ \E r \in outbox : /\ q.id = r.id /\ q.ent = r.ent
                                 /\ q.status = r.status \/ (q.id \in ids /\ q.status = "pending")
  BY DEF PatchedTo
<1>1. PICK r \in outbox :
        q = IF r.id \in ids THEN [r EXCEPT !.status = "pending", !.due = FALSE] ELSE r
  BY DEF Patched
<1>2. r \in Rows
  BY DEF TypeOK
<1>3. [r EXCEPT !.status = "pending", !.due = FALSE] \in Rows
  BY <1>2, Zenon DEF Rows, Statuses
<1>. QED
  BY <1>1, <1>2, <1>3 DEF Rows

LEMMA OperatorPatch ==
    ASSUME TypeOK, NEW ids,
           outbox' = Patched(ids, LAMBDA q :
                       [q EXCEPT !.status = "pending", !.attempts = 0, !.due = TRUE])
    PROVE  PatchedTo(ids, "pending")
<1>. SUFFICES ASSUME NEW q \in outbox'
     PROVE  /\ q \in Rows
            /\ \E r \in outbox : /\ q.id = r.id /\ q.ent = r.ent
                                 /\ q.status = r.status \/ (q.id \in ids /\ q.status = "pending")
  BY DEF PatchedTo
<1>1. PICK r \in outbox :
        q = IF r.id \in ids
              THEN [r EXCEPT !.status = "pending", !.attempts = 0, !.due = TRUE]
              ELSE r
  BY DEF Patched
<1>2. r \in Rows
  BY DEF TypeOK
<1>3. 0 \in 0..MaxAttempts
  BY BoundsAssumption
<1>4. [r EXCEPT !.status = "pending", !.attempts = 0, !.due = TRUE] \in Rows
  BY <1>2, <1>3, Zenon DEF Rows, Statuses
<1>. QED
  BY <1>1, <1>2, <1>4 DEF Rows

LEMMA BackoffPatch ==
    ASSUME TypeOK, NEW ids,
           outbox' = Patched(ids, LAMBDA q : [q EXCEPT !.due = TRUE])
    PROVE  PatchedTo(ids, "pending")
<1>. SUFFICES ASSUME NEW q \in outbox'
     PROVE  /\ q \in Rows
            /\ \E r \in outbox : q.id = r.id /\ q.ent = r.ent /\ q.status = r.status
  BY DEF PatchedTo
<1>1. PICK r \in outbox : q = IF r.id \in ids THEN [r EXCEPT !.due = TRUE] ELSE r
  BY DEF Patched
<1>2. r \in Rows
  BY DEF TypeOK
<1>3. [r EXCEPT !.due = TRUE] \in Rows
  BY <1>2, Zenon DEF Rows
<1>. QED
  BY <1>1, <1>2, <1>3 DEF Rows

(***************************************************************************)
(* A patch keeps the parts of the invariant that are about the table, if   *)
(* the new status is one the rows may have: rows become acked after an     *)
(* acceptance, rejected after a refusal, superseded after a successor was  *)
(* recorded.                                                               *)
(***************************************************************************)
Table == Identity /\ AckedIsDelivered /\ RejectedWasRefused /\ SupersededHasSuccessor

LEMMA TableKept ==
    ASSUME TypeOK, Table, NEW ids, NEW s, PatchedTo(ids, s),
           UNCHANGED <<nextId, latest>>,
           \A w \in Workers : batch'[w] \subseteq batch[w] \cup outbox,
           accepted \subseteq accepted', refused \subseteq refused',
           conflicts' \subseteq refused',
           s = "acked" => ids \subseteq accepted,
           s = "rejected" => ids \subseteq refused,
           s = "superseded" => \A q \in outbox : q.id \in ids => q.id < latest[q.ent]
    PROVE  outbox' \subseteq Rows /\ Table'
<1>1. outbox' \subseteq Rows
  BY DEF PatchedTo
<1>2. Identity'
  BY SMT DEF Table, Identity, PatchedTo
<1>3. AckedIsDelivered'
  BY SMT DEF Table, AckedIsDelivered, PatchedTo
<1>4. RejectedWasRefused'
  BY SMT DEF Table, RejectedWasRefused, PatchedTo
<1>5. SupersededHasSuccessor'
  BY SMT DEF Table, SupersededHasSuccessor, PatchedTo
<1>. QED
  BY <1>1, <1>2, <1>3, <1>4, <1>5 DEF Table

-----------------------------------------------------------------------------
(* Every action preserves the invariant. *)

(* Request handlers: only Record touches the table, with a row that is      *)
(* younger than all others and pending.                                     *)
LEMMA HandlerKeeps ==
    ASSUME IInv, HandlerStep
    PROVE  IInv'
<1>. USE DEF IInv
<1>1. ASSUME NEW e \in Entities, Write(e)
      PROVE  IInv'
  <2>1. record' \in [Entities -> [ver : Versions, live : BOOLEAN]]
    BY <1>1, BoundsAssumption DEF Write, TypeOK, Versions
  <2>2. [kind |-> "mutation", ent |-> e, op |-> "write", key |-> record[e].ver + 1,
         ver |-> 0, stage |-> "open"] \in Calls
    BY <1>1, BoundsAssumption DEF Write, TypeOK, Versions, Calls, Ops
  <2>. QED
    BY <1>1, <2>1, <2>2 DEF Write, TypeOK, Rounds, Honest, Identity, AckedIsDelivered,
       RejectedWasRefused, SupersededHasSuccessor, tableVars, workerVars, cloudVars
<1>2. ASSUME NEW e \in Entities, Remove(e)
      PROVE  IInv'
  <2>1. record' \in [Entities -> [ver : Versions, live : BOOLEAN]]
    BY <1>2, BoundsAssumption DEF Remove, TypeOK, Versions
  <2>2. [kind |-> "mutation", ent |-> e, op |-> "remove", key |-> record[e].ver + 1,
         ver |-> record[e].ver + 1, stage |-> "read"] \in Calls
    BY <1>2, BoundsAssumption DEF Remove, TypeOK, Versions, Calls, Ops
  <2>. QED
    BY <1>2, <2>1, <2>2 DEF Remove, TypeOK, Rounds, Honest, Identity, AckedIsDelivered,
       RejectedWasRefused, SupersededHasSuccessor, tableVars, workerVars, cloudVars
<1>3. ASSUME NEW c \in calls, ReadBack(c) \/ RecordFails(c)
      PROVE  IInv'
  <2>1. [c EXCEPT !.ver = record[c.ent].ver, !.stage = "read"] \in Calls
    BY DEF TypeOK, Calls
  <2>2. calls' \subseteq Calls
    BY <1>3, <2>1 DEF ReadBack, RecordFails, TypeOK
  <2>. QED
    BY <1>3, <2>2 DEF ReadBack, RecordFails, TypeOK, Rounds, Honest, Identity, AckedIsDelivered,
       RejectedWasRefused, SupersededHasSuccessor, tableVars, workerVars, cloudVars
<1>4. ASSUME NEW c \in calls, Record(c)
      PROVE  IInv'
  <2>. DEFINE new == [id |-> nextId, ent |-> c.ent, op |-> c.op, ver |-> c.ver,
                      status |-> "pending", attempts |-> 0, due |-> TRUE]
  <2>1. c \in Calls /\ nextId \in Ids /\ nextId + 1 \in 1..(MaxId + 1) /\ 0 \in 0..MaxAttempts
    BY <1>4, BoundsAssumption DEF Record, TypeOK, Ids
  <2>2. new \in Rows
    BY <2>1 DEF Rows, Calls, Statuses
  <2>3. new.id = nextId /\ new.ent = c.ent /\ new.status = "pending" /\ c.ent \in Entities
    BY <2>1 DEF Calls
  <2>4. outbox' = outbox \cup {new}
    BY <1>4 DEF Record
  <2>. HIDE DEF new
  <2>5. [c EXCEPT !.stage = "created"] \in Calls
    BY <2>1 DEF Calls
  <2>6. calls' \subseteq Calls /\ latest' \in [Entities -> 0..MaxId]
    BY <1>4, <2>1, <2>3, <2>5, BoundsAssumption DEF Record, TypeOK, Ids
  <2>7. TypeOK'
    BY <1>4, <2>1, <2>2, <2>4, <2>6 DEF Record, TypeOK, workerVars, cloudVars
  <2>8. Identity'
    BY <1>4, <2>1, <2>2, <2>3, <2>4 DEF Record, TypeOK, Identity, Rows, Ids, workerVars
  <2>9. SupersededHasSuccessor'
    BY <1>4, <2>1, <2>2, <2>3, <2>4 DEF Record, TypeOK, Identity, SupersededHasSuccessor, Rows, Ids
  <2>10. AckedIsDelivered' /\ RejectedWasRefused'
    BY <1>4, <2>3, <2>4 DEF Record, AckedIsDelivered, RejectedWasRefused, cloudVars
  <2>. QED
    BY <1>4, <2>7, <2>8, <2>9, <2>10 DEF Record, Rounds, Honest, workerVars, cloudVars
<1>5. ASSUME NEW c \in calls, RemoveRequeued(c)
      PROVE  IInv'
  <2>1. outbox' \subseteq outbox /\ calls' \subseteq calls
    BY <1>5 DEF RemoveRequeued
  <2>2. outbox' \subseteq Rows /\ Table'
    BY <1>5, <2>1, NoPatch, TableKept DEF RemoveRequeued, workerVars, cloudVars, Table, RejectedWasRefused
  <2>. QED
    BY <1>5, <2>1, <2>2 DEF RemoveRequeued, TypeOK, Rounds, Honest, Table, workerVars, cloudVars
<1>. QED
  BY <1>1, <1>2, <1>3, <1>4, <1>5 DEF HandlerStep

(* Operator, retention and clock: rows go away or become pending. *)
LEMMA TableStepKeeps ==
    ASSUME IInv, TableStep
    PROVE  IInv'
<1>. USE DEF IInv
<1>1. ASSUME NEW r \in outbox, ReEnqueue(r)
      PROVE  IInv'
  <2>1. r \in Rows
    BY DEF TypeOK
  <2>2. calls' \subseteq Calls
    BY <1>1, <2>1, BoundsAssumption DEF ReEnqueue, TypeOK, Calls, Rows, Ids, Versions
  <2>. QED
    BY <1>1, <2>2 DEF ReEnqueue, TypeOK, Rounds, Honest, Identity, AckedIsDelivered,
       RejectedWasRefused, SupersededHasSuccessor, tableVars, workerVars, cloudVars
<1>2. ASSUME NEW r \in outbox, OperatorRetry(r) \/ BackoffElapses(r)
      PROVE  IInv'
  <2>1. PatchedTo({r.id}, "pending")
    BY <1>2, OperatorPatch, BackoffPatch DEF OperatorRetry, BackoffElapses
  <2>2. outbox' \subseteq Rows /\ Table'
    BY <1>2, <2>1, TableKept
       DEF OperatorRetry, BackoffElapses, workerVars, cloudVars, Table, RejectedWasRefused
  <2>. QED
    BY <1>2, <2>2 DEF OperatorRetry, BackoffElapses, TypeOK, Rounds, Honest, Table,
       edgeVars, workerVars, cloudVars
<1>3. ASSUME NEW r \in outbox, Discard(r) \/ Retire(r)
      PROVE  IInv'
  <2>1. outbox' \subseteq outbox
    BY <1>3 DEF Discard, Retire
  <2>2. outbox' \subseteq Rows /\ Table'
    BY <1>3, <2>1, NoPatch, TableKept
       DEF Discard, Retire, workerVars, cloudVars, Table, RejectedWasRefused
  <2>. QED
    BY <1>3, <2>2 DEF Discard, Retire, TypeOK, Rounds, Honest, Table,
       edgeVars, workerVars, cloudVars
<1>. QED
  BY <1>1, <1>2, <1>3 DEF TableStep

(* The cloud: a verdict is recorded with the answer that carries it. *)
LEMMA CloudStepKeeps ==
    ASSUME IInv, CloudStep
    PROVE  IInv'
<1>. USE DEF IInv
<1>1. ASSUME NEW w \in Workers, NEW r \in wire[w], CloudAccepts(w, r)
      PROVE  IInv'
  <2>1. r \in PushOps /\ r.id \in IdsOf(batch[w]) /\ pc[w] = "sent"
    BY DEF TypeOK, Rounds, OpsOf, IdsOf
  <2>2. TypeOK'
    BY <1>1, <2>1 DEF CloudAccepts, TypeOK, PushOps, Answers, Verdicts,
       edgeVars, tableVars
  <2>3. Rounds'
    BY <1>1, <2>1 DEF CloudAccepts, TypeOK, Rounds
  <2>4. Honest'
    BY <1>1 DEF CloudAccepts, TypeOK, Honest
  <2>. QED
    BY <1>1, <2>2, <2>3, <2>4 DEF CloudAccepts, Identity, AckedIsDelivered,
       RejectedWasRefused, SupersededHasSuccessor, tableVars
<1>2. ASSUME NEW w \in Workers, NEW r \in wire[w],
             NEW v \in {"transient", "conflict", "terminal"}, CloudRefuses(w, r, v)
      PROVE  IInv'
  <2>1. r \in PushOps /\ r.id \in IdsOf(batch[w]) /\ pc[w] = "sent"
    BY DEF TypeOK, Rounds, OpsOf, IdsOf
  <2>2. TypeOK'
    BY <1>2, <2>1 DEF CloudRefuses, TypeOK, PushOps, Answers, Verdicts,
       edgeVars, tableVars
  <2>3. Rounds'
    BY <1>2, <2>1 DEF CloudRefuses, TypeOK, Rounds
  <2>4. Honest'
    BY <1>2 DEF CloudRefuses, TypeOK, Honest
  <2>. QED
    BY <1>2, <2>2, <2>3, <2>4 DEF CloudRefuses, Identity, AckedIsDelivered,
       RejectedWasRefused, SupersededHasSuccessor, tableVars
<1>3. ASSUME NEW r \in late, LateArrives(r) \/ LateIsLost(r)
      PROVE  IInv'
  <2>1. TypeOK'
    BY <1>3 DEF LateArrives, LateIsLost, TypeOK, PushOps, edgeVars, tableVars, workerVars
  <2>. QED
    BY <1>3, <2>1 DEF LateArrives, LateIsLost, Rounds, Honest, Identity, AckedIsDelivered,
       RejectedWasRefused, SupersededHasSuccessor, tableVars, workerVars
<1>. QED
  BY <1>1, <1>2, <1>3 DEF CloudStep

(* The process: in-flight rows go back to pending, cycles end. *)
LEMMA RestartKeeps ==
    ASSUME IInv, Restart
    PROVE  IInv'
<1>. USE DEF IInv
<1>1. PICK ok \in UNION {Succeeding(ids) : ids \in Recovered} :
         outbox' = Patched(ok, LAMBDA r : [r EXCEPT !.status = "pending"])
  BY DEF Restart
<1>2. PatchedTo(ok, "pending")
  BY <1>1, StatusPatch DEF Statuses
<1>3. /\ calls' = {}
      /\ pc' = [w \in Workers |-> "idle"]
      /\ batch' = [w \in Workers |-> {}]
      /\ answer' = [w \in Workers |-> {}]
      /\ wire' = [w \in Workers |-> {}]
      /\ late' = late \/ late' = late \cup UNION {wire[w] : w \in Workers}
      /\ UNCHANGED <<record, nextId, latest, cloud, conflicts, accepted, refused>>
  BY DEF Restart
<1>4. outbox' \subseteq Rows /\ Table'
  BY <1>2, <1>3, TableKept DEF Table, RejectedWasRefused
<1>5. late' \subseteq PushOps
  BY <1>3 DEF TypeOK
<1>6. TypeOK'
  BY <1>3, <1>4, <1>5 DEF TypeOK
<1>. QED
  BY <1>3, <1>4, <1>6 DEF Rounds, Honest, Table

-----------------------------------------------------------------------------
(* The push cycle.  When it goes back to idle nothing is on the wire and   *)
(* nothing is left to settle, so it may drop its batch.                    *)

LEMMA ProceedKeeps ==
    ASSUME TypeOK, NEW w \in Workers, NEW rest \in SUBSET Answers, Proceed(w, rest)
    PROVE  /\ pc' \in [Workers -> {"idle", "fetched", "chosen", "sent", "settling"}]
           /\ batch' \in [Workers -> SUBSET Rows]
           /\ answer' = [answer EXCEPT ![w] = rest]
           /\ answer' \in [Workers -> SUBSET Answers]
           /\ \A v \in Workers : batch'[v] \subseteq batch[v]
           /\ \A v \in Workers \ {w} : pc'[v] = pc[v] /\ batch'[v] = batch[v]
           /\ rest = {} => pc'[w] = "idle" /\ batch'[w] = {}
           /\ rest # {} => pc'[w] = "settling" /\ batch'[w] = batch[w]
  BY SMT DEF Proceed, TypeOK

LEMMA FetchKeeps ==
    ASSUME IInv, NEW w \in Workers, Fetch(w)
    PROVE  IInv'
<1>. USE DEF IInv
<1>1. NextBatch \subseteq outbox
  BY DEF NextBatch, Due
<1>2. TypeOK'
  BY <1>1 DEF Fetch, TypeOK, edgeVars, tableVars, cloudVars
<1>3. Rounds'
  BY DEF Fetch, TypeOK, Rounds, cloudVars
<1>4. Identity'
  BY <1>1 DEF Fetch, TypeOK, Identity, tableVars
<1>. QED
  BY <1>2, <1>3, <1>4 DEF Fetch, Honest, AckedIsDelivered, RejectedWasRefused,
     SupersededHasSuccessor, tableVars, cloudVars

LEMMA CoalesceKeeps ==
    ASSUME IInv, NEW w \in Workers, Coalesce(w)
    PROVE  IInv'
<1>. USE DEF IInv
<1>1. PICK blind \in {FALSE} \cup {May("siblings")} :
      \E ok \in Succeeding(IdsOf(Outdated(w, blind))) :
        /\ outbox' = Patched(ok, LAMBDA r : [r EXCEPT !.status = "superseded"])
        /\ batch' = [batch EXCEPT ![w] = @ \ Outdated(w, blind)]
        /\ pc' = [pc EXCEPT ![w] =
                    IF batch[w] \subseteq Outdated(w, blind) THEN "idle" ELSE "chosen"]
  BY DEF Coalesce
<1>2. PICK ok \in Succeeding(IdsOf(Outdated(w, blind))) :
        outbox' = Patched(ok, LAMBDA r : [r EXCEPT !.status = "superseded"])
  BY <1>1
<1>3. PatchedTo(ok, "superseded")
  BY <1>2, StatusPatch DEF Statuses
<1>4. ASSUME NEW q \in outbox, q.id \in ok
      PROVE  q.id < latest[q.ent]
  <2>1. PICK r \in batch[w] : r.id = q.id /\ HasSuccessor(r)
    BY <1>4 DEF Succeeding, IdsOf, Outdated
  <2>2. PICK s \in outbox : s.ent = r.ent /\ s.id > r.id
    BY <2>1 DEF HasSuccessor
  <2>3. r.ent = q.ent /\ s.id <= latest[s.ent]
    BY <2>1, <2>2 DEF Identity
  <2>4. q \in Rows /\ s \in Rows
    BY DEF TypeOK
  <2>. QED
    BY <2>1, <2>2, <2>3, <2>4 DEF TypeOK, Rows, Ids
<1>5. \A v \in Workers : batch'[v] \subseteq batch[v]
  BY <1>1 DEF TypeOK
<1>6. UNCHANGED <<record, calls, nextId, latest, answer, wire, late, cloud,
                  accepted, refused, conflicts>>
  BY DEF Coalesce, edgeVars, cloudVars
<1>7. outbox' \subseteq Rows /\ Table'
  BY <1>3, <1>4, <1>5, <1>6, TableKept DEF Table, RejectedWasRefused
<1>8. TypeOK'
  BY <1>1, <1>6, <1>7 DEF TypeOK
<1>9. Rounds'
  <2>1. pc[w] = "fetched" /\ wire[w] = {} /\ answer[w] = {}
    BY DEF Coalesce, Rounds
  <2>. QED
    BY <1>1, <1>6, <2>1 DEF TypeOK, Rounds
<1>. QED
  BY <1>6, <1>7, <1>8, <1>9 DEF Honest, Table

LEMMA SendKeeps ==
    ASSUME IInv, NEW w \in Workers, Send(w)
    PROVE  IInv'
<1>. USE DEF IInv
<1>1. PICK ok \in Succeeding(IdsOf(batch[w])) :
        outbox' = Patched(ok, LAMBDA r : [r EXCEPT !.status = "in-flight"])
  BY DEF Send
<1>2. PatchedTo(ok, "in-flight")
  BY <1>1, StatusPatch DEF Statuses
<1>3. outbox' \subseteq Rows /\ Table'
  BY <1>2, TableKept DEF Send, Table, RejectedWasRefused
<1>4. OpsOf(batch[w]) \subseteq PushOps
  BY DEF TypeOK, OpsOf, PushOps, Rows
<1>5. TypeOK'
  BY <1>3, <1>4 DEF Send, TypeOK, edgeVars
<1>6. Rounds'
  BY DEF Send, TypeOK, Rounds
<1>. QED
  BY <1>3, <1>5, <1>6 DEF Send, Honest, Table

(* A step that settles verdicts of w and leaves nothing of w on the wire. *)
LEMMA SettlingKeeps ==
    ASSUME TypeOK, Rounds, Honest, NEW w \in Workers, NEW rest \in SUBSET Answers,
           Proceed(w, rest),
           \A a \in rest : \E b \in answer[w] :
              a.id = b.id /\ (a.verdict = "accepted" <=> b.verdict = "accepted"),
           wire'[w] = {}, \A v \in Workers \ {w} : wire'[v] = wire[v],
           UNCHANGED <<accepted, refused>>
    PROVE  Rounds' /\ Honest'
<1>1. /\ answer' = [answer EXCEPT ![w] = rest]
      /\ \A v \in Workers \ {w} : pc'[v] = pc[v] /\ batch'[v] = batch[v]
      /\ rest = {} => pc'[w] = "idle" /\ batch'[w] = {}
      /\ rest # {} => pc'[w] = "settling" /\ batch'[w] = batch[w]
  BY ProceedKeeps
<1>2. ASSUME NEW v \in Workers, v # w
      PROVE  batch'[v] = batch[v] /\ answer'[v] = answer[v] /\ wire'[v] = wire[v] /\ pc'[v] = pc[v]
  BY <1>1, <1>2 DEF TypeOK
<1>3. answer'[w] = rest
  BY <1>1 DEF TypeOK
<1>4. Rounds'
  <2>1. ASSUME NEW v \in Workers, v # w
        PROVE  /\ wire'[v] \subseteq OpsOf(batch'[v])
               /\ \A a \in answer'[v] : a.id \in IdsOf(batch'[v])
               /\ pc'[v] # "sent" => wire'[v] = {}
               /\ pc'[v] \in {"idle", "fetched", "chosen"} => answer'[v] = {}
    BY <1>2, <2>1 DEF Rounds
  <2>2. CASE rest = {}
    BY <1>1, <1>3, <2>1, <2>2 DEF Rounds
  <2>3. CASE rest # {}
    BY <1>1, <1>3, <2>1, <2>3 DEF Rounds
  <2>. QED
    BY <2>2, <2>3
<1>5. Honest'
  BY <1>2, <1>3 DEF Honest
<1>. QED
  BY <1>4, <1>5

LEMMA ReadAnswerKeeps ==
    ASSUME IInv, NEW w \in Workers, ReadAnswer(w)
    PROVE  IInv'
<1>. USE DEF IInv
<1>. DEFINE acks == {a \in answer[w] : a.verdict = "accepted"}
            rest == answer[w] \ acks
<1>1. PICK ok \in Succeeding(IdsOf(acks)) :
        outbox' = Patched(ok, LAMBDA r : [r EXCEPT !.status = "acked"])
  BY DEF ReadAnswer
<1>2. /\ wire[w] = {} /\ Proceed(w, rest)
      /\ UNCHANGED <<record, calls, nextId, latest, wire, late, cloud,
                     accepted, refused, conflicts>>
  BY DEF ReadAnswer, edgeVars, cloudVars
<1>3. rest \in SUBSET Answers
  BY DEF TypeOK
<1>4. PatchedTo(ok, "acked")
  BY <1>1, StatusPatch DEF Statuses
<1>5. ok \subseteq accepted
  BY DEF Succeeding, IdsOf, Honest
<1>6. /\ pc' \in [Workers -> {"idle", "fetched", "chosen", "sent", "settling"}]
      /\ batch' \in [Workers -> SUBSET Rows]
      /\ answer' \in [Workers -> SUBSET Answers]
      /\ \A v \in Workers : batch'[v] \subseteq batch[v]
  BY <1>2, <1>3, ProceedKeeps
<1>7. outbox' \subseteq Rows /\ Table'
  BY <1>2, <1>4, <1>5, <1>6, TableKept DEF Table, RejectedWasRefused
<1>8. TypeOK'
  BY <1>2, <1>6, <1>7 DEF TypeOK
<1>9. Rounds' /\ Honest'
  BY <1>2, <1>3, SettlingKeeps
<1>. QED
  BY <1>7, <1>8, <1>9 DEF Table

LEMMA SettleRetryKeeps ==
    ASSUME IInv, NEW w \in Workers, NEW a \in answer[w], SettleRetry(w, a)
    PROVE  IInv'
<1>. USE DEF IInv
<1>. DEFINE rest == answer[w] \ {a}
<1>1. PICK ok \in Succeeding({a.id}) : outbox' = markOutboxRetry(w, ok)
  BY DEF SettleRetry
<1>2. /\ pc[w] = "settling" /\ Proceed(w, rest)
      /\ UNCHANGED <<record, calls, nextId, latest, wire, late, cloud,
                     accepted, refused, conflicts>>
  BY DEF SettleRetry, Current, edgeVars, cloudVars
<1>3. rest \in SUBSET Answers
  BY DEF TypeOK
<1>4. ok \in SUBSET IdsOf(batch[w])
  BY DEF Succeeding, Rounds
<1>5. PatchedTo(ok, "pending")
  BY <1>1, <1>4, RetryPatch
<1>6. /\ pc' \in [Workers -> {"idle", "fetched", "chosen", "sent", "settling"}]
      /\ batch' \in [Workers -> SUBSET Rows]
      /\ answer' \in [Workers -> SUBSET Answers]
      /\ \A v \in Workers : batch'[v] \subseteq batch[v]
  BY <1>2, <1>3, ProceedKeeps
<1>7. outbox' \subseteq Rows /\ Table'
  BY <1>2, <1>5, <1>6, TableKept DEF Table, RejectedWasRefused
<1>8. TypeOK'
  BY <1>2, <1>6, <1>7 DEF TypeOK
<1>9. wire[w] = {}
  BY <1>2 DEF Rounds
<1>10. Rounds' /\ Honest'
  BY <1>2, <1>3, <1>9, SettlingKeeps
<1>. QED
  BY <1>7, <1>8, <1>10 DEF Table

LEMMA EscalateKeeps ==
    ASSUME IInv, NEW w \in Workers, NEW a \in answer[w], Escalate(w, a)
    PROVE  IInv'
<1>. USE DEF IInv
<1>. DEFINE rest == (answer[w] \ {a}) \cup {[a EXCEPT !.verdict = "escalated"]}
<1>1. PICK opened \in Succeeding({a.id}) : conflicts' = conflicts \cup opened
  BY DEF Escalate
<1>2. /\ pc[w] = "settling" /\ Proceed(w, rest) /\ a.verdict \in {"conflict", "transient"}
      /\ UNCHANGED <<record, calls, outbox, nextId, latest, wire, late, cloud,
                     accepted, refused>>
  BY DEF Escalate, Current, edgeVars, tableVars, cloudVars
<1>3. a \in Answers /\ rest \in SUBSET Answers
  BY DEF TypeOK, Answers, Verdicts
<1>4. opened \subseteq refused /\ opened \subseteq Ids
  BY <1>2, <1>3 DEF Succeeding, Honest, Answers
<1>5. /\ pc' \in [Workers -> {"idle", "fetched", "chosen", "sent", "settling"}]
      /\ batch' \in [Workers -> SUBSET Rows]
      /\ answer' \in [Workers -> SUBSET Answers]
      /\ \A v \in Workers : batch'[v] \subseteq batch[v]
  BY <1>2, <1>3, ProceedKeeps
<1>6. PatchedTo({}, "pending")
  BY <1>2, NoPatch
<1>7. outbox' \subseteq Rows /\ Table'
  BY <1>1, <1>2, <1>4, <1>5, <1>6, TableKept DEF Table, RejectedWasRefused
<1>8. TypeOK'
  BY <1>1, <1>2, <1>4, <1>5, <1>7 DEF TypeOK
<1>9. wire[w] = {}
  BY <1>2 DEF Rounds
<1>10. \A b \in rest : \E c \in answer[w] :
         b.id = c.id /\ (b.verdict = "accepted" <=> c.verdict = "accepted")
  BY <1>2, <1>3 DEF Answers
<1>11. Rounds' /\ Honest'
  <2>. HIDE DEF rest
  <2>. QED
    BY <1>2, <1>3, <1>9, <1>10, SettlingKeeps
<1>. QED
  BY <1>7, <1>8, <1>11 DEF Table

LEMMA SettleTerminalKeeps ==
    ASSUME IInv, NEW w \in Workers, NEW a \in answer[w], SettleTerminal(w, a)
    PROVE  IInv'
<1>. USE DEF IInv
<1>. DEFINE rest == answer[w] \ {a}
<1>1. PICK ok \in Succeeding({a.id}) :
        outbox' = Patched(ok, LAMBDA r : [r EXCEPT !.status = "rejected"])
  BY DEF SettleTerminal
<1>2. /\ pc[w] = "settling" /\ Proceed(w, rest) /\ a.verdict \in {"terminal", "escalated"}
      /\ UNCHANGED <<record, calls, nextId, latest, wire, late, cloud,
                     accepted, refused, conflicts>>
  BY DEF SettleTerminal, Current, edgeVars, cloudVars
<1>3. rest \in SUBSET Answers
  BY DEF TypeOK
<1>4. ok \subseteq refused
  BY <1>2 DEF Succeeding, Honest
<1>5. PatchedTo(ok, "rejected")
  BY <1>1, StatusPatch DEF Statuses
<1>6. /\ pc' \in [Workers -> {"idle", "fetched", "chosen", "sent", "settling"}]
      /\ batch' \in [Workers -> SUBSET Rows]
      /\ answer' \in [Workers -> SUBSET Answers]
      /\ \A v \in Workers : batch'[v] \subseteq batch[v]
  BY <1>2, <1>3, ProceedKeeps
<1>7. outbox' \subseteq Rows /\ Table'
  BY <1>2, <1>4, <1>5, <1>6, TableKept DEF Table, RejectedWasRefused
<1>8. TypeOK'
  BY <1>2, <1>6, <1>7 DEF TypeOK
<1>9. wire[w] = {}
  BY <1>2 DEF Rounds
<1>10. Rounds' /\ Honest'
  BY <1>2, <1>3, <1>9, SettlingKeeps
<1>. QED
  BY <1>7, <1>8, <1>10 DEF Table

LEMMA PushEndsKeeps ==
    ASSUME IInv, NEW w \in Workers, PushFails(w) \/ PushRateLimited(w)
    PROVE  IInv'
<1>. USE DEF IInv
<1>1. \E ok \in SUBSET IdsOf(batch[w]) : PatchedTo(ok, "pending")
  <2>1. CASE PushFails(w)
    <3>1. PICK ok \in Succeeding(IdsOf(batch[w])) : outbox' = markOutboxRetry(w, ok)
      BY <2>1 DEF PushFails
    <3>2. ok \in SUBSET IdsOf(batch[w])
      BY DEF Succeeding
    <3>. QED
      BY <3>1, <3>2, RetryPatch
  <2>2. CASE PushRateLimited(w)
    <3>1. PICK ok \in Succeeding(IdsOf(batch[w])) :
            outbox' = Patched(ok, LAMBDA r : [r EXCEPT !.status = "pending", !.due = FALSE])
      BY <2>2 DEF PushRateLimited
    <3>2. ok \in SUBSET IdsOf(batch[w])
      BY DEF Succeeding
    <3>. QED
      BY <3>1, <3>2, DelayPatch
  <2>. QED
    BY <2>1, <2>2
<1>2. PICK ok \in SUBSET IdsOf(batch[w]) : PatchedTo(ok, "pending")
  BY <1>1
<1>3. /\ Proceed(w, {}) /\ wire' = [wire EXCEPT ![w] = {}]
      /\ late' = late \/ late' = late \cup wire[w]
      /\ UNCHANGED <<record, calls, nextId, latest, cloud, accepted, refused, conflicts>>
  BY DEF PushFails, PushRateLimited, GiveUp, edgeVars
<1>4. /\ pc' \in [Workers -> {"idle", "fetched", "chosen", "sent", "settling"}]
      /\ batch' \in [Workers -> SUBSET Rows]
      /\ answer' \in [Workers -> SUBSET Answers]
      /\ \A v \in Workers : batch'[v] \subseteq batch[v]
  BY <1>3, ProceedKeeps
<1>5. outbox' \subseteq Rows /\ Table'
  BY <1>2, <1>3, <1>4, TableKept DEF Table, RejectedWasRefused
<1>6. TypeOK'
  BY <1>3, <1>4, <1>5 DEF TypeOK
<1>7. wire'[w] = {} /\ \A v \in Workers \ {w} : wire'[v] = wire[v]
  BY <1>3 DEF TypeOK
<1>8. Rounds' /\ Honest'
  BY <1>3, <1>7, SettlingKeeps
<1>. QED
  BY <1>5, <1>6, <1>8 DEF Table

-----------------------------------------------------------------------------
(* The inductive step, one case per group of actions. *)
LEMMA Inductive == IInv /\ [Next]_vars => IInv'
<1>. SUFFICES ASSUME IInv, [Next]_vars
     PROVE  IInv'
  OBVIOUS
<1>1. CASE HandlerStep
  BY <1>1, HandlerKeeps
<1>2. CASE TableStep
  BY <1>2, TableStepKeeps
<1>3. ASSUME NEW w \in Workers, WorkerStep(w)
      PROVE  IInv'
  BY <1>3, FetchKeeps, CoalesceKeeps, SendKeeps, ReadAnswerKeeps, SettleRetryKeeps,
     EscalateKeeps, SettleTerminalKeeps, PushEndsKeeps DEF WorkerStep
<1>4. CASE CloudStep
  BY <1>4, CloudStepKeeps
<1>5. CASE Restart
  BY <1>5, RestartKeeps
<1>6. CASE UNCHANGED vars
  BY <1>6 DEF vars, IInv, TypeOK, Rounds, Honest, Identity, AckedIsDelivered,
     RejectedWasRefused, SupersededHasSuccessor
<1>. QED
  BY <1>1, <1>2, <1>3, <1>4, <1>5, <1>6 DEF Next

(* The conjuncts of IInv hold in every reachable state. *)
THEOREM Invariance == Spec => []IInv
BY Initially, Inductive, PTL DEF Spec

(* Type correctness of the push path. *)
THEOREM TypeCorrect == Spec => []TypeOK
<1>1. IInv => TypeOK
  BY DEF IInv
<1>. QED
  BY <1>1, Invariance, PTL

(* A row is acked only if the cloud accepted its op, whatever fails. *)
THEOREM AckedSafe == Spec => []AckedIsDelivered
<1>1. IInv => AckedIsDelivered
  BY DEF IInv
<1>. QED
  BY <1>1, Invariance, PTL

(* Rejected rows and open conflicts go back to a refusal by the cloud. *)
THEOREM RejectedSafe == Spec => []RejectedWasRefused
<1>1. IInv => RejectedWasRefused
  BY DEF IInv
<1>. QED
  BY <1>1, Invariance, PTL

(* Coalescing never supersedes the youngest row of an entity. *)
THEOREM SupersededSafe == Spec => []SupersededHasSuccessor
<1>1. IInv => SupersededHasSuccessor
  BY DEF IInv
<1>. QED
  BY <1>1, Invariance, PTL

-----------------------------------------------------------------------------
(***************************************************************************)
(* No row is orphaned in-flight, provided that patches succeed and that    *)
(* the boot recovery reaches all rows.  Covered is what makes it           *)
(* inductive: while a push is under way every row of its batch is on the   *)
(* wire or answered, so that the answer settles the whole batch.           *)
(***************************************************************************)
Covered ==
    \A w \in Workers : pc[w] = "sent" =>
        \A r \in batch[w] : \/ \E o \in wire[w] : o.id = r.id
                            \/ \E a \in answer[w] : a.id = r.id

OrphanInv == IInv /\ Covered /\ NoOrphanInFlight

(* The rows of ids are not in-flight any more, no other row became so. *)
Cleared(ids) ==
    \A q \in outbox' : q.status = "in-flight" =>
        q.id \notin ids /\ \E r \in InFlight : r.id = q.id

LEMMA ClearedKeeps ==
    ASSUME NoOrphanInFlight, NEW ids, Cleared(ids),
           \A v \in Workers : Unsettled(v) \subseteq Unsettled(v)' \cup ids
    PROVE  NoOrphanInFlight'
  BY DEF NoOrphanInFlight, Cleared, InFlight

LEMMA StatusClears ==
    ASSUME TypeOK, NEW ids, NEW s \in Statuses, s # "in-flight",
           outbox' = Patched(ids, LAMBDA r : [r EXCEPT !.status = s])
    PROVE  Cleared(ids)
  BY SMT DEF TypeOK, Patched, Cleared, Rows, InFlight

LEMMA DelayClears ==
    ASSUME TypeOK, NEW ids,
           outbox' = Patched(ids, LAMBDA r : [r EXCEPT !.status = "pending", !.due = FALSE])
    PROVE  Cleared(ids)
<1>. SUFFICES ASSUME NEW q \in outbox', q.status = "in-flight"
     PROVE  q.id \notin ids /\ \E r \in InFlight : r.id = q.id
  BY DEF Cleared
<1>1. PICK r \in outbox :
        q = IF r.id \in ids THEN [r EXCEPT !.status = "pending", !.due = FALSE] ELSE r
  BY DEF Patched
<1>2. r \in Rows
  BY DEF TypeOK
<1>. QED
  BY <1>1, <1>2 DEF Rows, InFlight

LEMMA RetryClears ==
    ASSUME TypeOK, NEW w \in Workers, NEW ids, outbox' = markOutboxRetry(w, ids)
    PROVE  Cleared(ids)
<1>. SUFFICES ASSUME NEW q \in outbox', q.status = "in-flight"
     PROVE  q.id \notin ids /\ \E r \in InFlight : r.id = q.id
  BY DEF Cleared
<1>1. PICK r \in outbox :
        q = IF r.id \in ids
              THEN [r EXCEPT !.status = "pending", !.due = FALSE, !.attempts = OneMore(w, r.id)]
              ELSE r
  BY DEF markOutboxRetry, Patched
<1>2. r \in Rows
  BY DEF TypeOK
<1>. QED
  BY <1>1, <1>2 DEF Rows, InFlight

LEMMA OperatorClears ==
    ASSUME TypeOK, NEW ids,
           \/ outbox' = Patched(ids, LAMBDA q :
                          [q EXCEPT !.status = "pending", !.attempts = 0, !.due = TRUE])
           \/ outbox' = Patched(ids, LAMBDA q : [q EXCEPT !.due = TRUE])
    PROVE  Cleared({})
<1>. SUFFICES ASSUME NEW q \in outbox', q.status = "in-flight"
     PROVE  \E r \in InFlight : r.id = q.id
  BY DEF Cleared
<1>1. PICK r \in outbox :
        \/ q = [r EXCEPT !.status = "pending", !.attempts = 0, !.due = TRUE]
        \/ q = [r EXCEPT !.due = TRUE]
        \/ q = r
  BY DEF Patched
<1>2. r \in Rows
  BY DEF TypeOK
<1>. QED
  BY <1>1, <1>2 DEF Rows, InFlight

(* Steps that leave the push cycles alone and send no row. *)
LEMMA BystanderKeeps ==
    ASSUME Covered, NoOrphanInFlight, UNCHANGED workerVars, UNCHANGED wire, Cleared({})
    PROVE  Covered' /\ NoOrphanInFlight'
<1>1. Covered'
  BY DEF Covered, workerVars
<1>2. \A v \in Workers : Unsettled(v)' = Unsettled(v)
  BY DEF Unsettled, IdsOf, workerVars
<1>. QED
  BY <1>1, <1>2, ClearedKeeps

LEMMA HandlerLeavesNoOrphan ==
    ASSUME OrphanInv, HandlerStep
    PROVE  Covered' /\ NoOrphanInFlight'
<1>1. UNCHANGED workerVars /\ UNCHANGED wire
  BY DEF HandlerStep, Write, Remove, ReadBack, Record, RecordFails, RemoveRequeued, cloudVars
<1>2. Cleared({})
  <2>1. ASSUME NEW q \in outbox'
        PROVE  q \in outbox \/ q.status = "pending"
    <3>1. CASE outbox' \subseteq outbox
      BY <3>1
    <3>2. ASSUME NEW c \in calls, Record(c)
          PROVE  q \in outbox \/ q.status = "pending"
      BY <3>2 DEF Record
    <3>. QED
      BY <3>1, <3>2 DEF HandlerStep, Write, Remove, ReadBack, RecordFails, RemoveRequeued, tableVars
  <2>. QED
    BY <2>1 DEF Cleared, InFlight
<1>. QED
  BY <1>1, <1>2, BystanderKeeps DEF OrphanInv

LEMMA TableLeavesNoOrphan ==
    ASSUME OrphanInv, TableStep
    PROVE  Covered' /\ NoOrphanInFlight'
<1>. USE DEF OrphanInv, IInv
<1>1. ASSUME NEW r \in outbox, ReEnqueue(r) \/ Discard(r) \/ Retire(r)
      PROVE  Cleared({}) /\ UNCHANGED workerVars /\ UNCHANGED wire
  BY <1>1 DEF ReEnqueue, Discard, Retire, Cleared, InFlight, tableVars, cloudVars
<1>2. ASSUME NEW r \in outbox, OperatorRetry(r) \/ BackoffElapses(r)
      PROVE  Cleared({}) /\ UNCHANGED workerVars /\ UNCHANGED wire
  <2>1. UNCHANGED workerVars /\ UNCHANGED wire
    BY <1>2 DEF OperatorRetry, BackoffElapses, cloudVars
  <2>. QED
    BY <1>2, <2>1, OperatorClears DEF OperatorRetry, BackoffElapses
<1>. QED
  BY <1>1, <1>2, BystanderKeeps DEF TableStep

LEMMA CloudLeavesNoOrphan ==
    ASSUME OrphanInv, CloudStep
    PROVE  Covered' /\ NoOrphanInFlight'
<1>. USE DEF OrphanInv, IInv
<1>1. Cleared({})
  BY DEF CloudStep, CloudAccepts, CloudRefuses, LateArrives, LateIsLost, Cleared, InFlight,
     tableVars
<1>2. ASSUME NEW r \in late, LateArrives(r) \/ LateIsLost(r)
      PROVE  Covered' /\ NoOrphanInFlight'
  BY <1>1, <1>2, BystanderKeeps DEF LateArrives, LateIsLost
<1>3. ASSUME NEW w \in Workers, NEW r \in wire[w], NEW v \in Verdicts,
             wire' = [wire EXCEPT ![w] = @ \ {r}],
             answer' = [answer EXCEPT ![w] = @ \cup {[id |-> r.id, verdict |-> v]}],
             UNCHANGED <<pc, batch>>
      PROVE  Covered' /\ NoOrphanInFlight'
  <2>1. Covered'
    <3>1. \A u \in Workers : \A o \in wire[u] :
            \/ o \in wire'[u]
            \/ [id |-> o.id, verdict |-> v] \in answer'[u]
      BY <1>3 DEF TypeOK
    <3>2. \A u \in Workers : answer[u] \subseteq answer'[u]
      BY <1>3 DEF TypeOK
    <3>3. ASSUME NEW u \in Workers, pc'[u] = "sent", NEW q \in batch'[u]
          PROVE  \/ \E o \in wire'[u] : o.id = q.id
                 \/ \E a \in answer'[u] : a.id = q.id
      <4>1. \/ \E o \in wire[u] : o.id = q.id
            \/ \E a \in answer[u] : a.id = q.id
        BY <1>3, <3>3 DEF Covered
      <4>. QED
        BY <4>1, <3>1, <3>2
    <3>. QED
      BY <3>3 DEF Covered
  <2>2. \A u \in Workers : /\ pc'[u] = pc[u] /\ batch'[u] = batch[u]
                            /\ answer[u] \subseteq answer'[u]
    BY <1>3 DEF TypeOK
  <2>3. \A u \in Workers : /\ IdsOf(batch[u])' = IdsOf(batch[u])
                            /\ IdsOf(answer[u]) \subseteq IdsOf(answer[u])'
    BY <2>2 DEF IdsOf
  <2>4. \A u \in Workers : Unsettled(u) \subseteq Unsettled(u)'
    BY <2>2, <2>3 DEF Unsettled
  <2>. QED
    BY <1>1, <2>1, <2>4, ClearedKeeps
<1>. QED
  BY <1>2, <1>3 DEF CloudStep, CloudAccepts, CloudRefuses, Verdicts

(* Sending marks exactly the batch in-flight, and all of it is on the wire. *)
LEMMA SendLeavesNoOrphan ==
    ASSUME OrphanInv, ~May("patch"), NEW w \in Workers, Send(w)
    PROVE  Covered' /\ NoOrphanInFlight'
<1>. USE DEF OrphanInv, IInv
<1>1. outbox' = Patched(IdsOf(batch[w]), LAMBDA r : [r EXCEPT !.status = "in-flight"])
  BY DEF Send, Succeeding
<1>2. /\ pc[w] = "chosen" /\ pc' = [pc EXCEPT ![w] = "sent"]
      /\ wire' = [wire EXCEPT ![w] = OpsOf(batch[w])]
      /\ UNCHANGED <<batch, answer>>
  BY DEF Send
<1>3. Covered'
  <2>1. ASSUME NEW v \in Workers, v # w
        PROVE  pc'[v] = pc[v] /\ wire'[v] = wire[v]
    BY <1>2, <2>1 DEF TypeOK
  <2>2. ASSUME NEW r \in batch[w]
        PROVE  \E o \in wire'[w] : o.id = r.id
    <3>1. wire'[w] = OpsOf(batch[w])
      BY <1>2 DEF TypeOK
    <3>2. [id |-> r.id, ent |-> r.ent, ver |-> r.ver] \in OpsOf(batch[w])
      BY DEF OpsOf
    <3>. QED
      BY <3>1, <3>2
  <2>3. ASSUME NEW v \in Workers, pc'[v] = "sent", NEW r \in batch'[v]
        PROVE  \/ \E o \in wire'[v] : o.id = r.id
               \/ \E a \in answer'[v] : a.id = r.id
    BY <1>2, <2>1, <2>2, <2>3 DEF Covered
  <2>. QED
    BY <2>3 DEF Covered
<1>4. Unsettled(w)' = IdsOf(batch[w]) /\ Unsettled(w) = {}
  BY <1>2 DEF TypeOK, Unsettled, IdsOf
<1>5. ASSUME NEW v \in Workers, v # w
      PROVE  Unsettled(v)' = Unsettled(v)
  BY <1>2, <1>5 DEF TypeOK, Unsettled, IdsOf
<1>6. ASSUME NEW q \in outbox', q.status = "in-flight"
      PROVE  q.id \in IdsOf(batch[w]) \/ \E r \in InFlight : r.id = q.id
  <2>1. PICK r \in outbox :
          q = IF r.id \in IdsOf(batch[w]) THEN [r EXCEPT !.status = "in-flight"] ELSE r
    BY <1>1 DEF Patched
  <2>2. r \in Rows
    BY DEF TypeOK
  <2>. QED
    BY <1>6, <2>1, <2>2 DEF Rows, InFlight
<1>. QED
  BY <1>3, <1>4, <1>5, <1>6 DEF NoOrphanInFlight, InFlight

(* Steps after which w has fewer rows to settle: those it let go are        *)
(* cleared.                                                                 *)
LEMMA SettlingLeavesNoOrphan ==
    ASSUME TypeOK, Covered, NoOrphanInFlight, NEW w \in Workers,
           NEW rest \in SUBSET Answers, Proceed(w, rest),
           \A v \in Workers \ {w} : wire'[v] = wire[v],
           NEW ids, Cleared(ids), Unsettled(w) \subseteq IdsOf(rest) \cup ids
    PROVE  Covered' /\ NoOrphanInFlight'
<1>1. /\ answer' = [answer EXCEPT ![w] = rest]
      /\ \A v \in Workers \ {w} : pc'[v] = pc[v] /\ batch'[v] = batch[v]
      /\ rest = {} => pc'[w] = "idle"
      /\ rest # {} => pc'[w] = "settling"
  BY ProceedKeeps
<1>2. answer'[w] = rest /\ \A v \in Workers \ {w} : answer'[v] = answer[v]
  BY <1>1 DEF TypeOK
<1>3. Covered'
  BY <1>1, <1>2 DEF Covered
<1>4. Unsettled(w)' = IdsOf(rest)
  <2>1. CASE rest = {}
    BY <1>1, <2>1 DEF Unsettled, IdsOf
  <2>2. CASE rest # {}
    BY <1>1, <1>2, <2>2 DEF Unsettled, IdsOf
  <2>. QED
    BY <2>1, <2>2
<1>5. ASSUME NEW v \in Workers, v # w
      PROVE  Unsettled(v)' = Unsettled(v)
  BY <1>1, <1>2, <1>5 DEF Unsettled, IdsOf
<1>. QED
  BY <1>3, <1>4, <1>5, ClearedKeeps

LEMMA WorkerLeavesNoOrphan ==
    ASSUME OrphanInv, ~May("patch"), NEW w \in Workers, WorkerStep(w)
    PROVE  Covered' /\ NoOrphanInFlight'
<1>. USE DEF OrphanInv, IInv
<1>1. CASE Fetch(w)
  <2>1. /\ pc[w] = "idle" /\ pc' = [pc EXCEPT ![w] = "fetched"]
        /\ batch' = [batch EXCEPT ![w] = NextBatch]
        /\ UNCHANGED <<outbox, answer, wire>>
    BY <1>1 DEF Fetch, tableVars, cloudVars
  <2>2. Covered'
    BY <2>1 DEF TypeOK, Covered
  <2>3. \A v \in Workers : Unsettled(v)' = Unsettled(v)
    BY <2>1 DEF TypeOK, Unsettled, IdsOf
  <2>4. Cleared({})
    BY <2>1 DEF Cleared, InFlight
  <2>. QED
    BY <2>2, <2>3, <2>4, ClearedKeeps
<1>2. CASE Coalesce(w)
  <2>1. PICK blind \in {FALSE} \cup {May("siblings")} :
        /\ pc[w] = "fetched"
        /\ outbox' = Patched(IdsOf(Outdated(w, blind)),
                             LAMBDA r : [r EXCEPT !.status = "superseded"])
        /\ batch' = [batch EXCEPT ![w] = @ \ Outdated(w, blind)]
        /\ pc' = [pc EXCEPT ![w] =
                    IF batch[w] \subseteq Outdated(w, blind) THEN "idle" ELSE "chosen"]
        /\ UNCHANGED <<answer, wire>>
    BY <1>2 DEF Coalesce, Succeeding, cloudVars
  <2>2. Covered'
    BY <2>1 DEF TypeOK, Covered
  <2>3. \A v \in Workers : Unsettled(v)' = Unsettled(v)
    BY <2>1 DEF TypeOK, Unsettled, IdsOf
  <2>4. Cleared(IdsOf(Outdated(w, blind)))
    BY <2>1, StatusClears DEF Statuses
  <2>. QED
    BY <2>2, <2>3, <2>4, ClearedKeeps
<1>3. CASE Send(w)
  BY <1>3, SendLeavesNoOrphan
<1>4. CASE ReadAnswer(w)
  <2>. DEFINE acks == {a \in answer[w] : a.verdict = "accepted"}
              rest == answer[w] \ acks
  <2>1. outbox' = Patched(IdsOf(acks), LAMBDA r : [r EXCEPT !.status = "acked"])
    BY <1>4 DEF ReadAnswer, Succeeding
  <2>2. pc[w] = "sent" /\ wire[w] = {} /\ Proceed(w, rest) /\ UNCHANGED wire
    BY <1>4 DEF ReadAnswer, cloudVars
  <2>3. Cleared(IdsOf(acks))
    BY <2>1, StatusClears DEF Statuses
  <2>4. Unsettled(w) \subseteq IdsOf(rest) \cup IdsOf(acks)
    BY <2>2 DEF Unsettled, IdsOf, Covered
  <2>5. rest \in SUBSET Answers
    BY DEF TypeOK
  <2>. HIDE DEF acks, rest
  <2>. QED
    BY <2>2, <2>3, <2>4, <2>5, SettlingLeavesNoOrphan
<1>5. ASSUME NEW a \in answer[w], SettleRetry(w, a) \/ SettleTerminal(w, a)
      PROVE  Covered' /\ NoOrphanInFlight'
  <2>. DEFINE rest == answer[w] \ {a}
  <2>1. Cleared({a.id})
    <3>1. CASE SettleRetry(w, a)
      BY <3>1, RetryClears DEF SettleRetry, Succeeding
    <3>2. CASE SettleTerminal(w, a)
      <4>1. outbox' = Patched({a.id}, LAMBDA r : [r EXCEPT !.status = "rejected"])
        BY <3>2 DEF SettleTerminal, Succeeding
      <4>. QED
        BY <4>1, StatusClears DEF Statuses
    <3>. QED
      BY <1>5, <3>1, <3>2
  <2>2. pc[w] = "settling" /\ Proceed(w, rest) /\ UNCHANGED wire
    BY <1>5 DEF SettleRetry, SettleTerminal, Current, cloudVars
  <2>3. Unsettled(w) \subseteq IdsOf(rest) \cup {a.id}
    BY <2>2 DEF Unsettled, IdsOf
  <2>4. rest \in SUBSET Answers
    BY DEF TypeOK
  <2>. HIDE DEF rest
  <2>. QED
    BY <2>1, <2>2, <2>3, <2>4, SettlingLeavesNoOrphan
<1>6. ASSUME NEW a \in answer[w], Escalate(w, a)
      PROVE  Covered' /\ NoOrphanInFlight'
  <2>. DEFINE rest == (answer[w] \ {a}) \cup {[a EXCEPT !.verdict = "escalated"]}
  <2>1. pc[w] = "settling" /\ Proceed(w, rest) /\ UNCHANGED <<outbox, wire>>
    BY <1>6 DEF Escalate, Current, tableVars, cloudVars
  <2>2. a \in Answers /\ rest \in SUBSET Answers
    BY DEF TypeOK, Answers, Verdicts
  <2>3. Unsettled(w) \subseteq IdsOf(rest) \cup {}
    <3>1. [a EXCEPT !.verdict = "escalated"].id = a.id
      BY <2>2 DEF Answers
    <3>. QED
      BY <2>1, <3>1 DEF Unsettled, IdsOf
  <2>4. Cleared({})
    BY <2>1 DEF Cleared, InFlight
  <2>. HIDE DEF rest
  <2>. QED
    BY <2>1, <2>2, <2>3, <2>4, SettlingLeavesNoOrphan
<1>7. CASE PushFails(w) \/ PushRateLimited(w)
  <2>1. Cleared(IdsOf(batch[w]))
    <3>1. CASE PushFails(w)
      BY <3>1, RetryClears DEF PushFails, Succeeding
    <3>2. CASE PushRateLimited(w)
      <4>1. outbox' = Patched(IdsOf(batch[w]),
                              LAMBDA r : [r EXCEPT !.status = "pending", !.due = FALSE])
        BY <3>2 DEF PushRateLimited, Succeeding
      <4>. QED
        BY <4>1, DelayClears
    <3>. QED
      BY <1>7, <3>1, <3>2
  <2>2. pc[w] = "sent" /\ Proceed(w, {}) /\ wire' = [wire EXCEPT ![w] = {}]
    BY <1>7 DEF PushFails, PushRateLimited, GiveUp
  <2>3. \A v \in Workers \ {w} : wire'[v] = wire[v]
    BY <2>2 DEF TypeOK
  <2>4. Unsettled(w) \subseteq IdsOf({}) \cup IdsOf(batch[w])
    BY <2>2 DEF Unsettled
  <2>. QED
    BY <2>1, <2>2, <2>3, <2>4, SettlingLeavesNoOrphan
<1>. QED
  BY <1>1, <1>2, <1>3, <1>4, <1>5, <1>6, <1>7 DEF WorkerStep

(* A boot whose recovery reaches all rows leaves none in-flight. *)
LEMMA RestartLeavesNoOrphan ==
    ASSUME OrphanInv, ~May("patch"), MaxId <= RecoverLimit, Restart
    PROVE  Covered' /\ NoOrphanInFlight'
<1>. USE DEF OrphanInv, IInv
<1>1. Recovered = {IdsOf(InFlight)}
  <2>1. IdsOf(InFlight) \subseteq 1..MaxId
    BY DEF TypeOK, IdsOf, InFlight, Rows, Ids
  <2>2. IsFiniteSet(1..MaxId) /\ Cardinality(1..MaxId) = MaxId
    BY FS_Interval, BoundsAssumption
  <2>3. Cardinality(IdsOf(InFlight)) <= MaxId /\ Cardinality(IdsOf(InFlight)) \in Nat
    BY <2>1, <2>2, FS_Subset, FS_CardinalityType
  <2>4. Cardinality(IdsOf(InFlight)) <= RecoverLimit
    BY <2>3, BoundsAssumption
  <2>. QED
    BY <2>4 DEF Recovered
<1>2. outbox' = Patched(IdsOf(InFlight), LAMBDA r : [r EXCEPT !.status = "pending"])
  BY <1>1 DEF Restart, Succeeding
<1>3. Cleared(IdsOf(InFlight))
  BY <1>2, StatusClears DEF Statuses
<1>4. \A q \in outbox' : q.status # "in-flight"
  BY <1>3 DEF Cleared, IdsOf
<1>5. pc' = [w \in Workers |-> "idle"]
  BY DEF Restart
<1>. QED
  BY <1>4, <1>5 DEF Covered, NoOrphanInFlight, InFlight

LEMMA OrphanInductive ==
    ASSUME ~May("patch"), MaxId <= RecoverLimit
    PROVE  OrphanInv /\ [Next]_vars => OrphanInv'
<1>. SUFFICES ASSUME OrphanInv, [Next]_vars
     PROVE  Covered' /\ NoOrphanInFlight'
  BY Inductive DEF OrphanInv
<1>1. CASE UNCHANGED vars
  <2>1. Cleared({}) /\ UNCHANGED workerVars /\ UNCHANGED wire
    BY <1>1 DEF vars, Cleared, InFlight, workerVars
  <2>. QED
    BY <2>1, BystanderKeeps DEF OrphanInv
<1>. QED
  BY <1>1, HandlerLeavesNoOrphan, TableLeavesNoOrphan, WorkerLeavesNoOrphan,
     CloudLeavesNoOrphan, RestartLeavesNoOrphan DEF Next

(* No row waits for the next start of the process, provided that patches   *)
(* succeed and the boot recovery reaches every in-flight row.              *)
THEOREM NoOrphanSafe ==
    ASSUME ~May("patch"), MaxId <= RecoverLimit
    PROVE  Spec => []NoOrphanInFlight
<1>1. Init => OrphanInv
  BY Initially DEF OrphanInv, Init, Covered, NoOrphanInFlight, InFlight
<1>2. OrphanInv => NoOrphanInFlight
  BY DEF OrphanInv
<1>. QED
  BY <1>1, <1>2, OrphanInductive, PTL DEF Spec

=============================================================================
