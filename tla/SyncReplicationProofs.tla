------------------------ MODULE SyncReplicationProofs -----------------------
(***************************************************************************)
(* What the push path keeps as long as handlers of one record and push     *)
(* cycles do not overlap (one cycle, as the mutex has it) and nothing but  *)
(* the network, the status patches, restarts between handlers and the      *)
(* operator's retries disturb it: coalescing drops no state, the youngest  *)
(* row of a record carries what the cloud lacks, and the cloud follows the *)
(* edge as RecordSync says.                                                *)
(***************************************************************************)
EXTENDS SyncOutboxProofs

Orderly ==
    /\ \A v, w \in Workers : v = w
    /\ \A d \in {"overlap", "recorder", "siblings", "late", "crash", "discard",
                 "retention"} : ~May(d)

Recording(e) == \E c \in calls : c.ent = e /\ c.kind = "mutation"

(***************************************************************************)
(* One handler per record; what it has read is the current state, and the  *)
(* row it is to replace is an older one.                                   *)
(***************************************************************************)
Handlers ==
    /\ \A c, d \in calls : c.ent = d.ent => c = d
    /\ \A c \in calls :
        /\ c.stage = "read" => c.ver = record[c.ent].ver
        /\ c.op = "remove" => record[c.ent].ver # 0 /\ ~record[c.ent].live
        /\ c.kind = "mutation" =>
              c.stage # "created" /\ (c.stage = "open" => record[c.ent].live)
        /\ c.kind = "requeue" =>
              /\ c.key < nextId
              /\ \A r \in outbox : r.id = c.key => r.ent = c.ent
        /\ c.stage = "created" => c.key < latest[c.ent]

(***************************************************************************)
(* The rows of a record are ordered by their versions, the youngest one is *)
(* never missing and carries the current state unless a handler is about   *)
(* to record a younger one; a removal is final.                            *)
(***************************************************************************)
Ordered ==
    /\ \A q, r \in outbox : q.id = r.id => q.ent = r.ent /\ q.ver = r.ver
    /\ \A q, r \in outbox : q.ent = r.ent /\ q.id < r.id => q.ver <= r.ver
    /\ \A r \in outbox :
        /\ r.ver <= record[r.ent].ver
        /\ r.op = "remove" => /\ record[r.ent].ver # 0 /\ ~record[r.ent].live
                              /\ r.ver = record[r.ent].ver
        /\ r.id = latest[r.ent] => r.ver = record[r.ent].ver \/ Recording(r.ent)
    /\ \A e \in Entities :
        IF latest[e] = 0 THEN record[e].ver = 0 \/ Recording(e)
        ELSE \E r \in outbox : r.ent = e /\ r.id = latest[e]

(***************************************************************************)
(* A batch agrees with the rows it was read from and, once coalesced, has  *)
(* one row of a record.                                                    *)
(***************************************************************************)
Batches ==
    \A w \in Workers :
        /\ \A q, r \in batch[w] : q.id = r.id => q.ent = r.ent /\ q.ver = r.ver
        /\ \A r \in batch[w] :
            /\ r.ver <= record[r.ent].ver
            /\ r.id <= latest[r.ent]
            /\ \A s \in outbox : s.id = r.id => s.ent = r.ent /\ s.ver = r.ver
            /\ \A s \in outbox : s.ent = r.ent /\ r.id < s.id => r.ver <= s.ver
        /\ pc[w] \in {"chosen", "sent"} =>
              \A q, r \in batch[w] : q.ent = r.ent => q.id = r.id

(***************************************************************************)
(* The cloud is never ahead of the youngest row, nor of an op that is      *)
(* still to be applied, and never behind an op it has accepted.            *)
(***************************************************************************)
Behind ==
    /\ late = {}
    /\ \A e \in Entities : cloud[e] <= record[e].ver
    /\ \A r \in outbox : r.id = latest[r.ent] => cloud[r.ent] <= r.ver
    /\ \A w \in Workers :
        /\ pc[w] = "chosen" => \A r \in batch[w] : cloud[r.ent] <= r.ver
        /\ \A o \in wire[w] : cloud[o.ent] <= o.ver
        /\ \A a \in answer[w] : a.verdict = "accepted" =>
              \A r \in outbox : r.id = a.id => cloud[r.ent] >= r.ver
    /\ \A r \in outbox : r.status = "acked" => cloud[r.ent] >= r.ver

OrderInv == IInv /\ Handlers /\ Ordered /\ Batches /\ Behind

-----------------------------------------------------------------------------
(* Steps that leave the rows of the table and their contents as they are;  *)
(* only rows of ids may have become acked.                                 *)

Same(q, r) == q.id = r.id /\ q.ent = r.ent /\ q.op = r.op /\ q.ver = r.ver

Contents ==
    /\ \A q \in outbox' : q \in Rows /\ \E r \in outbox : Same(q, r)
    /\ \A r \in outbox : \E q \in outbox' : Same(q, r)

AckedOf(ids) ==
    \A q \in outbox' : q.status = "acked" =>
        q.id \in ids \/ \E r \in outbox : r.status = "acked" /\ Same(q, r)

\* Every patch of the table keeps its contents.
LEMMA StatusKeepsContents ==
    ASSUME TypeOK, NEW ids, NEW s \in Statuses,
           outbox' = Patched(ids, LAMBDA r : [r EXCEPT !.status = s])
    PROVE  /\ Contents
           /\ s = "acked" => AckedOf(ids)
           /\ s # "acked" => AckedOf({})
<1>1. outbox' = {IF r.id \in ids THEN [r EXCEPT !.status = s] ELSE r : r \in outbox}
  BY DEF Patched
<1>2. \A r \in outbox : /\ r \in Rows /\ [r EXCEPT !.status = s] \in Rows
                        /\ Same([r EXCEPT !.status = s], r)
                        /\ [r EXCEPT !.status = s].status = s
  BY SMT DEF TypeOK, Rows, Same
<1>3. \A q \in outbox' : \E r \in outbox :
        q \in Rows /\ Same(q, r) /\ (q.status = r.status \/ (q.status = s /\ r.id \in ids))
  BY <1>1, <1>2 DEF Same
<1>4. \A r \in outbox : \E q \in outbox' : Same(q, r)
  BY <1>1, <1>2 DEF Same
<1>. QED
  BY <1>3, <1>4 DEF Contents, AckedOf, Same
LEMMA DelayKeepsContents ==
    ASSUME TypeOK, NEW ids,
           outbox' = Patched(ids, LAMBDA r : [r EXCEPT !.status = "pending", !.due = FALSE])
    PROVE  Contents /\ AckedOf({})
<1>. DEFINE P(r) == [r EXCEPT !.status = "pending", !.due = FALSE]
<1>1. outbox' = {IF r.id \in ids THEN P(r) ELSE r : r \in outbox}
  BY DEF Patched
<1>2. ASSUME NEW r \in outbox
      PROVE  r \in Rows /\ (r.id \in ids => P(r) \in Rows)
  BY Zenon DEF TypeOK, Rows, Statuses
<1>3. ASSUME NEW r \in outbox, r.id \in ids
      PROVE  Same(P(r), r) /\ (P(r).status = r.status \/ P(r).status # "acked")
  BY <1>2, <1>3 DEF Rows, Same
<1>. HIDE DEF P
<1>4. \A q \in outbox' : \E r \in outbox :
        q \in Rows /\ Same(q, r) /\ (q.status = r.status \/ q.status # "acked")
  BY <1>1, <1>2, <1>3 DEF Same
<1>5. \A r \in outbox : \E q \in outbox' : Same(q, r)
  BY <1>1, <1>3 DEF Same
<1>6. AckedOf({})
  BY <1>4 DEF AckedOf
<1>. QED
  BY <1>4, <1>5, <1>6 DEF Contents

LEMMA OperatorKeepsContents ==
    ASSUME TypeOK, NEW ids,
           outbox' = Patched(ids, LAMBDA q :
              [q EXCEPT !.status = "pending", !.attempts = 0, !.due = TRUE])
    PROVE  Contents /\ AckedOf({})
<1>. DEFINE P(r) == [r EXCEPT !.status = "pending", !.attempts = 0, !.due = TRUE]
<1>1. outbox' = {IF r.id \in ids THEN P(r) ELSE r : r \in outbox}
  BY DEF Patched
<1>2. ASSUME NEW r \in outbox
      PROVE  r \in Rows /\ (r.id \in ids => P(r) \in Rows)
  <2>1. 0 \in 0..MaxAttempts
    BY BoundsAssumption
  <2>. QED
    BY <2>1, Zenon DEF TypeOK, Rows, Statuses
<1>3. ASSUME NEW r \in outbox, r.id \in ids
      PROVE  Same(P(r), r) /\ (P(r).status = r.status \/ P(r).status # "acked")
  BY <1>2, <1>3 DEF Rows, Same
<1>. HIDE DEF P
<1>4. \A q \in outbox' : \E r \in outbox :
        q \in Rows /\ Same(q, r) /\ (q.status = r.status \/ q.status # "acked")
  BY <1>1, <1>2, <1>3 DEF Same
<1>5. \A r \in outbox : \E q \in outbox' : Same(q, r)
  BY <1>1, <1>3 DEF Same
<1>6. AckedOf({})
  BY <1>4 DEF AckedOf
<1>. QED
  BY <1>4, <1>5, <1>6 DEF Contents

LEMMA RetryKeepsContents ==
    ASSUME TypeOK, NEW ids, NEW w \in Workers, ids \subseteq IdsOf(batch[w]),
           outbox' = markOutboxRetry(w, ids)
    PROVE  Contents /\ AckedOf({})
<1>. DEFINE P(r) == [r EXCEPT !.status = "pending", !.due = FALSE,
                              !.attempts = OneMore(w, r.id)]
<1>1. outbox' = {IF r.id \in ids THEN P(r) ELSE r : r \in outbox}
  BY DEF Patched, markOutboxRetry
<1>2. ASSUME NEW r \in outbox
      PROVE  r \in Rows /\ (r.id \in ids => P(r) \in Rows)
  <2>1. r.id \in ids => OneMore(w, r.id) \in 0..MaxAttempts
    BY OneMoreInRange
  <2>. QED
    BY <2>1, Zenon DEF TypeOK, Rows, Statuses
<1>3. ASSUME NEW r \in outbox, r.id \in ids
      PROVE  Same(P(r), r) /\ (P(r).status = r.status \/ P(r).status # "acked")
  BY <1>2, <1>3 DEF Rows, Same
<1>. HIDE DEF P
<1>4. \A q \in outbox' : \E r \in outbox :
        q \in Rows /\ Same(q, r) /\ (q.status = r.status \/ q.status # "acked")
  BY <1>1, <1>2, <1>3 DEF Same
<1>5. \A r \in outbox : \E q \in outbox' : Same(q, r)
  BY <1>1, <1>3 DEF Same
<1>6. AckedOf({})
  BY <1>4 DEF AckedOf
<1>. QED
  BY <1>4, <1>5, <1>6 DEF Contents

LEMMA BackoffKeepsContents ==
    ASSUME TypeOK, NEW ids, outbox' = Patched(ids, LAMBDA q : [q EXCEPT !.due = TRUE])
    PROVE  Contents /\ AckedOf({})
<1>. DEFINE P(r) == [r EXCEPT !.due = TRUE]
<1>1. outbox' = {IF r.id \in ids THEN P(r) ELSE r : r \in outbox}
  BY DEF Patched
<1>2. ASSUME NEW r \in outbox
      PROVE  r \in Rows /\ (r.id \in ids => P(r) \in Rows)
  BY Zenon DEF TypeOK, Rows, Statuses
<1>3. ASSUME NEW r \in outbox, r.id \in ids
      PROVE  Same(P(r), r) /\ (P(r).status = r.status \/ P(r).status # "acked")
  BY <1>2, <1>3 DEF Rows, Same
<1>. HIDE DEF P
<1>4. \A q \in outbox' : \E r \in outbox :
        q \in Rows /\ Same(q, r) /\ (q.status = r.status \/ q.status # "acked")
  BY <1>1, <1>2, <1>3 DEF Same
<1>5. \A r \in outbox : \E q \in outbox' : Same(q, r)
  BY <1>1, <1>3 DEF Same
<1>6. AckedOf({})
  BY <1>4 DEF AckedOf
<1>. QED
  BY <1>4, <1>5, <1>6 DEF Contents

LEMMA SameTable ==
    ASSUME TypeOK, outbox' = outbox
    PROVE  Contents /\ AckedOf({})
  BY DEF TypeOK, Contents, AckedOf, Same

(* What is said of the rows alone survives as long as no handler moves. *)
LEMMA TableStays ==
    ASSUME OrderInv, Contents, UNCHANGED <<record, calls, nextId, latest>>
    PROVE  Handlers' /\ Ordered'
<1>. USE DEF OrderInv
<1>1. Handlers'
  BY DEF Handlers, Contents, Same
<1>2. \A e : Recording(e)' <=> Recording(e)
  BY DEF Recording
<1>3. /\ \A q, r \in outbox' : q.id = r.id => q.ent = r.ent /\ q.ver = r.ver
      /\ \A q, r \in outbox' : q.ent = r.ent /\ q.id < r.id => q.ver <= r.ver
  BY DEF Ordered, Contents, Same
<1>4. ASSUME NEW q \in outbox'
      PROVE  /\ q.ver <= record'[q.ent].ver
             /\ q.op = "remove" => /\ record'[q.ent].ver # 0 /\ ~record'[q.ent].live
                                   /\ q.ver = record'[q.ent].ver
             /\ q.id = latest'[q.ent] => q.ver = record'[q.ent].ver \/ Recording(q.ent)'
  <2>1. PICK r \in outbox : Same(q, r)
    BY DEF Contents
  <2>. QED
    BY <1>2, <2>1 DEF Ordered, Same
<1>5. ASSUME NEW e \in Entities
      PROVE  IF latest'[e] = 0 THEN record'[e].ver = 0 \/ Recording(e)'
             ELSE \E r \in outbox' : r.ent = e /\ r.id = latest'[e]
  BY <1>2 DEF Ordered, Contents, Same
<1>. QED
  BY <1>1, <1>3, <1>4, <1>5 DEF Ordered

(* Steps in which no push cycle gains a row, an op or a verdict. *)
LEMMA PushesStay ==
    ASSUME OrderInv, Contents, NEW ids, AckedOf(ids),
           \A r \in outbox : r.id \in ids => cloud[r.ent] >= r.ver,
           UNCHANGED <<record, latest, cloud, late>>,
           \A v \in Workers :
              /\ batch'[v] \subseteq batch[v]
              /\ pc'[v] \in {"chosen", "sent"} => pc[v] \in {"chosen", "sent"}
              /\ pc'[v] = "chosen" => pc[v] = "chosen"
              /\ wire'[v] \subseteq wire[v]
              /\ \A a \in answer'[v] : a.verdict = "accepted" => a \in answer[v]
    PROVE  Batches' /\ Behind'
<1>. USE DEF OrderInv
<1>1. \A s \in outbox' : \E r \in outbox : Same(s, r)
  BY DEF Contents
<1>2. Batches'
  BY <1>1 DEF Batches, Same
<1>3. \A r \in outbox' : r.id = latest'[r.ent] => cloud'[r.ent] <= r.ver
  BY <1>1 DEF Behind, Same
<1>4. \A r \in outbox' : r.status = "acked" => cloud'[r.ent] >= r.ver
  BY <1>1 DEF Behind, Same, AckedOf
<1>5. ASSUME NEW w \in Workers
      PROVE  /\ pc'[w] = "chosen" => \A r \in batch'[w] : cloud'[r.ent] <= r.ver
             /\ \A o \in wire'[w] : cloud'[o.ent] <= o.ver
             /\ \A a \in answer'[w] : a.verdict = "accepted" =>
                   \A r \in outbox' : r.id = a.id => cloud'[r.ent] >= r.ver
  BY <1>1 DEF Behind, Same
<1>. QED
  BY <1>2, <1>3, <1>4, <1>5 DEF Behind
-----------------------------------------------------------------------------
(* Handlers. *)

\* A user changes or removes a record nobody else is at work on.
LEMMA ChangeKeeps ==
    ASSUME OrderInv, Orderly, NEW e \in Entities, Write(e) \/ Remove(e)
    PROVE  /\ Handlers' /\ Ordered' /\ Batches' /\ Behind'
           /\ Sync!Change(e)
<1>. USE DEF OrderInv
<1>1. PICK c \in Calls :
        /\ calls' = calls \cup {c}
        /\ c.kind = "mutation" /\ c.ent = e /\ c.stage # "created"
        /\ c.stage = "open" => record'[e].live
        /\ c.stage = "read" => c.ver = record'[e].ver
        /\ c.op = "remove" => ~record'[e].live
  <2>1. record[e].ver + 1 \in Versions /\ record[e].ver + 1 \in Nat /\ 0 \in Versions
    BY BoundsAssumption DEF Write, Remove, IInv, TypeOK, Versions
  <2>2. CASE Write(e)
    <3>. DEFINE d == [kind |-> "mutation", ent |-> e, op |-> "write",
                      key |-> record[e].ver + 1, ver |-> 0, stage |-> "open"]
    <3>1. d \in Calls
      BY <2>1 DEF Calls, Ops
    <3>2. calls' = calls \cup {d} /\ record'[e].live
      BY <2>2 DEF Write, IInv, TypeOK
    <3>. QED
      BY <3>1, <3>2
  <2>3. CASE Remove(e)
    <3>. DEFINE d == [kind |-> "mutation", ent |-> e, op |-> "remove",
                      key |-> record[e].ver + 1, ver |-> record[e].ver + 1, stage |-> "read"]
    <3>1. d \in Calls
      BY <2>1 DEF Calls, Ops
    <3>2. calls' = calls \cup {d} /\ ~record'[e].live /\ record'[e].ver = record[e].ver + 1
      BY <2>3 DEF Remove, IInv, TypeOK
    <3>. QED
      BY <3>1, <3>2
  <2>. QED
    BY <2>2, <2>3
<1>2. /\ \A d \in calls : d.ent # e
      /\ record[e].live \/ record[e].ver = 0
      /\ UNCHANGED <<outbox, nextId, latest, pc, batch, answer, wire, late, cloud>>
  BY DEF Orderly, Write, Remove, MayStart, Busy, tableVars, workerVars, cloudVars
<1>3. /\ record'[e].ver = record[e].ver + 1
      /\ \A f \in Entities : f # e => record'[f] = record[f]
      /\ \A f \in Entities : record[f].ver \in Nat /\ record'[f].ver >= record[f].ver
  BY SMT, BoundsAssumption DEF Write, Remove, IInv, TypeOK, Versions
<1>4. \A r \in outbox : r.ent \in Entities /\ r.ver \in Nat /\ (r.ent = e => r.op # "remove")
  BY <1>2, BoundsAssumption DEF IInv, TypeOK, Rows, Ordered, Versions
<1>5. \A d \in calls : d.ent \in Entities
  BY DEF IInv, TypeOK, Calls
<1>6. \A w \in Workers : \A r \in batch[w] : r.ent \in Entities /\ r.ver \in Nat
  BY BoundsAssumption DEF IInv, TypeOK, Rows, Versions
<1>7. /\ \A f : Recording(f) => Recording(f)'
      /\ Recording(e)'
  BY <1>1 DEF Recording
<1>8. Handlers'
  BY <1>1, <1>2, <1>3, <1>5 DEF Handlers
<1>9. Ordered'
  <2>1. ASSUME NEW r \in outbox
        PROVE  /\ r.ver <= record'[r.ent].ver
               /\ r.op = "remove" => /\ record'[r.ent].ver # 0 /\ ~record'[r.ent].live
                                     /\ r.ver = record'[r.ent].ver
               /\ r.id = latest[r.ent] => r.ver = record'[r.ent].ver \/ Recording(r.ent)'
    <3>1. CASE r.ent = e
      BY <1>3, <1>4, <1>7, <3>1 DEF Ordered
    <3>2. CASE r.ent # e
      BY <1>3, <1>4, <1>7, <3>2 DEF Ordered
    <3>. QED
      BY <3>1, <3>2
  <2>2. ASSUME NEW f \in Entities
        PROVE  IF latest[f] = 0 THEN record'[f].ver = 0 \/ Recording(f)'
               ELSE \E r \in outbox : r.ent = f /\ r.id = latest[f]
    BY <1>3, <1>7 DEF Ordered
  <2>. QED
    BY <1>2, <2>1, <2>2 DEF Ordered
<1>10. Batches'
  BY <1>2, <1>3, <1>6 DEF Batches
<1>11. Behind'
  BY <1>2, <1>3 DEF Behind, IInv, TypeOK, Versions
<1>12. Sync!Change(e)
  BY <1>2, <1>3 DEF Sync!Change, IInv, TypeOK
<1>. QED
  BY <1>8, <1>9, <1>10, <1>11, <1>12

\* The record is read back; the state stays the current one while the handler
\* is at work.
LEMMA ReadBackKeeps ==
    ASSUME OrderInv, NEW c \in calls, ReadBack(c)
    PROVE  Handlers' /\ Ordered' /\ Batches' /\ Behind'
<1>. USE DEF OrderInv
<1>1. /\ UNCHANGED <<record, outbox, nextId, latest, pc, batch, answer, wire, late, cloud>>
      /\ c \in Calls
  BY DEF ReadBack, tableVars, workerVars, cloudVars, IInv, TypeOK
<1>2. CASE record[c.ent].live
  <2>. DEFINE d == [c EXCEPT !.ver = record[c.ent].ver, !.stage = "read"]
  <2>1. calls' = (calls \ {c}) \cup {d}
    BY <1>2 DEF ReadBack
  <2>2. /\ d.kind = c.kind /\ d.ent = c.ent /\ d.op = c.op /\ d.key = c.key
        /\ d.ver = record[c.ent].ver /\ d.stage = "read"
    BY <1>1 DEF Calls
  <2>. HIDE DEF d
  <2>3. \A f : Recording(f)' <=> Recording(f)
    BY <2>1, <2>2 DEF Recording
  <2>4. Handlers'
    BY <1>1, <2>1, <2>2 DEF Handlers
  <2>5. Ordered'
    BY <1>1, <2>3 DEF Ordered
  <2>. QED
    BY <1>1, <2>4, <2>5 DEF Batches, Behind
<1>3. CASE ~record[c.ent].live
  <2>1. calls' = calls \ {c}
    BY <1>3 DEF ReadBack
  <2>2. c.kind # "mutation"
    BY <1>3 DEF ReadBack, Handlers
  <2>3. \A f : Recording(f)' <=> Recording(f)
    BY <2>1, <2>2 DEF Recording
  <2>4. Handlers'
    BY <1>1, <2>1 DEF Handlers
  <2>5. Ordered'
    BY <1>1, <2>3 DEF Ordered
  <2>. QED
    BY <1>1, <2>4, <2>5 DEF Batches, Behind
<1>. QED
  BY <1>2, <1>3

\* The row of a handler becomes the youngest and carries the current state.
LEMMA RecordKeeps ==
    ASSUME OrderInv, NEW c \in calls, Record(c)
    PROVE  Handlers' /\ Ordered' /\ Batches' /\ Behind'
<1>. USE DEF OrderInv
<1>. DEFINE n == [id |-> nextId, ent |-> c.ent, op |-> c.op, ver |-> c.ver,
                  status |-> "pending", attempts |-> 0, due |-> TRUE]
<1>1. /\ c.stage = "read" /\ nextId <= MaxId /\ c \in Calls
      /\ outbox' = outbox \cup {n} /\ nextId' = nextId + 1
      /\ latest' = [latest EXCEPT ![c.ent] = nextId]
      /\ UNCHANGED <<record, pc, batch, answer, wire, late, cloud>>
  BY DEF Record, workerVars, cloudVars, IInv, TypeOK
<1>2. n.id = nextId /\ n.ent = c.ent /\ n.op = c.op /\ n.ver = c.ver /\ n.status = "pending"
  OBVIOUS
<1>. HIDE DEF n
<1>3. c.ent \in Entities /\ c.ver = record[c.ent].ver /\ nextId \in Nat /\ nextId # 0
  BY <1>1, BoundsAssumption DEF Calls, Handlers, IInv, TypeOK
<1>4. \A r \in outbox : /\ r.ent \in Entities /\ r.id \in Nat /\ r.ver \in Nat
                        /\ r.id < nextId
  BY BoundsAssumption DEF IInv, TypeOK, Rows, Ids, Versions, Identity
<1>5. latest'[c.ent] = nextId /\ \A f \in Entities : f # c.ent => latest'[f] = latest[f]
  BY <1>1, <1>3 DEF IInv, TypeOK
<1>6. \A f \in Entities : /\ latest[f] <= latest'[f]
                           /\ latest[f] \in Nat /\ latest'[f] \in Nat
  BY <1>3, <1>5, <1>4 DEF IInv, TypeOK, Ordered
<1>7. \A f \in Entities : Recording(f) => f = c.ent \/ Recording(f)'
  BY <1>1 DEF Record, Recording, Handlers
<1>8. calls' = (calls \ {c}) \cup IF c.kind = "requeue" THEN {[c EXCEPT !.stage = "created"]} ELSE {}
  BY DEF Record
<1>9. Handlers'
  <2>. DEFINE d == [c EXCEPT !.stage = "created"]
  <2>1. /\ d.kind = c.kind /\ d.ent = c.ent /\ d.op = c.op /\ d.key = c.key
        /\ d.ver = c.ver /\ d.stage = "created"
    BY <1>1 DEF Calls
  <2>. HIDE DEF d
  <2>2. \A b \in calls' : \E a \in calls :
          /\ b.kind = a.kind /\ b.ent = a.ent /\ b.op = a.op /\ b.key = a.key /\ b.ver = a.ver
          /\ IF a = c THEN b.kind = "requeue" /\ b.stage = "created" /\ b = d ELSE b = a
    BY <1>8, <2>1 DEF d
  <2>3. \A a \in calls : a.ent \in Entities /\ a.key \in Nat
    BY DEF IInv, TypeOK, Calls
  <2>4. \A a, b \in calls' : a.ent = b.ent => a = b
    BY <2>2 DEF Handlers
  <2>5. ASSUME NEW b \in calls'
        PROVE  /\ b.stage = "read" => b.ver = record'[b.ent].ver
               /\ b.op = "remove" => record'[b.ent].ver # 0 /\ ~record'[b.ent].live
               /\ b.kind = "mutation" =>
                     b.stage # "created" /\ (b.stage = "open" => record'[b.ent].live)
    BY <1>1, <2>2, <2>5 DEF Handlers
  <2>6. ASSUME NEW b \in calls'
        PROVE  /\ b.kind = "requeue" =>
                     /\ b.key < nextId'
                     /\ \A r \in outbox' : r.id = b.key => r.ent = b.ent
               /\ b.stage = "created" => b.key < latest'[b.ent]
    <3>1. PICK a \in calls :
            /\ b.kind = a.kind /\ b.ent = a.ent /\ b.op = a.op /\ b.key = a.key /\ b.ver = a.ver
            /\ IF a = c THEN b.kind = "requeue" /\ b.stage = "created" /\ b = d ELSE b = a
      BY <2>2, <2>6
    <3>2. b.kind = "requeue" => /\ a.key < nextId
                                /\ \A r \in outbox : r.id = a.key => r.ent = a.ent
      BY <3>1 DEF Handlers
    <3>3. b.kind = "requeue" => /\ b.key < nextId'
                                /\ \A r \in outbox' : r.id = b.key => r.ent = b.ent
      BY <1>1, <1>2, <1>3, <2>3, <3>1, <3>2
    <3>4. CASE a = c
      BY <1>5, <3>1, <3>2, <3>3, <3>4
    <3>5. CASE a # c
      <4>1. a.ent # c.ent
        BY <3>5 DEF Handlers
      <4>. QED
        BY <1>5, <2>3, <3>1, <3>3, <3>5, <4>1 DEF Handlers
    <3>. QED
      BY <3>4, <3>5
  <2>. QED
    BY <2>4, <2>5, <2>6 DEF Handlers
<1>10. Ordered'
  <2>1. \A q, r \in outbox' : q.id = r.id => q.ent = r.ent /\ q.ver = r.ver
    BY <1>1, <1>2, <1>3, <1>4 DEF Ordered
  <2>2. \A r \in outbox : r.ver <= record[r.ent].ver
    BY DEF Ordered
  <2>3. \A q, r \in outbox' : q.ent = r.ent /\ q.id < r.id => q.ver <= r.ver
    BY <1>1, <1>2, <1>3, <1>4, <2>2 DEF Ordered
  <2>4. ASSUME NEW r \in outbox'
        PROVE  /\ r.ver <= record'[r.ent].ver
               /\ r.op = "remove" => /\ record'[r.ent].ver # 0 /\ ~record'[r.ent].live
                                     /\ r.ver = record'[r.ent].ver
    <3>1. record[c.ent].ver \in Nat
      BY <1>3, BoundsAssumption DEF IInv, TypeOK, Versions
    <3>2. c.op = "remove" => record[c.ent].ver # 0 /\ ~record[c.ent].live
      BY DEF Handlers
    <3>. QED
      BY <1>1, <1>2, <1>3, <2>4, <3>1, <3>2 DEF Ordered
  <2>5. ASSUME NEW r \in outbox', r.id = latest'[r.ent]
        PROVE  r.ver = record'[r.ent].ver \/ Recording(r.ent)'
    <3>1. CASE r = n
      BY <1>1, <1>2, <1>3, <3>1
    <3>2. CASE r # n
      <4>1. r \in outbox /\ r.ent # c.ent
        BY <1>1, <1>4, <1>5, <2>5, <3>2
      <4>. QED
        BY <1>1, <1>4, <1>5, <1>7, <2>5, <4>1 DEF Ordered
    <3>. QED
      BY <3>1, <3>2
  <2>6. ASSUME NEW f \in Entities
        PROVE  IF latest'[f] = 0 THEN record'[f].ver = 0 \/ Recording(f)'
               ELSE \E r \in outbox' : r.ent = f /\ r.id = latest'[f]
    <3>1. CASE f = c.ent
      BY <1>1, <1>2, <1>3, <1>5, <3>1
    <3>2. CASE f # c.ent
      BY <1>1, <1>5, <1>7, <3>2 DEF Ordered
    <3>. QED
      BY <3>1, <3>2
  <2>. QED
    BY <2>1, <2>3, <2>4, <2>5, <2>6 DEF Ordered
<1>11. Batches'
  <2>1. \A w \in Workers : \A r \in batch[w] :
          /\ r.ent \in Entities /\ r.id \in Nat /\ r.ver \in Nat /\ r.id < nextId
          /\ r.ver <= record[r.ent].ver
    BY BoundsAssumption DEF IInv, TypeOK, Rows, Ids, Versions, Identity, Batches
  <2>2. ASSUME NEW w \in Workers, NEW r \in batch[w], NEW s \in outbox'
        PROVE  /\ s.id = r.id => s.ent = r.ent /\ s.ver = r.ver
               /\ s.ent = r.ent /\ r.id < s.id => r.ver <= s.ver
    BY <1>1, <1>2, <1>3, <2>1, <2>2 DEF Batches
  <2>3. \A w \in Workers : \A r \in batch[w] : r.id <= latest'[r.ent]
    BY <1>3, <1>6, <2>1 DEF Batches
  <2>. QED
    BY <1>1, <2>2, <2>3 DEF Batches
<1>12. Behind'
  <2>1. cloud[c.ent] <= c.ver
    BY <1>3 DEF Behind
  <2>2. \A r \in outbox' : r.id = latest'[r.ent] => cloud[r.ent] <= r.ver
    BY <1>1, <1>2, <1>4, <1>5, <2>1 DEF Behind
  <2>3. ASSUME NEW w \in Workers, NEW a \in answer[w]
        PROVE  a.id < nextId
    <3>1. PICK r \in batch[w] : r.id = a.id
      BY DEF IInv, Rounds, IdsOf
    <3>. QED
      BY <3>1 DEF IInv, Identity
  <2>4. ASSUME NEW w \in Workers, NEW a \in answer[w], a.verdict = "accepted",
               NEW r \in outbox', r.id = a.id
        PROVE  cloud[r.ent] >= r.ver
    BY <1>1, <1>2, <1>3, <2>3, <2>4 DEF Behind
  <2>5. \A r \in outbox' : r.status = "acked" => cloud[r.ent] >= r.ver
    BY <1>1, <1>2 DEF Behind
  <2>. QED
    BY <1>1, <2>2, <2>4, <2>5 DEF Behind
<1>. QED
  BY <1>9, <1>10, <1>11, <1>12

\* The row that is removed is not the youngest one.
LEMMA RemoveRequeuedKeeps ==
    ASSUME OrderInv, NEW c \in calls, RemoveRequeued(c)
    PROVE  Handlers' /\ Ordered' /\ Batches' /\ Behind'
<1>. USE DEF OrderInv
<1>1. /\ c.stage = "created" /\ c \in Calls
      /\ outbox' = {r \in outbox : r.id # c.key} /\ calls' = calls \ {c}
      /\ UNCHANGED <<record, nextId, latest, pc, batch, answer, wire, late, cloud>>
  BY DEF RemoveRequeued, workerVars, cloudVars, IInv, TypeOK
<1>2. c.key < latest[c.ent] /\ c.key \in Nat /\ latest[c.ent] \in Nat /\ c.kind = "requeue"
  BY <1>1 DEF Handlers, IInv, TypeOK, Calls
<1>3. \A r \in outbox : r.id = c.key => r.ent = c.ent
  BY <1>2 DEF Handlers
<1>4. \A r \in outbox : r.id = latest[r.ent] => r \in outbox'
  BY <1>1, <1>2, <1>3
<1>5. \A f : Recording(f)' <=> Recording(f)
  BY <1>1, <1>2 DEF Recording
<1>6. Handlers'
  BY <1>1 DEF Handlers
<1>7. Ordered'
  <2>1. outbox' \subseteq outbox
    BY <1>1
  <2>2. ASSUME NEW e \in Entities
        PROVE  IF latest[e] = 0 THEN record[e].ver = 0 \/ Recording(e)
               ELSE \E r \in outbox' : r.ent = e /\ r.id = latest[e]
    BY <1>4 DEF Ordered
  <2>. QED
    BY <1>1, <1>5, <2>1, <2>2 DEF Ordered
<1>8. Batches' /\ Behind'
  BY <1>1 DEF Batches, Behind
<1>. QED
  BY <1>6, <1>7, <1>8

\* The operator asks for a refused row to be recorded again.
LEMMA ReEnqueueKeeps ==
    ASSUME OrderInv, Orderly, NEW r \in outbox, ReEnqueue(r)
    PROVE  Handlers' /\ Ordered' /\ Batches' /\ Behind'
<1>. USE DEF OrderInv
<1>. DEFINE c == [kind |-> "requeue", ent |-> r.ent, op |-> r.op, key |-> r.id,
                  ver |-> IF r.op = "remove" THEN r.ver ELSE 0,
                  stage |-> IF r.op = "remove" THEN "read" ELSE "open"]
<1>1. /\ calls' = calls \cup {c} /\ \A d \in calls : d.ent # r.ent
      /\ UNCHANGED <<record, outbox, nextId, latest, pc, batch, answer, wire, late, cloud>>
  BY DEF ReEnqueue, MayStart, Busy, Orderly, tableVars, workerVars, cloudVars
<1>2. /\ c.kind = "requeue" /\ c.ent = r.ent /\ c.op = r.op /\ c.key = r.id
      /\ c.stage = "read" => c.ver = r.ver /\ c.op = "remove"
      /\ c.stage # "created"
  OBVIOUS
<1>. HIDE DEF c
<1>3. \A f : Recording(f)' <=> Recording(f)
  BY <1>1, <1>2 DEF Recording
<1>4. r.id < nextId /\ \A q \in outbox : q.id = r.id => q.ent = r.ent
  BY DEF IInv, Identity
<1>5. r.op = "remove" => /\ record[r.ent].ver # 0 /\ ~record[r.ent].live
                         /\ r.ver = record[r.ent].ver
  BY DEF Ordered
<1>6. Handlers'
  BY <1>1, <1>2, <1>4, <1>5 DEF Handlers
<1>7. Ordered'
  BY <1>1, <1>3 DEF Ordered
<1>. QED
  BY <1>1, <1>6, <1>7 DEF Batches, Behind

-----------------------------------------------------------------------------
(* The push cycle. *)

LEMMA FetchStays ==
    ASSUME OrderInv, NEW w \in Workers, Fetch(w)
    PROVE  Handlers' /\ Ordered' /\ Batches' /\ Behind'
<1>. USE DEF OrderInv
<1>1. NextBatch \subseteq outbox
  BY DEF NextBatch, Due
<1>2. /\ pc' = [pc EXCEPT ![w] = "fetched"] /\ batch' = [batch EXCEPT ![w] = NextBatch]
      /\ UNCHANGED <<record, calls, outbox, nextId, latest, answer, wire, late, cloud>>
  BY DEF Fetch, edgeVars, tableVars, cloudVars
<1>3. /\ batch'[w] = NextBatch /\ pc'[w] = "fetched"
      /\ \A v \in Workers \ {w} : batch'[v] = batch[v] /\ pc'[v] = pc[v]
  BY <1>2 DEF IInv, TypeOK
<1>4. Handlers' /\ Ordered'
  BY <1>2, SameTable, TableStays DEF IInv
<1>5. \A r \in outbox : /\ r.ver <= record[r.ent].ver /\ r.id <= latest[r.ent]
  BY DEF Ordered, IInv, Identity
<1>6. Batches'
  <2>1. ASSUME NEW v \in Workers, v # w
        PROVE  /\ batch'[v] = batch[v] /\ pc'[v] = pc[v]
    BY <1>3, <2>1
  <2>2. \A q, r \in NextBatch : q.id = r.id => q.ent = r.ent /\ q.ver = r.ver
    BY <1>1 DEF Ordered
  <2>3. ASSUME NEW r \in NextBatch
        PROVE  /\ \A s \in outbox : s.id = r.id => s.ent = r.ent /\ s.ver = r.ver
               /\ \A s \in outbox : s.ent = r.ent /\ r.id < s.id => r.ver <= s.ver
    BY <1>1 DEF Ordered
  <2>. QED
    BY <1>1, <1>2, <1>3, <1>5, <2>1, <2>2, <2>3 DEF Batches
<1>7. Behind'
  BY <1>2, <1>3 DEF Behind
<1>. QED
  BY <1>4, <1>6, <1>7

(* With one push cycle at a time its batch is the only one. *)
LEMMA SingleBatch ==
    ASSUME Orderly, NEW w \in Workers,
           \A q, r \in batch'[w] : q.id = r.id => q.ent = r.ent /\ q.ver = r.ver,
           \A r \in batch'[w] :
              /\ r.ver <= record'[r.ent].ver
              /\ r.id <= latest'[r.ent]
              /\ \A s \in outbox' : s.id = r.id => s.ent = r.ent /\ s.ver = r.ver
              /\ \A s \in outbox' : s.ent = r.ent /\ r.id < s.id => r.ver <= s.ver,
           pc'[w] \in {"chosen", "sent"} =>
              \A q, r \in batch'[w] : q.ent = r.ent => q.id = r.id
    PROVE  Batches'
<1>1. \A v \in Workers : v = w
  BY DEF Orderly
<1>. QED
  BY <1>1, Zenon DEF Batches

\* What survives the coalescing is the youngest row of its record.
LEMMA CoalesceStays ==
    ASSUME OrderInv, Orderly, NEW w \in Workers, Coalesce(w)
    PROVE  Handlers' /\ Ordered' /\ Batches' /\ Behind'
<1>. USE DEF OrderInv
<1>. DEFINE old == {r \in batch[w] : HasSuccessor(r)}
<1>1. /\ \E ok : outbox' = Patched(ok, LAMBDA r : [r EXCEPT !.status = "superseded"])
      /\ batch' = [batch EXCEPT ![w] = @ \ old]
      /\ pc' = [pc EXCEPT ![w] = IF batch[w] \subseteq old THEN "idle" ELSE "chosen"]
      /\ UNCHANGED <<record, calls, nextId, latest, answer, wire, late, cloud>>
  BY DEF Coalesce, Outdated, Orderly, edgeVars, cloudVars
<1>2. Contents /\ AckedOf({})
  BY <1>1, StatusKeepsContents DEF Statuses, IInv
<1>3. Handlers' /\ Ordered'
  BY <1>1, <1>2, TableStays
<1>4. ASSUME NEW r \in batch[w], r \notin old
      PROVE  r.id = latest[r.ent] /\ cloud[r.ent] <= r.ver
  <2>1. r.ent \in Entities /\ r.id \in Nat /\ r.id # 0
    BY DEF IInv, TypeOK, Rows, Ids
  <2>2. latest[r.ent] \in Nat /\ r.id <= latest[r.ent]
    BY <2>1 DEF IInv, TypeOK, Batches
  <2>3. PICK s \in outbox : s.ent = r.ent /\ s.id = latest[r.ent]
    BY <2>1, <2>2 DEF Ordered
  <2>4. ~(s.id > r.id)
    BY <1>4, <2>3 DEF HasSuccessor
  <2>5. r.id = latest[r.ent]
    BY <2>1, <2>2, <2>3, <2>4
  <2>6. s.ver = r.ver
    BY <2>3, <2>5 DEF Batches
  <2>. QED
    BY <2>3, <2>5, <2>6 DEF Behind
<1>. HIDE DEF old
<1>5. /\ batch'[w] = batch[w] \ old /\ \A v \in Workers : v = w
  BY <1>1 DEF IInv, TypeOK, Orderly
<1>6. \A s \in outbox' : \E r \in outbox : Same(s, r)
  BY <1>2 DEF Contents
<1>7. Batches'
  <2>1. ASSUME NEW r \in batch'[w]
        PROVE  /\ r \in batch[w] /\ r.ver <= record[r.ent].ver /\ r.id <= latest[r.ent]
               /\ \A s \in outbox' : s.id = r.id => s.ent = r.ent /\ s.ver = r.ver
               /\ \A s \in outbox' : s.ent = r.ent /\ r.id < s.id => r.ver <= s.ver
    BY <1>5, <1>6, <2>1 DEF Batches, Same
  <2>2. \A q, r \in batch'[w] : q.id = r.id => q.ent = r.ent /\ q.ver = r.ver
    BY <2>1 DEF Batches
  <2>3. \A q, r \in batch'[w] : q.ent = r.ent => q.id = r.id
    BY <1>4, <1>5
  <2>4. record' = record /\ latest' = latest
    BY <1>1
  <2>. QED
    BY <2>1, <2>2, <2>3, <2>4, SingleBatch
<1>8. Behind'
  <2>1. wire[w] = {} /\ answer[w] = {}
    BY DEF IInv, Rounds, Coalesce
  <2>2. \A r \in outbox' : r.id = latest'[r.ent] => cloud'[r.ent] <= r.ver
    BY <1>1, <1>6 DEF Behind, Same
  <2>3. \A r \in outbox' : r.status = "acked" => cloud'[r.ent] >= r.ver
    BY <1>1, <1>2 DEF Behind, Same, AckedOf
  <2>. QED
    BY <1>1, <1>4, <1>5, <2>1, <2>2, <2>3 DEF Behind
<1>. QED
  BY <1>3, <1>7, <1>8

LEMMA SendStays ==
    ASSUME OrderInv, Orderly, NEW w \in Workers, Send(w)
    PROVE  Handlers' /\ Ordered' /\ Batches' /\ Behind'
<1>. USE DEF OrderInv
<1>1. /\ pc[w] = "chosen" /\ wire' = [wire EXCEPT ![w] = OpsOf(batch[w])]
      /\ pc' = [pc EXCEPT ![w] = "sent"]
      /\ \E ok : outbox' = Patched(ok, LAMBDA r : [r EXCEPT !.status = "in-flight"])
      /\ UNCHANGED <<record, calls, nextId, latest, batch, answer, late, cloud>>
  BY DEF Send, edgeVars
<1>2. Contents /\ AckedOf({})
  BY <1>1, StatusKeepsContents DEF Statuses, IInv
<1>3. Handlers' /\ Ordered'
  BY <1>1, <1>2, TableStays
<1>4. \A s \in outbox' : \E r \in outbox : Same(s, r)
  BY <1>2 DEF Contents
<1>5. wire'[w] = OpsOf(batch[w]) /\ \A v \in Workers : v = w
  BY <1>1 DEF IInv, TypeOK, Orderly
<1>6. Batches'
  <2>1. ASSUME NEW r \in batch[w]
        PROVE  /\ r.ver <= record[r.ent].ver /\ r.id <= latest[r.ent]
               /\ \A s \in outbox' : s.id = r.id => s.ent = r.ent /\ s.ver = r.ver
               /\ \A s \in outbox' : s.ent = r.ent /\ r.id < s.id => r.ver <= s.ver
    BY <1>4, <2>1 DEF Batches, Same
  <2>2. /\ \A q, r \in batch[w] : q.id = r.id => q.ent = r.ent /\ q.ver = r.ver
        /\ \A q, r \in batch[w] : q.ent = r.ent => q.id = r.id
    BY <1>1 DEF Batches
  <2>3. record' = record /\ latest' = latest /\ batch' = batch
    BY <1>1
  <2>. QED
    BY <2>1, <2>2, <2>3, SingleBatch
<1>7. \A o \in wire'[w] : cloud[o.ent] <= o.ver
  BY <1>1, <1>5 DEF OpsOf, Behind
<1>8. Behind'
  <2>1. \A r \in outbox' : r.id = latest'[r.ent] => cloud'[r.ent] <= r.ver
    BY <1>1, <1>4 DEF Behind, Same
  <2>2. \A r \in outbox' : r.status = "acked" => cloud'[r.ent] >= r.ver
    BY <1>1, <1>2 DEF Behind, Same, AckedOf
  <2>3. \A a \in answer'[w] : a.verdict = "accepted" =>
           \A r \in outbox' : r.id = a.id => cloud'[r.ent] >= r.ver
    BY <1>1, <1>4 DEF Behind, Same
  <2>4. pc'[w] = "sent"
    BY <1>1 DEF IInv, TypeOK
  <2>. QED
    BY <1>1, <1>5, <1>7, <2>1, <2>2, <2>3, <2>4 DEF Behind
<1>. QED
  BY <1>3, <1>6, <1>8

-----------------------------------------------------------------------------
(* The cloud. *)

\* An op that is applied moves the cloud forward, never beyond the edge.
LEMMA CloudAcceptsKeeps ==
    ASSUME OrderInv, Orderly, NEW w \in Workers, NEW o \in wire[w], CloudAccepts(w, o)
    PROVE  /\ Handlers' /\ Ordered' /\ Batches' /\ Behind'
           /\ Sync!Deliver(o.ent) \/ cloud' = cloud
<1>. USE DEF OrderInv
<1>1. /\ wire' = [wire EXCEPT ![w] = @ \ {o}]
      /\ cloud' = [cloud EXCEPT ![o.ent] = o.ver]
      /\ answer' = [answer EXCEPT ![w] = @ \cup {[id |-> o.id, verdict |-> "accepted"]}]
      /\ UNCHANGED <<record, calls, outbox, nextId, latest, pc, batch, late>>
  BY DEF CloudAccepts, edgeVars, tableVars
<1>2. /\ wire'[w] = wire[w] \ {o}
      /\ answer'[w] = answer[w] \cup {[id |-> o.id, verdict |-> "accepted"]}
      /\ \A v \in Workers : v = w
  BY <1>1 DEF IInv, TypeOK, Orderly
<1>3. pc[w] = "sent" /\ wire[w] \subseteq OpsOf(batch[w])
  BY DEF IInv, Rounds
<1>4. PICK b \in batch[w] : o = [id |-> b.id, ent |-> b.ent, ver |-> b.ver]
  BY <1>3 DEF OpsOf
<1>5. o.id = b.id /\ o.ent = b.ent /\ o.ver = b.ver
  BY <1>4
<1>6. b.ent \in Entities /\ b.ver \in Nat /\ b.id \in Nat
  BY BoundsAssumption DEF IInv, TypeOK, Rows, Versions, Ids
<1>7. /\ cloud[o.ent] <= o.ver /\ o.ver <= record[o.ent].ver
      /\ \A e \in Entities : cloud[e] \in Nat /\ record[e].ver \in Nat
  BY <1>5, BoundsAssumption DEF Behind, Batches, IInv, TypeOK, Versions
<1>8. /\ cloud'[o.ent] = o.ver
      /\ \A e \in Entities : e # o.ent => cloud'[e] = cloud[e]
  BY <1>1, <1>5, <1>6 DEF IInv, TypeOK
<1>9. Handlers' /\ Ordered'
  BY <1>1, SameTable, TableStays DEF IInv
<1>10. Batches'
  BY <1>1 DEF Batches
<1>11. \A e \in Entities : cloud[e] <= cloud'[e] /\ cloud'[e] <= record[e].ver
  BY <1>5, <1>6, <1>7, <1>8 DEF Behind
<1>12. \A s \in outbox : s.ent \in Entities /\ s.ver \in Nat /\ s.id \in Nat
  BY BoundsAssumption DEF IInv, TypeOK, Rows, Versions, Ids
<1>13. Behind'
  <2>1. ASSUME NEW s \in outbox, s.id = latest[s.ent]
        PROVE  cloud'[s.ent] <= s.ver
    <3>1. CASE s.ent = o.ent
      <4>1. b.id <= s.id
        BY <1>5, <2>1, <3>1 DEF Batches
      <4>2. b.ver <= s.ver
        BY <1>5, <1>6, <1>12, <3>1, <4>1 DEF Batches
      <4>. QED
        BY <1>5, <1>8, <3>1, <4>2
    <3>2. CASE s.ent # o.ent
      BY <1>8, <1>12, <2>1, <3>2 DEF Behind
    <3>. QED
      BY <3>1, <3>2
  <2>2. ASSUME NEW p \in wire[w], p # o
        PROVE  cloud'[p.ent] <= p.ver
    <3>1. PICK c \in batch[w] : p = [id |-> c.id, ent |-> c.ent, ver |-> c.ver]
      BY <1>3 DEF OpsOf
    <3>2. p.ent = c.ent /\ c.ent \in Entities
      BY <3>1 DEF IInv, TypeOK, Rows
    <3>3. c.ent # b.ent
      BY <1>3, <1>4, <2>2, <3>1 DEF Batches
    <3>. QED
      BY <1>5, <1>8, <3>2, <3>3 DEF Behind
  <2>3. ASSUME NEW a \in answer'[w], a.verdict = "accepted", NEW s \in outbox, s.id = a.id
        PROVE  cloud'[s.ent] >= s.ver
    <3>1. CASE a \in answer[w]
      <4>1. cloud[s.ent] >= s.ver
        BY <2>3, <3>1 DEF Behind
      <4>. QED
        BY <1>11, <1>12, <1>7, <1>8, <4>1, <1>5, <1>6
    <3>2. CASE a = [id |-> o.id, verdict |-> "accepted"]
      <4>1. s.ent = b.ent /\ s.ver = b.ver
        BY <1>5, <2>3, <3>2 DEF Batches
      <4>. QED
        BY <1>5, <1>6, <1>8, <4>1
    <3>. QED
      BY <1>2, <2>3, <3>1, <3>2
  <2>4. ASSUME NEW s \in outbox, s.status = "acked"
        PROVE  cloud'[s.ent] >= s.ver
    <3>1. cloud[s.ent] >= s.ver
      BY <2>4 DEF Behind
    <3>. QED
      BY <1>5, <1>6, <1>7, <1>8, <1>11, <1>12, <3>1
  <2>5. late' = {} /\ pc'[w] # "chosen"
    BY <1>1, <1>3 DEF Behind
  <2>. QED
    BY <1>1, <1>2, <1>11, <2>1, <2>2, <2>3, <2>4, <2>5 DEF Behind
<1>14. Sync!Deliver(o.ent) \/ cloud' = cloud
  <2>1. CASE cloud[o.ent] = o.ver
    BY <1>1, <2>1 DEF IInv, TypeOK
  <2>2. CASE cloud[o.ent] # o.ver
    <3>1. o.ver \in (cloud[o.ent] + 1)..record[o.ent].ver
      BY <1>5, <1>6, <1>7, <2>2
    <3>2. [e \in Entities |-> record[e].ver][o.ent] = record[o.ent].ver
      BY <1>5, <1>6
    <3>. QED
      BY <1>1, <3>1, <3>2 DEF Sync!Deliver
  <2>. QED
    BY <2>1, <2>2
<1>. QED
  BY <1>9, <1>10, <1>13, <1>14

\* A refusal changes nothing but the answer.
LEMMA CloudRefusesKeeps ==
    ASSUME OrderInv, NEW w \in Workers, NEW o \in wire[w],
           NEW v \in {"transient", "conflict", "terminal"}, CloudRefuses(w, o, v)
    PROVE  Handlers' /\ Ordered' /\ Batches' /\ Behind' /\ cloud' = cloud
<1>. USE DEF OrderInv
<1>1. /\ wire' = [wire EXCEPT ![w] = @ \ {o}]
      /\ answer' = [answer EXCEPT ![w] = @ \cup {[id |-> o.id, verdict |-> v]}]
      /\ UNCHANGED <<record, calls, outbox, nextId, latest, pc, batch, late, cloud>>
  BY DEF CloudRefuses, edgeVars, tableVars
<1>2. ASSUME NEW u \in Workers
      PROVE  /\ wire'[u] \subseteq wire[u]
             /\ \A a \in answer'[u] : a.verdict = "accepted" => a \in answer[u]
  BY <1>1 DEF IInv, TypeOK
<1>3. Contents /\ AckedOf({})
  BY <1>1, SameTable DEF IInv
<1>. QED
  BY <1>1, <1>2, <1>3, TableStays, PushesStay

-----------------------------------------------------------------------------
(* The answer of a push is settled, or the push ends without one. *)

\* Settling takes verdicts away and never adds an accepted one.
LEMMA SettlingKeepsPushes ==
    ASSUME OrderInv, NEW w \in Workers, NEW rest,
           pc[w] \in {"sent", "settling"}, Proceed(w, rest),
           \A a \in rest : a.verdict = "accepted" => a \in answer[w]
    PROVE  \A v \in Workers :
              /\ batch'[v] \subseteq batch[v]
              /\ pc'[v] \in {"chosen", "sent"} => pc[v] \in {"chosen", "sent"}
              /\ pc'[v] = "chosen" => pc[v] = "chosen"
              /\ \A a \in answer'[v] : a.verdict = "accepted" => a \in answer[v]
  BY DEF OrderInv, Proceed, IInv, TypeOK

LEMMA ReadAnswerStays ==
    ASSUME OrderInv, NEW w \in Workers, ReadAnswer(w)
    PROVE  Handlers' /\ Ordered' /\ Batches' /\ Behind' /\ cloud' = cloud
<1>. USE DEF OrderInv
<1>. DEFINE acks == {a \in answer[w] : a.verdict = "accepted"}
<1>1. PICK ok \in Succeeding(IdsOf(acks)) :
        /\ pc[w] = "sent"
        /\ outbox' = Patched(ok, LAMBDA r : [r EXCEPT !.status = "acked"])
        /\ Proceed(w, answer[w] \ acks)
        /\ UNCHANGED <<record, calls, nextId, latest, wire, late, cloud>>
  BY DEF ReadAnswer, edgeVars, cloudVars
<1>2. Contents /\ AckedOf(ok)
  BY <1>1, StatusKeepsContents DEF Statuses, IInv
<1>3. \A r \in outbox : r.id \in ok => cloud[r.ent] >= r.ver
  BY <1>1 DEF Succeeding, IdsOf, Behind
<1>. HIDE DEF acks
<1>4. \A v \in Workers :
              /\ batch'[v] \subseteq batch[v]
              /\ pc'[v] \in {"chosen", "sent"} => pc[v] \in {"chosen", "sent"}
              /\ pc'[v] = "chosen" => pc[v] = "chosen"
              /\ \A a \in answer'[v] : a.verdict = "accepted" => a \in answer[v]
  BY <1>1, SettlingKeepsPushes
<1>. QED
  BY <1>1, <1>2, <1>3, <1>4, TableStays, PushesStay

\* A rejection is settled or escalated: no verdict is added but "escalated".
LEMMA RejectionStays ==
    ASSUME OrderInv, NEW w \in Workers, NEW a \in answer[w],
           SettleRetry(w, a) \/ Escalate(w, a) \/ SettleTerminal(w, a)
    PROVE  Handlers' /\ Ordered' /\ Batches' /\ Behind' /\ cloud' = cloud
<1>. USE DEF OrderInv
<1>1. PICK rest :
        /\ pc[w] = "settling" /\ Proceed(w, rest)
        /\ \A b \in rest : b.verdict = "accepted" => b \in answer[w]
  <2>1. [a EXCEPT !.verdict = "escalated"].verdict # "accepted"
    BY DEF IInv, TypeOK, Answers
  <2>2. CASE SettleRetry(w, a) \/ SettleTerminal(w, a)
    <3>1. pc[w] = "settling" /\ Proceed(w, answer[w] \ {a})
      BY <2>2 DEF SettleRetry, SettleTerminal, Current
    <3>. QED
      BY <3>1
  <2>3. CASE Escalate(w, a)
    <3>1. /\ pc[w] = "settling"
          /\ Proceed(w, (answer[w] \ {a}) \cup {[a EXCEPT !.verdict = "escalated"]})
      BY <2>3 DEF Escalate, Current
    <3>2. \A b \in (answer[w] \ {a}) \cup {[a EXCEPT !.verdict = "escalated"]} :
            b.verdict = "accepted" => b \in answer[w]
      BY <2>1, Zenon
    <3>. QED
      BY <3>1, <3>2, Zenon
  <2>. QED
    BY <2>2, <2>3
<1>2. Contents /\ AckedOf({})
  <2>1. CASE SettleRetry(w, a)
    <3>1. PICK ok \in Succeeding({a.id}) : outbox' = markOutboxRetry(w, ok)
      BY <2>1 DEF SettleRetry
    <3>2. ok \subseteq IdsOf(batch[w])
      BY <3>1 DEF Succeeding, IInv, Rounds
    <3>. QED
      BY <3>1, <3>2, RetryKeepsContents DEF IInv
  <2>2. CASE Escalate(w, a)
    BY <2>2, SameTable DEF Escalate, tableVars, IInv
  <2>3. CASE SettleTerminal(w, a)
    <3>1. PICK ok \in Succeeding({a.id}) :
            outbox' = Patched(ok, LAMBDA r : [r EXCEPT !.status = "rejected"])
      BY <2>3 DEF SettleTerminal
    <3>. QED
      BY <3>1, StatusKeepsContents DEF Statuses, IInv
  <2>. QED
    BY <2>1, <2>2, <2>3
<1>3. UNCHANGED <<record, calls, nextId, latest, wire, late, cloud>>
  BY DEF SettleRetry, Escalate, SettleTerminal, edgeVars, tableVars, cloudVars
<1>4. \A v \in Workers :
              /\ batch'[v] \subseteq batch[v]
              /\ pc'[v] \in {"chosen", "sent"} => pc[v] \in {"chosen", "sent"}
              /\ pc'[v] = "chosen" => pc[v] = "chosen"
              /\ \A b \in answer'[v] : b.verdict = "accepted" => b \in answer[v]
  BY <1>1, SettlingKeepsPushes
<1>. QED
  BY <1>2, <1>3, <1>4, TableStays, PushesStay

\* A push that ends without an answer gives its rows back; its ops are gone.
LEMMA PushEndsStays ==
    ASSUME OrderInv, Orderly, NEW w \in Workers, PushFails(w) \/ PushRateLimited(w)
    PROVE  Handlers' /\ Ordered' /\ Batches' /\ Behind' /\ cloud' = cloud
<1>. USE DEF OrderInv
<1>1. /\ pc[w] = "sent" /\ Proceed(w, {}) /\ wire' = [wire EXCEPT ![w] = {}]
      /\ UNCHANGED <<record, calls, nextId, latest, late, cloud>>
  BY DEF PushFails, PushRateLimited, GiveUp, Orderly, edgeVars
<1>2. Contents /\ AckedOf({})
  <2>1. CASE PushFails(w)
    <3>1. PICK ok \in Succeeding(IdsOf(batch[w])) : outbox' = markOutboxRetry(w, ok)
      BY <2>1 DEF PushFails
    <3>2. ok \subseteq IdsOf(batch[w])
      BY <3>1 DEF Succeeding
    <3>. QED
      BY <3>1, <3>2, RetryKeepsContents DEF IInv
  <2>2. CASE PushRateLimited(w)
    <3>1. PICK ok \in Succeeding(IdsOf(batch[w])) :
            outbox' = Patched(ok, LAMBDA r : [r EXCEPT !.status = "pending", !.due = FALSE])
      BY <2>2 DEF PushRateLimited
    <3>. QED
      BY <3>1, DelayKeepsContents DEF IInv
  <2>. QED
    BY <2>1, <2>2
<1>3. \A v \in Workers :
              /\ batch'[v] \subseteq batch[v]
              /\ pc'[v] \in {"chosen", "sent"} => pc[v] \in {"chosen", "sent"}
              /\ pc'[v] = "chosen" => pc[v] = "chosen"
              /\ \A b \in answer'[v] : b.verdict = "accepted" => b \in answer[v]
  BY <1>1, SettlingKeepsPushes
<1>4. \A v \in Workers : wire'[v] \subseteq wire[v]
  BY <1>1 DEF IInv, TypeOK
<1>. QED
  BY <1>1, <1>2, <1>3, <1>4, TableStays, PushesStay

-----------------------------------------------------------------------------
(* The operator's retry, the end of a backoff and a restart of the process. *)

LEMMA TableStepStays ==
    ASSUME OrderInv, NEW r \in outbox, OperatorRetry(r) \/ BackoffElapses(r)
    PROVE  Handlers' /\ Ordered' /\ Batches' /\ Behind' /\ cloud' = cloud
<1>. USE DEF OrderInv
<1>1. Contents /\ AckedOf({})
  BY OperatorKeepsContents, BackoffKeepsContents DEF OperatorRetry, BackoffElapses, IInv
<1>2. UNCHANGED <<record, calls, nextId, latest, pc, batch, answer, wire, late, cloud>>
  BY DEF OperatorRetry, BackoffElapses, edgeVars, workerVars, cloudVars
<1>. QED
  BY <1>1, <1>2, TableStays, PushesStay

LEMMA RestartStays ==
    ASSUME OrderInv, Orderly, Restart
    PROVE  Handlers' /\ Ordered' /\ Batches' /\ Behind' /\ cloud' = cloud
<1>. USE DEF OrderInv
<1>1. PICK ok : outbox' = Patched(ok, LAMBDA r : [r EXCEPT !.status = "pending"])
  BY DEF Restart
<1>2. Contents /\ AckedOf({})
  BY <1>1, StatusKeepsContents DEF Statuses, IInv
<1>3. UNCHANGED <<record, calls, nextId, latest, late, cloud>>
  BY DEF Restart, Orderly
<1>4. \A v \in Workers : pc'[v] = "idle" /\ batch'[v] = {} /\ wire'[v] = {} /\ answer'[v] = {}
  BY DEF Restart
<1>. QED
  BY <1>2, <1>3, <1>4, TableStays, PushesStay

-----------------------------------------------------------------------------
(* Every step keeps the invariant, and changes a record, delivers one or   *)
(* leaves edge and cloud as they are.                                      *)

EdgeOf == [e \in Entities |-> record[e].ver]

LEMMA OrderlyStep ==
    ASSUME OrderInv, Orderly, [Next]_vars
    PROVE  OrderInv' /\ [Sync!Next]_<<EdgeOf, cloud>>
<1>1. IInv'
  BY Inductive DEF OrderInv
<1>. SUFFICES /\ Handlers' /\ Ordered' /\ Batches' /\ Behind'
              /\ [Sync!Next]_<<EdgeOf, cloud>>
  BY <1>1 DEF OrderInv
<1>2. CASE \E e \in Entities : Write(e) \/ Remove(e)
  BY <1>2, ChangeKeeps DEF Sync!Next
<1>3. CASE \E c \in calls : ReadBack(c) \/ Record(c) \/ RecordFails(c) \/ RemoveRequeued(c)
  <2>1. UNCHANGED <<EdgeOf, cloud>>
    BY <1>3 DEF ReadBack, Record, RecordFails, RemoveRequeued, EdgeOf, cloudVars
  <2>2. \A c \in calls : ~RecordFails(c)
    BY DEF Orderly, RecordFails
  <2>. QED
    BY <1>3, <2>1, <2>2, ReadBackKeeps, RecordKeeps, RemoveRequeuedKeeps
<1>4. CASE TableStep
  <2>1. UNCHANGED <<EdgeOf, cloud>>
    BY <1>4 DEF TableStep, ReEnqueue, OperatorRetry, Discard, Retire, BackoffElapses,
       EdgeOf, edgeVars, cloudVars
  <2>2. \A r \in outbox : ~Discard(r) /\ ~Retire(r)
    BY DEF Orderly, Discard, Retire
  <2>. QED
    BY <1>4, <2>1, <2>2, ReEnqueueKeeps, TableStepStays DEF TableStep
<1>5. ASSUME NEW w \in Workers, WorkerStep(w)
      PROVE  /\ Handlers' /\ Ordered' /\ Batches' /\ Behind'
             /\ UNCHANGED <<EdgeOf, cloud>>
  <2>1. UNCHANGED <<EdgeOf, cloud>>
    BY <1>5 DEF WorkerStep, Fetch, Coalesce, Send, ReadAnswer, SettleRetry, Escalate,
       SettleTerminal, PushFails, PushRateLimited, EdgeOf, edgeVars, cloudVars
  <2>. QED
    BY <1>5, <2>1, FetchStays, CoalesceStays, SendStays, ReadAnswerStays, RejectionStays,
       PushEndsStays DEF WorkerStep
<1>6. CASE CloudStep
  <2>1. \A r \in late : FALSE
    BY DEF OrderInv, Behind
  <2>2. CASE \E w \in Workers : \E r \in wire[w] : CloudAccepts(w, r)
    <3>1. PICK w \in Workers : \E r \in wire[w] : CloudAccepts(w, r)
      BY <2>2
    <3>2. PICK r \in wire[w] : CloudAccepts(w, r)
      BY <3>1
    <3>3. r.ent \in Entities /\ UNCHANGED EdgeOf
      BY <3>2 DEF OrderInv, IInv, TypeOK, PushOps, CloudAccepts, EdgeOf, edgeVars
    <3>. QED
      BY <3>2, <3>3, CloudAcceptsKeeps DEF Sync!Next
  <2>3. CASE \E w \in Workers : \E r \in wire[w] :
               \E v \in {"transient", "conflict", "terminal"} : CloudRefuses(w, r, v)
    <3>1. UNCHANGED EdgeOf
      BY <2>3 DEF CloudRefuses, EdgeOf, edgeVars
    <3>. QED
      BY <2>3, <3>1, CloudRefusesKeeps
  <2>. QED
    BY <1>6, <2>1, <2>2, <2>3 DEF CloudStep
<1>7. CASE Restart
  <2>1. UNCHANGED EdgeOf
    BY <1>7 DEF Restart, EdgeOf
  <2>. QED
    BY <1>7, <2>1, RestartStays
<1>8. CASE UNCHANGED vars
  <2>1. UNCHANGED EdgeOf /\ UNCHANGED cloud
    BY <1>8 DEF vars, EdgeOf
  <2>. QED
    BY <1>8, <2>1 DEF vars, OrderInv, Handlers, Ordered, Recording, Batches, Behind
<1>. QED
  BY <1>2, <1>3, <1>4, <1>5, <1>6, <1>7, <1>8 DEF Next, HandlerStep

LEMMA OrderlyInit == Init => OrderInv /\ Sync!Init
<1>. SUFFICES ASSUME Init PROVE Handlers /\ Ordered /\ Batches /\ Behind /\ Sync!Init
  BY Initially DEF OrderInv
<1>1. Handlers /\ Ordered /\ Batches /\ Sync!Init
  BY DEF Init, Handlers, Ordered, Batches, Sync!Init
<1>2. Behind
  BY DEF Init, Behind
<1>. QED
  BY <1>1, <1>2

(* Coalescing drops outdated states only. *)
THEOREM CoalescingSafe == ASSUME Orderly PROVE Spec => []CoalescingKeepsState
<1>1. OrderInv => CoalescingKeepsState
  <2>. SUFFICES ASSUME OrderInv, NEW r \in outbox, r.status = "superseded"
       PROVE  \E s \in outbox : s.ent = r.ent /\ s.id > r.id /\ s.ver >= r.ver
    BY DEF CoalescingKeepsState
  <2>1. /\ r.id < latest[r.ent] /\ r.ent \in Entities /\ r.id \in Nat
        /\ latest[r.ent] \in Nat /\ latest[r.ent] # 0
    BY DEF OrderInv, IInv, SupersededHasSuccessor, TypeOK, Rows, Ids
  <2>2. PICK s \in outbox : s.ent = r.ent /\ s.id = latest[r.ent]
    BY <2>1 DEF OrderInv, Ordered
  <2>3. r.ver <= s.ver /\ s.ver \in Nat /\ r.ver \in Nat
    BY <2>1, <2>2, BoundsAssumption DEF OrderInv, Ordered, IInv, TypeOK, Rows, Versions
  <2>. QED
    BY <2>1, <2>2, <2>3
<1>. QED
  BY <1>1, OrderlyInit, OrderlyStep, PTL DEF Spec

(* A change is in the cloud, or its row is still to be pushed or decided on. *)
THEOREM NothingForgottenSafe == ASSUME Orderly PROVE Spec => []NothingForgotten
<1>1. OrderInv => NothingForgotten
  <2>. SUFFICES ASSUME OrderInv, NEW e \in Entities, ~Busy(e), record[e].ver # cloud[e]
       PROVE  \E r \in outbox : /\ r.ent = e /\ Youngest(r)
                                /\ r.ver = record[e].ver
                                /\ r.status \in {"pending", "in-flight", "rejected"}
    BY DEF NothingForgotten
  <2>1. ~Recording(e) /\ cloud[e] <= record[e].ver
    BY DEF Busy, Recording, OrderInv, Behind
  <2>2. cloud[e] \in Nat /\ record[e].ver \in Nat /\ latest[e] \in Nat
    BY BoundsAssumption DEF OrderInv, IInv, TypeOK, Versions
  <2>3. latest[e] # 0
    BY <2>1, <2>2 DEF OrderInv, Ordered
  <2>4. PICK r \in outbox : r.ent = e /\ r.id = latest[e]
    BY <2>3 DEF OrderInv, Ordered
  <2>5. r.ver = record[e].ver
    BY <2>1, <2>4 DEF OrderInv, Ordered
  <2>6. \A s \in outbox : s.ent = e => s.id <= latest[e] /\ s.id \in Nat
    BY DEF OrderInv, IInv, Identity, TypeOK, Rows, Ids
  <2>7. Youngest(r)
    BY <2>2, <2>4, <2>6 DEF Youngest, HasSuccessor
  <2>8. r.status # "acked"
    BY <2>1, <2>2, <2>4, <2>5 DEF OrderInv, Behind
  <2>9. r.status # "superseded"
    BY <2>2, <2>4 DEF OrderInv, IInv, SupersededHasSuccessor
  <2>10. r.status \in Statuses
    BY DEF OrderInv, IInv, TypeOK, Rows
  <2>. QED
    BY <2>4, <2>5, <2>7, <2>8, <2>9, <2>10 DEF Statuses
<1>. QED
  BY <1>1, OrderlyInit, OrderlyStep, PTL DEF Spec

(* The push path implements RecordSync: no stale overwrite, nothing made up. *)
THEOREM ReplicationSafe == ASSUME Orderly PROVE Spec => Replicates
<1>1. OrderInv /\ [Next]_vars => [Sync!Next]_<<EdgeOf, cloud>>
  BY OrderlyStep
<1>2. Spec => Sync!Init /\ [][Sync!Next]_<<EdgeOf, cloud>>
  BY <1>1, OrderlyInit, OrderlyStep, PTL DEF Spec
<1>. QED
  BY <1>2, PTL DEF Replicates, Sync!Spec, EdgeOf
=============================================================================
