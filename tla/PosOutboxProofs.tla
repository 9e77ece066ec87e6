--------------------------- MODULE PosOutboxProofs ---------------------------
(***************************************************************************)
(* Proofs about the offline outbox of the terminal, for any number of      *)
(* entries, overlapping replays and mishaps of every kind: neither an      *)
(* order nor a payment taken offline is lost, and with its replays and the *)
(* edge the terminal implements OfflineSales.  All rest on one invariant,  *)
(* whose heart is Truthful.                                                *)
(***************************************************************************)
EXTENDS PosOutbox, TLAPS

\* A call that is waited for belongs to the entry its replay is at, and a
\* replay waits for one call; only creates are inserted.
Waiting ==
    /\ \A k \in Calls : calls[k] # Nil /\ calls[k].by # Nil =>
         /\ pc[calls[k].by] = "calling"
         /\ entry[calls[k].by].id = calls[k].id
    /\ \A k, l \in Calls :
         calls[k] # Nil /\ calls[l] # Nil /\ calls[k].by # Nil
           /\ calls[k].by = calls[l].by => k = l
    /\ \A k \in Calls :
         calls[k] # Nil /\ calls[k].st = "inserting" => log[calls[k].id].op = "create"

\* A replay that is busy with an entry has one, and writes back no hole.
AtEntry ==
    \A r \in Replays :
      /\ pc[r] \in {"calling", "settling", "reading", "writing"} => entry[r] \in Copies
      /\ pc[r] = "writing" => image[r] \in Entries

\* What the edge has under an entry: the order, and if it is about one, its payment.
Has(i) ==
    /\ edge[log[i].order].made
    /\ log[i].op = "pay" => edge[log[i].order].paid = i

\* The reason nothing is lost: an entry is deleted only on a verdict that is
\* still true when the replay books it.
Truthful ==
    \A r \in Replays :
      pc[r] = "settling" /\ Stored(answer[r]) => Has(entry[r].id)

NeverLost == \A i \in Ids : Has(i) \/ Kept(i)

IInv == TypeOK /\ Waiting /\ AtEntry /\ Truthful /\ NeverLost

\* The two safety properties are parts of the invariant.
LEMMA NeverLostSplits == NeverLost => OrderNeverLost /\ PaymentNeverLost
  BY DEF NeverLost, OrderNeverLost, PaymentNeverLost, Has

\* Every entry names an order.
LEMMA LogTyped ==
  ASSUME TypeOK, NEW i \in Ids
  PROVE  log[i] \in LogEntries /\ log[i].order \in Orders /\ log[i].cashier \in Cashiers
<1>1. log \in Seq(LogEntries) /\ i \in 1..Len(log)
  BY DEF TypeOK, Ids
<1>2. log[i] \in LogEntries
  BY <1>1
<1> QED
  BY <1>2 DEF LogEntries

\* What the edge once has it keeps.
EdgeKeeps ==
    \A o \in Orders :
      /\ edge[o].made => edge'[o].made
      /\ \A i \in Ids : edge[o].paid = i => edge'[o].paid = i

\* As long as the log stays, what the edge has for an entry stays as well.
LEMMA HasStays ==
  ASSUME TypeOK, log' = log, EdgeKeeps, NEW i \in Ids, Has(i)
  PROVE  Has(i)'
<1>1. log[i].order \in Orders
  BY LogTyped
<1> QED
  BY <1>1 DEF Has, EdgeKeeps

LEMMA InitInv == Init => IInv
<1> SUFFICES ASSUME Init PROVE IInv
  OBVIOUS
<1>1. Ids = {}
  BY DEF Init, Ids
<1>2. log \in Seq(LogEntries) /\ box \in [Ids -> Entries \cup {Nil}]
  BY <1>1 DEF Init
<1>3. /\ edge \in [Orders -> EdgeOrders] /\ mishaps \in 0..MaxMishaps
      /\ pc \in [Replays -> PCs] /\ mode \in [Replays -> Modes]
  BY BoundsAssumption DEF Init, PCs, Modes, EdgeOrders
<1>4. TypeOK
  BY <1>2, <1>3 DEF Init, TypeOK
<1>5. Waiting /\ AtEntry /\ Truthful
  BY DEF Init, Waiting, AtEntry, Truthful
<1>6. NeverLost
  BY <1>1 DEF NeverLost
<1> QED
  BY <1>4, <1>5, <1>6 DEF IInv

-----------------------------------------------------------------------------
(* What steps of the same kind keep *)

\* Nothing is lost as long as entries are kept and the edge keeps what it has.
LEMMA NeverLostStays ==
  ASSUME IInv, log' = log, EdgeKeeps, \A i \in Ids : Kept(i) => Kept(i)' \/ Has(i)
  PROVE  NeverLost'
<1>1. \A i \in Ids : Has(i) => Has(i)'
  BY HasStays DEF IInv
<1> QED
  BY <1>1 DEF NeverLost, IInv, Ids

\* An edge that stays keeps.
LEMMA SameEdgeKeeps == edge' = edge => EdgeKeeps
  BY DEF EdgeKeeps

Busy == {"calling", "settling", "reading", "writing"}

\* A replay that is not waiting for a call goes on to a place between entries.
LEMMA LeavesEntry ==
  ASSUME IInv, NEW r \in Replays, pc[r] # "calling",
         NEW label \in PCs \ Busy, pc' = [pc EXCEPT ![r] = label],
         log' = log, edge' = edge, calls' = calls,
         \A q \in Replays \ {r} :
           entry'[q] = entry[q] /\ answer'[q] = answer[q] /\ image'[q] = image[q]
  PROVE  Waiting' /\ AtEntry' /\ Truthful'
<1>1. \A q \in Replays : pc'[q] = IF q = r THEN label ELSE pc[q]
  BY DEF IInv, TypeOK
<1>2. Waiting'
  <2>1. ASSUME NEW k \in Calls, calls[k] # Nil, calls[k].by # Nil
        PROVE  calls[k].by \in Replays /\ calls[k].by # r
    BY <2>1 DEF IInv, TypeOK, Waiting, Requests
  <2> QED
    BY <1>1, <2>1 DEF IInv, Waiting
<1>3. AtEntry'
  BY <1>1 DEF IInv, AtEntry, Busy, Copies, Ids
<1>4. Truthful'
  <2> SUFFICES ASSUME NEW q \in Replays, (pc[q] = "settling" /\ Stored(answer[q]))'
               PROVE  Has(entry[q].id)'
    BY DEF Truthful
  <2>1. q # r /\ pc[q] = "settling" /\ Stored(answer[q])
    BY <1>1 DEF Busy, Stored
  <2>2. Has(entry[q].id)
    BY <2>1 DEF IInv, Truthful
  <2> QED
    BY <2>1, <2>2 DEF Has
<1> QED
  BY <1>2, <1>3, <1>4

\* A call leaves its slot with a verdict that says no more than the edge has.
LEMMA Answered ==
  ASSUME IInv, NEW k \in Calls, calls[k] # Nil, NEW v \in Verdicts,
         NEW i \in Ids, calls[k].id = i,
         AnswerWith(k, v), EdgeKeeps,
         edge' \in [Orders -> EdgeOrders], mishaps' \in 0..MaxMishaps,
         Stored(v) => Has(i)'
  PROVE  IInv'
<1> DEFINE r == calls[k].by
<1>0. /\ log' = log /\ box' = box /\ discarded' = discarded
      /\ entry' = entry /\ image' = image
      /\ Ids' = Ids /\ Copies' = Copies
      /\ calls' = [calls EXCEPT ![k] = Nil]
  BY DEF AnswerWith, terminal, Ids, Copies
<1>1. calls[k] \in Requests /\ calls[k].by \in Replays \cup {Nil}
  BY DEF IInv, TypeOK, Requests
<1>2. \A q \in Replays :
        /\ pc'[q] = IF q = r THEN "settling" ELSE pc[q]
        /\ answer'[q] = IF q = r THEN v ELSE answer[q]
  BY NilAssumption DEF IInv, TypeOK, AnswerWith
<1>3. TypeOK'
  <2>1. pc' \in [Replays -> PCs] /\ answer' \in [Replays -> Verdicts \cup {Nil}]
    <3>1. CASE r = Nil
      BY <3>1 DEF IInv, TypeOK, AnswerWith
    <3>2. CASE r \in Replays
      BY <3>2, NilAssumption DEF IInv, TypeOK, AnswerWith, PCs
    <3> QED
      BY <1>1, <3>1, <3>2
  <2>2. calls' \in [Calls -> Requests' \cup {Nil}]
    BY <1>0 DEF IInv, TypeOK, Requests
  <2> QED
    BY <1>0, <2>1, <2>2 DEF IInv, TypeOK, AnswerWith, terminal
<1>4. Waiting'
  <2>1. \A l \in Calls : calls'[l] = IF l = k THEN Nil ELSE calls[l]
    BY <1>0 DEF IInv, TypeOK
  <2>2. ASSUME NEW l \in Calls, l # k, calls[l] # Nil, calls[l].by # Nil
        PROVE  calls[l].by \in Replays /\ calls[l].by # r
    BY <2>2 DEF IInv, TypeOK, Waiting, Requests
  <2> QED
    BY <1>0, <1>2, <2>1, <2>2 DEF IInv, Waiting
<1>5. AtEntry'
  <2>1. r \in Replays => entry[r] \in Copies
    BY NilAssumption DEF IInv, Waiting, AtEntry
  <2> QED
    BY <1>0, <1>2, <2>1 DEF IInv, AtEntry
<1>6. Truthful'
  <2> SUFFICES ASSUME NEW q \in Replays, (pc[q] = "settling" /\ Stored(answer[q]))'
               PROVE  Has(entry[q].id)'
    BY DEF Truthful
  <2>1. CASE q = r
    <3>1. entry[q].id = i /\ entry'[q].id = i
      BY <2>1, <1>0, NilAssumption DEF IInv, Waiting
    <3>2. Stored(v)
      BY <2>1, <1>2 DEF Stored
    <3> QED
      BY <3>1, <3>2, <1>0 DEF Has
  <2>2. CASE q # r
    <3>1. pc[q] = "settling" /\ Stored(answer[q])
      BY <2>2, <1>2 DEF Stored
    <3>2. Has(entry[q].id) /\ entry[q] \in Copies
      BY <3>1 DEF IInv, Truthful, AtEntry
    <3>3. Has(entry[q].id)'
      BY <3>2, <1>0, HasStays DEF IInv, Copies, Has
    <3> QED
      BY <3>3
  <2> QED
    BY <2>1, <2>2
<1>7. NeverLost'
  BY <1>0, NeverLostStays DEF Kept
<1> QED
  BY <1>3, <1>4, <1>5, <1>6, <1>7 DEF IInv

-----------------------------------------------------------------------------
(* The edge *)

LEMMA MishapTyped == ASSUME NEW d, Mishap(d), TypeOK PROVE mishaps' \in 0..MaxMishaps
  BY BoundsAssumption DEF Mishap, TypeOK

\* A request that is there names an entry and, through it, an order.
LEMMA CallTyped ==
  ASSUME IInv, NEW k \in Calls, calls[k] # Nil
  PROVE  /\ calls[k] \in Requests /\ calls[k].id \in Ids
         /\ Request(k) \in LogEntries /\ Request(k).order \in Orders
         /\ calls[k].id # 0
<1>1. calls[k] \in Requests /\ calls[k].id \in Ids
  BY DEF IInv, TypeOK, Requests
<1> QED
  BY <1>1, LogTyped DEF IInv, Request, Ids

\* A call goes on to another stage at the edge.
LEMMA StageInv ==
  ASSUME IInv, NEW k \in Calls, calls[k] # Nil, NEW st \in {"running", "inserting"},
         calls' = [calls EXCEPT ![k].st = st],
         st = "inserting" => Request(k).op = "create",
         UNCHANGED <<terminal, link, replays, edge, drawers, mishaps>>
  PROVE  IInv'
<1>0. /\ log' = log /\ edge' = edge /\ Ids' = Ids /\ Copies' = Copies
      /\ pc' = pc /\ entry' = entry /\ answer' = answer /\ image' = image
  BY DEF terminal, replays, Ids, Copies
<1>1. /\ calls[k] \in Requests
      /\ calls'[k] = [calls[k] EXCEPT !.st = st]
      /\ calls'[k] \in Requests /\ calls'[k] # Nil
      /\ calls'[k].by = calls[k].by /\ calls'[k].id = calls[k].id
      /\ calls'[k].st = st
  <2>1. calls[k] \in Requests
    BY CallTyped
  <2>2. calls'[k] = [calls[k] EXCEPT !.st = st] /\ calls'[k] \in Requests
    BY <2>1 DEF IInv, TypeOK, Requests, Stages
  <2>3. calls'[k] # Nil
    BY <2>2, NilAssumption DEF Requests, Ids
  <2> QED
    BY <2>1, <2>2, <2>3 DEF Requests
<1>2. \A l \in Calls \ {k} : calls'[l] = calls[l]
  BY DEF IInv, TypeOK
<1>3. TypeOK'
  <2>1. calls' \in [Calls -> Requests \cup {Nil}]
    BY <1>1 DEF IInv, TypeOK
  <2>2. Requests' = Requests
    BY <1>0 DEF Requests
  <2> QED
    BY <1>0, <2>1, <2>2 DEF IInv, TypeOK, terminal, replays
<1>4. Waiting'
  BY <1>0, <1>1, <1>2 DEF IInv, Waiting, Request
<1>5. AtEntry' /\ Truthful'
  BY <1>0 DEF IInv, AtEntry, Truthful, Has, Stored
<1>6. NeverLost'
  BY <1>0, NeverLostStays, SameEdgeKeeps DEF Kept, terminal
<1> QED
  BY <1>3, <1>4, <1>5, <1>6 DEF IInv

LEMMA ReceiveInv == ASSUME IInv, NEW k \in Calls, Receive(k) PROVE IInv'
  BY StageInv DEF Receive

LEMMA LookForIdInv == ASSUME IInv, NEW k \in Calls, LookForId(k) PROVE IInv'
<1>1. CASE edge[Request(k).order].made
  <2>1. edge' = edge /\ mishaps' \in 0..MaxMishaps /\ edge' \in [Orders -> EdgeOrders]
    BY DEF LookForId, IInv, TypeOK
  <2>2. AnswerWith(k, "exists") /\ log' = log /\ calls[k] # Nil
    BY <1>1 DEF LookForId, AnswerWith, terminal
  <2>3. calls[k].id \in Ids
    BY <2>2, CallTyped
  <2>4. PICK i \in Ids : calls[k].id = i
    BY <2>3
  <2>5. Has(i)'
    BY <1>1, <2>1, <2>2, <2>4 DEF Has, LookForId, Request
  <2> QED
    BY <2>1, <2>2, <2>4, <2>5, SameEdgeKeeps, Answered DEF Verdicts
<1>2. CASE ~edge[Request(k).order].made
  BY <1>2, StageInv DEF LookForId, replays
<1> QED
  BY <1>1, <1>2

LEMMA InsertInv == ASSUME IInv, NEW k \in Calls, Insert(k) PROVE IInv'
<1>1. calls[k] # Nil /\ AnswerWith(k, "ok") /\ mishaps' \in 0..MaxMishaps /\ log' = log
  BY DEF Insert, IInv, TypeOK, AnswerWith, terminal
<1>2. Request(k).order \in Orders /\ calls[k].id \in Ids
  BY <1>1, CallTyped
<1>3. PICK i \in Ids : calls[k].id = i
  BY <1>2
<1>4. edge' \in [Orders -> EdgeOrders] /\ EdgeKeeps
  BY <1>2 DEF Insert, IInv, TypeOK, EdgeKeeps, EdgeOrders
<1>5. Has(i)'
  BY <1>1, <1>2, <1>3 DEF Insert, Has, Request, IInv, Waiting, TypeOK, EdgeOrders
<1> QED
  BY <1>1, <1>3, <1>4, <1>5, Answered DEF Verdicts

LEMMA ApplyWorkInv == ASSUME IInv, NEW k \in Calls, ApplyWork(k) PROVE IInv'
<1>1. calls[k] # Nil /\ mishaps' \in 0..MaxMishaps /\ log' = log
      /\ Request(k).op = "work"
  BY DEF ApplyWork, IInv, TypeOK, AnswerWith, terminal
<1>2. Request(k).order \in Orders /\ calls[k].id \in Ids
  BY <1>1, CallTyped
<1>3. PICK i \in Ids : calls[k].id = i
  BY <1>2
<1>4. edge' \in [Orders -> EdgeOrders] /\ EdgeKeeps
  <2>1. calls[k].id \in Nat
    BY <1>2 DEF Ids
  <2>2. CASE edge' = edge
    BY <2>2, SameEdgeKeeps DEF IInv, TypeOK
  <2>3. CASE edge' = [edge EXCEPT ![Request(k).order].work = calls[k].id]
    BY <1>2, <2>1, <2>3 DEF IInv, TypeOK, EdgeKeeps, EdgeOrders
  <2> QED
    BY <2>2, <2>3 DEF ApplyWork
<1>5. CASE edge[Request(k).order].made
  <2>1. Has(i)'
    BY <1>1, <1>2, <1>3, <1>4, <1>5 DEF Has, Request, EdgeKeeps
  <2>2. AnswerWith(k, "ok")
    BY <1>5 DEF ApplyWork
  <2> QED
    BY <1>1, <1>3, <1>4, <2>1, <2>2, Answered DEF Verdicts
<1>6. CASE ~edge[Request(k).order].made
  <2>1. AnswerWith(k, "missing")
    BY <1>6 DEF ApplyWork
  <2> QED
    BY <1>1, <1>3, <1>4, <2>1, Answered DEF Verdicts, Stored
<1> QED
  BY <1>5, <1>6

LEMMA ApplyPaymentInv == ASSUME IInv, NEW k \in Calls, ApplyPayment(k) PROVE IInv'
<1>1. calls[k] # Nil /\ mishaps' \in 0..MaxMishaps /\ log' = log
      /\ Request(k).op = "pay"
  BY DEF ApplyPayment, IInv, TypeOK, AnswerWith, terminal
<1>2. /\ Request(k).order \in Orders /\ calls[k].id \in Ids
      /\ edge[Request(k).order] \in EdgeOrders
  BY <1>1, CallTyped DEF IInv, TypeOK
<1>3. PICK i \in Ids : calls[k].id = i
  BY <1>2
<1>4. CASE PayVerdict(k) = "ok"
  <2>1. edge[Request(k).order].paid = 0 \/ edge[Request(k).order].paid = i
    BY <1>3, <1>4 DEF PayVerdict
  <2>2. edge' = [edge EXCEPT ![Request(k).order].paid = i]
    BY <1>3, <1>4 DEF ApplyPayment
  <2>3. i \in Nat /\ 0 \notin Ids
    BY DEF Ids
  <2>4. edge' \in [Orders -> EdgeOrders]
    BY <1>2, <2>2, <2>3 DEF IInv, TypeOK, EdgeOrders
  <2>5. EdgeKeeps
    BY <1>2, <2>1, <2>2, <2>3 DEF IInv, TypeOK, EdgeOrders, EdgeKeeps
  <2>6. Has(i)'
    <3>1. edge[Request(k).order].made
      BY <1>4 DEF PayVerdict
    <3> QED
      BY <1>1, <1>2, <1>3, <2>2, <3>1 DEF Has, Request, IInv, TypeOK, EdgeOrders
  <2>7. AnswerWith(k, "ok")
    BY <1>4 DEF ApplyPayment
  <2> QED
    BY <1>1, <1>3, <2>4, <2>5, <2>6, <2>7, Answered DEF Verdicts
<1>5. CASE PayVerdict(k) # "ok"
  <2>1. PayVerdict(k) \in {"missing", "refused", "cash"}
    BY <1>5 DEF PayVerdict
  <2>2. edge' = edge /\ edge' \in [Orders -> EdgeOrders]
    BY <1>5 DEF ApplyPayment, IInv, TypeOK
  <2>3. PICK v \in {"missing", "refused", "cash"} : AnswerWith(k, v)
    BY <2>1 DEF ApplyPayment
  <2> QED
    BY <1>1, <1>3, <2>2, <2>3, SameEdgeKeeps, Answered DEF Verdicts, Stored
<1> QED
  BY <1>4, <1>5

LEMMA CallFailsInv == ASSUME IInv, NEW k \in Calls, CallFails(k) PROVE IInv'
<1>1. calls[k] # Nil /\ edge' = edge /\ edge' \in [Orders -> EdgeOrders]
  BY DEF CallFails, IInv, TypeOK
<1>2. mishaps' \in 0..MaxMishaps
  BY MishapTyped DEF CallFails, IInv
<1>3. PICK v \in {"refused", "transient"} : AnswerWith(k, v)
  BY DEF CallFails
<1>4. PICK i \in Ids : calls[k].id = i
  BY <1>1, CallTyped
<1> QED
  BY <1>1, <1>2, <1>3, <1>4, SameEdgeKeeps, Answered DEF Verdicts, Stored

-----------------------------------------------------------------------------
(* The replay *)

LEMMA StartInv == ASSUME IInv, NEW r \in Replays, Start(r) PROVE IInv'
<1>1. TypeOK'
  BY DEF IInv, TypeOK, Start, PCs, Modes, Ids, Copies, Requests
<1>2. Waiting' /\ AtEntry' /\ Truthful'
  BY LeavesEntry DEF Start, PCs, Busy
<1>3. NeverLost'
  BY NeverLostStays, SameEdgeKeeps DEF Start, Kept
<1> QED
  BY <1>1, <1>2, <1>3 DEF IInv

LEMMA ClaimInv == ASSUME IInv, NEW r \in Replays, Claim(r) PROVE IInv'
<1>1. claimDue \in SUBSET Copies
  BY DEF claimDue, Copies, IInv, TypeOK, Entries, Pending
<1>2. TypeOK'
  BY <1>1 DEF IInv, TypeOK, Claim, terminal, PCs, Ids, Copies, Requests
<1>3. Waiting' /\ AtEntry' /\ Truthful'
  BY LeavesEntry DEF Claim, PCs, Busy, terminal
<1>4. NeverLost'
  BY NeverLostStays, SameEdgeKeeps DEF Claim, Kept, terminal
<1> QED
  BY <1>2, <1>3, <1>4 DEF IInv

LEMMA LoopStepInv == ASSUME IInv, NEW r \in Replays, LoopStep(r) PROVE IInv'
<1>0. /\ log' = log /\ edge' = edge /\ Ids' = Ids /\ Copies' = Copies
      /\ Requests' = Requests /\ answer' = answer /\ image' = image
  BY DEF LoopStep, terminal, Ids, Copies, Requests
<1>1. NeverLost'
  BY NeverLostStays, SameEdgeKeeps DEF LoopStep, Kept, terminal
<1>2. CASE ~Goes(r)
  <2>1. TypeOK'
    BY <1>0, <1>2 DEF IInv, TypeOK, LoopStep, terminal, PCs
  <2>2. Waiting' /\ AtEntry' /\ Truthful'
    BY <1>2, LeavesEntry DEF LoopStep, PCs, Busy, terminal
  <2> QED
    BY <1>1, <2>1, <2>2 DEF IInv
<1>3. CASE Goes(r)
  <2>1. PICK c \in Oldest(todo[r]) :
          /\ entry' = [entry EXCEPT ![r] = c]
          /\ todo' = [todo EXCEPT ![r] = @ \ {c}]
          /\ \/ /\ \E k \in Calls :
                    /\ calls[k] = Nil
                    /\ calls' = [calls EXCEPT ![k] =
                                   [id |-> c.id, by |-> r, st |-> "sent"]]
               /\ pc' = [pc EXCEPT ![r] = "calling"]
             \/ /\ pc' = [pc EXCEPT ![r] = "reading"]
                /\ calls' = calls
    BY <1>3 DEF LoopStep
  <2>2. c \in Copies /\ c.id \in Ids
    BY <2>1 DEF IInv, TypeOK, Oldest, Copies
  <2>3. pc[r] = "looping"
    BY DEF LoopStep
  <2>4. /\ entry' \in [Replays -> Copies \cup {Nil}]
        /\ todo' \in [Replays -> SUBSET Copies]
        /\ pc' \in [Replays -> PCs]
    BY <2>1, <2>2 DEF IInv, TypeOK, PCs
  <2>5. /\ entry'[r] = c
        /\ \A q \in Replays \ {r} : entry'[q] = entry[q] /\ pc'[q] = pc[q]
        /\ pc'[r] \in {"calling", "reading"}
    BY <2>1 DEF IInv, TypeOK
  <2>6. AtEntry'
    BY <1>0, <2>2, <2>5 DEF IInv, AtEntry
  <2>7. Truthful'
    BY <1>0, <2>5 DEF IInv, Truthful, Has, Stored
  <2>8. CASE calls' = calls
    <3>1. TypeOK'
      BY <1>0, <2>4, <2>8 DEF IInv, TypeOK, LoopStep, terminal
    <3>2. \A k \in Calls : calls[k] # Nil /\ calls[k].by # Nil => calls[k].by \in Replays \ {r}
      BY <2>3 DEF IInv, Waiting, TypeOK, Requests
    <3>3. Waiting'
      BY <1>0, <2>5, <2>8, <3>2 DEF IInv, Waiting
    <3> QED
      BY <1>1, <2>6, <2>7, <3>1, <3>3 DEF IInv
  <2>9. ASSUME NEW k \in Calls, calls[k] = Nil, pc'[r] = "calling",
               calls' = [calls EXCEPT ![k] = [id |-> c.id, by |-> r, st |-> "sent"]]
        PROVE  IInv'
    <3>1. [id |-> c.id, by |-> r, st |-> "sent"] \in Requests
      BY <2>2 DEF Requests, Stages
    <3>2. TypeOK'
      BY <1>0, <2>4, <2>9, <3>1 DEF IInv, TypeOK, LoopStep, terminal
    <3>3. \A l \in Calls : calls[l] # Nil /\ calls[l].by # Nil => calls[l].by \in Replays \ {r}
      BY <2>3 DEF IInv, Waiting, TypeOK, Requests
    <3>4. \A l \in Calls :
            calls'[l] = IF l = k THEN [id |-> c.id, by |-> r, st |-> "sent"] ELSE calls[l]
      BY <2>9 DEF IInv, TypeOK
    <3>5. Waiting'
      BY <1>0, <2>5, <2>9, <3>3, <3>4 DEF IInv, Waiting
    <3> QED
      BY <1>1, <2>6, <2>7, <3>2, <3>5 DEF IInv
  <2>10. pc' = [pc EXCEPT ![r] = "calling"] => pc'[r] = "calling"
    BY DEF IInv, TypeOK
  <2> QED
    BY <2>1, <2>8, <2>9, <2>10
<1> QED
  BY <1>2, <1>3

\* A replay that is done with its entry keeps its memory in order.
LEMMA NextEntryTyped ==
  ASSUME IInv, NEW r \in Replays, NextEntry(r), log' = log
  PROVE  /\ entry' \in [Replays -> Copies' \cup {Nil}]
         /\ answer' \in [Replays -> Verdicts \cup {Nil}]
         /\ pc' \in [Replays -> PCs]
         /\ pc' = [pc EXCEPT ![r] = "looping"]
         /\ \A q \in Replays \ {r} : entry'[q] = entry[q] /\ answer'[q] = answer[q]
  BY DEF IInv, TypeOK, NextEntry, PCs, Copies, Ids

LEMMA AckInv == ASSUME IInv, NEW r \in Replays, Ack(r) PROVE IInv'
<1>0. /\ NextEntry(r) /\ log' = log /\ edge' = edge /\ calls' = calls /\ image' = image
      /\ pc[r] = "settling" /\ Stored(answer[r])
  BY DEF Ack
<1>1. entry[r] \in Copies /\ entry[r].id \in Ids /\ Has(entry[r].id)
  BY <1>0 DEF IInv, AtEntry, Truthful, Copies
<1>2. TypeOK'
  <2>1. box' \in [Ids' -> Entries \cup {Nil}]
    BY <1>0 DEF Ack, IInv, TypeOK, Ids
  <2> QED
    BY <1>0, <2>1, NextEntryTyped DEF IInv, TypeOK, Ack, Ids, Copies, Requests
<1>3. Waiting' /\ AtEntry' /\ Truthful'
  BY <1>0, LeavesEntry, NextEntryTyped DEF PCs, Busy
<1>4. NeverLost'
  <2>1. \A i \in Ids : i # entry[r].id => box'[i] = box[i]
    BY DEF Ack, IInv, TypeOK
  <2> QED
    BY <1>0, <1>1, <2>1, NeverLostStays, SameEdgeKeeps DEF Kept, Ack
<1> QED
  BY <1>2, <1>3, <1>4 DEF IInv

LEMMA ParkInv == ASSUME IInv, NEW r \in Replays, Park(r) PROVE IInv'
<1>0. /\ NextEntry(r) /\ log' = log /\ edge' = edge /\ calls' = calls /\ image' = image
      /\ pc[r] = "settling"
  BY DEF Park, terminal
<1>1. entry[r] \in Copies
  BY <1>0 DEF IInv, AtEntry
<1>2. parked' \in [Replays -> [Cashiers -> SUBSET Copies]]
  <2>1. log[entry[r].id].cashier \in Cashiers
    BY <1>1, LogTyped DEF IInv, Copies
  <2>2. PICK c \in Cashiers : parked' = [parked EXCEPT ![r][c] = @ \cup {entry[r]}]
    BY <2>1 DEF Park
  <2>3. parked[r][c] \cup {entry[r]} \in SUBSET Copies
    BY <1>1 DEF IInv, TypeOK
  <2> QED
    BY <2>2, <2>3 DEF IInv, TypeOK
<1>3. TypeOK'
  BY <1>0, <1>2, NextEntryTyped DEF IInv, TypeOK, Park, terminal, Ids, Copies, Requests
<1>4. Waiting' /\ AtEntry' /\ Truthful'
  BY <1>0, LeavesEntry, NextEntryTyped DEF PCs, Busy
<1>5. NeverLost'
  BY NeverLostStays, SameEdgeKeeps DEF Park, Kept, terminal
<1> QED
  BY <1>3, <1>4, <1>5 DEF IInv

LEMMA MarkReadInv == ASSUME IInv, NEW r \in Replays, MarkRead(r) PROVE IInv'
<1>0. /\ log' = log /\ edge' = edge /\ calls' = calls
      /\ pc[r] \in {"reading", "settling"}
  BY DEF MarkRead, terminal
<1>1. entry[r] \in Copies /\ entry[r].id \in Ids
  BY <1>0 DEF IInv, AtEntry, Copies
<1>2. NeverLost'
  BY NeverLostStays, SameEdgeKeeps DEF MarkRead, Kept, terminal
<1>3. CASE box[entry[r].id] = Nil
  <2>1. NextEntry(r) /\ image' = image
    BY <1>3 DEF MarkRead
  <2>2. TypeOK'
    BY <1>0, <2>1, NextEntryTyped DEF IInv, TypeOK, MarkRead, terminal, Ids, Copies, Requests
  <2>3. Waiting' /\ AtEntry' /\ Truthful'
    BY <1>0, <2>1, LeavesEntry, NextEntryTyped DEF PCs, Busy
  <2> QED
    BY <1>2, <2>2, <2>3 DEF IInv
<1>4. CASE box[entry[r].id] # Nil
  <2>1. box[entry[r].id] \in Entries
    BY <1>1, <1>4 DEF IInv, TypeOK
  <2>2. Marked(r, box[entry[r].id]) \in Entries
    BY <2>1 DEF Marked, Entries, GivesUp
  <2>3. /\ image' = [image EXCEPT ![r] = Marked(r, box[entry[r].id])]
        /\ pc' = [pc EXCEPT ![r] = "writing"]
        /\ entry' = entry /\ answer' = answer
    BY <1>4 DEF MarkRead
  <2>4. TypeOK'
    BY <1>0, <2>2, <2>3 DEF IInv, TypeOK, MarkRead, terminal, Ids, Copies, Requests, PCs
  <2>5. \A q \in Replays : pc'[q] = IF q = r THEN "writing" ELSE pc[q]
    BY <2>3 DEF IInv, TypeOK
  <2>6. \A k \in Calls : calls[k] # Nil /\ calls[k].by # Nil => calls[k].by \in Replays \ {r}
    BY <1>0 DEF IInv, Waiting, TypeOK, Requests
  <2>7. Waiting'
    BY <1>0, <2>3, <2>5, <2>6 DEF IInv, Waiting
  <2>8. AtEntry'
    BY <1>0, <1>1, <2>2, <2>3, <2>5 DEF IInv, TypeOK, AtEntry, Ids, Copies
  <2>9. Truthful'
    BY <1>0, <2>3, <2>5 DEF IInv, Truthful, Has, Stored
  <2> QED
    BY <1>2, <2>4, <2>7, <2>8, <2>9 DEF IInv
<1> QED
  BY <1>3, <1>4

LEMMA MarkWriteInv == ASSUME IInv, NEW r \in Replays, MarkWrite(r) PROVE IInv'
<1>0. /\ NextEntry(r) /\ log' = log /\ edge' = edge /\ calls' = calls
      /\ pc[r] = "writing"
  BY DEF MarkWrite
<1>1. entry[r] \in Copies /\ entry[r].id \in Ids /\ image[r] \in Entries
  BY <1>0 DEF IInv, AtEntry, Copies
<1>2. image' \in [Replays -> Entries \cup {Nil}]
      /\ \A q \in Replays \ {r} : image'[q] = image[q]
  BY DEF MarkWrite, IInv, TypeOK
<1>3. box' \in [Ids' -> Entries \cup {Nil}]
  BY <1>0, <1>1 DEF MarkWrite, IInv, TypeOK, Ids
<1>4. TypeOK'
  BY <1>0, <1>2, <1>3, NextEntryTyped DEF IInv, TypeOK, MarkWrite, Ids, Copies, Requests
<1>5. Waiting' /\ AtEntry' /\ Truthful'
  BY <1>0, <1>2, LeavesEntry, NextEntryTyped DEF PCs, Busy
<1>6. NeverLost'
  <2>1. \A i \in Ids : box'[i] = box[i] \/ box'[i] \in Entries
    BY <1>1 DEF MarkWrite, IInv, TypeOK
  <2> QED
    BY <1>0, <2>1, NilAssumption, NeverLostStays, SameEdgeKeeps DEF Kept, MarkWrite
<1> QED
  BY <1>4, <1>5, <1>6 DEF IInv

LEMMA AskCashierInv == ASSUME IInv, NEW r \in Replays, AskCashier(r) PROVE IInv'
<1>1. PICK c \in Cashiers :
        /\ parked' = [parked EXCEPT ![r][c] = {}]
        /\ todo' = [todo EXCEPT ![r] = parked[r][c]]
  BY DEF AskCashier
<1>2. parked' \in [Replays -> [Cashiers -> SUBSET Copies]]
      /\ todo' \in [Replays -> SUBSET Copies]
  BY <1>1 DEF IInv, TypeOK
<1>3. mode' \in [Replays -> Modes] /\ pc' \in [Replays -> PCs]
  BY DEF IInv, TypeOK, AskCashier, PCs, Modes
<1>4. TypeOK'
  BY <1>2, <1>3 DEF IInv, TypeOK, AskCashier, terminal, Ids, Copies, Requests
<1>5. PICK label \in {"prompting", "looping"} : pc' = [pc EXCEPT ![r] = label]
  BY DEF AskCashier
<1>6. Waiting' /\ AtEntry' /\ Truthful'
  BY <1>5, LeavesEntry DEF AskCashier, PCs, Busy, terminal
<1>7. NeverLost'
  BY NeverLostStays, SameEdgeKeeps DEF AskCashier, Kept, terminal
<1> QED
  BY <1>4, <1>6, <1>7 DEF IInv

LEMMA DialogClosesInv == ASSUME IInv, NEW r \in Replays, DialogCloses(r) PROVE IInv'
<1>1. drawers' \subseteq Cashiers
  <2>1. ASSUME NEW e \in todo[r] PROVE log[e.id].cashier \in Cashiers
    <3>1. e.id \in Ids
      BY DEF IInv, TypeOK, Copies
    <3> QED
      BY <3>1, LogTyped DEF IInv
  <2>2. drawers' = drawers \/ \E e \in todo[r] : drawers' = drawers \cup {log[e.id].cashier}
    BY DEF DialogCloses
  <2> QED
    BY <2>1, <2>2 DEF IInv, TypeOK
<1>2. mode' \in [Replays -> Modes] /\ pc' \in [Replays -> PCs]
  BY DEF IInv, TypeOK, DialogCloses, PCs, Modes
<1>3. TypeOK'
  BY <1>1, <1>2 DEF IInv, TypeOK, DialogCloses, terminal, Ids, Copies, Requests
<1>4. Waiting' /\ AtEntry' /\ Truthful'
  BY LeavesEntry DEF DialogCloses, PCs, Busy, terminal
<1>5. NeverLost'
  BY NeverLostStays, SameEdgeKeeps DEF DialogCloses, Kept, terminal
<1> QED
  BY <1>3, <1>4, <1>5 DEF IInv

LEMMA FinishInv == ASSUME IInv, NEW r \in Replays, Finish(r) PROVE IInv'
<1>1. TypeOK'
  BY DEF IInv, TypeOK, Finish, PCs, Ids, Copies, Requests
<1>2. Waiting' /\ AtEntry' /\ Truthful'
  BY LeavesEntry DEF Finish, PCs, Busy
<1>3. NeverLost'
  BY NeverLostStays, SameEdgeKeeps DEF Finish, Kept
<1> QED
  BY <1>1, <1>2, <1>3 DEF IInv

-----------------------------------------------------------------------------
(* Connection, deadline, restart *)

\* What becomes of the requests when the connection or the terminal is gone.
LEMMA OrphanedTyped ==
  ASSUME IInv, calls' = [k \in Calls |-> Orphaned(k)]
  PROVE  /\ calls' \in [Calls -> Requests \cup {Nil}]
         /\ \A k \in Calls : calls'[k] # Nil =>
              /\ calls'[k].by = Nil /\ calls[k] # Nil
              /\ calls'[k].id = calls[k].id /\ calls'[k].st = calls[k].st
<1> SUFFICES ASSUME NEW k \in Calls, calls'[k] # Nil
             PROVE  /\ calls'[k] \in Requests /\ calls'[k].by = Nil /\ calls[k] # Nil
                    /\ calls'[k].id = calls[k].id /\ calls'[k].st = calls[k].st
  OBVIOUS
<1>1. calls[k] # Nil /\ calls'[k] = [calls[k] EXCEPT !.by = Nil]
  BY DEF Orphaned
<1>2. calls[k] \in Requests
  BY <1>1, CallTyped
<1> QED
  BY <1>1, <1>2 DEF Requests

LEMMA DropInv == ASSUME IInv, Drop PROVE IInv'
<1>0. /\ log' = log /\ edge' = edge /\ image' = image /\ entry' = entry
      /\ Ids' = Ids /\ Copies' = Copies /\ Requests' = Requests
      /\ calls' = [k \in Calls |-> Orphaned(k)]
  BY DEF Drop, Ids, Copies, Requests
<1>1. \A r \in Replays :
        /\ pc'[r] = IF pc[r] = "calling" THEN "settling" ELSE pc[r]
        /\ answer'[r] = IF pc[r] = "calling" THEN "transient" ELSE answer[r]
  BY DEF Drop
<1>2. TypeOK'
  <2>1. /\ pc' \in [Replays -> PCs] /\ answer' \in [Replays -> Verdicts \cup {Nil}]
        /\ link' \in BOOLEAN /\ replaying' \in BOOLEAN
    BY DEF Drop, IInv, TypeOK, PCs, Verdicts
  <2>2. mishaps' \in 0..MaxMishaps
    BY MishapTyped DEF Drop, IInv
  <2> QED
    BY <1>0, <2>1, <2>2, OrphanedTyped DEF Drop, IInv, TypeOK
<1>3. Waiting'
  BY <1>0, OrphanedTyped DEF IInv, Waiting
<1>4. AtEntry'
  BY <1>0, <1>1 DEF IInv, AtEntry
<1>5. Truthful'
  BY <1>0, <1>1 DEF IInv, Truthful, Has, Stored
<1>6. NeverLost'
  BY <1>0, NeverLostStays, SameEdgeKeeps DEF Drop, Kept
<1> QED
  BY <1>2, <1>3, <1>4, <1>5, <1>6 DEF IInv

LEMMA RestartInv == ASSUME IInv, Restart PROVE IInv'
<1>0. /\ log' = log /\ edge' = edge
      /\ Ids' = Ids /\ Copies' = Copies /\ Requests' = Requests
      /\ calls' = [k \in Calls |-> Orphaned(k)]
      /\ pc' = [r \in Replays |-> "idle"]
  BY DEF Restart, Ids, Copies, Requests
<1>1. TypeOK'
  <2>1. /\ pc' \in [Replays -> PCs] /\ mode' \in [Replays -> Modes]
        /\ answer' \in [Replays -> Verdicts \cup {Nil}]
        /\ entry' \in [Replays -> Copies' \cup {Nil}]
        /\ image' \in [Replays -> Entries \cup {Nil}]
        /\ todo' \in [Replays -> SUBSET Copies']
        /\ parked' \in [Replays -> [Cashiers -> SUBSET Copies']]
        /\ link' \in BOOLEAN /\ replaying' \in BOOLEAN
    BY DEF Restart, PCs, Modes
  <2>2. mishaps' \in 0..MaxMishaps
    BY MishapTyped DEF Restart, IInv
  <2> QED
    BY <1>0, <2>1, <2>2, OrphanedTyped DEF Restart, IInv, TypeOK
<1>2. Waiting'
  BY <1>0, OrphanedTyped DEF IInv, Waiting
<1>3. AtEntry' /\ Truthful'
  BY <1>0 DEF AtEntry, Truthful
<1>4. NeverLost'
  BY <1>0, NeverLostStays, SameEdgeKeeps DEF Restart, Kept
<1> QED
  BY <1>1, <1>2, <1>3, <1>4 DEF IInv

LEMMA ReconnectInv == ASSUME IInv, Reconnect PROVE IInv'
<1>0. /\ log' = log /\ edge' = edge /\ calls' = calls /\ pc' = pc /\ entry' = entry
      /\ answer' = answer /\ image' = image
  BY DEF Reconnect, terminal, replays
<1>1. TypeOK'
  BY DEF Reconnect, IInv, TypeOK, terminal, replays, Ids, Copies, Requests
<1>2. Waiting' /\ AtEntry' /\ Truthful'
  BY <1>0 DEF IInv, Waiting, AtEntry, Truthful, Has, Stored, Copies, Ids
<1>3. NeverLost'
  BY <1>0, NeverLostStays, SameEdgeKeeps DEF Reconnect, Kept, terminal
<1> QED
  BY <1>1, <1>2, <1>3 DEF IInv

\* A replay stops waiting for a call that is no longer its own.
LEMMA GivenUpInv ==
  ASSUME IInv, NEW k \in Calls, GiveUpWaiting(k), mishaps' \in 0..MaxMishaps,
         NEW new \in Requests \cup {Nil}, calls' = [calls EXCEPT ![k] = new],
         new # Nil => new = [calls[k] EXCEPT !.by = Nil]
  PROVE  IInv'
<1> DEFINE r == calls[k].by
<1>0. /\ log' = log /\ edge' = edge /\ image' = image /\ entry' = entry
      /\ Ids' = Ids /\ Copies' = Copies /\ Requests' = Requests
  BY DEF GiveUpWaiting, terminal, Ids, Copies, Requests
<1>1. r \in Replays /\ calls[k] # Nil /\ calls[k] \in Requests
  BY CallTyped DEF GiveUpWaiting, Requests
<1>2. /\ pc' = [pc EXCEPT ![r] = "settling"]
      /\ answer' = [answer EXCEPT ![r] = "transient"]
  BY DEF GiveUpWaiting
<1>3. \A q \in Replays :
        /\ pc'[q] = IF q = r THEN "settling" ELSE pc[q]
        /\ answer'[q] = IF q = r THEN "transient" ELSE answer[q]
  BY <1>2 DEF IInv, TypeOK
<1>4. TypeOK'
  <2>1. pc' \in [Replays -> PCs] /\ answer' \in [Replays -> Verdicts \cup {Nil}]
    BY <1>1, <1>2 DEF IInv, TypeOK, PCs, Verdicts
  <2>2. calls' \in [Calls -> Requests \cup {Nil}]
    BY DEF IInv, TypeOK
  <2> QED
    BY <1>0, <2>1, <2>2 DEF GiveUpWaiting, IInv, TypeOK, terminal
<1>5. Waiting'
  <2>1. \A l \in Calls : calls'[l] = IF l = k THEN new ELSE calls[l]
    BY DEF IInv, TypeOK
  <2>2. new # Nil => new.by = Nil /\ new.id = calls[k].id /\ new.st = calls[k].st
    BY <1>1 DEF Requests
  <2>3. \A l \in Calls \ {k} : calls[l] # Nil /\ calls[l].by # Nil => calls[l].by # r
                                /\ calls[l].by \in Replays
    BY <1>1 DEF IInv, Waiting, TypeOK, Requests
  <2> QED
    BY <1>0, <1>1, <1>3, <2>1, <2>2, <2>3 DEF IInv, Waiting
<1>6. AtEntry'
  <2>1. entry[r] \in Copies
    BY <1>1 DEF GiveUpWaiting, IInv, Waiting, AtEntry
  <2> QED
    BY <1>0, <1>3, <2>1 DEF IInv, AtEntry
<1>7. Truthful'
  BY <1>0, <1>3 DEF IInv, Truthful, Has, Stored
<1>8. NeverLost'
  BY <1>0, NeverLostStays, SameEdgeKeeps DEF GiveUpWaiting, Kept, terminal
<1> QED
  BY <1>4, <1>5, <1>6, <1>7, <1>8 DEF IInv

LEMMA DeadlineInv == ASSUME IInv, NEW k \in Calls, Deadline(k) PROVE IInv'
<1>1. mishaps' \in 0..MaxMishaps
  BY MishapTyped DEF Deadline, IInv
<1>2. calls[k] \in Requests
  BY CallTyped DEF Deadline, GiveUpWaiting
<1>3. [calls[k] EXCEPT !.by = Nil] \in Requests
  BY <1>2 DEF Requests
<1> QED
  BY <1>1, <1>3, GivenUpInv DEF Deadline

LEMMA BufferedCallExpiresInv ==
  ASSUME IInv, NEW k \in Calls, BufferedCallExpires(k) PROVE IInv'
<1>1. mishaps' \in 0..MaxMishaps
  BY DEF BufferedCallExpires, IInv, TypeOK
<1> QED
  BY <1>1, GivenUpInv DEF BufferedCallExpires

-----------------------------------------------------------------------------
(* What else changes the outbox or the edge *)

\* A step that leaves the replays, the requests, the log and the edge alone.
LEMMA ReplaysStay ==
  ASSUME IInv, UNCHANGED <<log, replays, calls, edge>>
  PROVE  Waiting' /\ AtEntry' /\ Truthful'
<1>1. /\ pc' = pc /\ entry' = entry /\ answer' = answer /\ image' = image
      /\ Copies' = Copies
  BY DEF replays, Copies, Ids
<1> QED
  BY <1>1 DEF IInv, Waiting, AtEntry, Truthful, Has, Stored

LEMMA BackoffElapsesInv == ASSUME IInv, NEW i \in Ids, BackoffElapses(i) PROVE IInv'
<1>1. box[i] \in Entries /\ [box[i] EXCEPT !.due = TRUE] \in Entries
  BY DEF BackoffElapses, Pending, IInv, TypeOK, Entries
<1>2. /\ box' \in [Ids -> Entries \cup {Nil}]
      /\ \A j \in Ids : box'[j] = box[j] \/ box'[j] \in Entries
  BY <1>1 DEF BackoffElapses, IInv, TypeOK
<1>3. TypeOK'
  BY <1>2 DEF BackoffElapses, IInv, TypeOK, replays, Ids, Copies, Requests
<1>4. Waiting' /\ AtEntry' /\ Truthful'
  BY ReplaysStay DEF BackoffElapses
<1>5. NeverLost'
  BY <1>2, NilAssumption, NeverLostStays, SameEdgeKeeps DEF BackoffElapses, Kept
<1> QED
  BY <1>3, <1>4, <1>5 DEF IInv

LEMMA CloseDrawerInv == ASSUME IInv, NEW c \in Cashiers, CloseDrawer(c) PROVE IInv'
<1>1. mishaps' \in 0..MaxMishaps
  BY MishapTyped DEF CloseDrawer, IInv
<1>2. TypeOK'
  BY <1>1 DEF CloseDrawer, IInv, TypeOK, terminal, replays, Ids, Copies, Requests
<1>3. Waiting' /\ AtEntry' /\ Truthful'
  BY ReplaysStay DEF CloseDrawer, terminal
<1>4. NeverLost'
  BY NeverLostStays, SameEdgeKeeps DEF CloseDrawer, Kept, terminal
<1> QED
  BY <1>2, <1>3, <1>4 DEF IInv

LEMMA OtherTillPaysInv == ASSUME IInv, NEW o \in Orders, OtherTillPays(o) PROVE IInv'
<1>1. mishaps' \in 0..MaxMishaps
  BY MishapTyped DEF OtherTillPays, IInv
<1>2. edge' \in [Orders -> EdgeOrders] /\ EdgeKeeps
  <2>1. 0 \notin Ids
    BY DEF Ids
  <2>2. /\ edge' = [edge EXCEPT ![o].paid = Nil] /\ edge[o].paid = 0
        /\ edge \in [Orders -> EdgeOrders]
    BY DEF OtherTillPays, IInv, TypeOK
  <2>3. edge' \in [Orders -> EdgeOrders]
    BY <2>2 DEF EdgeOrders
  <2>4. EdgeKeeps
    BY <2>1, <2>2 DEF EdgeOrders, EdgeKeeps
  <2> QED
    BY <2>3, <2>4
<1>3. TypeOK'
  BY <1>1, <1>2 DEF OtherTillPays, IInv, TypeOK, terminal, replays, Ids, Copies, Requests
<1>4. /\ log' = log /\ pc' = pc /\ entry' = entry /\ answer' = answer /\ image' = image
      /\ calls' = calls /\ Ids' = Ids /\ Copies' = Copies
  BY DEF OtherTillPays, terminal, replays, Ids, Copies
<1>5. Waiting' /\ AtEntry'
  BY <1>4 DEF IInv, Waiting, AtEntry
<1>6. Truthful'
  <2> SUFFICES ASSUME NEW r \in Replays, pc[r] = "settling", Stored(answer[r])
               PROVE  Has(entry[r].id)'
    BY <1>4 DEF Truthful, Stored
  <2>1. entry[r].id \in Ids /\ Has(entry[r].id)
    BY DEF IInv, AtEntry, Truthful, Copies
  <2>2. PICK i \in Ids : entry[r].id = i
    BY <2>1
  <2>3. Has(i)'
    BY <1>2, <1>4, <2>1, <2>2, HasStays DEF IInv
  <2> QED
    BY <1>4, <2>2, <2>3 DEF Has
<1>7. NeverLost'
  BY <1>2, <1>4, NeverLostStays DEF OtherTillPays, Kept, terminal
<1> QED
  BY <1>3, <1>5, <1>6, <1>7 DEF IInv

LEMMA PressInv == ASSUME IInv, Press PROVE IInv'
<1>1. mishaps' \in 0..MaxMishaps
  BY MishapTyped DEF Press, IInv
<1>2. oper' \subseteq [id : Ids, put : Entries \cup {Nil}]
  <2>1. Fresh \in Entries
    BY DEF Fresh, Entries
  <2>2. PICK ids \in SUBSET Ids, put \in Entries \cup {Nil} :
          oper' = {[id |-> i, put |-> put] : i \in ids}
    BY <2>1 DEF Press, Rejected
  <2> QED
    BY <2>2
<1>3. TypeOK'
  BY <1>1, <1>2 DEF Press, IInv, TypeOK, replays, Ids, Copies, Requests
<1>4. Waiting' /\ AtEntry' /\ Truthful'
  BY ReplaysStay DEF Press
<1>5. NeverLost'
  BY NeverLostStays, SameEdgeKeeps DEF Press, Kept
<1> QED
  BY <1>3, <1>4, <1>5 DEF IInv

LEMMA PressWriteInv == ASSUME IInv, NEW c \in oper, PressWrite(c) PROVE IInv'
<1>1. c.id \in Ids /\ c.put \in Entries \cup {Nil}
  BY DEF IInv, TypeOK
<1>2. /\ box' \in [Ids -> Entries \cup {Nil}]
      /\ \A j \in Ids : box'[j] = IF j = c.id THEN c.put ELSE box[j]
  <2>1. box \in [Ids -> Entries \cup {Nil}] /\ box' = [box EXCEPT ![c.id] = c.put]
    BY DEF PressWrite, IInv, TypeOK
  <2> QED
    BY <1>1, <2>1
<1>3. /\ discarded' \subseteq Ids /\ discarded \subseteq discarded'
      /\ c.put = Nil => c.id \in discarded'
  BY <1>1 DEF PressWrite, IInv, TypeOK
<1>4. TypeOK'
  BY <1>2, <1>3 DEF PressWrite, IInv, TypeOK, replays, Ids, Copies, Requests
<1>5. Waiting' /\ AtEntry' /\ Truthful'
  BY ReplaysStay DEF PressWrite
<1>6. NeverLost'
  <2>1. log' = log /\ edge' = edge
    BY DEF PressWrite
  <2>2. \A i \in Ids : Kept(i) => Kept(i)'
    BY <1>2, <1>3 DEF Kept
  <2> QED
    BY <2>1, <2>2, NeverLostStays, SameEdgeKeeps
<1> QED
  BY <1>4, <1>5, <1>6 DEF IInv

LEMMA EnqueueInv ==
  ASSUME IInv, NEW o \in Orders, NEW op \in {"work", "pay", "create"},
         NEW c \in Cashiers, Enqueue(o, op, c)
  PROVE  IInv'
<1> DEFINE new == [order |-> o, op |-> op, cashier |-> c]
           put == [status |-> "pending", attempts |-> 0, due |-> TRUE]
<1>0. /\ pc' = pc /\ entry' = entry /\ answer' = answer /\ image' = image
      /\ calls' = calls /\ edge' = edge /\ discarded' = discarded
  BY DEF Enqueue, replays
<1>1. new \in LogEntries /\ log \in Seq(LogEntries) /\ log' = Append(log, new)
  BY DEF LogEntries, IInv, TypeOK, Enqueue
<1>2. /\ log' \in Seq(LogEntries) /\ Len(log') = Len(log) + 1 /\ Len(log) \in Nat
      /\ \A i \in Ids : log'[i] = log[i]
  BY <1>1 DEF Ids
<1>3. Ids' = Ids \cup {Len(log) + 1} /\ Ids \subseteq Ids' /\ Len(log) + 1 \notin Ids
  BY <1>2 DEF Ids
<1>4. put \in Entries
  BY DEF Entries
<1>5. box' = [i \in 1..(Len(log) + 1) |-> IF i \in Ids THEN box[i] ELSE put]
  BY DEF Enqueue
<1>6. /\ box' \in [Ids' -> Entries \cup {Nil}]
      /\ \A i \in Ids : box'[i] = box[i]
      /\ box'[Len(log) + 1] \in Entries
  BY <1>2, <1>3, <1>4, <1>5 DEF IInv, TypeOK, Ids
<1>7. Copies \subseteq Copies' /\ Requests \subseteq Requests'
  BY <1>3 DEF Copies, Requests
<1>8. TypeOK'
  <2>1. /\ todo' \in [Replays -> SUBSET Copies'] /\ entry' \in [Replays -> Copies' \cup {Nil}]
        /\ parked' \in [Replays -> [Cashiers -> SUBSET Copies']]
    BY <1>7 DEF IInv, TypeOK, Enqueue, replays
  <2>2. calls' \in [Calls -> Requests' \cup {Nil}]
    BY <1>7 DEF IInv, TypeOK, Enqueue
  <2>3. oper' \subseteq [id : Ids', put : Entries \cup {Nil}] /\ discarded' \subseteq Ids'
    BY <1>3 DEF IInv, TypeOK, Enqueue
  <2> QED
    BY <1>2, <1>6, <2>1, <2>2, <2>3 DEF IInv, TypeOK, Enqueue, replays
<1>9. \A k \in Calls : calls[k] # Nil => calls[k].id \in Ids
  BY CallTyped
<1>10. Waiting' /\ AtEntry'
  BY <1>0, <1>2, <1>7, <1>9 DEF IInv, Waiting, AtEntry
<1>11. Truthful'
  <2> SUFFICES ASSUME NEW r \in Replays, pc[r] = "settling", Stored(answer[r])
               PROVE  Has(entry[r].id)'
    BY <1>0 DEF Truthful, Stored
  <2>1. entry[r].id \in Ids /\ Has(entry[r].id)
    BY DEF IInv, AtEntry, Truthful, Copies
  <2> QED
    BY <1>0, <1>2, <2>1 DEF Has
<1>12. NeverLost'
  <2> SUFFICES ASSUME NEW i \in Ids' PROVE Has(i)' \/ Kept(i)'
    BY DEF NeverLost
  <2>1. CASE i \in Ids
    BY <1>0, <1>2, <1>6, <2>1 DEF IInv, NeverLost, Has, Kept
  <2>2. CASE i = Len(log) + 1
    BY <1>6, <2>2, NilAssumption DEF Kept
  <2> QED
    BY <1>3, <2>1, <2>2
<1> QED
  BY <1>8, <1>10, <1>11, <1>12 DEF IInv

-----------------------------------------------------------------------------
(* Every step keeps the invariant *)

LEMMA NextInv == IInv /\ [Next]_vars => IInv'
<1> SUFFICES ASSUME IInv, [Next]_vars PROVE IInv'
  OBVIOUS
<1>1. ASSUME NEW r \in Replays, ReplayStep(r) PROVE IInv'
  BY <1>1, StartInv, ClaimInv, LoopStepInv, AckInv, ParkInv, MarkReadInv,
     MarkWriteInv, AskCashierInv, DialogClosesInv, FinishInv DEF ReplayStep
<1>2. ASSUME NEW k \in Calls, EdgeStep(k) \/ BufferedCallExpires(k) PROVE IInv'
  BY <1>2, ReceiveInv, LookForIdInv, InsertInv, ApplyWorkInv, ApplyPaymentInv,
     BufferedCallExpiresInv DEF EdgeStep
<1>3. CASE Environment
  <2>1. ASSUME NEW o \in Orders, NEW c \in Cashiers,
               CreateOffline(o, c) \/ \E op \in {"work", "pay"} : PatchOffline(o, op, c)
        PROVE  IInv'
    BY <2>1, EnqueueInv DEF CreateOffline, PatchOffline
  <2>2. ASSUME NEW k \in Calls, CallFails(k) \/ Deadline(k) PROVE IInv'
    BY <2>2, CallFailsInv, DeadlineInv
  <2> QED
    BY <1>3, <2>1, <2>2, CloseDrawerInv, OtherTillPaysInv, DropInv, RestartInv, PressInv
       DEF Environment
<1>4. CASE UNCHANGED vars
  <2>1. UNCHANGED <<log, replays, calls, edge>> /\ box' = box /\ discarded' = discarded
    BY <1>4 DEF vars, replays
  <2>2. TypeOK'
    BY <1>4 DEF vars, IInv, TypeOK, Ids, Copies, Requests
  <2>3. NeverLost'
    BY <2>1, NeverLostStays, SameEdgeKeeps DEF Kept
  <2> QED
    BY <2>1, <2>2, <2>3, ReplaysStay DEF IInv
<1> QED
  BY <1>1, <1>2, <1>3, <1>4, BackoffElapsesInv, PressWriteInv, ReconnectInv DEF Next

LEMMA Invariant == Spec => []IInv
<1>1. Init => IInv
  BY InitInv
<1>2. IInv /\ [Next]_vars => IInv'
  BY NextInv
<1> QED
  BY <1>1, <1>2, PTL DEF Spec

(***************************************************************************)
(* The state of the terminal, the requests and the edge stay well-formed   *)
(* for every number of entries, replays and mishaps.                       *)
(***************************************************************************)
THEOREM TerminalTypeCorrect == Spec => []TypeOK
<1>1. IInv => TypeOK
  BY DEF IInv
<1> QED
  BY <1>1, Invariant, PTL

(***************************************************************************)
(* An order taken offline is on the edge, in the outbox or thrown away by  *)
(* the operator, whatever overlaps, gets lost, fails or restarts.          *)
(***************************************************************************)
THEOREM OrdersSafe == Spec => []OrderNeverLost
<1>1. IInv => OrderNeverLost
  BY NeverLostSplits DEF IInv
<1> QED
  BY <1>1, Invariant, PTL

(***************************************************************************)
(* Cash taken offline is booked on the edge under its own transaction, in  *)
(* the outbox or thrown away by the operator, also beside other tills.     *)
(***************************************************************************)
THEOREM PaymentsSafe == Spec => []PaymentNeverLost
<1>1. IInv => PaymentNeverLost
  BY NeverLostSplits DEF IInv
<1> QED
  BY <1>1, Invariant, PTL
-----------------------------------------------------------------------------
(***************************************************************************)
(* OfflineSales is implemented.  Most steps change nothing of log, box,    *)
(* discarded and edge, and are invisible; the others are a step each.      *)
(***************************************************************************)

SalesStep == [Sales!Next]_Sales!vars

\* What is visible of a state.
Held == {i \in Ids : box[i] # Nil}
Made == {o \in Orders : edge[o].made}
Paid == [o \in Orders |-> edge[o].paid]

LEMMA SalesVars == Sales!vars = <<log, Held, discarded, Made, Paid>>
  BY DEF Sales!vars, Held, Made, Paid

\* A step that is not seen.
LEMMA Unseen ==
  ASSUME log' = log, box' = box, discarded' = discarded, edge' = edge
  PROVE  SalesStep
  BY DEF SalesStep, Sales!vars, Ids

LEMMA ReplayUnseen ==
  ASSUME NEW r \in Replays,
         \/ Start(r) \/ Claim(r) \/ LoopStep(r) \/ Park(r) \/ MarkRead(r)
         \/ AskCashier(r) \/ DialogCloses(r) \/ Finish(r)
  PROVE  SalesStep
<1>1. log' = log /\ box' = box /\ discarded' = discarded /\ edge' = edge
  BY DEF Start, Claim, LoopStep, Park, MarkRead, AskCashier, DialogCloses, Finish, terminal
<1> QED
  BY <1>1, Unseen

LEMMA CallUnseen ==
  ASSUME NEW k \in Calls,
         \/ Receive(k) \/ LookForId(k) \/ CallFails(k) \/ Deadline(k)
         \/ BufferedCallExpires(k)
  PROVE  SalesStep
<1>1. log' = log /\ box' = box /\ discarded' = discarded /\ edge' = edge
  BY DEF Receive, LookForId, CallFails, Deadline, BufferedCallExpires, GiveUpWaiting,
         AnswerWith, terminal
<1> QED
  BY <1>1, Unseen

LEMMA WorldUnseen ==
  ASSUME \/ Drop \/ Restart \/ Press \/ Reconnect
         \/ \E c \in Cashiers : CloseDrawer(c)
  PROVE  SalesStep
<1>1. log' = log /\ box' = box /\ discarded' = discarded /\ edge' = edge
  BY DEF Drop, Restart, Press, Reconnect, CloseDrawer, terminal
<1> QED
  BY <1>1, Unseen

\* An order or a payment is taken.
LEMMA EnqueueTakes ==
  ASSUME IInv, NEW o \in Orders, NEW op \in {"create", "work", "pay"}, NEW c \in Cashiers,
         Enqueue(o, op, c),
         IF op = "create" THEN ~edge[o].made /\ ~Logged(o, "create")
                          ELSE Logged(o, "create") /\ ~Logged(o, "pay")
  PROVE  SalesStep
<1> DEFINE t == [order |-> o, op |-> op, cashier |-> c]
           put == [status |-> "pending", attempts |-> 0, due |-> TRUE]
<1>1. t \in LogEntries /\ t.order = o /\ t.op = op
  BY DEF LogEntries
<1>2. log' = Append(log, t) /\ discarded' = discarded /\ edge' = edge
  BY DEF Enqueue
<1>3. Len(log) \in Nat /\ Len(log') = Len(log) + 1
  BY <1>1, <1>2 DEF IInv, TypeOK
<1>4. \A i \in 1..(Len(log) + 1) : box'[i] = IF i \in Ids THEN box[i] ELSE put
  BY <1>3 DEF Enqueue, Ids
<1>5. put # Nil
  <2>1. put \in Entries
    BY DEF Entries
  <2> QED
    BY <2>1, NilAssumption
<1>6. Held' = Held \cup {Len(log) + 1}
  BY <1>3, <1>4, <1>5 DEF Held, Ids
<1>7. Sales!Take(t)
  <2>1. IF t.op = "create" THEN t.order \notin Made /\ ~Sales!TakenFor(t.order, "create")
                           ELSE Sales!TakenFor(t.order, "create") /\ ~Sales!TakenFor(t.order, "pay")
    BY <1>1 DEF Made, Sales!TakenFor, Sales!Taken, Logged, Ids
  <2>2. Made' = Made /\ Paid' = Paid
    BY <1>2 DEF Made, Paid
  <2> QED
    BY <1>2, <1>6, <2>1, <2>2 DEF Sales!Take, Held, Made, Paid
<1> QED
  BY <1>1, <1>7 DEF SalesStep, Sales!Next

\* The edge stores an order that was taken.
LEMMA InsertStores ==
  ASSUME IInv, NEW k \in Calls, Insert(k)
  PROVE  SalesStep
<1>0. calls[k] # Nil
  BY DEF Insert
<1>order. PICK o \in Orders : o = Request(k).order
  BY <1>0, CallTyped
<1>1. /\ log' = log /\ box' = box /\ discarded' = discarded
      /\ edge' = [edge EXCEPT ![o].made = TRUE]
  BY <1>order DEF Insert, AnswerWith, terminal
<1>2. calls[k].id \in Ids /\ edge[o] \in EdgeOrders
  BY <1>0, CallTyped DEF IInv, TypeOK
<1>3. log[calls[k].id].op = "create" /\ log[calls[k].id].order = o
  BY <1>order DEF Insert, IInv, Waiting, Request
<1>4. Held' = Held /\ Paid' = Paid /\ Made' = Made \cup {o}
  <2>1. \A x \in Orders : edge'[x].paid = edge[x].paid
                          /\ edge'[x].made = (IF x = o THEN TRUE ELSE edge[x].made)
    BY <1>1, <1>2 DEF IInv, TypeOK, EdgeOrders
  <2> QED
    BY <1>1, <1>2, <2>1 DEF Held, Paid, Made, Ids
<1>5. CASE o \in Made
  BY <1>1, <1>4, <1>5, SalesVars DEF SalesStep, Held, Made, Paid, Sales!vars
<1>6. CASE o \notin Made
  <2>1. Sales!TakenFor(o, "create")
    BY <1>2, <1>3 DEF Sales!TakenFor, Sales!Taken, Ids
  <2>2. Sales!Store(o)
    BY <1>1, <1>4, <1>6, <2>1 DEF Sales!Store, Held, Made, Paid
  <2> QED
    BY <1>2, <2>2 DEF SalesStep, Sales!Next
<1> QED
  BY <1>5, <1>6

\* Patches of an order are not looked at.
LEMMA WorkUnseen ==
  ASSUME IInv, NEW k \in Calls, ApplyWork(k)
  PROVE  SalesStep
<1>1. calls[k] # Nil /\ log' = log /\ box' = box /\ discarded' = discarded
  BY DEF ApplyWork, AnswerWith, terminal
<1>2. Request(k).order \in Orders
  BY <1>1, CallTyped
<1>3. \A x \in Orders : edge'[x].paid = edge[x].paid /\ edge'[x].made = edge[x].made
  <2>1. CASE edge' = edge
    BY <2>1
  <2>2. CASE edge' = [edge EXCEPT ![Request(k).order].work = calls[k].id]
    BY <1>2, <2>2 DEF IInv, TypeOK, EdgeOrders
  <2> QED
    BY <2>1, <2>2 DEF ApplyWork
<1>4. Held' = Held /\ Made' = Made /\ Paid' = Paid
  BY <1>1, <1>3 DEF Held, Made, Paid, Ids
<1> QED
  BY <1>1, <1>4 DEF SalesStep, Held, Made, Paid, Sales!vars

\* A payment is booked if none is, or is found booked.
LEMMA PaymentBooks ==
  ASSUME IInv, NEW k \in Calls, ApplyPayment(k)
  PROVE  SalesStep
<1>1. calls[k] # Nil /\ log' = log /\ box' = box /\ discarded' = discarded
  BY DEF ApplyPayment, AnswerWith, terminal
<1>order. PICK o \in Orders : o = Request(k).order
  BY <1>1, CallTyped
<1>entry. PICK i \in Ids : i = calls[k].id
  BY <1>1, CallTyped
<1>2. edge[o] \in EdgeOrders /\ log[i].order = o /\ log[i].op = "pay"
  BY <1>order, <1>entry DEF IInv, TypeOK, ApplyPayment, Request
<1>3. CASE PayVerdict(k) # "ok"
  BY <1>1, <1>3, Unseen DEF ApplyPayment
<1>4. CASE PayVerdict(k) = "ok"
  <2>1. edge[o].made /\ (edge[o].paid = 0 \/ edge[o].paid = i)
    BY <1>4, <1>order, <1>entry DEF PayVerdict
  <2>2. edge' = [edge EXCEPT ![o].paid = i]
    BY <1>4, <1>order, <1>entry DEF ApplyPayment
  <2>3. \A x \in Orders : edge'[x].made = edge[x].made
                          /\ edge'[x].paid = (IF x = o THEN i ELSE edge[x].paid)
    BY <1>2, <2>2 DEF IInv, TypeOK, EdgeOrders
  <2>4. Held' = Held /\ Made' = Made
    BY <1>1, <2>3 DEF Held, Made, Ids
  <2>5. Paid' = [Paid EXCEPT ![o] = i]
    BY <1>2, <2>3 DEF Paid
  <2>6. CASE edge[o].paid = i
    <3>1. Paid' = Paid
      BY <2>3, <2>6 DEF Paid
    <3> QED
      BY <1>1, <2>4, <3>1 DEF SalesStep, Held, Made, Paid, Sales!vars
  <2>7. CASE edge[o].paid = 0
    <3>1. Sales!Book(i)
      BY <1>1, <1>2, <2>1, <2>4, <2>5, <2>7 DEF Sales!Book, Held, Made, Paid
    <3> QED
      BY <3>1 DEF SalesStep, Sales!Next, Sales!Taken, Ids
  <2> QED
    BY <2>1, <2>6, <2>7
<1> QED
  BY <1>3, <1>4

LEMMA OtherTillBooks ==
  ASSUME IInv, NEW o \in Orders, OtherTillPays(o)
  PROVE  SalesStep
<1>1. /\ log' = log /\ box' = box /\ discarded' = discarded
      /\ edge[o].made /\ edge[o].paid = 0 /\ edge' = [edge EXCEPT ![o].paid = Nil]
  BY DEF OtherTillPays, terminal
<1>2. \A x \in Orders : edge'[x].made = edge[x].made
                        /\ edge'[x].paid = (IF x = o THEN Nil ELSE edge[x].paid)
  BY <1>1 DEF IInv, TypeOK, EdgeOrders
<1>3. Held' = Held /\ Made' = Made /\ Paid' = [Paid EXCEPT ![o] = Nil]
  BY <1>1, <1>2 DEF Held, Made, Paid, Ids
<1>4. Sales!PayElsewhere(o)
  BY <1>1, <1>3 DEF Sales!PayElsewhere, Held, Made, Paid
<1> QED
  BY <1>4 DEF SalesStep, Sales!Next

\* An entry leaves the outbox for what the edge has: the verdict was truthful.
LEMMA AckReleases ==
  ASSUME IInv, NEW r \in Replays, Ack(r)
  PROVE  SalesStep
<1>0. entry[r].id \in Ids /\ Has(entry[r].id)
  BY DEF Ack, IInv, AtEntry, Truthful, Copies
<1>entry. PICK i \in Ids : i = entry[r].id
  BY <1>0
<1>1. /\ log' = log /\ discarded' = discarded /\ edge' = edge
      /\ box' = [box EXCEPT ![i] = Nil]
  BY <1>entry DEF Ack
<1>2. Has(i)
  BY <1>0, <1>entry DEF Has
<1>3. log[i].order \in Orders
  BY <1>2, LogTyped DEF IInv
<1>4. Made' = Made /\ Paid' = Paid
  BY <1>1 DEF Made, Paid
<1>5. Held' = Held \ {i}
  BY <1>1, <1>2 DEF Held, Ids, IInv, TypeOK
<1>6. CASE i \notin Held
  BY <1>1, <1>4, <1>5, <1>6 DEF SalesStep, Held, Made, Paid, Sales!vars
<1>7. CASE i \in Held
  <2>1. Sales!Done(i)
    BY <1>2, <1>3 DEF Sales!Done, Has
  <2>2. Sales!Release(i)
    BY <1>1, <1>4, <1>5, <1>7, <2>1 DEF Sales!Release, Held, Made, Paid
  <2> QED
    BY <2>2 DEF SalesStep, Sales!Next, Sales!Taken, Ids
<1> QED
  BY <1>6, <1>7

\* A copy that is written back may bring an entry back.
LEMMA WrittenReturns ==
  ASSUME IInv, NEW i \in Ids, NEW e \in Entries, box' = [box EXCEPT ![i] = e],
         log' = log, discarded' = discarded, edge' = edge
  PROVE  SalesStep
<1>1. e # Nil
  BY NilAssumption
<1>2. Held' = Held \cup {i}
  BY <1>1 DEF Held, Ids, IInv, TypeOK
<1>3. Made' = Made /\ Paid' = Paid
  BY DEF Made, Paid
<1>4. Sales!Return(i)
  BY <1>2, <1>3 DEF Sales!Return, Held, Made, Paid
<1> QED
  BY <1>4 DEF SalesStep, Sales!Next, Sales!Taken, Ids

LEMMA MarkWriteReturns ==
  ASSUME IInv, NEW r \in Replays, MarkWrite(r)
  PROVE  SalesStep
<1>1. entry[r].id \in Ids /\ image[r] \in Entries
  BY DEF MarkWrite, IInv, AtEntry, Copies
<1> QED
  BY <1>1, WrittenReturns DEF MarkWrite

LEMMA BackoffReturns ==
  ASSUME IInv, NEW i \in Ids, BackoffElapses(i)
  PROVE  SalesStep
<1>1. box[i] \in Entries /\ box' = [box EXCEPT ![i] = [box[i] EXCEPT !.due = TRUE]]
  BY DEF BackoffElapses, Pending, IInv, TypeOK
<1>2. [box[i] EXCEPT !.due = TRUE] \in Entries
  BY <1>1 DEF Entries
<1> QED
  BY <1>1, <1>2, WrittenReturns DEF BackoffElapses

\* The operator's buttons bring back, or throw away.
LEMMA PressWriteShows ==
  ASSUME IInv, NEW c \in oper, PressWrite(c)
  PROVE  SalesStep
<1>1. /\ c.id \in Ids /\ c.put \in Entries \cup {Nil}
      /\ log' = log /\ edge' = edge /\ box' = [box EXCEPT ![c.id] = c.put]
      /\ discarded' = IF c.put = Nil THEN discarded \cup {c.id} ELSE discarded
  BY DEF PressWrite, IInv, TypeOK
<1>2. CASE c.put # Nil
  BY <1>1, <1>2, WrittenReturns
<1>3. CASE c.put = Nil
  <2>1. Held' = Held \ {c.id}
    BY <1>1, <1>3 DEF Held, Ids, IInv, TypeOK
  <2>2. Made' = Made /\ Paid' = Paid
    BY <1>1 DEF Made, Paid
  <2>3. Sales!Discard(c.id)
    BY <1>1, <1>3, <2>1, <2>2 DEF Sales!Discard, Held, Made, Paid
  <2> QED
    BY <1>1, <2>3 DEF SalesStep, Sales!Next, Sales!Taken, Ids
<1> QED
  BY <1>2, <1>3

LEMMA StepShows == IInv /\ [Next]_vars => SalesStep
<1> SUFFICES ASSUME IInv, [Next]_vars PROVE SalesStep
  OBVIOUS
<1>1. ASSUME NEW r \in Replays, ReplayStep(r) PROVE SalesStep
  BY <1>1, ReplayUnseen, AckReleases, MarkWriteReturns DEF ReplayStep
<1>2. ASSUME NEW k \in Calls, EdgeStep(k) \/ BufferedCallExpires(k) PROVE SalesStep
  BY <1>2, CallUnseen, InsertStores, WorkUnseen, PaymentBooks DEF EdgeStep
<1>3. ASSUME Environment PROVE SalesStep
  <2>1. ASSUME NEW o \in Orders, NEW c \in Cashiers, CreateOffline(o, c) PROVE SalesStep
    BY <2>1, EnqueueTakes DEF CreateOffline
  <2>2. ASSUME NEW o \in Orders, NEW c \in Cashiers, NEW op \in {"work", "pay"},
               PatchOffline(o, op, c)
        PROVE  SalesStep
    BY <2>2, EnqueueTakes DEF PatchOffline
  <2> QED
    BY <1>3, <2>1, <2>2, CallUnseen, WorldUnseen, OtherTillBooks DEF Environment
<1>4. CASE UNCHANGED vars
  BY <1>4, Unseen DEF vars
<1> QED
  BY <1>1, <1>2, <1>3, <1>4, BackoffReturns, PressWriteShows, WorldUnseen DEF Next

(***************************************************************************)
(* However often and by however many replays an entry is sent, the edge    *)
(* stores an order once and books one payment of it, and an entry leaves   *)
(* the outbox only when the edge has what it says.                         *)
(***************************************************************************)
THEOREM SalesSafe == Spec => BookedOnce
<1>1. Init => Sales!Init
  <2> SUFFICES ASSUME Init PROVE Sales!Init
    OBVIOUS
  <2>1. Held = {} /\ Made = {} /\ Paid = [o \in Orders |-> 0]
    BY DEF Init, Held, Made, Paid, Ids
  <2> QED
    BY <2>1 DEF Init, Sales!Init, Held, Made, Paid
<1>2. IInv /\ [Next]_vars => [Sales!Next]_Sales!vars
  BY StepShows DEF SalesStep
<1> QED
  BY <1>1, <1>2, Invariant, PTL DEF Spec, BookedOnce, Sales!Spec
=============================================================================
