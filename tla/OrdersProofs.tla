---------------------------- MODULE OrdersProofs ----------------------------
(***************************************************************************)
(* Proofs about the orders and drawers of the edge, for any number of      *)
(* requests, orders, lines, cashiers and drawers: type correctness, one    *)
(* open drawer per cashier, one receipt per order, a payment that stays    *)
(* what it is, splits that are booked or taken back as a whole, and        *)
(* receipts that bill no unit of a line twice.                             *)
(*                                                                         *)
(* Receipts and payments rest on the same fact: of the calls that are past *)
(* the mutex of the payment patches, no two are about the same order.      *)
(* Splits and revenue are about one call at a time (Serial); the revenue   *)
(* is counted in units of a line, not summed.                              *)
(***************************************************************************)
EXTENDS Orders, FiniteSetTheorems, TLAPS

-----------------------------------------------------------------------------
\* Type correctness.

USE DEF Ids, Drawers, None

\* What a line has given away is a number.
LEMMA MovedCounts ==
  ASSUME NEW record, NEW l
  PROVE  Moved(record, l) \in Nat
<1> DEFINE All == Ids \X (1..MaxAmount)
           Gone == {unit \in All : unit[2] <= record.splitOff[unit[1]][l]}
<1>1. IsFiniteSet(Ids) /\ IsFiniteSet(1..MaxAmount)
  BY FS_Interval, OrdersAssumption
<1>2. IsFiniteSet(All)
  BY <1>1, FS_Product
<1>3. IsFiniteSet(Gone)
  BY <1>2, FS_Subset
<1>4. Cardinality(Gone) \in Nat
  BY <1>3, FS_CardinalityType
<1> QED
  BY <1>4 DEF Moved

\* The effective lines of an order are amounts, not more than its lines.
LEMMA EffectiveTyped ==
  ASSUME NEW record \in OrderRecords
  PROVE  /\ Effective(record) \in Amounts
         /\ \A l \in Lines : Effective(record)[l] <= record.lines[l]
<1>1. \A l \in Lines : Moved(record, l) \in Nat
  BY MovedCounts
<1>2. \A l \in Lines : record.lines[l] \in 0..MaxAmount
  BY DEF OrderRecords, Amounts
<1>3. ASSUME NEW l \in Lines
      PROVE  LET left == IF Moved(record, l) >= record.lines[l] THEN 0
                         ELSE record.lines[l] - Moved(record, l)
             IN  left \in 0..MaxAmount /\ left <= record.lines[l]
  BY <1>1, <1>2, OrdersAssumption
<1> QED
  BY <1>3 DEF Effective, Amounts

\* The order that is not there and the request that is not there.
LEMMA RecordsTyped ==
    /\ Nothing \in Amounts /\ Ordered \in Amounts
    /\ Blank \in OrderRecords /\ Idle \in RequestRecords
<1>1. Nothing \in Amounts /\ Ordered \in Amounts
  BY OrdersAssumption DEF Nothing, Ordered, Amounts
<1>2. Blank \in OrderRecords
  BY <1>1 DEF Blank, OrderRecords
<1>3. Idle \in RequestRecords
  BY <1>1, <1>2, OrdersAssumption DEF Idle, RequestRecords, Steps, Kinds, Statuses, Ranks
<1> QED
  BY <1>1, <1>2, <1>3

LEMMA InitTyped == Init => TypeOK
<1> SUFFICES ASSUME Init PROVE TypeOK
  OBVIOUS
<1>1. [Blank EXCEPT !.status = "active", !.lines = Ordered] \in OrderRecords
  BY RecordsTyped DEF OrderRecords, Statuses
<1>2. order \in [Ids -> OrderRecords]
  BY <1>1, RecordsTyped DEF Init
<1>3. receipts \in [Ids -> Seq(Amounts)]
  BY DEF Init
<1>4. drawer \in [Drawers -> [by : SUBSET Cashiers, rank : Ranks]]
  BY DEF Init, Ranks
<1>5. /\ may \in Mixes /\ payLock \in [Ids -> SUBSET Requests]
      /\ drawerLock \in SUBSET Requests
      /\ reported \in SUBSET Ids /\ unnoticed \in SUBSET Ids
      /\ req \in [Requests -> RequestRecords]
  BY RecordsTyped DEF Init
<1> QED
  BY <1>2, <1>3, <1>4, <1>5 DEF TypeOK

\* A request that undoes or finishes a split has a target.
Aimed == \A r \in Requests : req[r].at \in {"source", "reread", "abort"} => req[r].target \in Ids

\* What a step of one request leaves typed besides the tables.
CallsTyped ==
    /\ req \in [Requests -> RequestRecords]
    /\ payLock \in [Ids -> SUBSET Requests]
    /\ drawerLock \in SUBSET Requests

\* The end of a call.
LEMMA EndsTyped ==
  ASSUME TypeOK, Aimed, NEW r \in Requests, Ends(r)
  PROVE  CallsTyped' /\ Aimed'
<1>1. CallsTyped'
  BY RecordsTyped DEF TypeOK, Ends, CallsTyped
<1>2. Aimed'
  BY DEF Aimed, Ends, Idle, TypeOK
<1> QED
  BY <1>1, <1>2

\* A step of a call that goes on.
LEMMA GoesTyped ==
  ASSUME TypeOK, Aimed, NEW r \in Requests, NEW new \in RequestRecords,
         new.at \in {"source", "reread", "abort"} => new.target \in Ids,
         req' = [req EXCEPT ![r] = new],
         payLock' \in [Ids -> SUBSET Requests], drawerLock' \in SUBSET Requests
  PROVE  CallsTyped' /\ Aimed'
  BY DEF TypeOK, Aimed, CallsTyped

\* An order that is written.
LEMMA WrittenTyped ==
  ASSUME TypeOK, NEW o \in Ids, NEW record \in OrderRecords
  PROVE  [order EXCEPT ![o] = record] \in [Ids -> OrderRecords]
  BY DEF TypeOK

\* What a request that goes on becomes.
LEMMA GoneOn ==
  ASSUME TypeOK, NEW r \in Requests, NEW step \in Steps, Goes(r, step)
  PROVE  /\ [req[r] EXCEPT !.at = step] \in RequestRecords
         /\ req' = [req EXCEPT ![r] = [req[r] EXCEPT !.at = step]]
<1>1. req[r] \in RequestRecords
  BY DEF TypeOK
<1>2. [req[r] EXCEPT !.at = step] \in RequestRecords
  BY <1>1 DEF RequestRecords
<1>3. req' = [req EXCEPT ![r] = [req[r] EXCEPT !.at = step]]
  BY DEF Goes, TypeOK
<1> QED
  BY <1>2, <1>3

LEMMA StepTyped ==
  ASSUME TypeOK, Aimed, NEW r \in Requests, NEW step \in Steps, Goes(r, step),
         step \in {"source", "reread", "abort"} => req[r].at \in {"source", "reread", "abort"},
         payLock' \in [Ids -> SUBSET Requests], drawerLock' \in SUBSET Requests
  PROVE  CallsTyped' /\ Aimed'
<1> DEFINE new == [req[r] EXCEPT !.at = step]
<1>1. new \in RequestRecords /\ req' = [req EXCEPT ![r] = new]
  BY GoneOn
<1>2. new.at = step /\ new.target = req[r].target
  BY DEF TypeOK, RequestRecords
<1>3. new.at \in {"source", "reread", "abort"} => new.target \in Ids
  BY <1>2 DEF Aimed
<1> HIDE DEF new
<1> QED
  BY <1>1, <1>3, GoesTyped

-----------------------------------------------------------------------------
\* Type correctness, action by action.

TypedStep == TypeOK' /\ Aimed'

LEMMA ReadSourceTyped ==
  ASSUME TypeOK, Aimed, NEW r \in Requests, NEW o \in Ids, ReadSource(r, o)
  PROVE  TypedStep
<1> DEFINE new == [Idle EXCEPT !.at = "receipts?", !.kind = "split", !.order = o, !.seen = order[o]]
<1>1. new \in RequestRecords /\ new.at = "receipts?"
  BY RecordsTyped DEF TypeOK, RequestRecords, Steps, Kinds
<1>2. req' = [req EXCEPT ![r] = new]
  BY DEF ReadSource
<1> HIDE DEF new
<1>3. CallsTyped' /\ Aimed'
  BY <1>1, <1>2, GoesTyped DEF ReadSource, ComesIn, locks, TypeOK
<1> QED
  BY <1>3 DEF ReadSource, ComesIn, fixed, TypeOK, CallsTyped, TypedStep

LEMMA PlanSplitTyped ==
  ASSUME TypeOK, Aimed, NEW r \in Requests, PlanSplit(r)
  PROVE  TypedStep
<1>1. CallsTyped' /\ Aimed'
  <2>1. CASE Ends(r)
    BY <2>1, EndsTyped
  <2>2. CASE /\ UNCHANGED locks
             /\ \E sel \in Selections(req[r].seen) :
                  req' = [req EXCEPT ![r].at = "create", ![r].amounts = sel]
    <3>1. PICK sel \in Selections(req[r].seen) :
                 req' = [req EXCEPT ![r].at = "create", ![r].amounts = sel]
      BY <2>2
    <3> DEFINE new == [[req[r] EXCEPT !.at = "create"] EXCEPT !.amounts = sel]
    <3>2. new \in RequestRecords /\ new.at = "create"
      <4>1. req[r] \in RequestRecords /\ sel \in Amounts
        BY DEF TypeOK, Selections, Amounts
      <4> QED
        BY <4>1 DEF RequestRecords, Steps
    <3>3. req' = [req EXCEPT ![r] = new]
      BY <3>1 DEF TypeOK
    <3> HIDE DEF new
    <3> QED
      BY <2>2, <3>2, <3>3, GoesTyped DEF locks, TypeOK
  <2> QED
    BY <2>1, <2>2 DEF PlanSplit
<1> QED
  BY <1>1 DEF PlanSplit, fixed, TypeOK, CallsTyped, TypedStep

LEMMA CreateTargetTyped ==
  ASSUME TypeOK, Aimed, NEW r \in Requests, CreateTarget(r)
  PROVE  TypedStep
<1>1. PICK t \in Ids :
        /\ order' = [order EXCEPT ![t] = [Blank EXCEPT !.status = req[r].seen.status,
                                            !.lines = req[r].amounts, !.from = req[r].order]]
        /\ \/ /\ req' = [req EXCEPT ![r].at = "source", ![r].target = t]
              /\ UNCHANGED <<unnoticed, locks>>
           \/ Ends(r) /\ unnoticed' = unnoticed \cup {t}
  BY DEF CreateTarget
<1> DEFINE record == [Blank EXCEPT !.status = req[r].seen.status,
                                   !.lines = req[r].amounts, !.from = req[r].order]
<1> DEFINE new == [[req[r] EXCEPT !.at = "source"] EXCEPT !.target = t]
<1>2. req[r] \in RequestRecords
  BY DEF TypeOK
<1>3. record \in OrderRecords
  BY <1>2, RecordsTyped DEF OrderRecords, RequestRecords
<1>4. order' \in [Ids -> OrderRecords]
  BY <1>1, <1>3, WrittenTyped
<1>5. new \in RequestRecords /\ new.at = "source" /\ new.target = t
  BY <1>2 DEF RequestRecords, Steps
<1> HIDE DEF record
<1>6. CASE req' = [req EXCEPT ![r].at = "source", ![r].target = t] /\ UNCHANGED <<unnoticed, locks>>
  <2>1. req' = [req EXCEPT ![r] = new]
    BY <1>6 DEF TypeOK
  <2> HIDE DEF new
  <2>2. CallsTyped' /\ Aimed'
    BY <1>5, <1>6, <2>1, GoesTyped DEF locks, TypeOK
  <2> QED
    BY <1>4, <1>6, <2>2 DEF CreateTarget, TypeOK, CallsTyped, TypedStep
<1>7. CASE Ends(r) /\ unnoticed' = unnoticed \cup {t}
  BY <1>4, <1>7, EndsTyped DEF CreateTarget, TypeOK, CallsTyped, TypedStep
<1> QED
  BY <1>1, <1>6, <1>7

LEMMA AfterPatchTyped ==
  ASSUME TypeOK, Aimed, NEW r \in Requests, NEW record \in OrderRecords, AfterPatch(r, record)
  PROVE  CallsTyped' /\ Aimed'
<1>1. CASE record.status # "completed"
  BY <1>1, EndsTyped DEF AfterPatch
<1>2. CASE record.status = "completed"
  <2> DEFINE amounts == Effective(record)
             new == [[req[r] EXCEPT !.at = "receipt?"] EXCEPT !.amounts = amounts]
  <2>1. amounts \in Amounts
    BY EffectiveTyped
  <2>2. req' = [req EXCEPT ![r].at = "receipt?", ![r].amounts = amounts] /\ UNCHANGED locks
    BY <1>2 DEF AfterPatch
  <2> HIDE DEF amounts
  <2>3. new \in RequestRecords /\ new.at = "receipt?"
    <3>1. req[r] \in RequestRecords
      BY DEF TypeOK
    <3> QED
      BY <2>1, <3>1 DEF RequestRecords, Steps
  <2>4. req' = [req EXCEPT ![r] = new]
    BY <2>2 DEF TypeOK
  <2> HIDE DEF new
  <2> QED
    BY <2>2, <2>3, <2>4, GoesTyped DEF locks, TypeOK
<1> QED
  BY <1>1, <1>2

LEMMA PatchSourceTyped ==
  ASSUME TypeOK, Aimed, NEW r \in Requests, PatchSource(r)
  PROVE  TypedStep
<1> DEFINE o == req[r].order
           written == [order[o] EXCEPT !.splitOff = Booked(req[r])]
<1>1. req[r] \in RequestRecords /\ o \in Ids /\ order[o] \in OrderRecords
  BY DEF TypeOK, RequestRecords
<1>2. Booked(req[r]) \in [Ids -> Amounts]
  BY <1>1 DEF Booked, RequestRecords, OrderRecords
<1>3. written \in OrderRecords
  BY <1>1, <1>2 DEF OrderRecords
<1>4. order' \in {order, [order EXCEPT ![o] = written]}
  BY DEF PatchSource
<1>5. \/ AfterPatch(r, written)
      \/ Goes(r, "reread") /\ UNCHANGED locks
  BY DEF PatchSource
<1>6. order' \in [Ids -> OrderRecords]
  BY <1>1, <1>3, <1>4, WrittenTyped DEF TypeOK
<1> HIDE DEF written
<1>7. CallsTyped' /\ Aimed'
  <2>1. CASE AfterPatch(r, written)
    BY <1>3, <2>1, AfterPatchTyped
  <2>2. CASE Goes(r, "reread") /\ UNCHANGED locks
    BY <2>2, StepTyped DEF locks, TypeOK, Steps, PatchSource, At
  <2> QED
    BY <1>5, <2>1, <2>2
<1> QED
  BY <1>6, <1>7 DEF PatchSource, fixed, TypeOK, CallsTyped, TypedStep

LEMMA RereadSourceTyped ==
  ASSUME TypeOK, Aimed, NEW r \in Requests, RereadSource(r)
  PROVE  TypedStep
<1>1. CASE Ends(r)
  BY <1>1, EndsTyped DEF RereadSource, fixed, TypeOK, CallsTyped, TypedStep
<1>2. CASE Goes(r, "abort") /\ UNCHANGED locks
  <2>1. CallsTyped' /\ Aimed'
    BY <1>2, StepTyped DEF locks, TypeOK, Steps, RereadSource, At
  <2> QED
    BY <2>1 DEF RereadSource, fixed, TypeOK, CallsTyped, TypedStep
<1> QED
  BY <1>1, <1>2 DEF RereadSource

LEMMA AbortTargetTyped ==
  ASSUME TypeOK, Aimed, NEW r \in Requests, AbortTarget(r)
  PROVE  TypedStep
<1> DEFINE t == req[r].target
<1>1. t \in Ids
  BY DEF AbortTarget, At, Aimed
<1>2. [order[t] EXCEPT !.status = "aborted"] \in OrderRecords
  <2>1. order[t] \in OrderRecords
    BY <1>1 DEF TypeOK
  <2> QED
    BY <2>1 DEF OrderRecords, Statuses
<1>3. [order EXCEPT ![t].status = "aborted"] \in [Ids -> OrderRecords]
  BY <1>1, <1>2 DEF TypeOK
<1>4. order' \in {order, [order EXCEPT ![t].status = "aborted"]}
  BY DEF AbortTarget
<1>5. reported' \in SUBSET Ids /\ unnoticed' \in SUBSET Ids
  BY <1>1 DEF AbortTarget, TypeOK
<1>6. CallsTyped' /\ Aimed'
  BY EndsTyped DEF AbortTarget
<1> QED
  BY <1>3, <1>4, <1>5, <1>6 DEF AbortTarget, TypeOK, CallsTyped, TypedStep
LEMMA PatchStatusTyped ==
  ASSUME TypeOK, Aimed, NEW r \in Requests, NEW o \in Ids, NEW to \in Statuses, PatchStatus(r, o, to)
  PROVE  TypedStep
<1> DEFINE new == [Idle EXCEPT !.at = "check", !.kind = "status", !.order = o, !.to = to]
<1>1. new \in RequestRecords /\ new.at = "check"
  BY RecordsTyped DEF RequestRecords, Steps, Kinds
<1>2. req' = [req EXCEPT ![r] = new]
  BY DEF PatchStatus
<1> HIDE DEF new
<1>3. CallsTyped' /\ Aimed'
  BY <1>1, <1>2, GoesTyped DEF PatchStatus, ComesIn, locks, TypeOK
<1> QED
  BY <1>3 DEF PatchStatus, ComesIn, fixed, TypeOK, CallsTyped, TypedStep

LEMMA CheckoutTyped ==
  ASSUME TypeOK, Aimed, NEW r \in Requests, NEW o \in Ids, NEW c \in Cashiers, Checkout(r, o, c)
  PROVE  TypedStep
<1> DEFINE new == [Idle EXCEPT !.at = "lock", !.kind = "pay", !.order = o, !.to = "completed", !.by = {c}]
<1>1. new \in RequestRecords /\ new.at = "lock"
  BY RecordsTyped DEF RequestRecords, Steps, Kinds, Statuses
<1>2. req' = [req EXCEPT ![r] = new]
  BY DEF Checkout
<1> HIDE DEF new
<1>3. CallsTyped' /\ Aimed'
  BY <1>1, <1>2, GoesTyped DEF Checkout, ComesIn, locks, TypeOK
<1> QED
  BY <1>3 DEF Checkout, ComesIn, fixed, TypeOK, CallsTyped, TypedStep

LEMMA AcquirePayLockTyped ==
  ASSUME TypeOK, Aimed, NEW r \in Requests, AcquirePayLock(r)
  PROVE  TypedStep
<1>1. payLock' \in [Ids -> SUBSET Requests] /\ drawerLock' \in SUBSET Requests
  BY DEF AcquirePayLock, TypeOK
<1>2. CallsTyped' /\ Aimed'
  BY <1>1, StepTyped DEF AcquirePayLock, Steps
<1> QED
  BY <1>2 DEF AcquirePayLock, fixed, TypeOK, CallsTyped, TypedStep

LEMMA CheckPatchTyped ==
  ASSUME TypeOK, Aimed, NEW r \in Requests, CheckPatch(r)
  PROVE  TypedStep
<1>1. CASE Ends(r)
  BY <1>1, EndsTyped DEF CheckPatch, fixed, TypeOK, CallsTyped, TypedStep
<1>2. CASE ~Ends(r)
  <2>1. PICK by \in SUBSET Cashiers, step \in {"drawer?", "write"} :
          /\ req' = [req EXCEPT ![r].by = by, ![r].at = step]
          /\ UNCHANGED locks
    <3> DEFINE stored == order[req[r].order]
               repeat == ~IsOpen(stored.status) /\ req[r].by = stored.payment
               by     == IF repeat THEN {} ELSE req[r].by
               step   == IF May("cashier") /\ req[r].by # {} /\ ~repeat THEN "drawer?" ELSE "write"
    <3>1. /\ req' = [req EXCEPT ![r].by = by, ![r].at = step]
          /\ UNCHANGED locks
      BY <1>2 DEF CheckPatch
    <3>2. by \in SUBSET Cashiers /\ step \in {"drawer?", "write"}
      BY DEF TypeOK, RequestRecords
    <3> HIDE DEF by, step
    <3> QED
      BY <3>1, <3>2
  <2> DEFINE new == [[req[r] EXCEPT !.by = by] EXCEPT !.at = step]
  <2>2. new \in RequestRecords /\ new.at = step
    <3>1. req[r] \in RequestRecords
      BY DEF TypeOK
    <3> QED
      BY <3>1 DEF RequestRecords, Steps
  <2>3. req' = [req EXCEPT ![r] = new]
    BY <2>1 DEF TypeOK
  <2> HIDE DEF new
  <2>4. CallsTyped' /\ Aimed'
    BY <2>1, <2>2, <2>3, GoesTyped DEF locks, TypeOK
  <2> QED
    BY <2>4 DEF CheckPatch, fixed, TypeOK, CallsTyped, TypedStep
<1> QED
  BY <1>1, <1>2

\* A request that goes on to write its order with the drawer it has found.
LEMMA FoundTyped ==
  ASSUME TypeOK, Aimed, NEW r \in Requests, NEW d \in Drawers,
         req' = [req EXCEPT ![r].at = "write", ![r].drawer = d],
         payLock' \in [Ids -> SUBSET Requests], drawerLock' \in SUBSET Requests
  PROVE  CallsTyped' /\ Aimed'
<1> DEFINE new == [[req[r] EXCEPT !.at = "write"] EXCEPT !.drawer = d]
<1>1. new \in RequestRecords /\ new.at = "write"
  <2>1. req[r] \in RequestRecords
    BY DEF TypeOK
  <2> QED
    BY <2>1 DEF RequestRecords, Steps
<1>2. req' = [req EXCEPT ![r] = new]
  BY DEF TypeOK
<1> HIDE DEF new
<1> QED
  BY <1>1, <1>2, GoesTyped

LEMMA FindDrawerTyped ==
  ASSUME TypeOK, Aimed, NEW r \in Requests, FindDrawer(r)
  PROVE  TypedStep
<1>1. CallsTyped' /\ Aimed'
  <2>1. CASE Ends(r)
    BY <2>1, EndsTyped
  <2>2. CASE Goes(r, "open?") /\ UNCHANGED locks
    BY <2>2, StepTyped DEF locks, TypeOK, Steps
  <2>3. CASE /\ \E d \in OpenDrawers(req[r].by) :
                  req' = [req EXCEPT ![r].at = "write", ![r].drawer = d]
             /\ UNCHANGED locks
    BY <2>3, FoundTyped DEF locks, TypeOK, OpenDrawers
  <2> QED
    BY <2>1, <2>2, <2>3 DEF FindDrawer
<1> QED
  BY <1>1 DEF FindDrawer, fixed, TypeOK, CallsTyped, TypedStep

\* The order as a patch from outside leaves it.
Written(q) ==
    [order[q.order] EXCEPT !.status = q.to,
                           !.payment = IF q.by = {} THEN @ ELSE q.by,
                           !.drawer  = IF q.drawer = None THEN @ ELSE q.drawer]

LEMMA WrittenRecord ==
  ASSUME TypeOK, NEW r \in Requests
  PROVE  /\ Written(req[r]) \in OrderRecords
         /\ Written(req[r]).status = req[r].to
         /\ Written(req[r]).payment = IF req[r].by = {} THEN order[req[r].order].payment ELSE req[r].by
         /\ Written(req[r]).drawer = IF req[r].drawer = None THEN order[req[r].order].drawer
                                     ELSE req[r].drawer
         /\ Written(req[r]).lines = order[req[r].order].lines
         /\ Written(req[r]).splitOff = order[req[r].order].splitOff
         /\ Written(req[r]).from = order[req[r].order].from
<1>1. req[r] \in RequestRecords /\ order[req[r].order] \in OrderRecords
  BY DEF TypeOK, RequestRecords
<1> QED
  BY <1>1 DEF Written, OrderRecords, RequestRecords

LEMMA WritePatchTyped ==
  ASSUME TypeOK, Aimed, NEW r \in Requests, WritePatch(r)
  PROVE  TypedStep
<1>1. req[r].order \in Ids /\ Written(req[r]) \in OrderRecords
  BY WrittenRecord DEF TypeOK, RequestRecords
<1>2. order' \in {order, [order EXCEPT ![req[r].order] = Written(req[r])]}
  BY DEF WritePatch, Written
<1>3. order' \in [Ids -> OrderRecords]
  BY <1>1, <1>2, WrittenTyped DEF TypeOK
<1>4. AfterPatch(r, Written(req[r])) \/ Ends(r)
  BY DEF WritePatch, Written
<1>5. CallsTyped' /\ Aimed'
  BY <1>1, <1>4, AfterPatchTyped, EndsTyped
<1> QED
  BY <1>3, <1>5 DEF WritePatch, fixed, TypeOK, CallsTyped, TypedStep

LEMMA FindReceiptTyped ==
  ASSUME TypeOK, Aimed, NEW r \in Requests, FindReceipt(r)
  PROVE  TypedStep
<1>1. CASE Ends(r)
  BY <1>1, EndsTyped DEF FindReceipt, fixed, TypeOK, CallsTyped, TypedStep
<1>2. CASE Goes(r, "receipt") /\ UNCHANGED locks
  <2>1. CallsTyped' /\ Aimed'
    BY <1>2, StepTyped DEF locks, TypeOK, Steps
  <2> QED
    BY <2>1 DEF FindReceipt, fixed, TypeOK, CallsTyped, TypedStep
<1> QED
  BY <1>1, <1>2 DEF FindReceipt

LEMMA CreateReceiptTyped ==
  ASSUME TypeOK, Aimed, NEW r \in Requests, CreateReceipt(r)
  PROVE  TypedStep
<1>1. req[r].order \in Ids /\ req[r].amounts \in Amounts
  BY DEF TypeOK, RequestRecords
<1>2. receipts' \in [Ids -> Seq(Amounts)]
  BY <1>1 DEF CreateReceipt, Billed, TypeOK
<1>3. CallsTyped' /\ Aimed'
  BY EndsTyped DEF CreateReceipt
<1> QED
  BY <1>2, <1>3 DEF CreateReceipt, fixed, TypeOK, CallsTyped, TypedStep

LEMMA GrantTyped ==
  ASSUME TypeOK, Aimed, NEW r \in Requests, NEW c \in Cashiers, Grant(r, c)
  PROVE  TypedStep
<1> DEFINE new == [Idle EXCEPT !.at = "open?", !.kind = "grant", !.by = {c}]
<1>1. new \in RequestRecords /\ new.at = "open?"
  BY RecordsTyped DEF RequestRecords, Steps, Kinds
<1>2. req' = [req EXCEPT ![r] = new]
  BY DEF Grant
<1> HIDE DEF new
<1>3. CallsTyped' /\ Aimed'
  BY <1>1, <1>2, GoesTyped DEF Grant, ComesIn, locks, TypeOK
<1> QED
  BY <1>3 DEF Grant, ComesIn, fixed, TypeOK, CallsTyped, TypedStep

LEMMA FindOpenDrawerTyped ==
  ASSUME TypeOK, Aimed, NEW r \in Requests, FindOpenDrawer(r)
  PROVE  TypedStep
<1>1. CallsTyped' /\ Aimed'
  <2>1. CASE Ends(r)
    BY <2>1, EndsTyped
  <2>2. CASE drawerLock' = {r} /\ Goes(r, "insert") /\ UNCHANGED payLock
    BY <2>2, StepTyped DEF TypeOK, Steps
  <2>3. CASE /\ \E d \in OpenDrawers(req[r].by) :
                  req' = [req EXCEPT ![r].at = "write", ![r].drawer = d]
             /\ UNCHANGED locks
    BY <2>3, FoundTyped DEF locks, TypeOK, OpenDrawers
  <2> QED
    BY <2>1, <2>2, <2>3 DEF FindOpenDrawer
<1> QED
  BY <1>1 DEF FindOpenDrawer, fixed, TypeOK, CallsTyped, TypedStep

LEMMA InsertDrawerTyped ==
  ASSUME TypeOK, Aimed, NEW r \in Requests, InsertDrawer(r)
  PROVE  TypedStep
<1>1. PICK d \in Drawers :
        /\ drawer' = [drawer EXCEPT ![d] = [by |-> req[r].by, rank |-> 0]]
        /\ \/ Ends(r)
           \/ /\ req' = [req EXCEPT ![r].at = "write", ![r].drawer = d]
              /\ drawerLock' = drawerLock \ {r}
              /\ UNCHANGED payLock
  BY DEF InsertDrawer
<1>2. req[r].by \in SUBSET Cashiers
  BY DEF TypeOK, RequestRecords
<1>3. drawer' \in [Drawers -> [by : SUBSET Cashiers, rank : Ranks]]
  BY <1>1, <1>2 DEF TypeOK, Ranks
<1>4. CallsTyped' /\ Aimed'
  BY <1>1, EndsTyped, FoundTyped DEF TypeOK
<1> QED
  BY <1>3, <1>4 DEF InsertDrawer, fixed, TypeOK, CallsTyped, TypedStep

LEMMA PatchDrawerTyped ==
  ASSUME TypeOK, Aimed, NEW r \in Requests, NEW d \in Drawers, NEW rank \in Ranks, PatchDrawer(r, d, rank)
  PROVE  TypedStep
<1> DEFINE new == [Idle EXCEPT !.at = "rank?", !.kind = "count", !.drawer = d, !.rank = rank]
<1>1. new \in RequestRecords /\ new.at = "rank?"
  BY RecordsTyped DEF RequestRecords, Steps, Kinds
<1>2. req' = [req EXCEPT ![r] = new]
  BY DEF PatchDrawer
<1> HIDE DEF new
<1>3. CallsTyped' /\ Aimed'
  BY <1>1, <1>2, GoesTyped DEF PatchDrawer, ComesIn, locks, TypeOK
<1> QED
  BY <1>3 DEF PatchDrawer, ComesIn, fixed, TypeOK, CallsTyped, TypedStep

LEMMA CheckRankTyped ==
  ASSUME TypeOK, Aimed, NEW r \in Requests, CheckRank(r)
  PROVE  TypedStep
<1>1. CASE Ends(r)
  BY <1>1, EndsTyped DEF CheckRank, fixed, TypeOK, CallsTyped, TypedStep
<1>2. CASE Goes(r, "rank") /\ UNCHANGED locks
  <2>1. CallsTyped' /\ Aimed'
    BY <1>2, StepTyped DEF locks, TypeOK, Steps
  <2> QED
    BY <2>1 DEF CheckRank, fixed, TypeOK, CallsTyped, TypedStep
<1> QED
  BY <1>1, <1>2 DEF CheckRank

LEMMA WriteRankTyped ==
  ASSUME TypeOK, Aimed, NEW r \in Requests, WriteRank(r)
  PROVE  TypedStep
<1>1. req[r].rank \in Ranks
  BY DEF TypeOK, RequestRecords
<1>2. drawer' \in [Drawers -> [by : SUBSET Cashiers, rank : Ranks]]
  BY <1>1 DEF WriteRank, TypeOK
<1>3. CallsTyped' /\ Aimed'
  BY EndsTyped DEF WriteRank
<1> QED
  BY <1>2, <1>3 DEF WriteRank, fixed, TypeOK, CallsTyped, TypedStep

LEMMA CrashTyped ==
  ASSUME TypeOK, Aimed, Crash
  PROVE  TypedStep
<1>1. req' \in [Requests -> RequestRecords] /\ Aimed'
  BY RecordsTyped DEF Crash, Aimed, Idle
<1>2. /\ reported' \in SUBSET Ids /\ unnoticed' \in SUBSET Ids
      /\ payLock' \in [Ids -> SUBSET Requests] /\ drawerLock' \in SUBSET Requests
  BY DEF Crash, TypeOK
<1> QED
  BY <1>1, <1>2 DEF Crash, TypeOK, TypedStep

LEMMA FailsTyped ==
  ASSUME TypeOK, Aimed, NEW r \in Requests, Fails(r)
  PROVE  TypedStep
  BY EndsTyped DEF Fails, Refused, fixed, TypeOK, CallsTyped, TypedStep

LEMMA NextTyped ==
  ASSUME TypeOK, Aimed, [Next]_vars
  PROVE  TypedStep
<1>1. CASE UNCHANGED vars
  BY <1>1 DEF vars, TypeOK, Aimed, TypedStep
<1>2. CASE Crash
  BY <1>2, CrashTyped
<1>3. ASSUME NEW r \in Requests, Begin(r)
      PROVE  TypedStep
  BY <1>3, ReadSourceTyped, PatchStatusTyped, CheckoutTyped, GrantTyped, PatchDrawerTyped DEF Begin
<1>4. ASSUME NEW r \in Requests, Proceed(r)
      PROVE  TypedStep
  <2>1. CASE Split(r)
    BY <2>1, PlanSplitTyped, CreateTargetTyped, PatchSourceTyped, RereadSourceTyped, AbortTargetTyped
    DEF Split
  <2>2. CASE Settle(r)
    BY <2>2, CheckPatchTyped, FindDrawerTyped, WritePatchTyped, FindReceiptTyped, CreateReceiptTyped
    DEF Settle
  <2>3. CASE Count(r)
    BY <2>3, InsertDrawerTyped, CheckRankTyped, WriteRankTyped DEF Count
  <2> QED
    BY <1>4, <2>1, <2>2, <2>3, FailsTyped DEF Proceed
<1>5. ASSUME NEW r \in Requests, Acquire(r)
      PROVE  TypedStep
  BY <1>5, AcquirePayLockTyped, FindOpenDrawerTyped DEF Acquire
<1> QED
  BY <1>1, <1>2, <1>3, <1>4, <1>5 DEF Next

Typed == TypeOK /\ Aimed

LEMMA TypedAlways == Spec => []Typed
<1>1. Init => Typed
  BY InitTyped DEF Init, Idle, Aimed, Typed
<1>2. Typed /\ [Next]_vars => Typed'
  BY NextTyped DEF Typed, TypedStep
<1> QED
  BY <1>1, <1>2, PTL DEF Spec

\* The type invariant of orders, receipts, drawers, mutexes and requests.
THEOREM OrdersTypeCorrect == Spec => []TypeOK
<1>1. Typed => TypeOK
  BY DEF Typed
<1> QED
  BY <1>1, TypedAlways, PTL

-----------------------------------------------------------------------------
\* What a step makes of its request, field by field, and of the others.

Onward(r, step) ==
    /\ req'[r].at = step
    /\ req'[r].kind = req[r].kind /\ req'[r].order = req[r].order /\ req'[r].seen = req[r].seen
    /\ req'[r].to = req[r].to /\ req'[r].rank = req[r].rank

LEMMA EndsOn ==
  ASSUME TypeOK, NEW r \in Requests, Ends(r)
  PROVE  req'[r] = Idle
  BY DEF TypeOK, Ends

LEMMA GoesOn ==
  ASSUME TypeOK, NEW r \in Requests, NEW step \in Steps, Goes(r, step)
  PROVE  /\ Onward(r, step)
         /\ req'[r].target = req[r].target /\ req'[r].amounts = req[r].amounts
         /\ req'[r].by = req[r].by /\ req'[r].drawer = req[r].drawer
<1>1. req[r] \in RequestRecords /\ req'[r] = [req[r] EXCEPT !.at = step]
  BY DEF TypeOK, Goes
<1> QED
  BY <1>1 DEF Onward, RequestRecords

LEMMA PlanOn ==
  ASSUME TypeOK, NEW r \in Requests, PlanSplit(r), ~Ends(r)
  PROVE  /\ Onward(r, "create") /\ UNCHANGED locks
         /\ req'[r].amounts \in Selections(req[r].seen)
         /\ req'[r].target = req[r].target
         /\ req'[r].by = req[r].by /\ req'[r].drawer = req[r].drawer
<1>1. PICK sel \in Selections(req[r].seen) :
             req' = [req EXCEPT ![r].at = "create", ![r].amounts = sel] /\ UNCHANGED locks
  BY DEF PlanSplit
<1> DEFINE mid == [req[r] EXCEPT !.at = "create"]
           new == [mid EXCEPT !.amounts = sel]
<1>2. req[r] \in RequestRecords /\ req' = [req EXCEPT ![r] = new]
  BY <1>1 DEF TypeOK
<1>3. req'[r] = new
  BY <1>2 DEF TypeOK
<1> QED
  BY <1>1, <1>2, <1>3 DEF Onward, RequestRecords

LEMMA CreateOn ==
  ASSUME TypeOK, NEW r \in Requests, NEW t \in Ids,
         req' = [req EXCEPT ![r].at = "source", ![r].target = t]
  PROVE  /\ Onward(r, "source") /\ req'[r].target = t
         /\ req'[r].amounts = req[r].amounts /\ req'[r].by = req[r].by /\ req'[r].drawer = req[r].drawer
<1> DEFINE mid == [req[r] EXCEPT !.at = "source"]
           new == [mid EXCEPT !.target = t]
<1>1. req[r] \in RequestRecords /\ req' = [req EXCEPT ![r] = new]
  BY DEF TypeOK
<1>2. req'[r] = new
  BY <1>1 DEF TypeOK
<1> QED
  BY <1>1, <1>2 DEF Onward, RequestRecords

LEMMA AfterOn ==
  ASSUME TypeOK, NEW r \in Requests, NEW record, AfterPatch(r, record), ~Ends(r)
  PROVE  /\ Onward(r, "receipt?") /\ UNCHANGED locks /\ record.status = "completed"
         /\ req'[r].amounts = Effective(record)
         /\ req'[r].target = req[r].target
         /\ req'[r].by = req[r].by /\ req'[r].drawer = req[r].drawer
<1> DEFINE amounts == Effective(record)
           mid == [req[r] EXCEPT !.at = "receipt?"]
           new == [mid EXCEPT !.amounts = amounts]
<1>1. /\ record.status = "completed" /\ UNCHANGED locks
      /\ req' = [req EXCEPT ![r].at = "receipt?", ![r].amounts = amounts]
  BY DEF AfterPatch
<1> HIDE DEF amounts
<1>2. req[r] \in RequestRecords /\ req' = [req EXCEPT ![r] = new]
  BY <1>1 DEF TypeOK
<1>3. req'[r] = new
  BY <1>2 DEF TypeOK
<1>4. req'[r].amounts = amounts
  BY <1>2, <1>3 DEF RequestRecords
<1> QED
  BY <1>1, <1>2, <1>3, <1>4 DEF Onward, RequestRecords, amounts

\* The payment is one that is booked already.
Repeat(q) == ~IsOpen(order[q.order].status) /\ q.by = order[q.order].payment

LEMMA BookOn ==
  ASSUME TypeOK, NEW r \in Requests, NEW who, NEW step,
         req' = [req EXCEPT ![r].by = who, ![r].at = step]
  PROVE  /\ Onward(r, step) /\ req'[r].by = who
         /\ req'[r].target = req[r].target /\ req'[r].amounts = req[r].amounts
         /\ req'[r].drawer = req[r].drawer
<1> DEFINE mid == [req[r] EXCEPT !.by = who]
           new == [mid EXCEPT !.at = step]
<1>1. req[r] \in RequestRecords /\ req' = [req EXCEPT ![r] = new]
  BY DEF TypeOK
<1>2. req'[r] = new
  BY <1>1 DEF TypeOK
<1> QED
  BY <1>1, <1>2 DEF Onward, RequestRecords

LEMMA CheckOn ==
  ASSUME TypeOK, NEW r \in Requests, CheckPatch(r), ~Ends(r)
  PROVE  /\ Onward(r, IF May("cashier") /\ req[r].by # {} /\ ~Repeat(req[r]) THEN "drawer?" ELSE "write")
         /\ req'[r].by = IF Repeat(req[r]) THEN {} ELSE req[r].by
         /\ ValidTransition(order[req[r].order].status, req[r].to)
         /\ req[r].by = {} \/ IsOpen(order[req[r].order].status) \/ Repeat(req[r])
         /\ UNCHANGED locks
         /\ req'[r].target = req[r].target /\ req'[r].amounts = req[r].amounts
         /\ req'[r].drawer = req[r].drawer
<1> DEFINE who  == IF Repeat(req[r]) THEN {} ELSE req[r].by
           step == IF May("cashier") /\ req[r].by # {} /\ ~Repeat(req[r]) THEN "drawer?" ELSE "write"
<1>1. /\ req' = [req EXCEPT ![r].by = who, ![r].at = step]
      /\ ValidTransition(order[req[r].order].status, req[r].to)
      /\ req[r].by = {} \/ IsOpen(order[req[r].order].status) \/ Repeat(req[r])
      /\ UNCHANGED locks
  BY DEF CheckPatch, Repeat
<1> HIDE DEF who, step
<1>2. /\ Onward(r, step) /\ req'[r].by = who
      /\ req'[r].target = req[r].target /\ req'[r].amounts = req[r].amounts
      /\ req'[r].drawer = req[r].drawer
  BY <1>1, BookOn
<1> QED
  BY <1>1, <1>2 DEF who, step

LEMMA FoundOn ==
  ASSUME TypeOK, NEW r \in Requests, NEW d,
         req' = [req EXCEPT ![r].at = "write", ![r].drawer = d]
  PROVE  /\ Onward(r, "write") /\ req'[r].drawer = d
         /\ req'[r].target = req[r].target /\ req'[r].amounts = req[r].amounts /\ req'[r].by = req[r].by
<1> DEFINE mid == [req[r] EXCEPT !.at = "write"]
           new == [mid EXCEPT !.drawer = d]
<1>1. req[r] \in RequestRecords /\ req' = [req EXCEPT ![r] = new]
  BY DEF TypeOK
<1>2. req'[r] = new
  BY <1>1 DEF TypeOK
<1> QED
  BY <1>1, <1>2 DEF Onward, RequestRecords

\* A step of one request leaves the others alone.
LEMMA OthersStay ==
  ASSUME TypeOK, NEW r \in Requests, Begin(r) \/ Proceed(r) \/ Acquire(r),
         NEW x \in Requests, x # r
  PROVE  req'[x] = req[x]
<1>1. CASE Begin(r)
  BY <1>1 DEF Begin, ReadSource, PatchStatus, Checkout, Grant, PatchDrawer, TypeOK
<1>2. ASSUME NEW new, req' = [req EXCEPT ![r] = new]
      PROVE  req'[x] = req[x]
  BY <1>2 DEF TypeOK
<1>3. ASSUME Ends(r) \/ (\E step : Goes(r, step)) PROVE req'[x] = req[x]
  BY <1>3 DEF Ends, Goes, TypeOK
<1>4. CASE Split(r)
  <2>1. CASE PlanSplit(r)
    BY <1>3, <2>1 DEF PlanSplit, TypeOK
  <2>2. CASE CreateTarget(r)
    BY <1>3, <2>2 DEF CreateTarget, TypeOK
  <2>3. CASE PatchSource(r)
    BY <1>3, <2>3 DEF PatchSource, AfterPatch, TypeOK
  <2>4. CASE RereadSource(r) \/ AbortTarget(r)
    BY <1>3, <2>4 DEF RereadSource, AbortTarget
  <2> QED
    BY <1>4, <2>1, <2>2, <2>3, <2>4 DEF Split
<1>5. CASE Settle(r)
  <2>1. CASE CheckPatch(r)
    BY <1>3, <2>1 DEF CheckPatch, TypeOK
  <2>2. CASE FindDrawer(r)
    BY <1>3, <2>2 DEF FindDrawer, TypeOK
  <2>3. CASE WritePatch(r)
    BY <1>3, <2>3 DEF WritePatch, AfterPatch, TypeOK
  <2>4. CASE FindReceipt(r) \/ CreateReceipt(r)
    BY <1>3, <2>4 DEF FindReceipt, CreateReceipt
  <2> QED
    BY <1>5, <2>1, <2>2, <2>3, <2>4 DEF Settle
<1>6. CASE Count(r)
  BY <1>3, <1>6 DEF Count, InsertDrawer, CheckRank, WriteRank, TypeOK
<1>7. CASE Fails(r)
  BY <1>3, <1>7 DEF Fails, Refused
<1>8. CASE Acquire(r)
  BY <1>3, <1>8 DEF Acquire, AcquirePayLock, FindOpenDrawer, TypeOK
<1> QED
  BY <1>1, <1>4, <1>5, <1>6, <1>7, <1>8 DEF Proceed

-----------------------------------------------------------------------------
(***************************************************************************)
(* One open drawer per cashier.  The mutex of the creates protects what a  *)
(* create has found; a patch of a drawer, alone among its kind, never      *)
(* opens one again.                                                        *)
(***************************************************************************)

\* A create that is about to insert holds the mutex, and its cashier has no drawer.
Alone(r) == At(r, "insert") => drawerLock = {r} /\ OpenDrawers(req[r].by) = {}

\* A patch of a drawer is about one that exists and does not put it back.
Forward(r) ==
    req[r].at \in {"rank?", "rank"} =>
        /\ req[r].kind = "count" /\ req[r].drawer \in Drawers
        /\ drawer[req[r].drawer].by # {}
        /\ At(r, "rank") => drawer[req[r].drawer].rank <= req[r].rank

OneOf(by) == \A d, e \in OpenDrawers(by) : d = e

DrawerInv ==
    /\ \A r \in Requests : Alone(r) /\ Forward(r)
    /\ \A r, q \in Requests : req[r].kind = "count" /\ req[q].kind = "count" => r = q
    /\ \A by \in SUBSET Cashiers : OneOf(by)

\* Steps that are about something else than drawers.
LEMMA DrawersKept ==
  ASSUME TypeOK, DrawerInv, NEW r \in Requests,
         \A x \in Requests \ {r} : req'[x] = req[x],
         drawer' = drawer, drawerLock' \in {drawerLock, drawerLock \ {r}},
         req'[r].at \notin {"insert", "rank?", "rank"},
         req'[r].kind = "count" => req[r].kind = "count"
  PROVE  DrawerInv'
<1>1. \A by : OpenDrawers(by)' = OpenDrawers(by)
  BY DEF OpenDrawers
<1>2. ASSUME NEW x \in Requests PROVE Alone(x)' /\ Forward(x)'
  <2>1. CASE x = r
    BY <2>1 DEF Alone, Forward, At
  <2>2. CASE x # r
    BY <1>1, <2>2 DEF Alone, Forward, At, DrawerInv
  <2> QED
    BY <2>1, <2>2
<1>3. \A q \in Requests : req'[q].kind = "count" => req[q].kind = "count"
  OBVIOUS
<1>4. \A by \in SUBSET Cashiers : OneOf(by)'
  BY <1>1 DEF DrawerInv, OneOf
<1> QED
  BY <1>2, <1>3, <1>4 DEF DrawerInv

LEMMA EndsKeepsDrawers ==
  ASSUME TypeOK, DrawerInv, NEW r \in Requests, Ends(r), drawer' = drawer,
         \A x \in Requests \ {r} : req'[x] = req[x]
  PROVE  DrawerInv'
<1>1. req'[r] = Idle /\ drawerLock' = drawerLock \ {r}
  BY EndsOn DEF Ends
<1>2. Idle.at = "idle" /\ Idle.kind = "none"
  BY DEF Idle
<1> QED
  BY <1>1, <1>2, DrawersKept

LEMMA BeginKeepsDrawers ==
  ASSUME TypeOK, DrawerInv, NEW r \in Requests, Begin(r),
         \A x \in Requests \ {r} : req'[x] = req[x]
  PROVE  DrawerInv'
<1>1. drawer' = drawer /\ drawerLock' = drawerLock
  BY DEF Begin, ReadSource, PatchStatus, Checkout, Grant, PatchDrawer, ComesIn, locks
<1>2. CASE \E o \in Ids : ReadSource(r, o)
  <2>1. req'[r].at = "receipts?" /\ req'[r].kind = "split"
    BY <1>2 DEF ReadSource, Idle, TypeOK
  <2> QED
    BY <1>1, <2>1, DrawersKept
<1>3. CASE \E o \in Ids, to \in Statuses : PatchStatus(r, o, to)
  <2>1. req'[r].at = "check" /\ req'[r].kind = "status"
    BY <1>3 DEF PatchStatus, Idle, TypeOK
  <2> QED
    BY <1>1, <2>1, DrawersKept
<1>4. CASE \E o \in Ids, c \in Cashiers : Checkout(r, o, c)
  <2>1. req'[r].at = "lock" /\ req'[r].kind = "pay"
    BY <1>4 DEF Checkout, Idle, TypeOK
  <2> QED
    BY <1>1, <2>1, DrawersKept
<1>5. CASE \E c \in Cashiers : Grant(r, c)
  <2>1. req'[r].at = "open?" /\ req'[r].kind = "grant"
    BY <1>5 DEF Grant, Idle, TypeOK
  <2> QED
    BY <1>1, <2>1, DrawersKept
<1>6. ASSUME NEW d \in Drawers, NEW rank \in Ranks, PatchDrawer(r, d, rank)
      PROVE  DrawerInv'
  <2>1. /\ req'[r].at = "rank?" /\ req'[r].kind = "count" /\ req'[r].drawer = d
        /\ drawer[d].by # {} /\ \A q \in Requests : req[q].kind # "count"
    BY <1>6 DEF PatchDrawer, Idle, TypeOK
  <2>2. \A by : OpenDrawers(by)' = OpenDrawers(by)
    BY <1>1 DEF OpenDrawers
  <2>3. ASSUME NEW x \in Requests PROVE Alone(x)' /\ Forward(x)'
    <3>1. CASE x = r
      BY <1>1, <2>1, <3>1 DEF Alone, Forward, At
    <3>2. CASE x # r
      BY <1>1, <2>2, <3>2 DEF Alone, Forward, At, DrawerInv
    <3> QED
      BY <3>1, <3>2
  <2>4. \A x, q \in Requests : req'[x].kind = "count" /\ req'[q].kind = "count" => x = q
    BY <2>1
  <2>5. \A by \in SUBSET Cashiers : OneOf(by)'
    BY <2>2 DEF DrawerInv, OneOf
  <2> QED
    BY <2>3, <2>4, <2>5 DEF DrawerInv
<1> QED
  BY <1>2, <1>3, <1>4, <1>5, <1>6 DEF Begin

LEMMA SplitKeepsDrawers ==
  ASSUME TypeOK, DrawerInv, NEW r \in Requests, Split(r),
         \A x \in Requests \ {r} : req'[x] = req[x]
  PROVE  DrawerInv'
<1>1. drawer' = drawer
  BY DEF Split, PlanSplit, CreateTarget, PatchSource, RereadSource, AbortTarget, fixed
<1>2. CASE Ends(r)
  BY <1>1, <1>2, EndsKeepsDrawers
<1>3. CASE ~Ends(r)
  <2>1. CASE PlanSplit(r)
    BY <1>1, <1>3, <2>1, PlanOn, DrawersKept DEF Onward, locks
  <2>2. CASE CreateTarget(r)
    <3>1. Onward(r, "source") /\ UNCHANGED locks
      BY <1>3, <2>2, CreateOn DEF CreateTarget
    <3> QED
      BY <1>1, <3>1, DrawersKept DEF Onward, locks
  <2>3. CASE PatchSource(r)
    <3>1. (\E step \in {"receipt?", "reread"} : Onward(r, step)) /\ UNCHANGED locks
      BY <1>3, <2>3, AfterOn, GoesOn DEF PatchSource, Steps
    <3> QED
      BY <1>1, <3>1, DrawersKept DEF Onward, locks
  <2>4. CASE RereadSource(r)
    BY <1>1, <1>3, <2>4, GoesOn, DrawersKept DEF RereadSource, Steps, Onward, locks
  <2>5. CASE AbortTarget(r)
    BY <1>3, <2>5 DEF AbortTarget
  <2> QED
    BY <2>1, <2>2, <2>3, <2>4, <2>5 DEF Split
<1> QED
  BY <1>2, <1>3

LEMMA SettleKeepsDrawers ==
  ASSUME TypeOK, DrawerInv, NEW r \in Requests, Settle(r),
         \A x \in Requests \ {r} : req'[x] = req[x]
  PROVE  DrawerInv'
<1>1. drawer' = drawer
  BY DEF Settle, CheckPatch, FindDrawer, WritePatch, FindReceipt, CreateReceipt, fixed
<1>2. CASE Ends(r)
  BY <1>1, <1>2, EndsKeepsDrawers
<1>3. CASE ~Ends(r)
  <2>1. CASE CheckPatch(r)
    BY <1>1, <1>3, <2>1, CheckOn, DrawersKept DEF Onward, locks
  <2>2. CASE FindDrawer(r)
    <3>1. (\E step \in {"open?", "write"} : Onward(r, step)) /\ UNCHANGED locks
      BY <1>3, <2>2, FoundOn, GoesOn DEF FindDrawer, Steps
    <3> QED
      BY <1>1, <3>1, DrawersKept DEF Onward, locks
  <2>3. CASE WritePatch(r)
    <3>1. Onward(r, "receipt?") /\ UNCHANGED locks
      BY <1>3, <2>3, AfterOn DEF WritePatch
    <3> QED
      BY <1>1, <3>1, DrawersKept DEF Onward, locks
  <2>4. CASE FindReceipt(r)
    BY <1>1, <1>3, <2>4, GoesOn, DrawersKept DEF FindReceipt, Steps, Onward, locks
  <2>5. CASE CreateReceipt(r)
    BY <1>3, <2>5 DEF CreateReceipt
  <2> QED
    BY <2>1, <2>2, <2>3, <2>4, <2>5 DEF Settle
<1> QED
  BY <1>2, <1>3

LEMMA InsertKeepsDrawers ==
  ASSUME TypeOK, DrawerInv, NEW r \in Requests, InsertDrawer(r),
         \A x \in Requests \ {r} : req'[x] = req[x]
  PROVE  DrawerInv'
<1>1. PICK d \in Drawers :
        /\ drawer[d].by = {}
        /\ drawer' = [drawer EXCEPT ![d] = [by |-> req[r].by, rank |-> 0]]
        /\ \/ Ends(r)
           \/ /\ req' = [req EXCEPT ![r].at = "write", ![r].drawer = d]
              /\ drawerLock' = drawerLock \ {r}
              /\ UNCHANGED payLock
  BY DEF InsertDrawer
<1>2. drawerLock = {r} /\ OpenDrawers(req[r].by) = {}
  BY DEF InsertDrawer, DrawerInv, Alone
<1>3. \/ req'[r].at = "idle" /\ req'[r].kind = "none"
      \/ req'[r].at = "write" /\ req'[r].kind = req[r].kind
  BY <1>1, EndsOn, FoundOn DEF Idle, Onward
<1>4. \A e \in Drawers : e # d => drawer'[e] = drawer[e]
  BY <1>1 DEF TypeOK
<1>5. drawer'[d].by = req[r].by
  BY <1>1 DEF TypeOK
<1>6. ASSUME NEW x \in Requests PROVE Alone(x)' /\ Forward(x)'
  <2>1. CASE x = r
    BY <1>3, <2>1 DEF Alone, Forward, At
  <2>2. CASE x # r
    <3>1. Alone(x)'
      BY <1>2, <2>2 DEF Alone, At, DrawerInv
    <3>2. req[x].at \in {"rank?", "rank"} => req[x].drawer # d
      BY <1>1 DEF DrawerInv, Forward
    <3>3. Forward(x)'
      BY <1>4, <2>2, <3>2 DEF Forward, At, DrawerInv
    <3> QED
      BY <3>1, <3>3
  <2> QED
    BY <2>1, <2>2
<1>7. \A x, q \in Requests : req'[x].kind = "count" /\ req'[q].kind = "count" => x = q
  BY <1>3 DEF DrawerInv
<1>8. ASSUME NEW by \in SUBSET Cashiers PROVE OneOf(by)'
  <2>1. CASE by = req[r].by
    <3>1. OpenDrawers(by)' \subseteq {d}
      BY <1>2, <1>4, <2>1 DEF OpenDrawers
    <3> QED
      BY <3>1 DEF OneOf
  <2>2. CASE by # req[r].by
    <3>1. OpenDrawers(by)' \subseteq OpenDrawers(by)
      BY <1>4, <1>5, <2>2 DEF OpenDrawers
    <3> QED
      BY <3>1 DEF OneOf, DrawerInv
  <2> QED
    BY <2>1, <2>2
<1> QED
  BY <1>6, <1>7, <1>8 DEF DrawerInv

\* How far a drawer is, and a request wants it to be, are numbers.
LEMMA RanksAreNumbers ==
  ASSUME TypeOK
  PROVE  /\ \A d \in Drawers : drawer[d].rank \in Nat
         /\ \A r \in Requests : req[r].rank \in Nat
<1>1. \A d \in Drawers : drawer[d].rank \in Ranks
  BY DEF TypeOK
<1>2. \A r \in Requests : req[r].rank \in Ranks
  BY DEF TypeOK, RequestRecords
<1> QED
  BY <1>1, <1>2 DEF Ranks

LEMMA RankKeepsDrawers ==
  ASSUME TypeOK, DrawerInv, NEW r \in Requests, WriteRank(r),
         \A x \in Requests \ {r} : req'[x] = req[x]
  PROVE  DrawerInv'
<1> DEFINE d == req[r].drawer
<1>1. /\ d \in Drawers /\ req[r].kind = "count" /\ drawer[d].rank <= req[r].rank
  BY DEF WriteRank, At, DrawerInv, Forward
<1>2. /\ req'[r] = Idle /\ drawerLock' = drawerLock \ {r}
      /\ drawer' = [drawer EXCEPT ![d].rank = req[r].rank]
  BY EndsOn DEF WriteRank, Ends
<1>3. /\ \A e \in Drawers : e # d => drawer'[e] = drawer[e]
      /\ drawer'[d].by = drawer[d].by /\ drawer'[d].rank = req[r].rank
  BY <1>1, <1>2 DEF TypeOK
<1>4. req[r].rank \in Nat /\ \A e \in Drawers : drawer[e].rank \in Nat
  BY RanksAreNumbers
<1>5. \A by : OpenDrawers(by)' \subseteq OpenDrawers(by)
  BY <1>1, <1>3, <1>4 DEF OpenDrawers, Closed
<1>6. ASSUME NEW x \in Requests PROVE Alone(x)' /\ Forward(x)'
  <2>1. CASE x = r
    BY <1>2, <2>1 DEF Alone, Forward, At, Idle
  <2>2. CASE x # r
    <3>1. Alone(x)'
      BY <1>2, <1>5, <2>2 DEF Alone, At, DrawerInv
    <3>2. req'[x].kind # "count"
      BY <1>1, <2>2 DEF DrawerInv
    <3>3. Forward(x)'
      BY <2>2, <3>2 DEF Forward, DrawerInv
    <3> QED
      BY <3>1, <3>3
  <2> QED
    BY <2>1, <2>2
<1>7. \A x, q \in Requests : req'[x].kind = "count" /\ req'[q].kind = "count" => x = q
  <2>1. req'[r].kind = "none"
    BY <1>2 DEF Idle
  <2> QED
    BY <2>1 DEF DrawerInv
<1>8. \A by \in SUBSET Cashiers : OneOf(by)'
  BY <1>5 DEF OneOf, DrawerInv
<1> QED
  BY <1>6, <1>7, <1>8 DEF DrawerInv

LEMMA CheckRankKeepsDrawers ==
  ASSUME TypeOK, DrawerInv, NEW r \in Requests, CheckRank(r),
         \A x \in Requests \ {r} : req'[x] = req[x]
  PROVE  DrawerInv'
<1>1. drawer' = drawer
  BY DEF CheckRank
<1>2. CASE Ends(r)
  BY <1>1, <1>2, EndsKeepsDrawers
<1>3. CASE ~Ends(r)
  <2>1. Goes(r, "rank") /\ UNCHANGED locks /\ req[r].rank >= drawer[req[r].drawer].rank
    BY <1>3 DEF CheckRank
  <2>2. Onward(r, "rank") /\ req'[r].drawer = req[r].drawer
    BY <2>1, GoesOn DEF Steps
  <2>3. \A by : OpenDrawers(by)' = OpenDrawers(by)
    BY <1>1 DEF OpenDrawers
  <2>4. ASSUME NEW x \in Requests PROVE Alone(x)' /\ Forward(x)'
    <3>1. CASE x = r
      <4>1. /\ req[r].kind = "count" /\ req[r].drawer \in Drawers
            /\ drawer[req[r].drawer].by # {}
        BY DEF CheckRank, At, DrawerInv, Forward
      <4>2. req[r].rank \in Nat /\ drawer[req[r].drawer].rank \in Nat
        BY <4>1, RanksAreNumbers
      <4> QED
        BY <1>1, <2>1, <2>2, <3>1, <4>1, <4>2 DEF Alone, Forward, At, Onward
    <3>2. CASE x # r
      BY <1>1, <2>1, <2>3, <3>2 DEF Alone, Forward, At, DrawerInv, locks
    <3> QED
      BY <3>1, <3>2
  <2>5. \A q \in Requests : req'[q].kind = "count" => req[q].kind = "count"
    BY <2>2 DEF Onward
  <2>6. \A by \in SUBSET Cashiers : OneOf(by)'
    BY <2>3 DEF DrawerInv, OneOf
  <2> QED
    BY <2>4, <2>5, <2>6 DEF DrawerInv
<1> QED
  BY <1>2, <1>3

LEMMA AcquireKeepsDrawers ==
  ASSUME TypeOK, DrawerInv, NEW r \in Requests, Acquire(r),
         \A x \in Requests \ {r} : req'[x] = req[x]
  PROVE  DrawerInv'
<1>1. drawer' = drawer
  BY DEF Acquire, AcquirePayLock, FindOpenDrawer
<1>2. CASE AcquirePayLock(r)
  <2>1. Onward(r, "check") /\ drawerLock' = drawerLock
    BY <1>2, GoesOn DEF AcquirePayLock, Steps
  <2> QED
    BY <1>1, <2>1, DrawersKept DEF Onward
<1>3. CASE FindOpenDrawer(r)
  <2>1. CASE Ends(r)
    BY <1>1, <2>1, EndsKeepsDrawers
  <2>2. CASE \E d \in OpenDrawers(req[r].by) :
               req' = [req EXCEPT ![r].at = "write", ![r].drawer = d] /\ UNCHANGED locks
    <3>1. Onward(r, "write") /\ UNCHANGED locks
      BY <2>2, FoundOn
    <3> QED
      BY <1>1, <3>1, DrawersKept DEF Onward, locks
  <2>3. CASE OpenDrawers(req[r].by) = {} /\ drawerLock' = {r} /\ Goes(r, "insert")
    <3>1. Onward(r, "insert") /\ req'[r].by = req[r].by
      BY <2>3, GoesOn DEF Steps
    <3>2. \A x \in Requests : ~At(x, "insert")
      BY <1>3 DEF FindOpenDrawer, DrawerInv, Alone
    <3>3. \A by : OpenDrawers(by)' = OpenDrawers(by)
      BY <1>1 DEF OpenDrawers
    <3>4. ASSUME NEW x \in Requests PROVE Alone(x)' /\ Forward(x)'
      <4>1. CASE x = r
        BY <2>3, <3>1, <3>3, <4>1 DEF Alone, Forward, At, Onward
      <4>2. CASE x # r
        BY <1>1, <3>2, <4>2 DEF Alone, Forward, At, DrawerInv
      <4> QED
        BY <4>1, <4>2
    <3>5. \A q \in Requests : req'[q].kind = "count" => req[q].kind = "count"
      BY <3>1 DEF Onward
    <3>6. \A by \in SUBSET Cashiers : OneOf(by)'
      BY <3>3 DEF DrawerInv, OneOf
    <3> QED
      BY <3>4, <3>5, <3>6 DEF DrawerInv
  <2> QED
    BY <1>3, <2>1, <2>2, <2>3 DEF FindOpenDrawer
<1> QED
  BY <1>2, <1>3 DEF Acquire

LEMMA DrawersNext ==
  ASSUME TypeOK, DrawerInv, [Next]_vars
  PROVE  DrawerInv'
<1>1. CASE UNCHANGED vars
  BY <1>1 DEF vars, DrawerInv, Alone, Forward, OneOf, OpenDrawers, At
<1>2. CASE Crash
  <2>1. (\A x \in Requests : req'[x] = Idle) /\ drawer' = drawer
    BY <1>2 DEF Crash
  <2>2. \A by \in SUBSET Cashiers : OneOf(by)'
    BY <2>1 DEF OneOf, OpenDrawers, DrawerInv
  <2> QED
    BY <2>1, <2>2 DEF DrawerInv, Alone, Forward, At, Idle
<1>3. ASSUME NEW r \in Requests, Begin(r) \/ Proceed(r) \/ Acquire(r)
      PROVE  DrawerInv'
  <2>1. \A x \in Requests \ {r} : req'[x] = req[x]
    BY <1>3, OthersStay
  <2>2. CASE Begin(r)
    BY <2>1, <2>2, BeginKeepsDrawers
  <2>3. CASE Split(r)
    BY <2>1, <2>3, SplitKeepsDrawers
  <2>4. CASE Settle(r)
    BY <2>1, <2>4, SettleKeepsDrawers
  <2>5. CASE Count(r)
    BY <2>1, <2>5, InsertKeepsDrawers, RankKeepsDrawers, CheckRankKeepsDrawers DEF Count
  <2>6. CASE Fails(r)
    BY <2>1, <2>6, EndsKeepsDrawers DEF Fails, Refused
  <2>7. CASE Acquire(r)
    BY <2>1, <2>7, AcquireKeepsDrawers
  <2> QED
    BY <1>3, <2>2, <2>3, <2>4, <2>5, <2>6, <2>7 DEF Proceed
<1> QED
  BY <1>1, <1>2, <1>3 DEF Next

\* No cashier has two open drawers, for any number of tills, cashiers and drawers.
THEOREM DrawersSafe == Spec => []OneOpenDrawer
<1>1. Init => DrawerInv
  <2> SUFFICES ASSUME Init PROVE DrawerInv
    OBVIOUS
  <2>1. \A by \in SUBSET Cashiers : OpenDrawers(by) = {}
    BY DEF Init, OpenDrawers
  <2>2. \A r \in Requests : req[r].at = "idle" /\ req[r].kind = "none"
    BY DEF Init, Idle
  <2> QED
    BY <2>1, <2>2 DEF DrawerInv, Alone, Forward, OneOf, At
<1>2. TypeOK /\ DrawerInv /\ [Next]_vars => DrawerInv'
  BY DrawersNext
<1>3. DrawerInv => OneOpenDrawer
  <2> SUFFICES ASSUME DrawerInv, NEW c \in Cashiers
               PROVE  Cardinality(OpenDrawers({c})) <= 1
    BY DEF OneOpenDrawer
  <2>1. \A d, e \in OpenDrawers({c}) : d = e
    BY DEF DrawerInv, OneOf
  <2>2. CASE OpenDrawers({c}) = {}
    BY <2>2, FS_EmptySet
  <2>3. CASE \E d : OpenDrawers({c}) = {d}
    BY <2>3, FS_Singleton
  <2> QED
    BY <2>1, <2>2, <2>3
<1> QED
  BY <1>1, <1>2, <1>3, OrdersTypeCorrect, PTL DEF Spec
-----------------------------------------------------------------------------

-----------------------------------------------------------------------------
\* Which steps a call of a kind may be at, and who is inside the mutex.

Splitting == {"receipts?", "create", "source", "reread", "abort"}
Inside    == {"check", "drawer?", "open?", "insert", "write", "receipt?", "receipt"}

StepOfKind(r) ==
    /\ At(r, "idle") <=> req[r].kind = "none"
    /\ req[r].at \in Splitting => req[r].kind = "split"
    /\ req[r].at \in {"lock", "check", "drawer?", "write"} => req[r].kind \in {"status", "pay"}
    /\ req[r].at \in {"open?", "insert"} => req[r].kind \in {"status", "pay", "grant"}
    /\ req[r].at \in {"receipt?", "receipt"} => req[r].kind \in {"split", "status", "pay"}
    /\ req[r].at \in {"rank?", "rank"} => req[r].kind = "count"

Allowed(r) ==
    /\ req[r].kind # "none" => req[r].kind \in may
    /\ Serial /\ r # Only => At(r, "idle")

Holds(r) == req[r].kind = "pay" /\ req[r].at \in Inside => payLock[req[r].order] = {r}

CallInv == \A r \in Requests : StepOfKind(r) /\ Allowed(r) /\ Holds(r)

\* The steps that follow one another without a change of the mutex.
Follows(step, next) ==
    \/ step = "receipts?" /\ next = "create"
    \/ step = "create"    /\ next = "source"
    \/ step = "source"    /\ next \in {"receipt?", "reread"}
    \/ step = "reread"    /\ next = "abort"
    \/ step = "check"     /\ next \in {"drawer?", "write"}
    \/ step = "drawer?"   /\ next \in {"open?", "write"}
    \/ step \in {"open?", "insert"} /\ next \in {"insert", "write"}
    \/ step = "write"     /\ next = "receipt?"
    \/ step = "receipt?"  /\ next = "receipt"
    \/ step = "rank?"     /\ next = "rank"

Begins(r) ==
    /\ At(r, "idle")
    /\ \/ req'[r].at = "receipts?" /\ req'[r].kind = "split"
       \/ req'[r].at = "check" /\ req'[r].kind = "status"
       \/ req'[r].at = "lock" /\ req'[r].kind = "pay"
       \/ req'[r].at = "open?" /\ req'[r].kind = "grant"
       \/ req'[r].at = "rank?" /\ req'[r].kind = "count"
    /\ req'[r].kind \in may
    /\ Serial => r = Only
    /\ payLock' = payLock

GoesIn(r) ==
    /\ At(r, "lock") /\ payLock[req[r].order] = {}
    /\ payLock' = [payLock EXCEPT ![req[r].order] = {r}]
    /\ Onward(r, "check")

GoesAhead(r) ==
    /\ \E next \in Inside \cup Splitting \cup {"rank"} :
         /\ Follows(req[r].at, next)
         /\ next = "write" => At(r, "check") \/ At(r, "drawer?") \/ req[r].kind # "grant"
         /\ Onward(r, next)
    /\ payLock' = payLock

\* A call that is over was at work.
Leaves(r) == ~At(r, "idle") /\ Ends(r)

LEMMA StepShape ==
  ASSUME TypeOK, NEW r \in Requests, Begin(r) \/ Proceed(r) \/ Acquire(r)
  PROVE  Begins(r) \/ Leaves(r) \/ GoesIn(r) \/ GoesAhead(r)
<1>1. CASE Begin(r)
  <2>1. (Serial => r = Only) /\ At(r, "idle") /\ payLock' = payLock
    BY <1>1 DEF Begin, ReadSource, PatchStatus, Checkout, Grant, PatchDrawer, ComesIn, locks, Serial
  <2>2. CASE \E o \in Ids : ReadSource(r, o)
    BY <2>1, <2>2 DEF ReadSource, ComesIn, May, Idle, TypeOK, Begins
  <2>3. CASE \E o \in Ids, to \in Statuses : PatchStatus(r, o, to)
    BY <2>1, <2>3 DEF PatchStatus, ComesIn, May, Idle, TypeOK, Begins
  <2>4. CASE \E o \in Ids, c \in Cashiers : Checkout(r, o, c)
    BY <2>1, <2>4 DEF Checkout, ComesIn, May, Idle, TypeOK, Begins
  <2>5. CASE \E c \in Cashiers : Grant(r, c)
    BY <2>1, <2>5 DEF Grant, ComesIn, May, Idle, TypeOK, Begins
  <2>6. CASE \E d \in Drawers, rank \in Ranks : PatchDrawer(r, d, rank)
    BY <2>1, <2>6 DEF PatchDrawer, ComesIn, May, Idle, TypeOK, Begins
  <2> QED
    BY <1>1, <2>2, <2>3, <2>4, <2>5, <2>6 DEF Begin
<1>2. CASE ~Begin(r) /\ Ends(r)
  <2>1. ~At(r, "idle")
    BY <1>2 DEF Proceed, Acquire, Split, Settle, Count, Fails, PlanSplit, CreateTarget, PatchSource,
       RereadSource, AbortTarget, CheckPatch, FindDrawer, WritePatch, FindReceipt, CreateReceipt,
       InsertDrawer, CheckRank, WriteRank, AcquirePayLock, FindOpenDrawer, At
  <2> QED
    BY <1>2, <2>1 DEF Leaves
<1>3. CASE Split(r) /\ ~Ends(r)
  <2>1. CASE PlanSplit(r)
    BY <1>3, <2>1, PlanOn DEF PlanSplit, At, GoesAhead, Follows, Splitting, locks
  <2>2. CASE CreateTarget(r)
    BY <1>3, <2>2, CreateOn DEF CreateTarget, At, GoesAhead, Follows, Splitting, locks
  <2>3. CASE PatchSource(r)
    <3>1. (\E next \in {"receipt?", "reread"} : Onward(r, next)) /\ UNCHANGED locks
      BY <1>3, <2>3, AfterOn, GoesOn DEF PatchSource, Steps
    <3> QED
      BY <2>3, <3>1 DEF PatchSource, At, GoesAhead, Follows, Splitting, Inside, locks
  <2>4. CASE RereadSource(r)
    BY <1>3, <2>4, GoesOn DEF RereadSource, Steps, At, GoesAhead, Follows, Splitting, locks
  <2>5. CASE AbortTarget(r)
    BY <1>3, <2>5 DEF AbortTarget
  <2> QED
    BY <1>3, <2>1, <2>2, <2>3, <2>4, <2>5 DEF Split
<1>4. CASE Settle(r) /\ ~Ends(r)
  <2>1. CASE CheckPatch(r)
    <3>1. (\E next \in {"drawer?", "write"} : Onward(r, next)) /\ UNCHANGED locks
      BY <1>4, <2>1, CheckOn
    <3> QED
      BY <2>1, <3>1 DEF CheckPatch, At, GoesAhead, Follows, Inside, locks
  <2>2. CASE FindDrawer(r)
    <3>1. (\E next \in {"open?", "write"} : Onward(r, next)) /\ UNCHANGED locks
      BY <1>4, <2>2, FoundOn, GoesOn DEF FindDrawer, Steps
    <3> QED
      BY <2>2, <3>1 DEF FindDrawer, At, GoesAhead, Follows, Inside, locks
  <2>3. CASE WritePatch(r)
    <3>1. Onward(r, "receipt?") /\ UNCHANGED locks
      BY <1>4, <2>3, AfterOn DEF WritePatch
    <3> QED
      BY <2>3, <3>1 DEF WritePatch, At, GoesAhead, Follows, Inside, locks
  <2>4. CASE FindReceipt(r)
    BY <1>4, <2>4, GoesOn DEF FindReceipt, Steps, At, GoesAhead, Follows, Inside, locks
  <2>5. CASE CreateReceipt(r)
    BY <1>4, <2>5 DEF CreateReceipt
  <2> QED
    BY <1>4, <2>1, <2>2, <2>3, <2>4, <2>5 DEF Settle
<1>5. CASE Count(r) /\ ~Ends(r)
  <2>1. CASE InsertDrawer(r)
    <3>1. Onward(r, "write") /\ payLock' = payLock /\ req[r].kind # "grant"
      BY <1>5, <2>1, FoundOn DEF InsertDrawer
    <3> QED
      BY <2>1, <3>1 DEF InsertDrawer, At, GoesAhead, Follows, Inside
  <2>2. CASE CheckRank(r)
    BY <1>5, <2>2, GoesOn DEF CheckRank, Steps, At, GoesAhead, Follows, locks
  <2>3. CASE WriteRank(r)
    BY <1>5, <2>3 DEF WriteRank
  <2> QED
    BY <1>5, <2>1, <2>2, <2>3 DEF Count
<1>6. CASE Acquire(r) /\ ~Ends(r)
  <2>1. CASE AcquirePayLock(r)
    BY <2>1, GoesOn DEF AcquirePayLock, Steps, GoesIn
  <2>2. CASE FindOpenDrawer(r)
    <3>1. /\ Onward(r, "insert") \/ (Onward(r, "write") /\ req[r].kind = "pay")
          /\ payLock' = payLock
      BY <1>6, <2>2, FoundOn, GoesOn DEF FindOpenDrawer, Steps, locks
    <3> QED
      BY <2>2, <3>1 DEF FindOpenDrawer, At, GoesAhead, Follows, Inside
  <2> QED
    BY <1>6, <2>1, <2>2 DEF Acquire
<1>7. CASE Fails(r) /\ ~Ends(r)
  BY <1>7 DEF Fails, Refused
<1> QED
  BY <1>1, <1>2, <1>3, <1>4, <1>5, <1>6, <1>7 DEF Proceed

\* What a run consists of is never changed.
LEMMA MayStays ==
  ASSUME NEW r \in Requests, Begin(r) \/ Proceed(r) \/ Acquire(r)
  PROVE  may' = may
  BY DEF Begin, Proceed, Acquire, Split, Settle, Count, Fails, ReadSource, PatchStatus, Checkout, Grant,
     PatchDrawer, ComesIn, PlanSplit, CreateTarget, PatchSource, RereadSource, AbortTarget, CheckPatch,
     FindDrawer, WritePatch, FindReceipt, CreateReceipt, InsertDrawer, CheckRank, WriteRank, Refused,
     AcquirePayLock, FindOpenDrawer, fixed

LEMMA CallInvNext ==
  ASSUME TypeOK, CallInv, [Next]_vars
  PROVE  CallInv'
<1>1. CASE UNCHANGED vars
  BY <1>1 DEF vars, CallInv, StepOfKind, Allowed, Holds, At, Serial, May
<1>2. CASE Crash
  <2>1. may' = may /\ \A x \in Requests : req'[x].at = "idle" /\ req'[x].kind = "none"
    BY <1>2 DEF Crash, Idle
  <2> QED
    BY <2>1 DEF CallInv, StepOfKind, Allowed, Holds, At, Splitting, Inside
<1>3. ASSUME NEW r \in Requests, Begin(r) \/ Proceed(r) \/ Acquire(r)
      PROVE  CallInv'
  <2>1. \A x \in Requests \ {r} : req'[x] = req[x]
    BY <1>3, OthersStay
  <2>2. may' = may
    BY <1>3, MayStays
  <2>3. Begins(r) \/ Leaves(r) \/ GoesIn(r) \/ GoesAhead(r)
    BY <1>3, StepShape
  <2>4. ASSUME NEW x \in Requests, x # r PROVE (StepOfKind(x) /\ Allowed(x))'
    BY <2>1, <2>2, <2>4 DEF CallInv, StepOfKind, Allowed, At, Serial, May
  <2>5. ASSUME NEW x \in Requests, x # r PROVE Holds(x)'
    <3>1. req'[x] = req[x] /\ Holds(x)
      BY <2>1, <2>5 DEF CallInv
    <3> SUFFICES ASSUME req[x].kind = "pay" /\ req[x].at \in Inside PROVE payLock'[req[x].order] = {x}
      BY <3>1 DEF Holds
    <3>2. payLock[req[x].order] = {x} /\ req[x].order \in Ids /\ req[r].order \in Ids
      BY <3>1 DEF Holds, TypeOK, RequestRecords
    <3>3. CASE Leaves(r)
      BY <2>5, <3>2, <3>3 DEF Leaves, Ends
    <3>4. CASE GoesIn(r)
      BY <3>2, <3>4 DEF GoesIn, TypeOK
    <3>5. CASE Begins(r) \/ GoesAhead(r)
      BY <3>2, <3>5 DEF Begins, GoesAhead
    <3> QED
      BY <2>3, <3>3, <3>4, <3>5
  <2>6. (StepOfKind(r) /\ Allowed(r) /\ Holds(r))'
    <3>0. StepOfKind(r) /\ Allowed(r) /\ Holds(r) /\ req[r].order \in Ids
      BY DEF CallInv, TypeOK, RequestRecords
    <3>1. CASE Begins(r)
      BY <2>2, <3>1 DEF Begins, StepOfKind, Allowed, Holds, At, Splitting, Inside, Serial, May
    <3>2. CASE Leaves(r)
      <4>1. req'[r].at = "idle" /\ req'[r].kind = "none"
        BY <3>2, EndsOn DEF Leaves, Idle
      <4> QED
        BY <4>1 DEF StepOfKind, Allowed, Holds, At, Splitting, Inside
    <3>3. CASE GoesIn(r)
      BY <2>2, <3>0, <3>3 DEF GoesIn, Onward, StepOfKind, Allowed, Holds, At, Splitting, Inside,
         Serial, May, TypeOK
    <3>4. CASE GoesAhead(r)
      <4>1. PICK next \in Inside \cup Splitting \cup {"rank"} :
              /\ Follows(req[r].at, next)
              /\ next = "write" => At(r, "check") \/ At(r, "drawer?") \/ req[r].kind # "grant"
              /\ Onward(r, next)
        BY <3>4 DEF GoesAhead
      <4>2. payLock' = payLock
        BY <3>4 DEF GoesAhead
      <4>3. StepOfKind(r)'
        BY <3>0, <4>1 DEF Follows, Onward, StepOfKind, At, Splitting, Inside
      <4>4. Allowed(r)'
        BY <2>2, <3>0, <4>1 DEF Follows, Onward, Allowed, At, Serial, May
      <4>5. Holds(r)'
        BY <3>0, <4>1, <4>2 DEF Follows, Onward, Holds, StepOfKind, At, Splitting, Inside
      <4> QED
        BY <4>3, <4>4, <4>5
    <3> QED
      BY <2>3, <3>1, <3>2, <3>3, <3>4
  <2> QED
    BY <2>4, <2>5, <2>6 DEF CallInv
<1> QED
  BY <1>1, <1>2, <1>3 DEF Next

\* Past the mutex there is one call for an order, and no split beside it.
LEMMA NoOther ==
  ASSUME CallInv, Guarded, NEW r \in Requests, NEW x \in Requests, r # x,
         req[r].at \in Inside, req[r].kind # "grant"
  PROVE  /\ req[x].at \notin Splitting
         /\ req[x].at \in Inside /\ req[x].kind # "grant" => req[x].order # req[r].order
<1>1. CASE Serial
  <2>1. At(r, "idle") \/ At(x, "idle")
    BY <1>1 DEF CallInv, Allowed
  <2> QED
    BY <2>1 DEF At, Inside, Splitting
<1>2. CASE ~Serial
  <2>1. "split" \notin may /\ "status" \notin may
    BY <1>2 DEF Guarded, May
  <2>2. req[r].kind = "pay"
    BY <2>1 DEF CallInv, StepOfKind, Allowed, Inside
  <2>3. req[x].at \notin Splitting
    BY <2>1 DEF CallInv, StepOfKind, Allowed
  <2>4. req[x].at \in Inside /\ req[x].kind # "grant" => req[x].kind = "pay"
    BY <2>1 DEF CallInv, StepOfKind, Allowed, Inside
  <2>5. req[x].at \in Inside /\ req[x].kind # "grant" => req[x].order # req[r].order
    BY <2>2, <2>4 DEF CallInv, Holds
  <2> QED
    BY <2>3, <2>5
<1> QED
  BY <1>1, <1>2

-----------------------------------------------------------------------------
\* One receipt for an order.

\* The call that is about to create it still finds none.
NoneYet(r) == At(r, "receipt") => receipts[req[r].order] = <<>>

ReceiptInv == Guarded => OneReceipt /\ \A r \in Requests : NoneYet(r)

LEMMA ReceiptsStay ==
  ASSUME NEW r \in Requests, Begin(r) \/ Proceed(r) \/ Acquire(r), ~CreateReceipt(r)
  PROVE  receipts' = receipts
  BY DEF Begin, Proceed, Acquire, Split, Settle, Count, Fails, ReadSource, PatchStatus, Checkout, Grant,
     PatchDrawer, ComesIn, PlanSplit, CreateTarget, PatchSource, RereadSource, AbortTarget, CheckPatch,
     FindDrawer, WritePatch, FindReceipt, InsertDrawer, CheckRank, WriteRank, Refused,
     AcquirePayLock, FindOpenDrawer

\* A receipt is created only after a look at the receipts of the order.
LEMMA ReceiptIsLookedFor ==
  ASSUME TypeOK, NEW r \in Requests, Begin(r) \/ Proceed(r) \/ Acquire(r), req'[r].at = "receipt"
  PROVE  FindReceipt(r) /\ receipts[req[r].order] = <<>> /\ req'[r].order = req[r].order
<1>1. ~Begins(r) /\ ~Ends(r) /\ ~GoesIn(r)
  BY EndsOn DEF Begins, Leaves, Idle, GoesIn, Onward
<1>2. At(r, "receipt?") /\ req'[r].order = req[r].order
  BY <1>1, StepShape DEF GoesAhead, Leaves, Onward, Follows, At
<1>3. FindReceipt(r) \/ Fails(r)
  <2>1. req[r].at = "receipt?"
    BY <1>2 DEF At
  <2> QED
    BY <2>1 DEF Begin, Proceed, Acquire, Split, Settle, Count, ReadSource, PatchStatus, Checkout, Grant,
       PatchDrawer, ComesIn, PlanSplit, CreateTarget, PatchSource, RereadSource, AbortTarget, CheckPatch,
       FindDrawer, WritePatch, CreateReceipt, InsertDrawer, CheckRank, WriteRank,
       AcquirePayLock, FindOpenDrawer, At
<1> QED
  BY <1>1, <1>2, <1>3 DEF FindReceipt, Fails, Refused

LEMMA ReceiptInvNext ==
  ASSUME TypeOK, CallInv, ReceiptInv, [Next]_vars
  PROVE  ReceiptInv'
<1>1. CASE UNCHANGED vars
  BY <1>1 DEF vars, ReceiptInv, Guarded, Serial, May, OneReceipt, NoneYet, At
<1>2. CASE Crash
  <2>1. may' = may /\ receipts' = receipts /\ \A x \in Requests : req'[x].at = "idle"
    BY <1>2 DEF Crash, Idle
  <2> QED
    BY <2>1 DEF ReceiptInv, Guarded, Serial, May, OneReceipt, NoneYet, At
<1>3. ASSUME NEW r \in Requests, Begin(r) \/ Proceed(r) \/ Acquire(r)
      PROVE  ReceiptInv'
  <2>1. \A x \in Requests \ {r} : req'[x] = req[x]
    BY <1>3, OthersStay
  <2>2. Guarded' = Guarded
    BY <1>3, MayStays DEF Guarded, Serial, May
  <2> SUFFICES ASSUME Guarded PROVE OneReceipt' /\ \A x \in Requests : NoneYet(x)'
    BY <2>2 DEF ReceiptInv
  <2>3. (\A o \in Ids : Len(receipts[o]) <= 1) /\ \A x \in Requests : NoneYet(x)
    BY DEF ReceiptInv, OneReceipt
  <2>4. CASE CreateReceipt(r)
    <3> DEFINE o == req[r].order
    <3>1. /\ o \in Ids /\ req[r].amounts \in Amounts /\ receipts[o] = <<>>
          /\ receipts \in [Ids -> Seq(Amounts)]
      BY <2>3, <2>4 DEF CreateReceipt, NoneYet, TypeOK, RequestRecords
    <3>2. receipts' = [receipts EXCEPT ![o] = <<req[r].amounts>>]
      BY <2>4, <3>1 DEF CreateReceipt, Billed
    <3>3. \A p \in Ids : Len(receipts'[p]) <= 1
      BY <2>3, <3>1, <3>2
    <3>4. ASSUME NEW x \in Requests PROVE NoneYet(x)'
      <4>1. CASE x = r
        BY <2>4, <4>1, EndsOn DEF CreateReceipt, NoneYet, At, Idle
      <4>2. CASE x # r
        <5>1. At(x, "receipt") => req[x].order # o /\ req[x].order \in Ids
          BY <2>4, <4>2, NoOther
          DEF CreateReceipt, At, Inside, CallInv, StepOfKind, TypeOK, RequestRecords
        <5> QED
          BY <2>1, <2>3, <3>1, <3>2, <4>2, <5>1 DEF NoneYet, At
      <4> QED
        BY <4>1, <4>2
    <3> QED
      BY <3>3, <3>4 DEF OneReceipt
  <2>5. CASE ~CreateReceipt(r)
    <3>1. receipts' = receipts
      BY <1>3, <2>5, ReceiptsStay
    <3>2. NoneYet(r)'
      BY <1>3, <3>1, ReceiptIsLookedFor DEF NoneYet, At
    <3>3. \A x \in Requests \ {r} : NoneYet(x)'
      BY <2>1, <2>3, <3>1 DEF NoneYet, At
    <3> QED
      BY <2>3, <3>1, <3>2, <3>3 DEF OneReceipt
  <2> QED
    BY <2>4, <2>5
<1> QED
  BY <1>1, <1>2, <1>3 DEF Next

LEMMA CallInvAlways == Spec => []CallInv
<1>1. Init => CallInv
  BY DEF Init, Idle, CallInv, StepOfKind, Allowed, Holds, At, Splitting, Inside
<1>2. TypeOK /\ CallInv /\ [Next]_vars => CallInv'
  BY CallInvNext
<1> QED
  BY <1>1, <1>2, OrdersTypeCorrect, PTL DEF Spec

\* An order has at most one receipt, however many payments of it overlap and
\* wherever calls fail or the process stops.
THEOREM ReceiptsSafe == Spec => []OneReceipt
<1>1. Init => ReceiptInv
  BY DEF Init, Idle, ReceiptInv, OneReceipt, NoneYet, At
<1>2. TypeOK /\ CallInv /\ ReceiptInv /\ [Next]_vars => ReceiptInv'
  BY ReceiptInvNext
<1>3. ReceiptInv => OneReceipt
  BY DEF ReceiptInv, OneReceipt
<1> QED
  BY <1>1, <1>2, <1>3, OrdersTypeCorrect, CallInvAlways, PTL DEF Spec

-----------------------------------------------------------------------------
\* The payment of an order that is settled.

\* A call with a drawer has a cashier.
Charged(r) ==
    /\ req[r].at \in {"drawer?", "open?", "insert"} => req[r].by # {}
    /\ req[r].at \in {"lock", "check"} => req[r].drawer = None
    /\ At(r, "write") /\ req[r].drawer # None => req[r].by # {}

\* A payment that is about to be written is one of an order that is open.
StillOpen(r) ==
    /\ req[r].at \in {"drawer?", "open?", "insert", "write"}
    /\ req[r].kind # "grant" /\ req[r].by # {}
    => IsOpen(order[req[r].order].status)

PaymentInv ==
    /\ \A r \in Requests : Charged(r)
    /\ Guarded => \A r \in Requests : StillOpen(r)

LEMMA WrittenOver ==
  ASSUME TypeOK, NEW o \in Ids, NEW record, order' \in {order, [order EXCEPT ![o] = record]}
  PROVE  /\ order'[o] \in {order[o], record}
         /\ \A p \in Ids : p # o => order'[p] = order[p]
  BY DEF TypeOK

LEMMA OneFieldOfIt ==
  ASSUME NEW record \in OrderRecords, NEW value
  PROVE  /\ [record EXCEPT !.splitOff = value].status = record.status
         /\ [record EXCEPT !.splitOff = value].payment = record.payment
         /\ [record EXCEPT !.splitOff = value].drawer = record.drawer
         /\ [record EXCEPT !.splitOff = value].splitOff = value
         /\ [record EXCEPT !.splitOff = value].lines = record.lines
         /\ [record EXCEPT !.splitOff = value].from = record.from
         /\ [record EXCEPT !.status = value].status = value
         /\ [record EXCEPT !.status = value].payment = record.payment
         /\ [record EXCEPT !.status = value].drawer = record.drawer
         /\ [record EXCEPT !.status = value].splitOff = record.splitOff
         /\ [record EXCEPT !.status = value].lines = record.lines
         /\ [record EXCEPT !.status = value].from = record.from
  BY DEF OrderRecords

\* What a step does to the status and the payment of an order.
LEMMA OrderShape ==
  ASSUME TypeOK, Aimed, NEW r \in Requests, Begin(r) \/ Proceed(r) \/ Acquire(r), NEW o \in Ids
  PROVE  \/ /\ order'[o].payment = order[o].payment /\ order'[o].drawer = order[o].drawer
            /\ order'[o].status = order[o].status \/ At(r, "abort")
         \/ At(r, "create") /\ ~Exists(o)
         \/ WritePatch(r) /\ o = req[r].order /\ order'[o] = Written(req[r])
<1>1. CASE CreateTarget(r)
  BY <1>1 DEF CreateTarget, At, TypeOK
<1>2. CASE PatchSource(r)
  <2> DEFINE p == req[r].order
  <2>1. p \in Ids /\ order[p] \in OrderRecords
    BY DEF TypeOK, RequestRecords
  <2>2. order' \in {order, [order EXCEPT ![p] = [order[p] EXCEPT !.splitOff = Booked(req[r])]]}
    BY <1>2 DEF PatchSource
  <2>3. /\ order'[p] \in {order[p], [order[p] EXCEPT !.splitOff = Booked(req[r])]}
        /\ \A q \in Ids : q # p => order'[q] = order[q]
    BY <2>1, <2>2, WrittenOver
  <2> DEFINE written == [order[p] EXCEPT !.splitOff = Booked(req[r])]
  <2>4. /\ written.status = order[p].status /\ written.payment = order[p].payment
        /\ written.drawer = order[p].drawer
    BY <2>1, OneFieldOfIt
  <2>5. order'[p] \in {order[p], written}
    BY <2>3
  <2> HIDE DEF written
  <2> QED
    BY <2>3, <2>4, <2>5
<1>3. CASE AbortTarget(r)
  <2> DEFINE t == req[r].target
  <2>1. t \in Ids /\ order[t] \in OrderRecords
    BY <1>3 DEF AbortTarget, At, Aimed, TypeOK
  <2>2. order' \in {order, [order EXCEPT ![t] = [order[t] EXCEPT !.status = "aborted"]]}
    BY <1>3, <2>1 DEF AbortTarget, TypeOK
  <2>3. /\ order'[t] \in {order[t], [order[t] EXCEPT !.status = "aborted"]}
        /\ \A q \in Ids : q # t => order'[q] = order[q]
    BY <2>1, <2>2, WrittenOver
  <2> DEFINE written == [order[t] EXCEPT !.status = "aborted"]
  <2>4. written.payment = order[t].payment /\ written.drawer = order[t].drawer
    BY <2>1, OneFieldOfIt
  <2>5. order'[t] \in {order[t], written}
    BY <2>3
  <2> HIDE DEF written
  <2> QED
    BY <1>3, <2>3, <2>4, <2>5 DEF AbortTarget
<1>4. CASE WritePatch(r)
  <2>1. order' \in {order, [order EXCEPT ![req[r].order] = Written(req[r])]}
    BY <1>4 DEF WritePatch, Written
  <2> QED
    BY <1>4, <2>1 DEF TypeOK
<1>5. CASE ~CreateTarget(r) /\ ~PatchSource(r) /\ ~AbortTarget(r) /\ ~WritePatch(r)
  <2>1. order' = order
    BY <1>5 DEF Begin, Proceed, Acquire, Split, Settle, Count, Fails, ReadSource, PatchStatus, Checkout,
       Grant, PatchDrawer, ComesIn, PlanSplit, RereadSource, CheckPatch, FindDrawer, FindReceipt,
       CreateReceipt, InsertDrawer, CheckRank, WriteRank, Refused, AcquirePayLock, FindOpenDrawer
  <2> QED
    BY <2>1
<1> QED
  BY <1>1, <1>2, <1>3, <1>4, <1>5

\* The actions that lead to the middle of a payment.
LEMMA MiddleActions ==
  ASSUME TypeOK, NEW r \in Requests, Proceed(r) \/ Acquire(r), ~Ends(r),
         req'[r].at \in {"lock", "check", "drawer?", "open?", "insert", "write"}
  PROVE  CheckPatch(r) \/ FindDrawer(r) \/ AcquirePayLock(r) \/ FindOpenDrawer(r) \/ InsertDrawer(r)
<1>1. req[r].at \in {"lock", "check", "drawer?", "open?", "insert"} \/ Begins(r)
  BY StepShape DEF Leaves, GoesIn, GoesAhead, Onward, Follows, At
<1>2. ~Begins(r)
  BY DEF Begins, Proceed, Acquire, Split, Settle, Count, Fails, PlanSplit, CreateTarget, PatchSource,
     RereadSource, AbortTarget, CheckPatch, FindDrawer, WritePatch, FindReceipt, CreateReceipt,
     InsertDrawer, CheckRank, WriteRank, AcquirePayLock, FindOpenDrawer, At
<1> QED
  BY <1>1, <1>2 DEF Proceed, Acquire, Split, Settle, Count, Fails, Refused, PlanSplit, CreateTarget,
     PatchSource, RereadSource, AbortTarget, WritePatch, FindReceipt, CreateReceipt, CheckRank,
     WriteRank, At

LEMMA ChargedNext ==
  ASSUME TypeOK, NEW r \in Requests, Charged(r), Begin(r) \/ Proceed(r) \/ Acquire(r)
  PROVE  Charged(r)'
<1>1. CASE Begin(r)
  <2>1. CASE \E o \in Ids : ReadSource(r, o)
    BY <2>1 DEF ReadSource, Idle, TypeOK, Charged, At
  <2>2. CASE \E o \in Ids, to \in Statuses : PatchStatus(r, o, to)
    BY <2>2 DEF PatchStatus, Idle, TypeOK, Charged, At
  <2>3. CASE \E o \in Ids, c \in Cashiers : Checkout(r, o, c)
    BY <2>3 DEF Checkout, Idle, TypeOK, Charged, At
  <2>4. CASE \E c \in Cashiers : Grant(r, c)
    BY <2>4 DEF Grant, Idle, TypeOK, Charged, At
  <2>5. CASE \E d \in Drawers, rank \in Ranks : PatchDrawer(r, d, rank)
    BY <2>5 DEF PatchDrawer, Idle, TypeOK, Charged, At
  <2> QED
    BY <1>1, <2>1, <2>2, <2>3, <2>4, <2>5 DEF Begin
<1>2. CASE Ends(r)
  BY <1>2, EndsOn DEF Idle, Charged, At
<1>3. CASE ~Ends(r) /\ req'[r].at \notin {"lock", "check", "drawer?", "open?", "insert", "write"}
  BY <1>3 DEF Charged, At
<1>4. CASE CheckPatch(r) /\ ~Ends(r)
  BY <1>4, CheckOn DEF CheckPatch, Charged, At, Onward
<1>5. CASE FindDrawer(r) /\ ~Ends(r)
  <2>1. req'[r].by = req[r].by /\ req'[r].at \in {"write", "open?"} /\ req[r].by # {}
    BY <1>5, FoundOn, GoesOn DEF FindDrawer, Steps, Charged, At, Onward
  <2> QED
    BY <2>1 DEF Charged, At
<1>6. CASE AcquirePayLock(r)
  <2>1. req'[r].drawer = req[r].drawer /\ req'[r].at = "check"
    BY <1>6, GoesOn DEF AcquirePayLock, Steps, Onward
  <2> QED
    BY <1>6, <2>1 DEF AcquirePayLock, Charged, At
<1>7. CASE FindOpenDrawer(r) /\ ~Ends(r)
  <2>1. req'[r].by = req[r].by /\ req'[r].at \in {"insert", "write"} /\ req[r].by # {}
    BY <1>7, FoundOn, GoesOn DEF FindOpenDrawer, Steps, Charged, At, Onward
  <2> QED
    BY <2>1 DEF Charged, At
<1>8. CASE InsertDrawer(r) /\ ~Ends(r)
  <2>1. req'[r].by = req[r].by /\ req'[r].at = "write" /\ req[r].by # {}
    BY <1>8, FoundOn DEF InsertDrawer, Charged, At, Onward
  <2> QED
    BY <2>1 DEF Charged, At
<1>9. CASE ~Begin(r) /\ ~Ends(r) /\ req'[r].at \in {"lock", "check", "drawer?", "open?", "insert", "write"}
  BY <1>4, <1>5, <1>6, <1>7, <1>8, <1>9, MiddleActions
<1> QED
  BY <1>1, <1>2, <1>3, <1>9

\* A payment goes on only while the order is open, and no other call closes it.
LEMMA StillOpenNext ==
  ASSUME TypeOK, Aimed, CallInv, Guarded, NEW r \in Requests, Begin(r) \/ Proceed(r) \/ Acquire(r),
         \A x \in Requests : StillOpen(x),
         \A x \in Requests \ {r} : req'[x] = req[x],
         NEW x \in Requests
  PROVE  StillOpen(x)'
<1> DEFINE Paying(q) == /\ req[q].at \in {"drawer?", "open?", "insert", "write"}
                        /\ req[q].kind # "grant" /\ req[q].by # {}
<1>1. CASE x # r
  <2> SUFFICES ASSUME Paying(x) PROVE IsOpen(order'[req[x].order].status)
    BY <1>1 DEF StillOpen
  <2>1. req[x].order \in Ids /\ IsOpen(order[req[x].order].status)
    BY DEF StillOpen, TypeOK, RequestRecords
  <2>2. req[r].at \notin Splitting
    BY <1>1, NoOther DEF Inside
  <2>3. WritePatch(r) => req[r].order # req[x].order
    <3>1. WritePatch(r) => req[r].at \in Inside /\ req[r].kind # "grant"
      BY DEF WritePatch, At, Inside, CallInv, StepOfKind
    <3> QED
      BY <1>1, <3>1, NoOther DEF Inside
  <2>4. ~At(r, "abort") /\ ~At(r, "create")
    BY <2>2 DEF Splitting, At
  <2>5. order'[req[x].order].status = order[req[x].order].status
    BY <2>1, <2>3, <2>4, OrderShape
  <2> QED
    BY <2>1, <2>5
<1>2. CASE x = r
  <2> SUFFICES ASSUME Paying(r)' PROVE IsOpen(order'[req'[r].order].status)
    BY <1>2 DEF StillOpen
  <2>1. ~Begin(r)
    <3>1. Begin(r) => At(r, "idle")
      BY DEF Begin, ReadSource, PatchStatus, Checkout, Grant, PatchDrawer, ComesIn
    <3>2. Begin(r) => Begins(r)
      BY <3>1, StepShape DEF Leaves, GoesIn, GoesAhead, Follows, At
    <3> QED
      BY <3>2 DEF Begins
  <2>2. ~Ends(r)
    BY EndsOn DEF Idle
  <2>3. CheckPatch(r) \/ FindDrawer(r) \/ AcquirePayLock(r) \/ FindOpenDrawer(r) \/ InsertDrawer(r)
    BY <2>1, <2>2, MiddleActions
  <2>4. order' = order
    BY <2>3 DEF CheckPatch, FindDrawer, AcquirePayLock, FindOpenDrawer, InsertDrawer
  <2>5. CASE CheckPatch(r)
    BY <2>2, <2>4, <2>5, CheckOn DEF Onward, Repeat
  <2>6. CASE FindDrawer(r)
    <3>1. Paying(r) /\ req'[r].order = req[r].order
      BY <2>2, <2>6, FoundOn, GoesOn DEF FindDrawer, Steps, Onward, At
    <3> QED
      BY <2>4, <3>1 DEF StillOpen
  <2>7. CASE AcquirePayLock(r)
    BY <2>7, GoesOn DEF AcquirePayLock, Steps, Onward
  <2>8. CASE FindOpenDrawer(r)
    <3>1. Paying(r) /\ req'[r].order = req[r].order
      BY <2>2, <2>8, FoundOn, GoesOn DEF FindOpenDrawer, Steps, Onward, At
    <3> QED
      BY <2>4, <3>1 DEF StillOpen
  <2>9. CASE InsertDrawer(r)
    <3>1. Paying(r) /\ req'[r].order = req[r].order
      BY <2>2, <2>9, FoundOn DEF InsertDrawer, Onward, At
    <3> QED
      BY <2>4, <3>1 DEF StillOpen
  <2> QED
    BY <2>3, <2>5, <2>6, <2>7, <2>8, <2>9
<1> QED
  BY <1>1, <1>2

LEMMA PaymentInvNext ==
  ASSUME TypeOK, Aimed, CallInv, PaymentInv, [Next]_vars
  PROVE  PaymentInv'
<1>1. CASE UNCHANGED vars
  BY <1>1 DEF vars, PaymentInv, Guarded, Serial, May, Charged, StillOpen, IsOpen, At
<1>2. CASE Crash
  <2>1. may' = may /\ \A x \in Requests : req'[x].at = "idle"
    BY <1>2 DEF Crash, Idle
  <2> QED
    BY <2>1 DEF PaymentInv, Charged, StillOpen, At
<1>3. ASSUME NEW r \in Requests, Begin(r) \/ Proceed(r) \/ Acquire(r)
      PROVE  PaymentInv'
  <2>1. \A x \in Requests \ {r} : req'[x] = req[x]
    BY <1>3, OthersStay
  <2>2. Guarded' = Guarded
    BY <1>3, MayStays DEF Guarded, Serial, May
  <2>3. ASSUME NEW x \in Requests PROVE Charged(x)'
    <3>1. CASE x # r
      BY <2>1, <3>1 DEF PaymentInv, Charged, At
    <3>2. CASE x = r
      BY <1>3, <3>2, ChargedNext DEF PaymentInv
    <3> QED
      BY <3>1, <3>2
  <2>4. Guarded => \A x \in Requests : StillOpen(x)'
    BY <1>3, <2>1, StillOpenNext DEF PaymentInv
  <2> QED
    BY <2>2, <2>3, <2>4 DEF PaymentInv
<1> QED
  BY <1>1, <1>2, <1>3 DEF Next

\* The step of PaymentFixed.
PaymentStays ==
    Guarded => \A o \in Ids :
      Exists(o) /\ ~IsOpen(order[o].status) /\ order[o].payment # {}
        => order'[o].payment = order[o].payment /\ order'[o].drawer = order[o].drawer

LEMMA PaymentStaysNext ==
  ASSUME TypeOK, Aimed, PaymentInv, CallInv, [Next]_vars
  PROVE  PaymentStays
<1>1. CASE UNCHANGED vars \/ Crash
  BY <1>1 DEF vars, Crash, PaymentStays
<1>2. ASSUME NEW r \in Requests, Begin(r) \/ Proceed(r) \/ Acquire(r)
      PROVE  PaymentStays
  <2> SUFFICES ASSUME Guarded, NEW o \in Ids, Exists(o), ~IsOpen(order[o].status)
               PROVE  order'[o].payment = order[o].payment /\ order'[o].drawer = order[o].drawer
    BY DEF PaymentStays
  <2>1. CASE WritePatch(r) /\ o = req[r].order /\ order'[o] = Written(req[r])
    <3>1. At(r, "write") /\ req[r].kind # "grant"
      BY <2>1 DEF WritePatch, At, CallInv, StepOfKind
    <3>2. req[r].by = {} /\ req[r].drawer = None
      BY <2>1, <3>1 DEF PaymentInv, StillOpen, Charged, At
    <3> QED
      BY <2>1, <3>2, WrittenRecord
  <2> QED
    BY <1>2, <2>1, OrderShape
<1> QED
  BY <1>1, <1>2 DEF Next

\* The payment and the drawer of a settled order stay what they are, however many
\* tills settle it at the same time.
THEOREM PaymentSafe == Spec => PaymentFixed
<1>1. Init => PaymentInv
  BY DEF Init, Idle, PaymentInv, Charged, StillOpen, At
<1>2. TypeOK /\ Aimed /\ CallInv /\ PaymentInv /\ [Next]_vars => PaymentInv'
  BY PaymentInvNext
<1>3. TypeOK /\ Aimed /\ CallInv /\ PaymentInv /\ [Next]_vars => [PaymentStays]_vars
  BY PaymentStaysNext
<1>4. Typed => TypeOK /\ Aimed
  BY DEF Typed
<1>5. Spec => []PaymentInv
  BY <1>1, <1>2, <1>4, TypedAlways, CallInvAlways, PTL DEF Spec
<1>6. Spec => [][PaymentStays]_vars
  BY <1>3, <1>4, <1>5, TypedAlways, CallInvAlways, PTL DEF Spec
<1> QED
  BY <1>6 DEF PaymentFixed, PaymentStays

-----------------------------------------------------------------------------
(***************************************************************************)
(* Splits, one call at a time.  What the split has read is still true when *)
(* it books; a failed booking leaves all of the entry of its target or     *)
(* nothing; and an aborted order is never taken back.                      *)
(***************************************************************************)
AtTarget == {"source", "reread", "abort"}
Paying   == {"drawer?", "open?", "insert", "write"}

ReadIsTrue(r) ==
    req[r].at \in {"receipts?", "create", "source"} =>
        req[r].seen = order[req[r].order] /\ Exists(req[r].order)

TargetIsThere(r) ==
    req[r].at \in AtTarget =>
        /\ req[r].target # req[r].order /\ Exists(req[r].target)
        /\ order[req[r].target].from = req[r].order
        /\ order[req[r].target].lines = req[r].amounts

AllOrNothing(r) ==
    LET given == order[req[r].order].splitOff[req[r].target] IN
    /\ At(r, "source") => given = Nothing
    /\ At(r, "reread") => given \in {Nothing, req[r].amounts}
    /\ At(r, "abort") /\ ~May("unreadable") => given = Nothing

StillValid(r) ==
    req[r].at \in Paying /\ req[r].kind # "grant" =>
        ValidTransition(order[req[r].order].status, req[r].to)

SplitCall(r) == ReadIsTrue(r) /\ TargetIsThere(r) /\ AllOrNothing(r) /\ StillValid(r)

Booking(t) == \E r \in Requests : req[r].target = t /\ req[r].at \in AtTarget

Unborn == \A t, o \in Ids : ~Exists(t) => order[o].splitOff[t] = Nothing

Parents == \A t \in Ids : order[t].from # None => Exists(order[t].from)

BookedOrOpen ==
    \A t \in Ids :
        \/ order[t].from = None \/ order[t].status = "aborted" \/ t \in LeftOpen \/ Booking(t)
        \/ order[order[t].from].splitOff[t] = order[t].lines

SplitFacts ==
    /\ \A r \in Requests : SplitCall(r)
    /\ Unborn /\ Parents /\ BookedOrOpen

\* The one call at work.
Lone(r) == \A x \in Requests \ {r} : req[x].at = "idle" /\ req'[x] = req[x]

LEMMA LoneFacts ==
  ASSUME NEW r \in Requests, Lone(r), (SplitCall(r) /\ Unborn /\ Parents /\ BookedOrOpen)'
  PROVE  SplitFacts'
<1>1. ASSUME NEW x \in Requests, x # r PROVE SplitCall(x)'
  <2>1. req'[x].at = "idle"
    BY <1>1 DEF Lone
  <2> QED
    BY <2>1 DEF SplitCall, ReadIsTrue, TargetIsThere, AllOrNothing, StillValid, AtTarget, Paying, At
<1> QED
  BY <1>1 DEF SplitFacts

\* A call that is over, or about to look for a receipt, claims nothing.
LEMMA QuietCall ==
  ASSUME NEW r \in Requests, req'[r].at \in {"idle", "lock", "check", "receipt?", "receipt", "rank?", "rank"}
  PROVE  SplitCall(r)'
  BY DEF SplitCall, ReadIsTrue, TargetIsThere, AllOrNothing, StillValid, AtTarget, Paying, At

\* Fields of the orders, typed.
LEMMA OrderTyped ==
  ASSUME TypeOK, NEW o \in Ids
  PROVE  /\ order[o] \in OrderRecords
         /\ order[o].from \in Ids \cup {None} /\ order[o].splitOff \in [Ids -> Amounts]
  BY DEF TypeOK, OrderRecords

LEMMA RequestTyped ==
  ASSUME TypeOK, NEW r \in Requests
  PROVE  /\ req[r] \in RequestRecords /\ req[r].order \in Ids /\ req[r].amounts \in Amounts
         /\ req[r].seen \in OrderRecords
  BY DEF TypeOK, RequestRecords

LEMMA CreateKeepsSplits ==
  ASSUME TypeOK, SplitFacts, NEW r \in Requests, Lone(r), CreateTarget(r)
  PROVE  SplitFacts'
<1> DEFINE o == req[r].order
<1>1. PICK t \in Ids :
        /\ ~Exists(t)
        /\ order' = [order EXCEPT ![t] = [Blank EXCEPT !.status = req[r].seen.status,
                                            !.lines = req[r].amounts, !.from = req[r].order]]
        /\ \/ req' = [req EXCEPT ![r].at = "source", ![r].target = t] /\ unnoticed' = unnoticed
           \/ Ends(r) /\ unnoticed' = unnoticed \cup {t}
  BY DEF CreateTarget
<1>2. o \in Ids /\ Exists(o) /\ req[r].seen = order[o] /\ t # o
  BY <1>1, RequestTyped DEF SplitFacts, SplitCall, ReadIsTrue, CreateTarget, At
<1>3. \/ /\ req'[r].at = "source" /\ req'[r].target = t /\ req'[r].order = o
         /\ req'[r].seen = req[r].seen /\ req'[r].amounts = req[r].amounts
      \/ req'[r].at = "idle" /\ t \in LeftOpen'
  BY <1>1, CreateOn, EndsOn DEF Onward, Idle, LeftOpen
<1>4. /\ \A p \in Ids : p # t => order'[p] = order[p]
      /\ order'[t].status = order[o].status /\ order'[t].lines = req[r].amounts
      /\ order'[t].from = o /\ order'[t].splitOff = [u \in Ids |-> Nothing]
  BY <1>1, <1>2 DEF TypeOK, Blank
<1>5. SplitCall(r)'
  <2>1. order'[o].splitOff[t] = Nothing
    BY <1>1, <1>2, <1>4 DEF SplitFacts, Unborn
  <2>2. CASE req'[r].at = "idle"
    BY <2>2, QuietCall
  <2>3. CASE req'[r].at # "idle"
    BY <1>2, <1>3, <1>4, <2>1, <2>3 DEF SplitCall, ReadIsTrue, TargetIsThere, AllOrNothing, StillValid,
       AtTarget, Paying, At, Exists
  <2> QED
    BY <2>2, <2>3
<1>6. Unborn'
  <2> SUFFICES ASSUME NEW u \in Ids, NEW p \in Ids, ~Exists(u)' PROVE order'[p].splitOff[u] = Nothing
    BY DEF Unborn
  <2>1. ~Exists(u)
    BY <1>1, <1>4 DEF Exists
  <2>2. order[p].splitOff[u] = Nothing
    BY <2>1 DEF SplitFacts, Unborn
  <2>3. CASE p = t
    BY <1>4, <2>3
  <2>4. CASE p # t
    BY <1>4, <2>2, <2>4
  <2> QED
    BY <2>3, <2>4
<1>7. Parents'
  <2> SUFFICES ASSUME NEW u \in Ids, order'[u].from # None
               PROVE  order'[order'[u].from].status # "none"
    BY DEF Parents, Exists
  <2>1. CASE u = t
    BY <1>2, <1>4, <2>1 DEF Exists
  <2>2. CASE u # t
    <3>1. order'[u].from = order[u].from /\ Exists(order[u].from) /\ order[u].from \in Ids
      BY <1>4, <2>2, OrderTyped DEF SplitFacts, Parents
    <3> QED
      BY <1>1, <1>4, <3>1 DEF Exists
  <2> QED
    BY <2>1, <2>2
<1>8. BookedOrOpen'
  <2> SUFFICES ASSUME NEW u \in Ids, order'[u].from # None, order'[u].status # "aborted",
                      u \notin LeftOpen', ~Booking(u)'
               PROVE  order'[order'[u].from].splitOff[u] = order'[u].lines
    BY DEF BookedOrOpen
  <2>1. u # t
    BY <1>3 DEF Booking, AtTarget
  <2>2. ~Booking(u) /\ u \notin LeftOpen
    <3>1. ASSUME NEW x \in Requests, req[x].at \in AtTarget PROVE FALSE
      BY <3>1 DEF Lone, AtTarget, CreateTarget, At
    <3> QED
      BY <1>1, <3>1 DEF Booking, CreateTarget, LeftOpen
  <2>3. order'[u] = order[u] /\ order[u].from \in Ids /\ Exists(order[u].from)
    BY <1>4, <2>1, OrderTyped DEF SplitFacts, Parents
  <2>4. order'[order[u].from] = order[order[u].from]
    BY <1>1, <1>4, <2>3
  <2> QED
    BY <2>2, <2>3, <2>4 DEF SplitFacts, BookedOrOpen
<1> QED
  BY <1>5, <1>6, <1>7, <1>8, LoneFacts

\* A step that changes no order and is not about a booking.
LEMMA RestKeepsSplits ==
  ASSUME TypeOK, SplitFacts, NEW r \in Requests, Lone(r), order' = order, LeftOpen' = LeftOpen,
         req[r].at \notin AtTarget, SplitCall(r)'
  PROVE  SplitFacts'
<1>1. \A t : ~Booking(t)
  BY DEF Lone, Booking, AtTarget
<1>2. Unborn' /\ Parents' /\ BookedOrOpen'
  BY <1>1 DEF SplitFacts, Unborn, Parents, BookedOrOpen, Exists
<1> QED
  BY <1>2, LoneFacts

LEMMA SourceKeepsSplits ==
  ASSUME TypeOK, Aimed, SplitFacts, NEW r \in Requests, Lone(r), PatchSource(r)
  PROVE  SplitFacts'
<1> DEFINE o == req[r].order
           t == req[r].target
           written == [order[o] EXCEPT !.splitOff = Booked(req[r])]
<1>1. /\ o \in Ids /\ t \in Ids /\ t # o /\ order[o] \in OrderRecords /\ req[r].seen = order[o]
      /\ Exists(o) /\ Exists(t) /\ order[t].from = o /\ order[t].lines = req[r].amounts
      /\ order[o].splitOff[t] = Nothing
  BY RequestTyped, OrderTyped
  DEF PatchSource, At, Aimed, SplitFacts, SplitCall, ReadIsTrue, TargetIsThere, AllOrNothing, AtTarget
<1>2. /\ written.status = order[o].status /\ written.lines = order[o].lines
      /\ written.from = order[o].from /\ written.splitOff = Booked(req[r])
  BY <1>1, OneFieldOfIt
<1>3. /\ Booked(req[r])[t] = req[r].amounts
      /\ \A u \in Ids : u # t => Booked(req[r])[u] = order[o].splitOff[u]
  BY <1>1, OrderTyped DEF Booked
<1>4. /\ order' \in {order, [order EXCEPT ![o] = written]}
      /\ order' = [order EXCEPT ![o] = written] \/ Goes(r, "reread")
      /\ AfterPatch(r, written) \/ Goes(r, "reread")
      /\ LeftOpen' = LeftOpen
  BY DEF LeftOpen, PatchSource, fixed
<1> HIDE DEF written
<1>5. /\ order'[o] \in {order[o], written} /\ \A p \in Ids : p # o => order'[p] = order[p]
      /\ order'[o] = written \/ Goes(r, "reread")
  BY <1>1, <1>4 DEF TypeOK
<1>6. ASSUME NEW p \in Ids
      PROVE  /\ order'[p].status = order[p].status /\ order'[p].lines = order[p].lines
             /\ order'[p].from = order[p].from
             /\ \A u \in Ids : u # t => order'[p].splitOff[u] = order[p].splitOff[u]
  BY <1>2, <1>3, <1>5
<1>7. /\ order'[o].splitOff[t] \in {Nothing, req[r].amounts}
      /\ order'[o].splitOff[t] = req[r].amounts \/ Goes(r, "reread")
  BY <1>1, <1>2, <1>3, <1>5
<1>8. /\ Goes(r, "reread") => /\ req'[r].at = "reread" /\ req'[r].target = t /\ req'[r].order = o
                              /\ req'[r].amounts = req[r].amounts
      /\ ~Goes(r, "reread") => req'[r].at \in {"idle", "receipt?"}
  <2>1. Goes(r, "reread") => /\ req'[r].at = "reread" /\ req'[r].target = t /\ req'[r].order = o
                             /\ req'[r].amounts = req[r].amounts
    BY GoesOn DEF Steps, Onward
  <2>2. Ends(r) => req'[r].at = "idle"
    BY EndsOn DEF Idle
  <2>3. AfterPatch(r, written) /\ ~Ends(r) => req'[r].at = "receipt?"
    BY AfterOn DEF Onward
  <2> QED
    BY <1>4, <2>1, <2>2, <2>3
<1>9. SplitCall(r)'
  <2>1. CASE ~Goes(r, "reread")
    BY <1>8, <2>1, QuietCall
  <2>2. CASE Goes(r, "reread")
    BY <1>1, <1>6, <1>7, <1>8, <2>2
    DEF SplitCall, ReadIsTrue, TargetIsThere, AllOrNothing, StillValid, AtTarget, Paying, At, Exists
  <2> QED
    BY <2>1, <2>2
<1>10. Unborn'
  <2> SUFFICES ASSUME NEW u \in Ids, NEW p \in Ids, ~Exists(u)' PROVE order'[p].splitOff[u] = Nothing
    BY DEF Unborn
  <2>1. ~Exists(u)
    BY <1>6 DEF Exists
  <2> QED
    BY <1>1, <1>6, <2>1 DEF SplitFacts, Unborn
<1>11. Parents'
  <2> SUFFICES ASSUME NEW u \in Ids, order'[u].from # None
               PROVE  order'[order'[u].from].status # "none"
    BY DEF Parents, Exists
  <2>1. order'[u].from = order[u].from /\ order[u].from \in Ids
    BY <1>6, OrderTyped
  <2> QED
    BY <1>6, <2>1 DEF SplitFacts, Parents, Exists
<1>12. BookedOrOpen'
  <2> SUFFICES ASSUME NEW u \in Ids, order'[u].from # None, order'[u].status # "aborted",
                      u \notin LeftOpen', ~Booking(u)'
               PROVE  order'[order'[u].from].splitOff[u] = order'[u].lines
    BY DEF BookedOrOpen
  <2>1. order'[u].from = order[u].from /\ order[u].from \in Ids /\ order'[u].lines = order[u].lines
        /\ order[u].status # "aborted" /\ u \notin LeftOpen
    BY <1>4, <1>6, OrderTyped
  <2>2. CASE u = t
    <3>1. ~Goes(r, "reread")
      BY <1>8, <2>2 DEF Booking, AtTarget
    <3> QED
      BY <1>1, <1>7, <2>1, <2>2, <3>1
  <2>3. CASE u # t
    <3>1. ~Booking(u)
      BY <2>3 DEF Lone, Booking, AtTarget
    <3>2. order[order[u].from].splitOff[u] = order[u].lines
      BY <2>1, <3>1 DEF SplitFacts, BookedOrOpen
    <3> QED
      BY <1>6, <2>1, <2>3, <3>2
  <2> QED
    BY <2>2, <2>3
<1> QED
  BY <1>9, <1>10, <1>11, <1>12, LoneFacts

LEMMA RereadKeepsSplits ==
  ASSUME TypeOK, Aimed, SplitFacts, NEW r \in Requests, Lone(r), RereadSource(r)
  PROVE  SplitFacts'
<1> DEFINE o == req[r].order
           t == req[r].target
<1>1. /\ o \in Ids /\ t \in Ids /\ order[t].from = o /\ order[t].lines = req[r].amounts
      /\ order[o].splitOff[t] \in {Nothing, req[r].amounts} /\ Exists(t) /\ t # o
  BY RequestTyped DEF RereadSource, At, Aimed, SplitFacts, SplitCall, TargetIsThere, AllOrNothing, AtTarget
<1>2. order' = order /\ LeftOpen' = LeftOpen /\ may' = may
  BY DEF LeftOpen, RereadSource, fixed
<1>3. Unborn' /\ Parents'
  BY <1>2 DEF SplitFacts, Unborn, Parents, Exists
<1>4. \A u \in Ids : Booking(u) => u = t
  BY DEF Lone, Booking, AtTarget
<1>5. CASE Goes(r, "abort") /\ (order[o].splitOff[t] = Nothing \/ May("unreadable"))
  <2>1. /\ req'[r].at = "abort" /\ req'[r].target = t /\ req'[r].order = o
        /\ req'[r].amounts = req[r].amounts
    BY <1>5, GoesOn DEF Steps, Onward
  <2>2. SplitCall(r)'
    BY <1>1, <1>2, <1>5, <2>1
    DEF SplitCall, ReadIsTrue, TargetIsThere, AllOrNothing, StillValid, AtTarget, Paying, At, Exists, May
  <2>3. \A u \in Ids : Booking(u) => Booking(u)'
    BY <1>4, <2>1 DEF Booking, AtTarget
  <2>4. BookedOrOpen'
    BY <1>2, <2>3 DEF SplitFacts, BookedOrOpen
  <2> QED
    BY <1>3, <2>2, <2>4, LoneFacts
<1>6. CASE Ends(r) /\ order[o].splitOff[t] # Nothing
  <2>1. SplitCall(r)'
    BY <1>6, EndsOn, QuietCall DEF Idle
  <2>2. BookedOrOpen'
    BY <1>1, <1>2, <1>4, <1>6 DEF SplitFacts, BookedOrOpen
  <2> QED
    BY <1>3, <2>1, <2>2, LoneFacts
<1> QED
  BY <1>5, <1>6 DEF RereadSource

LEMMA AbortKeepsSplits ==
  ASSUME TypeOK, Aimed, SplitFacts, NEW r \in Requests, Lone(r), AbortTarget(r)
  PROVE  SplitFacts'
<1> DEFINE t == req[r].target
           written == [order[t] EXCEPT !.status = "aborted"]
<1>1. t \in Ids /\ order[t] \in OrderRecords /\ Exists(t)
  BY OrderTyped DEF AbortTarget, At, Aimed, SplitFacts, SplitCall, TargetIsThere, AtTarget
<1>2. /\ written.status = "aborted" /\ written.lines = order[t].lines
      /\ written.from = order[t].from /\ written.splitOff = order[t].splitOff
  BY <1>1, OneFieldOfIt
<1>3. /\ order' \in {order, [order EXCEPT ![t] = written]}
      /\ (order' = [order EXCEPT ![t] = written] /\ LeftOpen' = LeftOpen) \/ LeftOpen' = LeftOpen \cup {t}
  BY <1>1 DEF LeftOpen, AbortTarget, TypeOK
<1> HIDE DEF written
<1>4. ASSUME NEW p \in Ids
      PROVE  /\ order'[p].status \in {order[p].status, "aborted"} /\ order'[p].lines = order[p].lines
             /\ order'[p].from = order[p].from /\ order'[p].splitOff = order[p].splitOff
             /\ p # t => order'[p].status = order[p].status
  BY <1>1, <1>2, <1>3 DEF TypeOK
<1>5. order'[t].status = "aborted" \/ t \in LeftOpen'
  BY <1>1, <1>2, <1>3 DEF TypeOK
<1>6. SplitCall(r)'
  BY EndsOn, QuietCall DEF AbortTarget, Idle
<1>7. Unborn'
  <2> SUFFICES ASSUME NEW u \in Ids, NEW p \in Ids, ~Exists(u)' PROVE order'[p].splitOff[u] = Nothing
    BY DEF Unborn
  <2>1. ~Exists(u)
    BY <1>4 DEF Exists
  <2> QED
    BY <1>4, <2>1 DEF SplitFacts, Unborn
<1>8. Parents'
  <2> SUFFICES ASSUME NEW u \in Ids, order'[u].from # None
               PROVE  order'[order'[u].from].status # "none"
    BY DEF Parents, Exists
  <2>1. order'[u].from = order[u].from /\ order[u].from \in Ids
    BY <1>4, OrderTyped
  <2> QED
    BY <1>4, <2>1 DEF SplitFacts, Parents, Exists
<1>9. BookedOrOpen'
  <2> SUFFICES ASSUME NEW u \in Ids, order'[u].from # None, order'[u].status # "aborted", u \notin LeftOpen'
               PROVE  order'[order'[u].from].splitOff[u] = order'[u].lines
    BY DEF BookedOrOpen
  <2>1. u # t
    BY <1>5
  <2>2. /\ order'[u].from = order[u].from /\ order[u].from \in Ids /\ order'[u].lines = order[u].lines
        /\ order[u].status # "aborted" /\ u \notin LeftOpen
    BY <1>3, <1>4, <2>1, OrderTyped
  <2>3. ~Booking(u)
    BY <2>1 DEF Lone, Booking, AtTarget
  <2>4. order[order[u].from].splitOff[u] = order[u].lines
    BY <2>2, <2>3 DEF SplitFacts, BookedOrOpen
  <2> QED
    BY <1>4, <2>2, <2>4
<1> QED
  BY <1>6, <1>7, <1>8, <1>9, LoneFacts

LEMMA WriteKeepsSplits ==
  ASSUME TypeOK, SplitFacts, CallInv, NEW r \in Requests, Lone(r), WritePatch(r)
  PROVE  SplitFacts'
<1> DEFINE o == req[r].order
           written == Written(req[r])
<1>1. /\ o \in Ids /\ order[o] \in OrderRecords /\ ValidTransition(order[o].status, req[r].to)
      /\ req[r].to \in Statuses
  <2>1. req[r].at = "write" /\ req[r].kind # "grant"
    BY DEF WritePatch, At, CallInv, StepOfKind
  <2>2. req[r].to \in Statuses
    BY DEF TypeOK, RequestRecords
  <2> QED
    BY <2>1, <2>2, RequestTyped, OrderTyped DEF SplitFacts, SplitCall, StillValid, Paying
<1>2. /\ written.status = req[r].to /\ written.lines = order[o].lines
      /\ written.from = order[o].from /\ written.splitOff = order[o].splitOff
  BY WrittenRecord
<1>3. order' \in {order, [order EXCEPT ![o] = written]} /\ LeftOpen' = LeftOpen
      /\ (AfterPatch(r, written) \/ Ends(r))
  BY DEF LeftOpen, WritePatch, Written, fixed
<1> HIDE DEF written
<1>4. ASSUME NEW p \in Ids
      PROVE  /\ order[p].status = "aborted" => order'[p].status = "aborted"
             /\ order'[p].status = "none" => order[p].status = "none"
             /\ order'[p].lines = order[p].lines
             /\ order'[p].from = order[p].from /\ order'[p].splitOff = order[p].splitOff
  <2>1. order'[p] \in {order[p], written} /\ (p # o => order'[p] = order[p])
    BY <1>1, <1>3 DEF TypeOK
  <2>2. req[r].to # "none" /\ (order[o].status = "aborted" => req[r].to = "aborted")
    BY <1>1 DEF ValidTransition, Statuses
  <2> QED
    BY <1>2, <2>1, <2>2
<1>5. SplitCall(r)'
  <2>1. Ends(r) \/ req'[r].at = "receipt?"
    BY <1>3, AfterOn DEF Onward
  <2> QED
    BY <2>1, EndsOn, QuietCall DEF Idle
<1>6. Unborn'
  <2> SUFFICES ASSUME NEW u \in Ids, NEW p \in Ids, ~Exists(u)' PROVE order'[p].splitOff[u] = Nothing
    BY DEF Unborn
  <2>1. ~Exists(u)
    BY <1>4 DEF Exists
  <2> QED
    BY <1>4, <2>1 DEF SplitFacts, Unborn
<1>7. Parents'
  <2> SUFFICES ASSUME NEW u \in Ids, order'[u].from # None
               PROVE  order'[order'[u].from].status # "none"
    BY DEF Parents, Exists
  <2>1. order'[u].from = order[u].from /\ order[u].from \in Ids
    BY <1>4, OrderTyped
  <2> QED
    BY <1>4, <2>1 DEF SplitFacts, Parents, Exists
<1>8. BookedOrOpen'
  <2> SUFFICES ASSUME NEW u \in Ids, order'[u].from # None, order'[u].status # "aborted", u \notin LeftOpen'
               PROVE  order'[order'[u].from].splitOff[u] = order'[u].lines
    BY DEF BookedOrOpen
  <2>1. /\ order'[u].from = order[u].from /\ order[u].from \in Ids /\ order'[u].lines = order[u].lines
        /\ order[u].status # "aborted" /\ u \notin LeftOpen
    BY <1>3, <1>4, OrderTyped
  <2>2. ~Booking(u)
    BY DEF Lone, Booking, AtTarget, WritePatch, At
  <2>3. order[order[u].from].splitOff[u] = order[u].lines
    BY <2>1, <2>2 DEF SplitFacts, BookedOrOpen
  <2> QED
    BY <1>4, <2>1, <2>3
<1> QED
  BY <1>5, <1>6, <1>7, <1>8, LoneFacts

LEMMA BeginKeepsSplits ==
  ASSUME TypeOK, SplitFacts, NEW r \in Requests, Lone(r), Begin(r)
  PROVE  SplitFacts'
<1>1. order' = order /\ LeftOpen' = LeftOpen /\ At(r, "idle")
  BY DEF LeftOpen, Begin, ReadSource, PatchStatus, Checkout, Grant, PatchDrawer, ComesIn, fixed
<1>2. SplitCall(r)'
  <2>1. ASSUME NEW o \in Ids, ReadSource(r, o) PROVE SplitCall(r)'
    <3>1. /\ req'[r].at = "receipts?" /\ req'[r].order = o /\ req'[r].seen = order[o] /\ Exists(o)
      BY <2>1 DEF ReadSource, Idle, TypeOK
    <3> QED
      BY <1>1, <3>1 DEF SplitCall, ReadIsTrue, TargetIsThere, AllOrNothing, StillValid, AtTarget, Paying,
         At, Exists
  <2>2. CASE \E o \in Ids, to \in Statuses : PatchStatus(r, o, to)
    BY <2>2, QuietCall DEF PatchStatus, Idle, TypeOK
  <2>3. CASE \E o \in Ids, c \in Cashiers : Checkout(r, o, c)
    BY <2>3, QuietCall DEF Checkout, Idle, TypeOK
  <2>4. CASE \E c \in Cashiers : Grant(r, c)
    <3>1. req'[r].at = "open?" /\ req'[r].kind = "grant"
      BY <2>4 DEF Grant, Idle, TypeOK
    <3> QED
      BY <3>1 DEF SplitCall, ReadIsTrue, TargetIsThere, AllOrNothing, StillValid, AtTarget, Paying, At
  <2>5. CASE \E d \in Drawers, rank \in Ranks : PatchDrawer(r, d, rank)
    BY <2>5, QuietCall DEF PatchDrawer, Idle, TypeOK
  <2> QED
    BY <2>1, <2>2, <2>3, <2>4, <2>5 DEF Begin
<1> QED
  BY <1>1, <1>2, RestKeepsSplits DEF At, AtTarget

LEMMA PaymentKeepsSplits ==
  ASSUME TypeOK, SplitFacts, NEW r \in Requests, Lone(r),
         CheckPatch(r) \/ FindDrawer(r) \/ FindOpenDrawer(r) \/ InsertDrawer(r)
  PROVE  SplitFacts'
<1>1. order' = order /\ LeftOpen' = LeftOpen /\ req[r].at \notin AtTarget
  BY DEF LeftOpen, CheckPatch, FindDrawer, FindOpenDrawer, InsertDrawer, fixed, At, AtTarget
<1>2. CASE Ends(r)
  BY <1>1, <1>2, EndsOn, QuietCall, RestKeepsSplits DEF Idle
<1>3. CASE ~Ends(r)
  <2>1. /\ req'[r].kind = req[r].kind /\ req'[r].order = req[r].order /\ req'[r].to = req[r].to
        /\ req'[r].at \in Paying
        /\ req[r].kind # "grant" => ValidTransition(order[req[r].order].status, req[r].to)
    <3>1. CASE CheckPatch(r)
      BY <1>3, <3>1, CheckOn DEF Onward, Paying
    <3>2. CASE FindDrawer(r)
      BY <1>3, <3>2, FoundOn, GoesOn
      DEF FindDrawer, Steps, Onward, At, Paying, SplitFacts, SplitCall, StillValid
    <3>3. CASE FindOpenDrawer(r)
      BY <1>3, <3>3, FoundOn, GoesOn
      DEF FindOpenDrawer, Steps, Onward, At, Paying, SplitFacts, SplitCall, StillValid
    <3>4. CASE InsertDrawer(r)
      BY <1>3, <3>4, FoundOn DEF InsertDrawer, Onward, At, Paying, SplitFacts, SplitCall, StillValid
    <3> QED
      BY <3>1, <3>2, <3>3, <3>4
  <2>2. SplitCall(r)'
    BY <1>1, <2>1 DEF SplitCall, ReadIsTrue, TargetIsThere, AllOrNothing, StillValid, AtTarget, Paying, At
  <2> QED
    BY <1>1, <2>2, RestKeepsSplits
<1> QED
  BY <1>2, <1>3

LEMMA OthersKeepSplits ==
  ASSUME TypeOK, SplitFacts, NEW r \in Requests, Lone(r),
         \/ PlanSplit(r) \/ FindReceipt(r) \/ CreateReceipt(r) \/ CheckRank(r) \/ WriteRank(r)
         \/ Fails(r) \/ AcquirePayLock(r)
  PROVE  SplitFacts'
<1>1. order' = order /\ LeftOpen' = LeftOpen /\ req[r].at \notin AtTarget
  BY DEF LeftOpen, PlanSplit, FindReceipt, CreateReceipt, CheckRank, WriteRank, Fails, Refused, AcquirePayLock,
     fixed, At, AtTarget
<1>2. CASE Ends(r)
  BY <1>1, <1>2, EndsOn, QuietCall, RestKeepsSplits DEF Idle
<1>3. CASE PlanSplit(r) /\ ~Ends(r)
  <2>1. /\ req'[r].at = "create" /\ req'[r].order = req[r].order /\ req'[r].seen = req[r].seen
        /\ req[r].at = "receipts?"
    BY <1>3, PlanOn DEF PlanSplit, Onward, At
  <2>2. SplitCall(r)'
    BY <1>1, <2>1 DEF SplitFacts, SplitCall, ReadIsTrue, TargetIsThere, AllOrNothing, StillValid,
       AtTarget, Paying, At, Exists
  <2> QED
    BY <1>1, <2>2, RestKeepsSplits
<1>4. CASE ~PlanSplit(r) /\ ~Ends(r)
  <2>1. req'[r].at \in {"check", "receipt", "rank"}
    BY <1>4, GoesOn DEF FindReceipt, CreateReceipt, CheckRank, WriteRank, Fails, Refused, AcquirePayLock,
       Steps, Onward
  <2> QED
    BY <1>1, <2>1, QuietCall, RestKeepsSplits
<1> QED
  BY <1>2, <1>3, <1>4

LEMMA SplitFactsNext ==
  ASSUME TypeOK, Aimed, CallInv, Serial => SplitFacts, [Next]_vars
  PROVE  (Serial => SplitFacts)'
<1>1. CASE UNCHANGED vars
  BY <1>1 DEF vars, Serial, SplitFacts, SplitCall, ReadIsTrue, TargetIsThere, AllOrNothing, StillValid,
     Unborn, Parents, BookedOrOpen, LeftOpen, Booking, Exists, At, May
<1>2. CASE Crash
  <2>1. /\ may' = may /\ order' = order /\ \A x \in Requests : req'[x].at = "idle"
        /\ LeftOpen' = LeftOpen \cup {t \in Ids : Booking(t)}
    BY <1>2 DEF LeftOpen, Crash, Idle, Booking, AtTarget
  <2>2. \A x \in Requests : SplitCall(x)'
    BY <2>1, QuietCall
  <2>3. SplitFacts => Unborn' /\ Parents' /\ BookedOrOpen'
    BY <2>1 DEF SplitFacts, Unborn, Parents, BookedOrOpen, Exists
  <2> QED
    BY <2>1, <2>2, <2>3 DEF SplitFacts, Serial, May
<1>3. ASSUME NEW r \in Requests, Begin(r) \/ Proceed(r) \/ Acquire(r)
      PROVE  (Serial => SplitFacts)'
  <2>1. Serial' = Serial
    BY <1>3, MayStays DEF Serial, May
  <2> SUFFICES ASSUME Serial PROVE SplitFacts'
    BY <2>1
  <2>2. Lone(r)
    <3>1. r = Only
      BY <1>3, StepShape DEF Begins, Leaves, GoesIn, GoesAhead, Follows, CallInv, Allowed, At
    <3>2. \A x \in Requests \ {r} : req[x].at = "idle"
      BY <3>1 DEF CallInv, Allowed, At
    <3> QED
      BY <1>3, <3>2, OthersStay DEF Lone
  <2>3. CASE Begin(r)
    BY <2>2, <2>3, BeginKeepsSplits
  <2>4. CASE Split(r)
    BY <2>2, <2>4, OthersKeepSplits, CreateKeepsSplits, SourceKeepsSplits, RereadKeepsSplits,
       AbortKeepsSplits DEF Split
  <2>5. CASE Settle(r)
    BY <2>2, <2>5, PaymentKeepsSplits, WriteKeepsSplits, OthersKeepSplits DEF Settle
  <2>6. CASE Count(r)
    BY <2>2, <2>6, PaymentKeepsSplits, OthersKeepSplits DEF Count
  <2>7. CASE Fails(r)
    BY <2>2, <2>7, OthersKeepSplits
  <2>8. CASE Acquire(r)
    BY <2>2, <2>8, PaymentKeepsSplits, OthersKeepSplits DEF Acquire
  <2> QED
    BY <1>3, <2>3, <2>4, <2>5, <2>6, <2>7, <2>8 DEF Proceed
<1> QED
  BY <1>1, <1>2, <1>3 DEF Next

LEMMA SplitFactsAlways == Spec => [](Serial => SplitFacts)
<1>1. Init => SplitFacts
  <2> SUFFICES ASSUME Init PROVE SplitFacts
    OBVIOUS
  <2>1. /\ \A r \in Requests : req[r].at = "idle"
        /\ \A o \in Ids : order[o].from = None /\ order[o].splitOff = [t \in Ids |-> Nothing]
    BY DEF Init, Idle, Blank
  <2> QED
    BY <2>1 DEF SplitFacts, SplitCall, ReadIsTrue, TargetIsThere, AllOrNothing, StillValid, AtTarget,
       Paying, At, Unborn, Parents, BookedOrOpen
<1>2. TypeOK /\ Aimed /\ CallInv /\ (Serial => SplitFacts) /\ [Next]_vars => (Serial => SplitFacts)'
  BY SplitFactsNext
<1>3. Typed => TypeOK /\ Aimed
  BY DEF Typed
<1> QED
  BY <1>1, <1>2, <1>3, TypedAlways, CallInvAlways, PTL DEF Spec

\* Calls one at a time: a failed counter-booking leaves no live target the source has
\* not given away just what it carries, unless the abort failed too and the caller was
\* told.  Excepted, and only these: targets in work, those whose create failed after
\* its insert, and those whose split the process stopped in (unnoticed).
THEOREM SplitsSafe == Spec => []LiveTargetIsBooked
<1>1. (Serial => SplitFacts) => LiveTargetIsBooked
  BY DEF SplitFacts, BookedOrOpen, LeftOpen, Booking, LiveTargetIsBooked
<1> QED
  BY <1>1, SplitFactsAlways, PTL

\* Calls one at a time: a split is taken back only where the source has given nothing away.
THEOREM RollbackSafe == Spec => []RollbackLosesNothing
<1>1. (Serial => SplitFacts) => RollbackLosesNothing
  BY DEF SplitFacts, SplitCall, AllOrNothing, RollbackLosesNothing
<1> QED
  BY <1>1, SplitFactsAlways, PTL
-----------------------------------------------------------------------------
(***************************************************************************)
(* Revenue, one call at a time.  Counted unit by unit, what the live       *)
(* orders of the table have left is never more than was ordered: a split   *)
(* takes from its source just what its target carries.  A receipt bills    *)
(* what its order has left, and an order that has one is split no more.    *)
(***************************************************************************)

\* The cardinality of a column of units.
LEMMA Column ==
  ASSUME NEW o, NEW a \in Nat, NEW b \in Nat
  PROVE  /\ IsFiniteSet({o} \X ((a + 1)..b))
         /\ Cardinality({o} \X ((a + 1)..b)) = IF a > b THEN 0 ELSE b - a
<1> DEFINE I == (a + 1)..b
<1>1. IsFiniteSet(I) /\ Cardinality(I) = IF a + 1 > b THEN 0 ELSE b - (a + 1) + 1
  BY FS_Interval
<1>2. IsFiniteSet({o}) /\ Cardinality({o}) = 1
  BY FS_Singleton
<1> HIDE DEF I
<1>3. IsFiniteSet({o} \X I) /\ Cardinality({o} \X I) = 1 * Cardinality(I)
  BY <1>1, <1>2, FS_Product
<1>4. Cardinality({o} \X I) = IF a > b THEN 0 ELSE b - a
  BY <1>1, <1>3
<1> QED
  BY <1>3, <1>4 DEF I

\* The cardinality of a column from its foot.
LEMMA FullColumn ==
  ASSUME NEW o, NEW b \in Nat
  PROVE  IsFiniteSet({o} \X (1..b)) /\ Cardinality({o} \X (1..b)) = b
<1>1. /\ IsFiniteSet({o} \X ((0 + 1)..b))
      /\ Cardinality({o} \X ((0 + 1)..b)) = IF 0 > b THEN 0 ELSE b - 0
  BY Column
<1>2. (0 + 1)..b = 1..b /\ (IF 0 > b THEN 0 ELSE b - 0) = b
  OBVIOUS
<1> QED
  BY <1>1, <1>2

\* Who gives away units and gets as many in exchange has no more than before.
LEMMA Exchange ==
  ASSUME NEW U, IsFiniteSet(U), NEW A, A \subseteq U, NEW B, IsFiniteSet(B),
         Cardinality(A) = Cardinality(B), NEW V, V \subseteq (U \ A) \cup B
  PROVE  Cardinality(V) <= Cardinality(U)
<1>1. IsFiniteSet(A) /\ Cardinality(A) \in Nat
  BY FS_Subset, FS_CardinalityType
<1>2. IsFiniteSet(U \ A) /\ Cardinality(U \ A) = Cardinality(U) - Cardinality(A)
  <2>1. IsFiniteSet(U \ A) /\ Cardinality(U \ A) = Cardinality(U) - Cardinality(U \cap A)
    BY FS_Difference
  <2>2. U \cap A = A
    OBVIOUS
  <2> QED
    BY <2>1, <2>2
<1> DEFINE W == (U \ A) \cup B
           C == (U \ A) \cap B
<1>3. IsFiniteSet(W) /\ Cardinality(W) = Cardinality(U \ A) + Cardinality(B) - Cardinality(C)
  BY <1>2, FS_Union
<1>4. Cardinality(C) \in Nat
  BY <1>2, FS_Intersection, FS_CardinalityType
<1>5. Cardinality(V) <= Cardinality(W)
  BY <1>3, FS_Subset
<1>6. Cardinality(U) \in Nat /\ Cardinality(W) \in Nat /\ Cardinality(V) \in Nat
  BY <1>3, FS_CardinalityType, FS_Subset
<1> HIDE DEF W, C
<1> QED
  BY <1>1, <1>2, <1>3, <1>4, <1>5, <1>6

\* Records with the same lines and entries have the same left.
LEMMA EffectiveSame ==
  ASSUME NEW a, NEW b, a.lines = b.lines, a.splitOff = b.splitOff
  PROVE  Effective(a) = Effective(b)
  BY DEF Effective, Moved

\* A new entry moves as many units as it has.
LEMMA EffectiveLess ==
  ASSUME NEW a \in OrderRecords, NEW b \in OrderRecords, NEW t \in Ids, NEW l \in Lines,
         NEW taken \in Amounts, b.lines = a.lines, a.splitOff[t] = Nothing,
         b.splitOff[t] = taken,
         \A u \in Ids : u # t => b.splitOff[u] = a.splitOff[u],
         taken[l] <= Effective(a)[l]
  PROVE  Effective(b)[l] = Effective(a)[l] - taken[l]
<1> DEFINE All == Ids \X (1..MaxAmount)
           G   == {unit \in All : unit[2] <= a.splitOff[unit[1]][l]}
           H   == {unit \in All : unit[2] <= b.splitOff[unit[1]][l]}
           s   == taken[l]
           N   == {t} \X (1..s)
<1>1. s \in 0..MaxAmount /\ a.splitOff[t][l] = 0 /\ b.splitOff[t][l] = s
  BY DEF Amounts, Nothing
<1>2. H = G \cup N
  <2>1. ASSUME NEW u \in Ids, NEW n \in 1..MaxAmount
        PROVE  <<u, n>> \in H <=> <<u, n>> \in G \cup N
    <3>1. CASE u = t
      BY <1>1, <3>1
    <3>2. CASE u # t
      BY <3>2
    <3> QED
      BY <3>1, <3>2
  <2>2. H \subseteq All /\ G \cup N \subseteq All
    BY <1>1, OrdersAssumption
  <2> QED
    BY <2>1, <2>2
<1>3. G \cap N = {}
  BY <1>1
<1>4. IsFiniteSet(G)
  <2>1. IsFiniteSet(Ids) /\ IsFiniteSet(1..MaxAmount)
    BY FS_Interval, OrdersAssumption
  <2>2. IsFiniteSet(All)
    BY <2>1, FS_Product
  <2> QED
    BY <2>2, FS_Subset
<1>5. IsFiniteSet(N) /\ Cardinality(N) = s
  <2>1. s \in Nat
    BY <1>1
  <2> HIDE DEF s
  <2> QED
    BY <2>1, FullColumn
<1>6. Moved(b, l) = Moved(a, l) + s
  <2>1. Moved(a, l) = Cardinality(G) /\ Moved(b, l) = Cardinality(H)
    BY DEF Moved
  <2> HIDE DEF G, H, N, s
  <2>2. Cardinality(G \cup N) = Cardinality(G) + Cardinality(N) - Cardinality(G \cap N)
    BY <1>4, <1>5, FS_Union
  <2>3. Cardinality(G) \in Nat
    BY <1>4, FS_CardinalityType
  <2>4. Cardinality(G \cap N) = 0
    BY <1>3, FS_EmptySet
  <2>5. s \in Nat
    BY <1>1
  <2> QED
    BY <1>2, <1>5, <2>1, <2>2, <2>3, <2>4, <2>5
<1>7. Moved(a, l) \in Nat /\ Moved(b, l) \in Nat /\ a.lines[l] \in Nat /\ s \in Nat
  BY <1>1, MovedCounts DEF OrderRecords, Amounts
<1>8. /\ Effective(a)[l] = IF Moved(a, l) >= a.lines[l] THEN 0 ELSE a.lines[l] - Moved(a, l)
      /\ Effective(b)[l] = IF Moved(b, l) >= a.lines[l] THEN 0 ELSE a.lines[l] - Moved(b, l)
  BY DEF Effective
<1> HIDE DEF s
<1>9. s <= Effective(a)[l]
  BY DEF s
<1>10. Effective(b)[l] = Effective(a)[l] - s
  BY <1>6, <1>7, <1>8, <1>9
<1> QED
  BY <1>10 DEF s

\* A live order, other than a target that is not booked yet.
Counted(o) ==
    /\ Exists(o) /\ order[o].status # "aborted"
    /\ order[o].from = None \/ order[order[o].from].splitOff[o] = order[o].lines

\* What the counted orders have left of a line, unit by unit.
LiveUnits(l) ==
    {unit \in Ids \X (1..MaxAmount) :
        Counted(unit[1]) /\ unit[2] <= Effective(order[unit[1]])[l]}

\* The order of a call is there.
Known(r) == req[r].kind \in {"split", "status", "pay"} => Exists(req[r].order)

\* What is about to be split is live and not billed, and has what the target takes.
MayGive(r) ==
    req[r].at \in {"create", "source"} =>
        /\ order[req[r].order].status # "aborted" /\ receipts[req[r].order] = <<>>
        /\ \A l \in Lines : req[r].amounts[l] <= Effective(order[req[r].order])[l]

TargetIsNew(r) ==
    /\ req[r].at \in AtTarget => receipts[req[r].target] = <<>>
    /\ At(r, "source") => order[req[r].target].splitOff = [t \in Ids |-> Nothing]

BillsWhatIsLeft(r) ==
    req[r].at \in {"receipt?", "receipt"} => req[r].amounts = Effective(order[req[r].order])

RevenueCall(r) == Known(r) /\ MayGive(r) /\ TargetIsNew(r) /\ BillsWhatIsLeft(r)

ReceiptsTrue ==
    \A o \in Ids : receipts[o] # <<>> =>
        Exists(o) /\ \A i \in DOMAIN receipts[o] : receipts[o][i] = Effective(order[o])

LinesOnce == LeftOpen = {} => \A l \in Lines : Cardinality(LiveUnits(l)) <= Ordered[l]

RevenueFacts == (\A r \in Requests : RevenueCall(r)) /\ ReceiptsTrue /\ LinesOnce

\* The call at work answers for all.
LEMMA LoneRevenue ==
  ASSUME CallInv, NEW r \in Requests, Lone(r), (RevenueCall(r) /\ ReceiptsTrue /\ LinesOnce)'
  PROVE  RevenueFacts'
<1>1. ASSUME NEW x \in Requests, x # r PROVE RevenueCall(x)'
  <2>1. req'[x].at = "idle" /\ req'[x].kind = "none"
    BY <1>1 DEF Lone, CallInv, StepOfKind, At
  <2> QED
    BY <2>1 DEF RevenueCall, Known, MayGive, TargetIsNew, BillsWhatIsLeft, AtTarget, At
<1> QED
  BY <1>1 DEF RevenueFacts

\* What is left of a line can be counted.
LEMMA UnitsFinite ==
  ASSUME NEW l
  PROVE  IsFiniteSet(LiveUnits(l))
<1>1. IsFiniteSet(Ids) /\ IsFiniteSet(1..MaxAmount)
  BY FS_Interval, OrdersAssumption
<1>2. IsFiniteSet(Ids \X (1..MaxAmount))
  BY <1>1, FS_Product
<1> QED
  BY <1>2, FS_Subset DEF LiveUnits

\* Where no order comes to life, nothing is left that was not before.
LEMMA UnitsShrink ==
  ASSUME LinesOnce, LeftOpen \subseteq LeftOpen',
         \A l \in Lines : LiveUnits(l)' \subseteq LiveUnits(l)
  PROVE  LinesOnce'
<1> SUFFICES ASSUME LeftOpen' = {}, NEW l \in Lines
             PROVE  Cardinality(LiveUnits(l)') <= Ordered[l]
  BY DEF LinesOnce, Ordered
<1>1. Cardinality(LiveUnits(l)) <= Ordered[l]
  BY DEF LinesOnce
<1>2. IsFiniteSet(LiveUnits(l))
  BY UnitsFinite
<1> DEFINE V == LiveUnits(l)'
<1>3. V \subseteq LiveUnits(l)
  OBVIOUS
<1> HIDE DEF V
<1>4. Cardinality(V) <= Cardinality(LiveUnits(l)) /\ IsFiniteSet(V)
  BY <1>2, <1>3, FS_Subset
<1>5. Cardinality(V) \in Nat /\ Cardinality(LiveUnits(l)) \in Nat /\ Ordered[l] \in Nat
  BY <1>2, <1>4, FS_CardinalityType, OrdersAssumption DEF Ordered
<1>6. Cardinality(V) <= Ordered[l]
  BY <1>1, <1>4, <1>5
<1> QED
  BY <1>6 DEF V

\* Orders that change no more than their status, and are not taken back.
LEMMA StatusRevenue ==
  ASSUME TypeOK, SplitFacts, ReceiptsTrue, LinesOnce, LeftOpen \subseteq LeftOpen', receipts' = receipts,
         \A p \in Ids :
            /\ order'[p].lines = order[p].lines /\ order'[p].from = order[p].from
            /\ order'[p].splitOff = order[p].splitOff
            /\ order[p].status = "aborted" => order'[p].status = "aborted"
            /\ order'[p].status = "none" <=> order[p].status = "none"
  PROVE  ReceiptsTrue' /\ LinesOnce'
<1>1. ASSUME NEW p \in Ids PROVE Effective(order'[p]) = Effective(order[p]) /\ (Exists(p)' <=> Exists(p))
  BY EffectiveSame DEF Exists
<1>2. ReceiptsTrue'
  BY <1>1 DEF ReceiptsTrue
<1>3. ASSUME NEW p \in Ids, Counted(p)' PROVE Counted(p)
  <2>1. order[p].from \in Ids \cup {None}
    BY OrderTyped
  <2> QED
    BY <1>1, <1>3, <2>1 DEF Counted
<1>4. \A l \in Lines : LiveUnits(l)' \subseteq LiveUnits(l)
  BY <1>1, <1>3 DEF LiveUnits
<1> QED
  BY <1>2, <1>4, UnitsShrink

\* A step that changes neither orders nor receipts.
LEMMA SameRevenue ==
  ASSUME TypeOK, CallInv, SplitFacts, RevenueFacts, NEW r \in Requests, Lone(r),
         UNCHANGED <<order, receipts, LeftOpen>>, RevenueCall(r)'
  PROVE  RevenueFacts'
<1>1. ReceiptsTrue' /\ LinesOnce'
  BY StatusRevenue DEF RevenueFacts
<1> QED
  BY <1>1, LoneRevenue

\* A call that is over, or does not come to a booking or a bill, claims nothing
\* but its order.
LEMMA QuietRevenue ==
  ASSUME CallInv, TypeOK, NEW r \in Requests, RevenueCall(r),
         \A p \in Ids : Exists(p) => Exists(p)',
         \/ Ends(r)
         \/ /\ req'[r].kind = req[r].kind /\ req'[r].order = req[r].order
            /\ req'[r].at \in {"check", "drawer?", "open?", "insert", "write", "rank"}
  PROVE  RevenueCall(r)'
<1>1. CASE Ends(r)
  BY <1>1, EndsOn DEF Idle, RevenueCall, Known, MayGive, TargetIsNew, BillsWhatIsLeft, AtTarget, At
<1>2. CASE ~Ends(r)
  <2>1. req[r].order \in Ids
    BY RequestTyped
  <2> QED
    BY <1>2, <2>1 DEF RevenueCall, Known, MayGive, TargetIsNew, BillsWhatIsLeft, AtTarget, At
<1> QED
  BY <1>1, <1>2

\* A call that begins finds its order as the facts describe it.
LEMMA BeginRevenue ==
  ASSUME TypeOK, CallInv, SplitFacts, RevenueFacts, NEW r \in Requests, Lone(r), Begin(r)
  PROVE  RevenueFacts'
<1>1. UNCHANGED <<order, receipts, LeftOpen>>
  BY DEF LeftOpen, Begin, ReadSource, PatchStatus, Checkout, Grant, PatchDrawer, ComesIn, fixed
<1>2. /\ req'[r].at \in {"receipts?", "check", "lock", "open?", "rank?"}
      /\ req'[r].kind \in {"grant", "count"} \/ Exists(req'[r].order)
  <2>1. CASE \E o \in Ids : ReadSource(r, o)
    BY <2>1 DEF ReadSource, Idle, TypeOK
  <2>2. CASE \E o \in Ids, to \in Statuses : PatchStatus(r, o, to)
    BY <2>2 DEF PatchStatus, Idle, TypeOK
  <2>3. CASE \E o \in Ids, c \in Cashiers : Checkout(r, o, c)
    BY <2>3 DEF Checkout, Idle, TypeOK
  <2>4. CASE \E c \in Cashiers : Grant(r, c)
    BY <2>4 DEF Grant, Idle, TypeOK
  <2>5. CASE \E d \in Drawers, rank \in Ranks : PatchDrawer(r, d, rank)
    BY <2>5 DEF PatchDrawer, Idle, TypeOK
  <2> QED
    BY <2>1, <2>2, <2>3, <2>4, <2>5 DEF Begin
<1>3. RevenueCall(r)'
  BY <1>1, <1>2 DEF RevenueCall, Known, MayGive, TargetIsNew, BillsWhatIsLeft, AtTarget, At, Exists
<1> QED
  BY <1>1, <1>3, SameRevenue

\* A split is planned on what its source still has.
LEMMA PlanRevenue ==
  ASSUME TypeOK, CallInv, SplitFacts, RevenueFacts, NEW r \in Requests, Lone(r), PlanSplit(r)
  PROVE  RevenueFacts'
<1>1. UNCHANGED <<order, receipts, LeftOpen>> /\ At(r, "receipts?") /\ RevenueCall(r)
  BY DEF LeftOpen, PlanSplit, fixed, RevenueFacts
<1>2. CASE Ends(r)
  BY <1>1, <1>2, QuietRevenue, SameRevenue DEF Exists
<1>3. CASE ~Ends(r)
  <2>1. /\ req'[r].at = "create" /\ req'[r].kind = req[r].kind /\ req'[r].order = req[r].order
        /\ req'[r].amounts \in Selections(req[r].seen)
    BY <1>3, PlanOn DEF Onward
  <2>2. req[r].seen = order[req[r].order] /\ Splittable(req[r].seen) /\ receipts[req[r].order] = <<>>
    BY <1>1, <1>3 DEF SplitFacts, SplitCall, ReadIsTrue, At, PlanSplit
  <2>3. RevenueCall(r)'
    BY <1>1, <2>1, <2>2 DEF RevenueCall, Known, MayGive, TargetIsNew, BillsWhatIsLeft, AtTarget, At, Exists,
       Selections, Splittable
  <2> QED
    BY <1>1, <2>3, SameRevenue
<1> QED
  BY <1>2, <1>3

\* A target that is created carries nothing yet that counts.
LEMMA CreateRevenue ==
  ASSUME TypeOK, CallInv, SplitFacts, RevenueFacts, NEW r \in Requests, Lone(r), CreateTarget(r)
  PROVE  RevenueFacts'
<1> DEFINE o == req[r].order
<1>1. PICK t \in Ids :
        /\ ~Exists(t)
        /\ order' = [order EXCEPT ![t] = [Blank EXCEPT !.status = req[r].seen.status,
                                            !.lines = req[r].amounts, !.from = req[r].order]]
        /\ \/ req' = [req EXCEPT ![r].at = "source", ![r].target = t] /\ unnoticed' = unnoticed
           \/ Ends(r) /\ unnoticed' = unnoticed \cup {t}
  BY DEF CreateTarget
<1>2. /\ o \in Ids /\ Exists(o) /\ req[r].seen = order[o] /\ t # o /\ At(r, "create")
      /\ receipts' = receipts /\ LeftOpen \subseteq LeftOpen' /\ req[r].amounts \in Amounts
  BY <1>1, RequestTyped DEF SplitFacts, SplitCall, ReadIsTrue, CreateTarget, At, LeftOpen
<1>3. \/ /\ req'[r].at = "source" /\ req'[r].target = t /\ req'[r].order = o
         /\ req'[r].kind = req[r].kind /\ req'[r].amounts = req[r].amounts
      \/ Ends(r)
  BY <1>1, CreateOn DEF Onward
<1>4. /\ \A p \in Ids : p # t => order'[p] = order[p]
      /\ order'[t].status = order[o].status /\ order'[t].lines = req[r].amounts
      /\ order'[t].from = o /\ order'[t].splitOff = [u \in Ids |-> Nothing]
      /\ order'[t] \in OrderRecords
  <2>1. order[o].status \in Statuses
    BY <1>2, OrderTyped DEF OrderRecords, Exists
  <2> QED
    BY <1>1, <1>2, <2>1, RecordsTyped DEF TypeOK, Blank, OrderRecords
<1>5. receipts[t] = <<>> /\ RevenueCall(r)
  BY <1>1 DEF RevenueFacts, ReceiptsTrue
<1>6. RevenueCall(r)'
  <2>1. CASE Ends(r)
    <3>1. \A p \in Ids : Exists(p) => Exists(p)'
      BY <1>1, <1>4 DEF Exists
    <3> QED
      BY <1>5, <2>1, <3>1, QuietRevenue
  <2>2. CASE ~Ends(r)
    BY <1>2, <1>3, <1>4, <1>5, <2>2
    DEF RevenueCall, Known, MayGive, TargetIsNew, BillsWhatIsLeft, AtTarget, At, Exists
  <2> QED
    BY <2>1, <2>2
<1>7. ReceiptsTrue'
  BY <1>2, <1>4, <1>5 DEF RevenueFacts, ReceiptsTrue, Exists
<1>8. LinesOnce'
  <2>1. ASSUME NEW p \in Ids, p # t, Counted(p)' PROVE Counted(p)
    <3>1. order'[p] = order[p] /\ Exists(p)
      BY <1>4, <2>1 DEF Counted, Exists
    <3>2. order[p].from # None => order[p].from \in Ids /\ Exists(order[p].from)
      BY OrderTyped DEF SplitFacts, Parents
    <3>3. order[p].from # None => order'[order[p].from] = order[order[p].from]
      BY <1>1, <1>4, <3>2
    <3> QED
      BY <2>1, <3>1, <3>3 DEF Counted
  <2>2. ASSUME NEW l \in Lines, NEW u \in 1..MaxAmount, Counted(t)'
        PROVE  ~(u <= Effective(order'[t])[l])
    <3>1. order'[o].splitOff[t] = Nothing
      BY <1>1, <1>2, <1>4 DEF SplitFacts, Unborn
    <3>2. order'[t].lines = Nothing
      BY <1>2, <1>4, <2>2, <3>1 DEF Counted
    <3>3. Effective(order'[t])[l] <= 0 /\ Effective(order'[t])[l] \in Nat
      BY <1>4, <3>2, EffectiveTyped DEF Nothing, Amounts
    <3> QED
      BY <3>3
  <2>3. \A l \in Lines : LiveUnits(l)' \subseteq LiveUnits(l)
    <3> SUFFICES ASSUME NEW l \in Lines, NEW p \in Ids, NEW u \in 1..MaxAmount,
                        Counted(p)', u <= Effective(order'[p])[l]
                 PROVE  Counted(p) /\ u <= Effective(order[p])[l]
      BY DEF LiveUnits
    <3>1. p # t
      BY <2>2
    <3> QED
      BY <1>4, <2>1, <3>1
  <2> QED
    BY <1>2, <2>3, UnitsShrink DEF RevenueFacts
<1> QED
  BY <1>6, <1>7, <1>8, LoneRevenue

\* What the source gives away is what the target counts from then on.
LEMMA SourceUnits ==
  ASSUME TypeOK, SplitFacts, RevenueFacts, LeftOpen = {}, NEW r \in Requests, Lone(r), At(r, "source"),
         NEW o \in Ids, o = req[r].order, NEW t \in Ids, t = req[r].target,
         NEW written \in OrderRecords,
         written.status = order[o].status, written.lines = order[o].lines,
         written.from = order[o].from, written.splitOff = Booked(req[r]),
         order' = [order EXCEPT ![o] = written], NEW l \in Lines
  PROVE  Cardinality(LiveUnits(l)') <= Cardinality(LiveUnits(l))
<1> DEFINE e == Effective(order[o])[l]
           s == req[r].amounts[l]
           U == LiveUnits(l)
           V == LiveUnits(l)'
           A == {o} \X ((e - s + 1)..e)
           B == {t} \X (1..s)
<1>1. /\ t # o /\ req[r].seen = order[o] /\ Exists(o) /\ Exists(t)
      /\ order[t].from = o /\ order[t].lines = req[r].amounts /\ order[o].splitOff[t] = Nothing
  BY DEF At, SplitFacts, SplitCall, ReadIsTrue, TargetIsThere, AllOrNothing, AtTarget
<1>2. /\ order[o].status # "aborted" /\ s <= e
      /\ order[t].splitOff = [u \in Ids |-> Nothing]
  BY DEF At, RevenueFacts, RevenueCall, MayGive, TargetIsNew
<1>3. /\ order[o] \in OrderRecords /\ order[t] \in OrderRecords /\ req[r].amounts \in Amounts
      /\ order[o].splitOff \in [Ids -> Amounts]
  BY OrderTyped, RequestTyped
<1>4. /\ written.splitOff[t] = req[r].amounts
      /\ \A u \in Ids : u # t => written.splitOff[u] = order[o].splitOff[u]
  BY <1>1, <1>3 DEF Booked
<1>5. /\ order'[o] = written /\ \A p \in Ids : p # o => order'[p] = order[p]
  BY DEF TypeOK
<1>6. /\ e \in Nat /\ s \in Nat /\ e <= MaxAmount /\ MaxAmount \in Nat
  <2>1. Effective(order[o]) \in Amounts
    BY <1>3, EffectiveTyped
  <2>2. e \in 0..MaxAmount /\ s \in 0..MaxAmount
    BY <1>3, <2>1 DEF Amounts
  <2> QED
    BY <2>2, OrdersAssumption
<1>7. Effective(written)[l] = e - s
  BY <1>1, <1>2, <1>3, <1>4, EffectiveLess
<1>8. Counted(o)
  <2>1. ~Booking(o)
    BY <1>1 DEF Lone, Booking, AtTarget
  <2> QED
    BY <1>1, <1>2, <2>1 DEF Counted, SplitFacts, BookedOrOpen
<1>9. A \subseteq U
  <2> SUFFICES ASSUME NEW u \in (e - s + 1)..e PROVE <<o, u>> \in U
    OBVIOUS
  <2>1. u \in 1..MaxAmount /\ u <= e
    BY <1>6, <1>2
  <2> QED
    BY <1>8, <2>1 DEF LiveUnits
<1>10. ASSUME NEW p \in Ids, NEW u \in 1..MaxAmount, Counted(p)', u <= Effective(order'[p])[l]
       PROVE  <<p, u>> \in (U \ A) \cup B
  <2>1. CASE p = o
    <3>1. u <= e - s
      BY <1>5, <1>7, <1>10, <2>1
    <3>2. u <= e /\ u \notin (e - s + 1)..e
      BY <1>2, <1>6, <3>1
    <3>3. <<p, u>> \in U
      BY <1>8, <2>1, <3>2 DEF LiveUnits
    <3>4. <<p, u>> \notin A
      BY <3>2
    <3> QED
      BY <3>3, <3>4
  <2>2. CASE p = t
    <3>1. Effective(order[t])[l] <= s /\ Effective(order[t])[l] \in Nat
      <4>1. Effective(order[t])[l] <= order[t].lines[l] /\ Effective(order[t]) \in Amounts
        BY <1>3, EffectiveTyped
      <4> QED
        BY <1>1, <4>1 DEF Amounts
    <3>2. u <= s
      BY <1>1, <1>5, <1>6, <1>10, <2>2, <3>1
    <3> QED
      BY <1>6, <2>2, <3>2
  <2>3. CASE p # o /\ p # t
    <3>1. order'[p] = order[p] /\ order[p].from \in Ids \cup {None}
      BY <1>5, <2>3, OrderTyped
    <3>2. order[p].from # None => order'[order[p].from].splitOff[p] = order[order[p].from].splitOff[p]
      BY <1>4, <1>5, <2>3, <3>1
    <3>3. Counted(p)
      BY <1>10, <3>1, <3>2 DEF Counted, Exists
    <3> QED
      BY <1>10, <2>3, <3>1, <3>3 DEF LiveUnits
  <2> QED
    BY <2>1, <2>2, <2>3
<1>11. V \subseteq (U \ A) \cup B
  BY <1>10 DEF LiveUnits
<1>12. IsFiniteSet(U)
  BY UnitsFinite
<1> HIDE DEF U, V, e, s
<1>13. Cardinality(A) = s
  <2>1. e - s \in Nat /\ ~(e - s > e) /\ e - (e - s) = s
    BY <1>2, <1>6
  <2> QED
    BY <1>6, <2>1, Column
<1>14. IsFiniteSet(B) /\ Cardinality(B) = s
  BY <1>6, FullColumn
<1> HIDE DEF A, B
<1>15. Cardinality(V) <= Cardinality(U)
  BY <1>9, <1>11, <1>12, <1>13, <1>14, Exchange
<1> QED
  BY <1>15 DEF U, V

\* The source gives the units away: they count in the target only.
LEMMA SourceRevenue ==
  ASSUME TypeOK, Aimed, CallInv, SplitFacts, RevenueFacts, NEW r \in Requests, Lone(r), PatchSource(r)
  PROVE  RevenueFacts'
<1> DEFINE o == req[r].order
           t == req[r].target
           written == [order[o] EXCEPT !.splitOff = Booked(req[r])]
<1>1. /\ At(r, "source") /\ o \in Ids /\ t \in Ids /\ t # o /\ order[o] \in OrderRecords
      /\ req[r].seen = order[o] /\ Exists(o) /\ req[r].amounts \in Amounts
  BY RequestTyped, OrderTyped
  DEF PatchSource, At, Aimed, SplitFacts, SplitCall, ReadIsTrue, TargetIsThere, AtTarget
<1>2. /\ written.status = order[o].status /\ written.lines = order[o].lines
      /\ written.from = order[o].from /\ written.splitOff = Booked(req[r])
  BY <1>1, OneFieldOfIt
<1>3. written \in OrderRecords
  <2>1. Booked(req[r]) \in [Ids -> Amounts]
    BY <1>1, OrderTyped DEF Booked
  <2> QED
    BY <1>1, <2>1 DEF OrderRecords
<1>4. /\ order' = order \/ order' = [order EXCEPT ![o] = written]
      /\ order' = [order EXCEPT ![o] = written] \/ Goes(r, "reread")
      /\ AfterPatch(r, written) \/ Goes(r, "reread")
      /\ LeftOpen' = LeftOpen /\ receipts' = receipts
  BY DEF LeftOpen, PatchSource, fixed
<1> HIDE DEF written
<1>5. /\ order'[o] \in {order[o], written} /\ \A p \in Ids : p # o => order'[p] = order[p]
      /\ order'[o] = written \/ Goes(r, "reread")
  BY <1>1, <1>4 DEF TypeOK
<1>6. receipts[o] = <<>> /\ receipts[t] = <<>>
  BY <1>1 DEF At, RevenueFacts, RevenueCall, MayGive, TargetIsNew, AtTarget
<1>7. RevenueCall(r)'
  <2>1. \A p \in Ids : Exists(p) => Exists(p)'
    BY <1>1, <1>2, <1>5 DEF Exists
  <2>2. CASE Goes(r, "reread")
    <3>1. /\ req'[r].at = "reread" /\ req'[r].target = t /\ req'[r].order = o
          /\ req'[r].kind = req[r].kind
      BY <2>2, GoesOn DEF Steps, Onward
    <3> QED
      BY <1>1, <1>4, <1>6, <2>1, <3>1
      DEF RevenueCall, Known, MayGive, TargetIsNew, BillsWhatIsLeft, AtTarget, At
  <2>3. CASE Ends(r)
    BY <2>1, <2>3, QuietRevenue DEF RevenueFacts
  <2>4. CASE ~Goes(r, "reread") /\ ~Ends(r)
    <3>1. /\ req'[r].at = "receipt?" /\ req'[r].order = o /\ req'[r].amounts = Effective(written)
      BY <1>4, <2>4, AfterOn DEF Onward
    <3> QED
      BY <1>1, <1>5, <2>1, <2>4, <3>1
      DEF RevenueCall, Known, MayGive, TargetIsNew, BillsWhatIsLeft, AtTarget, At
  <2> QED
    BY <2>2, <2>3, <2>4
<1>8. ReceiptsTrue'
  BY <1>1, <1>2, <1>4, <1>5, <1>6 DEF RevenueFacts, ReceiptsTrue, Exists
<1>9. LinesOnce'
  <2>1. CASE order' = order
    BY <1>4, <2>1, StatusRevenue DEF RevenueFacts
  <2>2. CASE order' = [order EXCEPT ![o] = written]
    <3> SUFFICES ASSUME LeftOpen = {}, NEW l \in Lines
                 PROVE  Cardinality(LiveUnits(l)') <= Ordered[l]
      BY <1>4 DEF LinesOnce, Ordered
    <3>1. Cardinality(LiveUnits(l)') <= Cardinality(LiveUnits(l))
      BY <1>1, <1>2, <1>3, <2>2, SourceUnits
    <3>2. Cardinality(LiveUnits(l)) <= Ordered[l]
      BY DEF RevenueFacts, LinesOnce
    <3>3. IsFiniteSet(LiveUnits(l)) /\ IsFiniteSet(LiveUnits(l)')
      <4>1. IsFiniteSet(Ids) /\ IsFiniteSet(1..MaxAmount)
        BY FS_Interval, OrdersAssumption
      <4>2. IsFiniteSet(Ids \X (1..MaxAmount))
        BY <4>1, FS_Product
      <4> QED
        BY <4>2, FS_Subset DEF LiveUnits
    <3> DEFINE c == Cardinality(LiveUnits(l)')
               d == Cardinality(LiveUnits(l))
    <3>4. c \in Nat /\ d \in Nat /\ Ordered[l] \in Nat
      BY <3>3, FS_CardinalityType, OrdersAssumption DEF Ordered
    <3>5. c <= d /\ d <= Ordered[l]
      BY <3>1, <3>2
    <3> HIDE DEF c, d
    <3>6. c <= Ordered[l]
      BY <3>4, <3>5
    <3> QED
      BY <3>6 DEF c
  <2> QED
    BY <1>4, <2>1, <2>2
<1> QED
  BY <1>7, <1>8, <1>9, LoneRevenue

\* Reading the source again changes nothing.
LEMMA RereadRevenue ==
  ASSUME TypeOK, CallInv, SplitFacts, RevenueFacts, NEW r \in Requests, Lone(r), RereadSource(r)
  PROVE  RevenueFacts'
<1>1. UNCHANGED <<order, receipts, LeftOpen>> /\ At(r, "reread") /\ RevenueCall(r)
  BY DEF LeftOpen, RereadSource, fixed, RevenueFacts
<1>2. CASE Ends(r)
  BY <1>1, <1>2, QuietRevenue, SameRevenue DEF Exists
<1>3. CASE Goes(r, "abort")
  <2>1. /\ req'[r].at = "abort" /\ req'[r].target = req[r].target
        /\ req'[r].order = req[r].order /\ req'[r].kind = req[r].kind
    BY <1>3, GoesOn DEF Steps, Onward
  <2>2. RevenueCall(r)'
    BY <1>1, <2>1 DEF RevenueCall, Known, MayGive, TargetIsNew, BillsWhatIsLeft, AtTarget, At, Exists
  <2> QED
    BY <1>1, <2>2, SameRevenue
<1> QED
  BY <1>2, <1>3 DEF RereadSource

\* A target that is taken back counts no more.
LEMMA AbortRevenue ==
  ASSUME TypeOK, Aimed, CallInv, SplitFacts, RevenueFacts, NEW r \in Requests, Lone(r), AbortTarget(r)
  PROVE  RevenueFacts'
<1> DEFINE t == req[r].target
           written == [order[t] EXCEPT !.status = "aborted"]
<1>1. t \in Ids /\ order[t] \in OrderRecords /\ Exists(t)
  BY OrderTyped DEF AbortTarget, At, Aimed, SplitFacts, SplitCall, TargetIsThere, AtTarget
<1>2. /\ written.status = "aborted" /\ written.lines = order[t].lines
      /\ written.from = order[t].from /\ written.splitOff = order[t].splitOff
  BY <1>1, OneFieldOfIt
<1>3. /\ order' \in {order, [order EXCEPT ![t] = written]} /\ Ends(r)
      /\ LeftOpen \subseteq LeftOpen' /\ receipts' = receipts
  BY <1>1 DEF LeftOpen, AbortTarget, TypeOK
<1> HIDE DEF written
<1>4. ASSUME NEW p \in Ids
      PROVE  /\ order'[p].lines = order[p].lines /\ order'[p].from = order[p].from
             /\ order'[p].splitOff = order[p].splitOff
             /\ order[p].status = "aborted" => order'[p].status = "aborted"
             /\ order'[p].status = "none" <=> order[p].status = "none"
  BY <1>1, <1>2, <1>3 DEF TypeOK, Exists
<1>5. ReceiptsTrue' /\ LinesOnce'
  BY <1>3, <1>4, StatusRevenue DEF RevenueFacts
<1>6. RevenueCall(r)'
  BY <1>3, <1>4, QuietRevenue DEF RevenueFacts, Exists
<1> QED
  BY <1>5, <1>6, LoneRevenue

\* A patch moves no line, and an order that is aborted stays so.
LEMMA WriteRevenue ==
  ASSUME TypeOK, CallInv, SplitFacts, RevenueFacts, NEW r \in Requests, Lone(r), WritePatch(r)
  PROVE  RevenueFacts'
<1> DEFINE o == req[r].order
           written == Written(req[r])
<1>1. /\ o \in Ids /\ Exists(o) /\ ValidTransition(order[o].status, req[r].to)
      /\ req[r].to \in Statuses
  <2>1. req[r].at = "write" /\ req[r].kind \in {"status", "pay"}
    BY DEF WritePatch, At, CallInv, StepOfKind
  <2>2. req[r].to \in Statuses /\ Exists(o)
    BY <2>1 DEF TypeOK, RequestRecords, RevenueFacts, RevenueCall, Known
  <2> QED
    BY <2>1, <2>2, RequestTyped DEF SplitFacts, SplitCall, StillValid, Paying
<1>2. /\ written.status = req[r].to /\ written.lines = order[o].lines
      /\ written.from = order[o].from /\ written.splitOff = order[o].splitOff
  BY WrittenRecord
<1>3. /\ \/ order' = [order EXCEPT ![o] = written] /\ AfterPatch(r, written)
         \/ Ends(r)
      /\ order' \in {order, [order EXCEPT ![o] = written]}
      /\ LeftOpen' = LeftOpen /\ receipts' = receipts
  BY DEF LeftOpen, WritePatch, Written, fixed
<1> HIDE DEF written
<1>4. ASSUME NEW p \in Ids
      PROVE  /\ order'[p].lines = order[p].lines /\ order'[p].from = order[p].from
             /\ order'[p].splitOff = order[p].splitOff
             /\ order[p].status = "aborted" => order'[p].status = "aborted"
             /\ order'[p].status = "none" <=> order[p].status = "none"
  <2>1. order'[p] \in {order[p], written} /\ (p # o => order'[p] = order[p])
    BY <1>1, <1>3 DEF TypeOK
  <2>2. req[r].to # "none" /\ (order[o].status = "aborted" => req[r].to = "aborted")
    BY <1>1 DEF ValidTransition, Statuses
  <2> QED
    BY <1>1, <1>2, <2>1, <2>2 DEF Exists
<1>5. ReceiptsTrue' /\ LinesOnce'
  BY <1>3, <1>4, StatusRevenue DEF RevenueFacts
<1>6. RevenueCall(r)'
  <2>1. CASE Ends(r)
    BY <1>4, <2>1, QuietRevenue DEF RevenueFacts, Exists
  <2>2. CASE ~Ends(r)
    <3>1. /\ req'[r].at = "receipt?" /\ req'[r].order = o /\ req'[r].amounts = Effective(written)
      BY <1>3, <2>2, AfterOn DEF Onward
    <3>2. order'[o] = written
      BY <1>1, <1>3, <2>2 DEF TypeOK
    <3>3. order'[o].status # "none"
      BY <1>1, <1>4 DEF Exists
    <3> QED
      BY <3>1, <3>2, <3>3 DEF RevenueCall, Known, MayGive, TargetIsNew, BillsWhatIsLeft, AtTarget, At, Exists
  <2> QED
    BY <2>1, <2>2
<1> QED
  BY <1>5, <1>6, LoneRevenue

\* The receipt bills what the order has left.
LEMMA ReceiptRevenue ==
  ASSUME TypeOK, CallInv, SplitFacts, RevenueFacts, NEW r \in Requests, Lone(r),
         FindReceipt(r) \/ CreateReceipt(r)
  PROVE  RevenueFacts'
<1> DEFINE o == req[r].order
<1>1. /\ order' = order /\ LeftOpen' = LeftOpen /\ o \in Ids
      /\ req[r].at \in {"receipt?", "receipt"} /\ RevenueCall(r)
  BY RequestTyped DEF LeftOpen, FindReceipt, CreateReceipt, fixed, RevenueFacts, At
<1>2. Exists(o) /\ req[r].amounts = Effective(order[o])
  BY <1>1 DEF RevenueCall, Known, BillsWhatIsLeft, CallInv, StepOfKind, At
<1>3. RevenueCall(r)'
  <2>1. CASE Ends(r)
    BY <1>1, <2>1, QuietRevenue DEF Exists
  <2>2. CASE ~Ends(r)
    <3>1. /\ req'[r].at = "receipt" /\ req'[r].order = o /\ req'[r].amounts = req[r].amounts
      BY <2>2, GoesOn DEF FindReceipt, CreateReceipt, Steps, Onward
    <3> QED
      BY <1>1, <1>2, <3>1 DEF RevenueCall, Known, MayGive, TargetIsNew, BillsWhatIsLeft, AtTarget, At, Exists
  <2> QED
    BY <2>1, <2>2
<1>4. CASE receipts' = receipts
  BY <1>1, <1>3, <1>4, SameRevenue
<1>5. CASE CreateReceipt(r)
  <2>1. receipts' = [receipts EXCEPT ![o] = Append(receipts[o], req[r].amounts)]
    BY <1>5 DEF CreateReceipt, Billed, TypeOK
  <2>2. receipts \in [Ids -> Seq(Amounts)] /\ req[r].amounts \in Amounts
    BY RequestTyped DEF TypeOK
  <2>3. receipts'[o] = Append(receipts[o], req[r].amounts) /\ \A p \in Ids : p # o => receipts'[p] = receipts[p]
    BY <1>1, <2>1, <2>2
  <2>4. ASSUME NEW i \in DOMAIN receipts'[o] PROVE receipts'[o][i] = Effective(order[o])
    <3>1. receipts[o] \in Seq(Amounts)
      BY <1>1, <2>2
    <3>2. i \in DOMAIN receipts[o] \/ receipts'[o][i] = req[r].amounts
      BY <2>2, <2>3, <3>1
    <3>3. i \in DOMAIN receipts[o] => receipts'[o][i] = receipts[o][i] /\ receipts[o] # <<>>
      BY <2>2, <2>3, <3>1
    <3> QED
      BY <1>1, <1>2, <3>2, <3>3 DEF RevenueFacts, ReceiptsTrue
  <2>5. ReceiptsTrue'
    BY <1>1, <1>2, <2>3, <2>4 DEF RevenueFacts, ReceiptsTrue, Exists
  <2>6. LinesOnce'
    BY <1>1 DEF RevenueFacts, LinesOnce, LiveUnits, Counted, Exists
  <2> QED
    BY <1>3, <2>5, <2>6, LoneRevenue
<1> QED
  BY <1>4, <1>5 DEF FindReceipt

\* The steps of a payment, of a drawer, and those that fail.
LEMMA OtherRevenue ==
  ASSUME TypeOK, CallInv, SplitFacts, RevenueFacts, NEW r \in Requests, Lone(r),
         \/ CheckPatch(r) \/ FindDrawer(r) \/ FindOpenDrawer(r) \/ InsertDrawer(r)
         \/ CheckRank(r) \/ WriteRank(r) \/ Fails(r) \/ AcquirePayLock(r)
  PROVE  RevenueFacts'
<1> DEFINE MoveOn == /\ req'[r].kind = req[r].kind /\ req'[r].order = req[r].order
                     /\ req'[r].at \in {"check", "drawer?", "open?", "insert", "write", "rank"}
<1>1. UNCHANGED <<order, receipts, LeftOpen>> /\ RevenueCall(r)
  BY DEF LeftOpen, CheckPatch, FindDrawer, FindOpenDrawer, InsertDrawer, CheckRank, WriteRank, Fails, Refused,
         AcquirePayLock, fixed, RevenueFacts
<1>2. CASE Ends(r)
  BY <1>1, <1>2, QuietRevenue, SameRevenue DEF Exists
<1>3. CASE ~Ends(r)
  <2>1. MoveOn
    <3>1. CASE CheckPatch(r)
      BY <1>3, <3>1, CheckOn DEF Onward
    <3>2. ASSUME NEW d, req' = [req EXCEPT ![r].at = "write", ![r].drawer = d] PROVE MoveOn
      BY <3>2, FoundOn DEF Onward
    <3>3. ASSUME NEW step \in {"check", "drawer?", "open?", "insert", "write", "rank"}, Goes(r, step)
          PROVE  MoveOn
      BY <3>3, GoesOn DEF Steps, Onward
    <3>4. CASE FindDrawer(r)
      BY <1>3, <3>2, <3>3, <3>4 DEF FindDrawer
    <3>5. CASE FindOpenDrawer(r)
      BY <1>3, <3>2, <3>3, <3>5 DEF FindOpenDrawer
    <3>6. CASE InsertDrawer(r)
      BY <1>3, <3>2, <3>6 DEF InsertDrawer
    <3>7. CASE CheckRank(r) \/ WriteRank(r) \/ Fails(r) \/ AcquirePayLock(r)
      BY <1>3, <3>3, <3>7 DEF CheckRank, WriteRank, Fails, Refused, AcquirePayLock
    <3> QED
      BY <3>1, <3>4, <3>5, <3>6, <3>7
  <2>2. RevenueCall(r)'
    BY <1>1, <2>1, QuietRevenue DEF Exists
  <2> QED
    BY <1>1, <2>2, SameRevenue
<1> QED
  BY <1>2, <1>3

\* With no overlap it is the one call that moves.
LEMMA LoneMoves ==
  ASSUME TypeOK, CallInv, Serial, NEW r \in Requests, Begin(r) \/ Proceed(r) \/ Acquire(r)
  PROVE  Lone(r)
<1>1. r = Only
  BY StepShape DEF Begins, Leaves, GoesIn, GoesAhead, Follows, CallInv, Allowed, At
<1>2. \A x \in Requests \ {r} : req[x].at = "idle"
  BY <1>1 DEF CallInv, Allowed, At
<1> QED
  BY <1>2, OthersStay DEF Lone

\* Every step keeps the facts, one call at a time.
LEMMA RevenueNext ==
  ASSUME TypeOK, Aimed, CallInv, Serial => SplitFacts, Serial => RevenueFacts, [Next]_vars
  PROVE  (Serial => RevenueFacts)'
<1>1. CASE UNCHANGED vars
  BY <1>1 DEF vars, Serial, May, RevenueFacts, RevenueCall, Known, MayGive, TargetIsNew, BillsWhatIsLeft,
     ReceiptsTrue, LinesOnce, LeftOpen, LiveUnits, Counted, Exists, At
<1>2. CASE Crash
  <2>1. /\ may' = may /\ order' = order /\ receipts' = receipts /\ LeftOpen \subseteq LeftOpen'
        /\ \A x \in Requests : req'[x].at = "idle" /\ req'[x].kind = "none"
    BY <1>2 DEF LeftOpen, Crash, Idle
  <2>2. \A x \in Requests : RevenueCall(x)'
    BY <2>1 DEF RevenueCall, Known, MayGive, TargetIsNew, BillsWhatIsLeft, AtTarget, At
  <2>3. SplitFacts /\ RevenueFacts => ReceiptsTrue' /\ LinesOnce'
    BY <2>1, StatusRevenue DEF RevenueFacts
  <2> QED
    BY <2>1, <2>2, <2>3 DEF RevenueFacts, Serial, May
<1>3. ASSUME NEW r \in Requests, Begin(r) \/ Proceed(r) \/ Acquire(r)
      PROVE  (Serial => RevenueFacts)'
  <2>1. Serial' = Serial
    BY <1>3, MayStays DEF Serial, May
  <2> SUFFICES ASSUME Serial PROVE RevenueFacts'
    BY <2>1
  <2>2. Lone(r)
    BY <1>3, LoneMoves
  <2>3. CASE Begin(r)
    BY <2>2, <2>3, BeginRevenue
  <2>4. CASE Split(r)
    BY <2>2, <2>4, PlanRevenue, CreateRevenue, SourceRevenue, RereadRevenue, AbortRevenue DEF Split
  <2>5. CASE Settle(r)
    BY <2>2, <2>5, OtherRevenue, WriteRevenue, ReceiptRevenue DEF Settle
  <2>6. CASE Count(r) \/ Fails(r) \/ Acquire(r)
    BY <2>2, <2>6, OtherRevenue DEF Count, Acquire
  <2> QED
    BY <1>3, <2>3, <2>4, <2>5, <2>6 DEF Proceed
<1> QED
  BY <1>1, <1>2, <1>3 DEF Next

\* The first order has left what was ordered.
LEMMA RevenueInit == Init => RevenueFacts
<1> SUFFICES ASSUME Init PROVE RevenueFacts
  OBVIOUS
<1>1. TypeOK
  BY InitTyped
<1>2. /\ \A r \in Requests : req[r].at = "idle" /\ req[r].kind = "none"
      /\ \A o \in Ids : receipts[o] = <<>>
      /\ \A o \in Ids : o # 1 => ~Exists(o)
      /\ 1 \in Ids /\ order[1].lines = Ordered
  BY OrdersAssumption DEF Init, Idle, Blank, Exists
<1>3. (\A r \in Requests : RevenueCall(r)) /\ ReceiptsTrue
  BY <1>2 DEF RevenueCall, Known, MayGive, TargetIsNew, BillsWhatIsLeft, AtTarget, At, ReceiptsTrue
<1>4. ASSUME NEW l \in Lines PROVE Cardinality(LiveUnits(l)) <= Ordered[l]
  <2> DEFINE n == Ordered[l]
  <2>1. n \in Nat
    BY OrdersAssumption DEF Ordered
  <2>2. Effective(order[1])[l] <= n /\ Effective(order[1])[l] \in Nat
    <3>1. order[1] \in OrderRecords
      BY <1>1, <1>2, OrderTyped
    <3>2. Effective(order[1])[l] <= order[1].lines[l] /\ Effective(order[1]) \in Amounts
      BY <3>1, EffectiveTyped
    <3> QED
      BY <1>2, <3>2 DEF Amounts
  <2>3. LiveUnits(l) \subseteq {1} \X (1..n)
    <3> SUFFICES ASSUME NEW p \in Ids, NEW u \in 1..MaxAmount, Counted(p), u <= Effective(order[p])[l]
                 PROVE  p = 1 /\ u \in 1..n
      BY DEF LiveUnits
    <3>1. p = 1
      BY <1>2 DEF Counted
    <3> QED
      BY <2>1, <2>2, <3>1, OrdersAssumption
  <2> HIDE DEF n
  <2>4. IsFiniteSet({1} \X (1..n)) /\ Cardinality({1} \X (1..n)) = n
    BY <2>1, FullColumn
  <2>5. Cardinality(LiveUnits(l)) <= n
    BY <2>3, <2>4, FS_Subset
  <2> QED
    BY <2>5 DEF n
<1> QED
  BY <1>3, <1>4 DEF RevenueFacts, LinesOnce

\* Receipts that are not cancelled bill units of counted orders, each once.
LEMMA BilledOnce ==
  ASSUME TypeOK, SplitFacts, RevenueFacts, \A o \in Ids : Len(receipts[o]) <= 1, LeftOpen = {},
         NEW l \in Lines
  PROVE  Cardinality(BilledUnits(l)) <= Ordered[l]
<1> DEFINE S == BilledUnits(l)
           T == LiveUnits(l)
           f == [b \in S |-> <<b[1][1], b[2]>>]
<1>1. ASSUME NEW b \in S
      PROVE  \E p \in Ids : /\ b[1] = <<p, 1>> /\ b = <<b[1], b[2]>>
                            /\ <<p, b[2]>> \in T
  <2>1. PICK p \in Ids : /\ order[p].status # "aborted"
                         /\ \E i \in DOMAIN receipts[p] : b \in {<<p, i>>} \X (1..receipts[p][i][l])
    BY DEF BilledUnits
  <2>2. PICK i \in DOMAIN receipts[p] : b \in {<<p, i>>} \X (1..receipts[p][i][l])
    BY <2>1
  <2>3. receipts[p] \in Seq(Amounts) /\ Len(receipts[p]) <= 1
    BY DEF TypeOK
  <2>4. i = 1 /\ receipts[p] # <<>>
    BY <2>3
  <2>5. Exists(p) /\ receipts[p][i] = Effective(order[p])
    BY <2>4 DEF RevenueFacts, ReceiptsTrue
  <2>6. ~Booking(p)
    BY <2>4 DEF Booking, RevenueFacts, RevenueCall, TargetIsNew
  <2>7. Counted(p)
    BY <2>1, <2>5, <2>6 DEF Counted, SplitFacts, BookedOrOpen
  <2>8. Effective(order[p])[l] \in 0..MaxAmount
    <3>1. Effective(order[p]) \in Amounts
      BY OrderTyped, EffectiveTyped
    <3> QED
      BY <3>1 DEF Amounts
  <2>9. b[2] \in 1..MaxAmount /\ b[2] <= Effective(order[p])[l]
    BY <2>2, <2>5, <2>8, OrdersAssumption
  <2> QED
    BY <2>2, <2>4, <2>7, <2>9 DEF LiveUnits
<1> HIDE DEF S, T
<1>2. f \in [S -> T]
  <2>1. ASSUME NEW b \in S PROVE <<b[1][1], b[2]>> \in T
    <3>1. PICK p \in Ids : b[1] = <<p, 1>> /\ <<p, b[2]>> \in T
      BY <1>1
    <3>2. b[1][1] = p
      BY <3>1
    <3> QED
      BY <3>1, <3>2
  <2> QED
    BY <2>1
<1>3. \A b, c \in S : f[b] = f[c] => b = c
  <2> SUFFICES ASSUME NEW b \in S, NEW c \in S, f[b] = f[c] PROVE b = c
    OBVIOUS
  <2>1. PICK p \in Ids : b[1] = <<p, 1>> /\ b = <<b[1], b[2]>>
    BY <1>1
  <2>2. PICK q \in Ids : c[1] = <<q, 1>> /\ c = <<c[1], c[2]>>
    BY <1>1
  <2>3. b[1][1] = c[1][1] /\ b[2] = c[2]
    OBVIOUS
  <2> QED
    BY <2>1, <2>2, <2>3
<1> HIDE DEF f
<1>4. f \in Injection(S, T)
  BY <1>2, <1>3 DEF Injection, IsInjective
<1>5. IsFiniteSet(T)
  BY UnitsFinite DEF T
<1>6. Cardinality(S) <= Cardinality(T) /\ IsFiniteSet(S)
  BY <1>4, <1>5, FS_Injection
<1>7. Cardinality(T) <= Ordered[l]
  BY DEF RevenueFacts, LinesOnce, T
<1>8. Cardinality(S) \in Nat /\ Cardinality(T) \in Nat /\ Ordered[l] \in Nat
  BY <1>5, <1>6, FS_CardinalityType, OrdersAssumption DEF Ordered
<1>9. Cardinality(S) <= Ordered[l]
  BY <1>6, <1>7, <1>8
<1> QED
  BY <1>9 DEF S

\* Calls one at a time, failing and stopping anywhere: as long as no target was left
\* behind between its insert and the counter-booking, reported or unnoticed, the
\* receipts of a table that are not cancelled never bill more of a line than was
\* ordered.
THEOREM RevenueSafe == Spec => []NoDoubleRevenue
<1>1. TypeOK /\ Aimed /\ CallInv /\ (Serial => SplitFacts) /\ (Serial => RevenueFacts) /\ [Next]_vars
        => (Serial => RevenueFacts)'
  BY RevenueNext
<1>2. Typed => TypeOK /\ Aimed
  BY DEF Typed
<1>3. Spec => [](Serial => RevenueFacts)
  BY <1>1, <1>2, RevenueInit, TypedAlways, CallInvAlways, SplitFactsAlways, PTL DEF Spec
<1>4. Typed /\ OneReceipt /\ (Serial => SplitFacts) /\ (Serial => RevenueFacts) => NoDoubleRevenue
  BY BilledOnce DEF Typed, OneReceipt, Guarded, NoDoubleRevenue
<1> QED
  BY <1>3, <1>4, TypedAlways, ReceiptsSafe, SplitFactsAlways, PTL
=============================================================================
