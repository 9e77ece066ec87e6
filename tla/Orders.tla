------------------------------- MODULE Orders -------------------------------
(***************************************************************************)
(* The orders of one table on the edge: splitting an order in two, moving  *)
(* it through its statuses, settling it, its receipt, and the cash drawer  *)
(* the payment belongs to.                                                 *)
(*                                                                         *)
(* A request is one call of the API at work.  An action is what it does    *)
(* from one access to the database to the next; two reads of one request   *)
(* are one action where the later one alone decides.                       *)
(***************************************************************************)
EXTENDS Naturals, Sequences, FiniteSets

CONSTANTS
    Requests,   \* requests at work at a time
    MaxOrder,   \* bound: orders of the table, the first and its splits
    Lines,      \* lines of an order
    Units,      \* lines that may go in part
    MaxAmount,  \* amount of such a line of the first order
    Cashiers,   \* who takes cash; each has one payment, sent once or again
    MaxDrawer,  \* bound: cash drawers on record
    Mixes       \* what a run may consist of: requests, their statuses and cashiers, events

(***************************************************************************)
(*   cashier     payments go to cash drawers (pos-cashier, paired with the *)
(*               cloud); without it the location only takes orders         *)
(*   auto        drawers open by themselves (autoOpenCashRegister)         *)
(*   overlap     requests come in while others are at work                 *)
(*   fail        the database or a hook refuses a step                     *)
(*   unreadable  the order cannot be read while a split is being undone    *)
(*   crash       the process stops and starts again                        *)
(***************************************************************************)
Kinds    == {"split", "status", "pay", "grant", "count"}

\* active stands for production and produced too: no guard tells them apart.
Statuses == {"active", "completed", "aborted", "unclaimed"}

Events   == {"cashier", "auto", "overlap", "fail", "unreadable", "crash"}

ASSUME OrdersAssumption ==
    /\ MaxOrder \in Nat \ {0} /\ MaxAmount \in Nat \ {0} /\ MaxDrawer \in Nat
    /\ Units \subseteq Lines
    /\ Mixes \subseteq SUBSET (Kinds \cup Statuses \cup Events \cup Cashiers)

VARIABLES
    may,        \* the requests and events of this run
    order,      \* the table orders
    receipts,   \* the table receipts: by order, what each one bills
    drawer,     \* the table cash-sessions, for one business day
    payLock,    \* the mutex of the payment patches, by order
    drawerLock, \* the mutex of the creates of cash-sessions
    reported,   \* targets left behind that the caller is told of: target-left-open
    unnoticed,  \* targets left behind that nobody is told of
    req         \* the requests

vars == <<may, order, receipts, drawer, payLock, drawerLock, reported, unnoticed, req>>

Ids     == 1..MaxOrder
Drawers == 1..MaxDrawer
None    == 0

\* open, counting, closed; the till does nothing with audited it does not with closed.
Ranks    == 0..2
Counting == 1
Closed   == 2

Amounts == [Lines -> 0..MaxAmount]
Nothing == [l \in Lines |-> 0]

\* splitOff: the amounts of the entries of splitOff[], by target.  from: the
\* order it was split from.  payment: its transactions, by their cashiers.
OrderRecords ==
    [status : Statuses \cup {"none"}, lines : Amounts, splitOff : [Ids -> Amounts],
     from : Ids \cup {None}, payment : SUBSET Cashiers, drawer : Drawers \cup {None}]

Steps == {"idle", "receipts?", "create", "source", "reread", "abort",
          "lock", "check", "drawer?", "open?", "insert", "write", "receipt?", "receipt",
          "rank?", "rank"}

\* seen: the order as the split has read it.  amounts: what a split takes, or
\* what the receipt will bill.  by: the cashier of a payment or of a new drawer.
RequestRecords ==
    [at : Steps, kind : Kinds \cup {"none"}, order : Ids, seen : OrderRecords,
     target : Ids \cup {None}, amounts : Amounts, to : Statuses, by : SUBSET Cashiers,
     drawer : Drawers \cup {None}, rank : Ranks]

Blank == [status |-> "none", lines |-> Nothing, splitOff |-> [t \in Ids |-> Nothing],
          from |-> None, payment |-> {}, drawer |-> None]

Idle == [at |-> "idle", kind |-> "none", order |-> 1, seen |-> Blank, target |-> None,
         amounts |-> Nothing, to |-> "active", by |-> {}, drawer |-> None, rank |-> 0]

TypeOK ==
    /\ may \in Mixes
    /\ order \in [Ids -> OrderRecords]
    /\ receipts \in [Ids -> Seq(Amounts)]
    /\ drawer \in [Drawers -> [by : SUBSET Cashiers, rank : Ranks]]
    /\ payLock \in [Ids -> SUBSET Requests]
    /\ drawerLock \in SUBSET Requests
    /\ reported \in SUBSET Ids /\ unnoticed \in SUBSET Ids
    /\ req \in [Requests -> RequestRecords]

Ordered == [l \in Lines |-> IF l \in Units THEN MaxAmount ELSE 1]

Init ==
    /\ may \in Mixes
    /\ order = [o \in Ids |-> IF o = 1 THEN [Blank EXCEPT !.status = "active", !.lines = Ordered]
                              ELSE Blank]
    /\ receipts = [o \in Ids |-> <<>>]
    /\ drawer = [d \in Drawers |-> [by |-> {}, rank |-> 0]]
    /\ payLock = [o \in Ids |-> {}]
    /\ drawerLock = {}
    /\ reported = {} /\ unnoticed = {}
    /\ req = [r \in Requests |-> Idle]

-----------------------------------------------------------------------------
\* What the requests share.

May(x)        == x \in may
At(r, step)   == req[r].at = step
Goes(r, step) == req' = [req EXCEPT ![r].at = step]
Exists(o)     == order[o].status # "none"

locks == <<payLock, drawerLock>>
fixed == <<may, reported, unnoticed>>

\* Targets whose split ended between the insert and the counter-booking.
LeftOpen == reported \cup unnoticed

\* The call is over; runExclusive gives the mutex back on every way out.
Ends(r) ==
    /\ req' = [req EXCEPT ![r] = Idle]
    /\ payLock' = [o \in Ids |-> payLock[o] \ {r}]
    /\ drawerLock' = drawerLock \ {r}

\* Without overlap there is one request that comes in again and again.
Only == CHOOSE r \in Requests : TRUE

\* A request comes in.
ComesIn(r, kind) ==
    /\ May(kind)
    /\ At(r, "idle")
    /\ May("overlap") \/ r = Only
    /\ UNCHANGED <<fixed, order, receipts, drawer, locks>>

Refused(r) ==
    /\ May("fail")
    /\ Ends(r)
    /\ UNCHANGED <<fixed, order, receipts, drawer>>

\* effectiveLineItems.  What a line has given away, unit by unit.
Moved(record, l) ==
    Cardinality({unit \in Ids \X (1..MaxAmount) : unit[2] <= record.splitOff[unit[1]][l]})

Effective(record) ==
    [l \in Lines |-> IF Moved(record, l) >= record.lines[l] THEN 0
                     ELSE record.lines[l] - Moved(record, l)]

-----------------------------------------------------------------------------
\* orders.split

\* Room for the targets that may come of it.
RoomForTargets ==
    Cardinality({t \in Ids : ~Exists(t)}) >
    Cardinality({q \in Requests : req[q].kind = "split" /\ req[q].target = None})

ReadSource(r, o) ==
    /\ ComesIn(r, "split")
    /\ ~May("cashier")
    /\ Exists(o)
    /\ RoomForTargets
    /\ req' = [req EXCEPT ![r] = [Idle EXCEPT !.at = "receipts?", !.kind = "split",
                                              !.order = o, !.seen = order[o]]]

\* assertOrderIsSplittable
Splittable(record) == record.status \notin {"completed", "aborted"} /\ record.payment = {}

\* What planOrderSplit lets go of an order: something, not more than there is of
\* a line, a line as a whole unless it may go in part, and never everything.
Selections(record) ==
    {sel \in [Lines -> 0..MaxAmount] :
       /\ sel # Nothing /\ sel # Effective(record)
       /\ \A l \in Lines : sel[l] <= Effective(record)[l]
       /\ \A l \in Lines \ Units : sel[l] \in {0, Effective(record)[l]}}

PlanSplit(r) ==
    LET q == req[r] IN
    /\ At(r, "receipts?")
    /\ UNCHANGED <<fixed, order, receipts, drawer>>
    /\ \/ /\ receipts[q.order] = <<>> /\ Splittable(q.seen)
          /\ \E sel \in Selections(q.seen) :
               req' = [req EXCEPT ![r].at = "create", ![r].amounts = sel]
          /\ UNCHANGED locks
       \/ Ends(r)

\* The create chain; the status and the circle of the source are inherited.  It is
\* not in the try that undoes a split: when it fails after the insert, nobody looks
\* after the target.
CreateTarget(r) ==
    LET q == req[r] IN
    /\ At(r, "create")
    /\ \E t \in Ids :
         /\ ~Exists(t) /\ \A u \in Ids : u < t => Exists(u)
         /\ order' = [order EXCEPT ![t] = [Blank EXCEPT !.status = q.seen.status,
                                             !.lines = q.amounts, !.from = q.order]]
         /\ \/ /\ req' = [req EXCEPT ![r].at = "source", ![r].target = t]
               /\ UNCHANGED <<unnoticed, locks>>
            \/ /\ May("fail")
               /\ Ends(r)
               /\ unnoticed' = unnoticed \cup {t}
    /\ UNCHANGED <<may, reported, receipts, drawer>>

\* issueReceipt looks at what a patch returns.
AfterPatch(r, record) ==
    IF record.status = "completed"
    THEN /\ req' = [req EXCEPT ![r].at = "receipt?", ![r].amounts = Effective(record)]
         /\ UNCHANGED locks
    ELSE Ends(r)

\* splitOff as the split has read it, and its own entries.
Booked(q) == [q.seen.splitOff EXCEPT ![q.target] = q.amounts]

\* Mutant: a failed patch of the source ends the call.
PatchSource_gives_up(r) ==
    LET q       == req[r]
        written == [order[q.order] EXCEPT !.splitOff = Booked(q)]
    IN  /\ At(r, "source")
        /\ \/ /\ order' = [order EXCEPT ![q.order] = written]
              /\ AfterPatch(r, written)
           \/ /\ May("fail")
              /\ order' \in {order, [order EXCEPT ![q.order] = written]}
              /\ Ends(r)
        /\ UNCHANGED <<fixed, receipts, drawer>>

\* The counter-booking.  A patch may fail before or after it is written.
PatchSource(r) ==
    LET q       == req[r]
        written == [order[q.order] EXCEPT !.splitOff = Booked(q)]
    IN  /\ At(r, "source")
        /\ \/ /\ order' = [order EXCEPT ![q.order] = written]
              /\ AfterPatch(r, written)
           \/ /\ May("fail")
              /\ order' \in {order, [order EXCEPT ![q.order] = written]}
              /\ Goes(r, "reread")
              /\ UNCHANGED locks
        /\ UNCHANGED <<fixed, receipts, drawer>>

\* Mutant: the target is aborted without another look at the source.
RereadSource_skipped(r) ==
    /\ At(r, "reread")
    /\ Goes(r, "abort")
    /\ UNCHANGED <<fixed, order, receipts, drawer, locks>>

\* compensateFailedSourcePatch: an error does not mean that nothing was written.
RereadSource(r) ==
    LET q == req[r] IN
    /\ At(r, "reread")
    /\ \/ order[q.order].splitOff[q.target] # Nothing /\ Ends(r)
       \/ /\ order[q.order].splitOff[q.target] = Nothing \/ May("unreadable")
          /\ Goes(r, "abort")
          /\ UNCHANGED locks
    /\ UNCHANGED <<fixed, order, receipts, drawer>>

AbortTarget(r) ==
    LET t       == req[r].target
        aborted == [order EXCEPT ![t].status = "aborted"]
    IN  /\ At(r, "abort")
        /\ Ends(r)
        /\ \/ /\ order' = aborted
              /\ UNCHANGED reported
           \/ /\ May("fail")
              /\ order' \in {order, aborted}
              /\ reported' = reported \cup {t}
        /\ UNCHANGED <<may, unnoticed, receipts, drawer>>

-----------------------------------------------------------------------------
\* The patch of an order from outside: a status, or a status with a payment.

\* Room for the drawers that may come of it.
RoomForDrawers ==
    Cardinality({d \in Drawers : drawer[d].by = {}}) >
    Cardinality({q \in Requests : req[q].kind \in {"pay", "grant"}})

PatchStatus(r, o, to) ==
    /\ ComesIn(r, "status")
    /\ May(to)
    /\ Exists(o)
    /\ req' = [req EXCEPT ![r] = [Idle EXCEPT !.at = "check", !.kind = "status",
                                              !.order = o, !.to = to]]

Checkout(r, o, c) ==
    /\ ComesIn(r, "pay")
    /\ May(c)
    /\ May("auto") => RoomForDrawers
    /\ Exists(o)
    /\ req' = [req EXCEPT ![r] = [Idle EXCEPT !.at = "lock", !.kind = "pay",
                                    !.order = o, !.to = "completed", !.by = {c}]]

\* Mutant: payments of one order do not wait for each other.
AcquirePayLock_unlocked(r) ==
    /\ At(r, "lock")
    /\ Goes(r, "check")
    /\ UNCHANGED <<fixed, order, receipts, drawer, locks>>

\* serializeOrderPaymentPatch
AcquirePayLock(r) ==
    LET o == req[r].order IN
    /\ At(r, "lock")
    /\ payLock[o] = {}
    /\ payLock' = [payLock EXCEPT ![o] = {r}]
    /\ Goes(r, "check")
    /\ UNCHANGED <<fixed, order, receipts, drawer, drawerLock>>

\* assertValidOrderStatusTransition
ValidTransition(from, to) ==
    \/ from = to
    \/ from = "completed" /\ to \in {"unclaimed", "aborted"}
    \/ from \notin {"completed", "aborted"}

IsOpen(status) == status \notin {"completed", "aborted", "unclaimed"}

\* validateOrderStatusTransition and lockSettledOrderPayment.  The payment that is
\* booked already is taken out of the patch.
CheckPatch(r) ==
    LET q      == req[r]
        stored == order[q.order]
        repeat == ~IsOpen(stored.status) /\ q.by = stored.payment
    IN  /\ At(r, "check")
        /\ UNCHANGED <<fixed, order, receipts, drawer>>
        /\ IF ValidTransition(stored.status, q.to)
                /\ (q.by = {} \/ IsOpen(stored.status) \/ repeat)
           THEN /\ req' = [req EXCEPT ![r].by = IF repeat THEN {} ELSE @,
                             ![r].at = IF May("cashier") /\ q.by # {} /\ ~repeat THEN "drawer?"
                                       ELSE "write"]
                /\ UNCHANGED locks
           ELSE Ends(r)

\* The drawers of a cashier that are not closed.
OpenDrawers(by) == {d \in Drawers : by # {} /\ drawer[d].by = by /\ drawer[d].rank < Closed}

\* restrictOrderToCashSession
FindDrawer(r) ==
    LET open == OpenDrawers(req[r].by) IN
    /\ At(r, "drawer?")
    /\ UNCHANGED <<fixed, order, receipts, drawer>>
    /\ \/ /\ \E d \in open : req' = [req EXCEPT ![r].at = "write", ![r].drawer = d]
          /\ UNCHANGED locks
       \/ open = {} /\ May("auto") /\ Goes(r, "open?") /\ UNCHANGED locks
       \/ open = {} /\ ~May("auto") /\ Ends(r)

\* Mutant: a payment that is refused keeps the mutex.
WritePatch_keepsLock(r) ==
    LET q       == req[r]
        written == [order[q.order] EXCEPT !.status = q.to,
                      !.payment = IF q.by = {} THEN @ ELSE q.by,
                      !.drawer  = IF q.drawer = None THEN @ ELSE q.drawer]
    IN  /\ At(r, "write")
        /\ UNCHANGED <<fixed, receipts, drawer>>
        /\ \/ /\ order' = [order EXCEPT ![q.order] = written]
              /\ AfterPatch(r, written)
           \/ /\ May("fail")
              /\ req' = [req EXCEPT ![r] = Idle]
              /\ UNCHANGED <<order, locks>>

\* Mutant: the mutex is given back before the receipt.
WritePatch_unlocks(r) ==
    LET q       == req[r]
        written == [order[q.order] EXCEPT !.status = q.to,
                      !.payment = IF q.by = {} THEN @ ELSE q.by,
                      !.drawer  = IF q.drawer = None THEN @ ELSE q.drawer]
    IN  /\ At(r, "write")
        /\ order' = [order EXCEPT ![q.order] = written]
        /\ payLock' = [payLock EXCEPT ![q.order] = {}]
        /\ req' = [req EXCEPT ![r].at = "receipt?", ![r].amounts = Effective(written)]
        /\ UNCHANGED <<fixed, receipts, drawer, drawerLock>>

\* Like every patch it may fail before or after it is written.
WritePatch(r) ==
    LET q       == req[r]
        written == [order[q.order] EXCEPT !.status = q.to,
                      !.payment = IF q.by = {} THEN @ ELSE q.by,
                      !.drawer  = IF q.drawer = None THEN @ ELSE q.drawer]
    IN  /\ At(r, "write")
        /\ UNCHANGED <<fixed, receipts, drawer>>
        /\ \/ /\ order' = [order EXCEPT ![q.order] = written]
              /\ AfterPatch(r, written)
           \/ /\ May("fail")
              /\ Ends(r)
              /\ order' \in {order, [order EXCEPT ![q.order] = written]}

\* issueReceipt: one receipt per order; an error is logged only.
FindReceipt(r) ==
    /\ At(r, "receipt?")
    /\ IF receipts[req[r].order] = <<>> THEN Goes(r, "receipt") /\ UNCHANGED locks ELSE Ends(r)
    /\ UNCHANGED <<fixed, order, receipts, drawer>>

\* Mutant: the receipt bills the lines as they were ordered.
Billed_lineItems(q) == order[q.order].lines

Billed(q) == q.amounts

\* An error after the insert is logged only, too: the call ends either way.
CreateReceipt(r) ==
    LET q == req[r] IN
    /\ At(r, "receipt")
    /\ receipts' = [receipts EXCEPT ![q.order] = Append(@, Billed(q))]
    /\ Ends(r)
    /\ UNCHANGED <<fixed, order, drawer>>

-----------------------------------------------------------------------------
\* Cash sessions.

\* openAuthorized: a drawer for a cashier, granted by a manager.
Grant(r, c) ==
    /\ ComesIn(r, "grant")
    /\ May(c)
    /\ RoomForDrawers
    /\ req' = [req EXCEPT ![r] = [Idle EXCEPT !.at = "open?", !.kind = "grant", !.by = {c}]]

\* Mutant: creates do not wait for each other.
FindOpenDrawer_unlocked(r) ==
    LET open == OpenDrawers(req[r].by) IN
    /\ At(r, "open?")
    /\ open = {}
    /\ Goes(r, "insert")
    /\ UNCHANGED <<fixed, order, receipts, drawer, locks>>

\* serializeCashSessionCreate, rejectSecondOpenCashSession.  A payment takes the
\* drawer that is open already (autoOpenCashSession).
FindOpenDrawer(r) ==
    LET open == OpenDrawers(req[r].by) IN
    /\ At(r, "open?")
    /\ drawerLock = {}
    /\ UNCHANGED <<fixed, order, receipts, drawer>>
    /\ \/ /\ open = {}
          /\ drawerLock' = {r}
          /\ Goes(r, "insert")
          /\ UNCHANGED payLock
       \/ /\ req[r].kind = "pay"
          /\ \E d \in open : req' = [req EXCEPT ![r].at = "write", ![r].drawer = d]
          /\ UNCHANGED locks
       \/ open # {} /\ req[r].kind = "grant" /\ Ends(r)

\* The create of a cash session; one that fails after the insert ends the call, and
\* the drawer is there.
InsertDrawer(r) ==
    LET q == req[r] IN
    /\ At(r, "insert")
    /\ \E d \in Drawers :
         /\ drawer[d].by = {} /\ \A e \in Drawers : e < d => drawer[e].by # {}
         /\ drawer' = [drawer EXCEPT ![d] = [by |-> q.by, rank |-> 0]]
         /\ \/ (q.kind = "grant" \/ May("fail")) /\ Ends(r)
            \/ /\ q.kind # "grant"
               /\ req' = [req EXCEPT ![r].at = "write", ![r].drawer = d]
               /\ drawerLock' = drawerLock \ {r}
               /\ UNCHANGED payLock
    /\ UNCHANGED <<fixed, order, receipts>>

\* A drawer is counted or closed, one at a time: two patches of one drawer that
\* overlap can put it back, and nothing here is claimed for that.
PatchDrawer(r, d, rank) ==
    /\ ComesIn(r, "count")
    /\ \A q \in Requests : req[q].kind # "count"
    /\ drawer[d].by # {}
    /\ req' = [req EXCEPT ![r] = [Idle EXCEPT !.at = "rank?", !.kind = "count",
                                              !.drawer = d, !.rank = rank]]

\* rejectCashSessionStatusRegression
CheckRank(r) ==
    /\ At(r, "rank?")
    /\ IF req[r].rank >= drawer[req[r].drawer].rank THEN Goes(r, "rank") /\ UNCHANGED locks
       ELSE Ends(r)
    /\ UNCHANGED <<fixed, order, receipts, drawer>>

WriteRank(r) ==
    /\ At(r, "rank")
    /\ drawer' = [drawer EXCEPT ![req[r].drawer].rank = req[r].rank]
    /\ Ends(r)
    /\ UNCHANGED <<fixed, order, receipts>>

-----------------------------------------------------------------------------
\* The process stops in the middle of what it does.
Crash ==
    /\ May("crash")
    /\ \E r \in Requests : ~At(r, "idle")
    /\ unnoticed' = unnoticed \cup {t \in Ids : \E r \in Requests :
                                     req[r].target = t /\ req[r].at \in {"source", "reread", "abort"}}
    /\ req' = [r \in Requests |-> Idle]
    /\ payLock' = [o \in Ids |-> {}]
    /\ drawerLock' = {}
    /\ UNCHANGED <<may, reported, order, receipts, drawer>>

\* A step fails before it has written: a look, or an insert.
Fails(r) ==
    /\ \E step \in {"create", "receipt?", "receipt", "insert"} : At(r, step)
    /\ Refused(r)

Split(r) == PlanSplit(r) \/ CreateTarget(r) \/ PatchSource(r) \/ RereadSource(r) \/ AbortTarget(r)
Settle(r) == CheckPatch(r) \/ FindDrawer(r) \/ WritePatch(r) \/ FindReceipt(r) \/ CreateReceipt(r)
Count(r) == InsertDrawer(r) \/ CheckRank(r) \/ WriteRank(r)

Proceed(r) == Split(r) \/ Settle(r) \/ Count(r) \/ Fails(r)
Acquire(r) == AcquirePayLock(r) \/ FindOpenDrawer(r)

Begin(r) ==
    \/ \E o \in Ids : \/ ReadSource(r, o)
                      \/ \E to \in Statuses : PatchStatus(r, o, to)
                      \/ \E c \in Cashiers : Checkout(r, o, c)
    \/ \E c \in Cashiers : Grant(r, c)
    \/ \E d \in Drawers, rank \in Ranks : PatchDrawer(r, d, rank)

Next ==
    \/ \E r \in Requests : Begin(r) \/ Proceed(r) \/ Acquire(r)
    \/ Crash

Spec == Init /\ [][Next]_vars

\* The process works on, and a mutex is given to its waiters in turn.
FairSpec ==
    /\ Spec
    /\ \A r \in Requests : WF_vars(Proceed(r)) /\ SF_vars(Acquire(r))

-----------------------------------------------------------------------------
Serial == ~May("overlap")

\* Nothing but payments overlaps with a payment.
Guarded == Serial \/ (~May("status") /\ ~May("split"))

\* An order has at most one receipt: with calls one after the other, retried and
\* failing halfway, and with payments that overlap (issueReceipt,
\* serializeOrderPaymentPatch).
OneReceipt == Guarded => \A o \in Ids : Len(receipts[o]) <= 1

\* With one call at a time a failed counter-booking leaves no live target the source
\* has not given away just what it carries, unless undoing the split failed as well
\* and was reported.  Not covered, and unnoticed by the code too: a create of the
\* target that fails after its insert, and a stop of the process in between
\* (createOrderSplitMethod, compensateFailedSourcePatch).
LiveTargetIsBooked ==
    Serial => \A t \in Ids \ unnoticed :
        \/ order[t].from = None \/ order[t].status = "aborted"
        \/ t \in reported \/ \E r \in Requests : req[r].target = t
        \/ order[order[t].from].splitOff[t] = order[t].lines

\* As long as the source can be read, a split is taken back only where the source
\* has given nothing away: no line is lost from both (compensateFailedSourcePatch).
RollbackLosesNothing ==
    Serial /\ ~May("unreadable") =>
        \A r \in Requests : At(r, "abort") => order[req[r].order].splitOff[req[r].target] = Nothing

\* What is billed of a line, unit by unit, by the receipts that are not cancelled.
BilledUnits(l) ==
    UNION {UNION {{<<o, i>>} \X (1..receipts[o][i][l]) : i \in DOMAIN receipts[o]} :
              o \in {p \in Ids : order[p].status # "aborted"}}

\* As long as no target was left behind, no two receipts that are not cancelled bill
\* the same unit (A13, the rule of orders.split): together they never bill more than
\* was ordered.
NoDoubleRevenue ==
    Serial /\ LeftOpen = {} => \A l \in Lines : Cardinality(BilledUnits(l)) <= Ordered[l]

\* A cashier has at most one open drawer, however drawers are granted, opened by
\* payments, counted and closed at the same time (rejectSecondOpenCashSession,
\* rejectCashSessionStatusRegression).
OneOpenDrawer == \A c \in Cashiers : Cardinality(OpenDrawers({c})) <= 1

\* The payment of an order that is no longer open stays what it is, also when two
\* tills settle the order at the same time (lockSettledOrderPayment).
PaymentFixed ==
    [][Guarded => \A o \in Ids :
         Exists(o) /\ ~IsOpen(order[o].status) /\ order[o].payment # {}
           => order'[o].payment = order[o].payment /\ order'[o].drawer = order[o].drawer]_vars

\* Liveness.  Every call ends: no mutex is kept, and none is waited for in a circle.
CallsEnd == \A r \in Requests : ~At(r, "idle") ~> At(r, "idle")
=============================================================================
