---------------------------- MODULE BusinessDays ----------------------------
(***************************************************************************)
(* The business days of one location on an edge that rotates them itself   *)
(* (no pairing, or the offline override): taking orders, the nightly       *)
(* rotation, the approval of a rest day, opening, closing and discarding   *)
(* a day, and the numbers of the orders of a day.                          *)
(*                                                                         *)
(* A request is one call of the API (or one run of the worker) at work.    *)
(* An action is what it does from one access to the database to the next;  *)
(* reads of one request with nothing written between them that another     *)
(* request could tell apart are one action.                                *)
(***************************************************************************)
EXTENDS Naturals, FiniteSets

CONSTANTS
    Requests,   \* requests at work at a time
    MaxDay,     \* bound: business days on record; ids are used again
    MaxDate,    \* bound: calendar days
    MaxNumber,  \* bound: numbers per day, above it no order comes in
    RestDays,   \* dates the location is closed on (opening hours)
    Mixes       \* what a run may consist of: requests and events

(***************************************************************************)
(*   overlap  requests come in while others are at work                    *)
(*   refuse   a hook after the number refuses the order, a PIN is wrong    *)
(*   crash    the process stops and starts again                           *)
(*   blind    a look that fails lets pass: ensureSingleOpenBusinessDay for *)
(*            open days, discardOrphanDay for the day of the location      *)
(*   tabs     a location that was at work before has open tabs             *)
(*   kitchen  the status of an open order changes                          *)
(***************************************************************************)
Kinds  == {"order", "ensure", "approve", "open", "close", "discard"}
Events == {"overlap", "refuse", "crash", "blind", "tabs", "kitchen"}

Dates == 1..MaxDate

ASSUME DaysAssumption ==
    /\ MaxDay \in Nat \ {0} /\ MaxDate \in Nat \ {0} /\ MaxNumber \in Nat
    /\ RestDays \subseteq Dates
    /\ Mixes \subseteq SUBSET (Kinds \cup Events)

VARIABLES
    may,           \* the requests and events of this run
    date,          \* today in the time zone of the location
    day,           \* the table businessdays
    pointer,       \* location.currentBusinessDay
    orders,        \* the table orders
    drawers,       \* the days that have a cash session
    lastAssigned,  \* last number per day, in the memory of the process
    req            \* the requests

vars == <<may, date, day, pointer, orders, drawers, lastAssigned, req>>

Days  == 1..MaxDay
NoDay == 0

\* Hours since openedAt, as far as the code asks for them: ripe from
\* MIN_OPEN_HOURS_BEFORE_ROTATION on, overdue past maxOpenHours.
Ages    == 0..2
Ripe    == 1
Overdue == 2

\* Open are active, and kitchen for production and produced (isOrderOpen).
OrderStatuses == {"active", "kitchen", "done"}
OrderRecords  == [day : Days, number : Nat, status : OrderStatuses]

\* none was never written, gone is removed.  manual: openedBy is set.
\* approved: openedOnClosedDayDate with a role the rule accepts, 0 for none.
DayRecords == [status : {"none", "open", "closing", "closed", "gone"}, date : Dates,
               manual : BOOLEAN, age : Ages, approved : Dates \cup {0}]

Steps == {"idle", "look", "blocked?", "find", "close", "single?", "create", "point",
          "stamp", "number", "store", "closing", "current?", "orders?", "drawers?", "remove"}

\* seen: the pointer as it was read;  today: the date the request goes by
\* age: the hours it has read;  day: the day it is for;  rest: days still to close
RequestRecords ==
    [at : Steps, kind : Kinds \cup {"none"}, seen : Days \cup {NoDay}, today : Dates,
     age : Ages, day : Days \cup {NoDay}, rest : SUBSET Days, number : Nat]

Idle == [at |-> "idle", kind |-> "none", seen |-> NoDay, today |-> 1, age |-> 0,
         day |-> NoDay, rest |-> {}, number |-> 0]

TypeOK ==
    /\ may \in Mixes
    /\ date \in Dates
    /\ day \in [Days -> DayRecords]
    /\ pointer \in Days \cup {NoDay}
    /\ orders \subseteq OrderRecords
    /\ drawers \subseteq Days
    /\ lastAssigned \in [Days -> Nat]
    /\ req \in [Requests -> RequestRecords]

Unwritten == [status |-> "none", date |-> 1, manual |-> FALSE, age |-> 0, approved |-> 0]
Open(d)   == day[d].status = "open"

May(x) == x \in may

\* A new installation has no day.  One at work before may have several open days,
\* a pointer that has drifted from them, and tabs on any of its days.
Init ==
    /\ may \in Mixes
    /\ date = 1
    /\ \E open \in SUBSET {d \in Days : d <= 2} :
         day = [d \in Days |-> IF d \in open THEN [Unwritten EXCEPT !.status = "open"]
                               ELSE IF d <= 2 /\ open # {} THEN [Unwritten EXCEPT !.status = "closed"]
                               ELSE Unwritten]
    /\ pointer \in {d \in Days : day[d].status # "none"} \cup {NoDay}
    /\ \E tabs \in SUBSET {d \in Days : May("tabs") /\ day[d].status # "none"} :
         orders = {[day |-> d, number |-> 1, status |-> "active"] : d \in tabs}
    /\ drawers = {}
    /\ lastAssigned = [d \in Days |-> 0]
    /\ req = [r \in Requests |-> Idle]

-----------------------------------------------------------------------------
\* What the requests share.

At(r, step)    == req[r].at = step
Goes(r, step)  == req' = [req EXCEPT ![r].at = step]
Ends(r)        == req' = [req EXCEPT ![r] = Idle]
Set(d, status) == day' = [day EXCEPT ![d].status = status]

database == <<day, pointer, orders, drawers>>
world    == <<may, date>>

\* Mutant: the filter on the status is dropped.
ActiveOrders_anyStatus(d) == {o \in orders : o.day = d}

\* hasActiveOrders: of the open orders of the day those in status active.
ActiveOrders(d) == {o \in orders : o.day = d /\ o.status = "active"}

IsOpen(o) == o.status # "done"

Gone(d) == d # NoDay /\ day[d].status = "gone"

\* shouldAutoRotate; hours that cannot be read count as enough.
Stale(d, today) ==
    d # NoDay => day[d].date # today /\ (day[d].age >= Ripe \/ Gone(d))

\* The order or the approval has its day, and needs nothing else any more.
HasDay(r, d, today) ==
    req' = [req EXCEPT ![r] =
              IF req[r].kind = "order" THEN [Idle EXCEPT !.at = "number", !.kind = "order", !.day = d]
              ELSE [Idle EXCEPT !.at = "stamp", !.kind = "approve", !.day = d, !.today = today]]

\* A request comes in, while others are at work if the run has that.
ComesIn(r, kind) ==
    /\ May(kind)
    /\ At(r, "idle")
    /\ May("overlap") \/ \A q \in Requests : At(q, "idle")
    /\ UNCHANGED <<world, database, lastAssigned>>

-----------------------------------------------------------------------------
\* Taking an order, the nightly run and the approval of a rest day read the
\* location first.
ReadLocation(r, kind) ==
    /\ kind \in {"order", "ensure", "approve"}
    /\ kind = "order" =>
         /\ \A d \in Days : lastAssigned[d] + Cardinality(Requests) <= MaxNumber
         /\ \A o \in orders : o.number + Cardinality(Requests) <= MaxNumber
    /\ ComesIn(r, kind)
    /\ req' = [req EXCEPT ![r] = [Idle EXCEPT !.at = "look", !.kind = kind,
                                              !.seen = pointer, !.today = date]]

\* The day an order may go to without a rotation.
Admits(d, age) ==
    /\ d # NoDay
    /\ date \in RestDays => day[d].approved = date
    /\ age < Overdue

\* restrictOrderToBusinessDay up to the first write: the hours of the day, the
\* opening hours, the pairing, the approval.
LookForOrder(r) ==
    LET d       == req[r].seen
        age     == IF d = NoDay THEN 0 ELSE day[d].age
        rotates == Stale(d, req[r].today) /\ date \notin RestDays
    IN  /\ At(r, "look") /\ req[r].kind = "order"
        /\ UNCHANGED <<world, database, lastAssigned>>
        /\ \/ /\ ~Gone(d) /\ rotates
              /\ req' = [req EXCEPT ![r].at = IF d = NoDay THEN "find" ELSE "blocked?",
                                    ![r].age = age]
           \/ /\ ~Gone(d) /\ ~rotates /\ Admits(d, age)
              /\ HasDay(r, d, date)
           \/ /\ Gone(d) \/ (~rotates /\ ~Admits(d, age))
              /\ Ends(r)

\* Mutant: the nightly run does not ask for open tabs.
LookForEnsure_closesTabs(r) ==
    LET d == req[r].seen IN
    /\ At(r, "look") /\ req[r].kind = "ensure"
    /\ IF Stale(d, req[r].today) /\ req[r].today \notin RestDays THEN Goes(r, "find") ELSE Ends(r)
    /\ UNCHANGED <<world, database, lastAssigned>>

\* autoEnsureBusinessDay
LookForEnsure(r) ==
    LET d == req[r].seen IN
    /\ At(r, "look") /\ req[r].kind = "ensure"
    /\ IF Stale(d, req[r].today) /\ req[r].today \notin RestDays
       THEN Goes(r, IF d = NoDay THEN "find" ELSE "blocked?")
       ELSE Ends(r)
    /\ UNCHANGED <<world, database, lastAssigned>>

\* approveClosedDay: on a rest day, with the right PIN and role.
LookForApproval(r) ==
    LET d == req[r].seen IN
    /\ At(r, "look") /\ req[r].kind = "approve"
    /\ UNCHANGED <<world, database, lastAssigned>>
    /\ \/ /\ date \in RestDays /\ ~Gone(d)
          /\ IF Stale(d, date)
             THEN req' = [req EXCEPT ![r].today = date, ![r].at = IF d = NoDay THEN "find" ELSE "blocked?"]
             ELSE HasDay(r, d, date)
       \/ /\ date \notin RestDays \/ Gone(d) \/ May("refuse")
          /\ Ends(r)

\* hasActiveOrders asks about the day of the pointer only.  What is blocked goes
\* to that day, an order unless the day is overdue.
CheckActiveOrders(r) ==
    LET d       == req[r].seen
        blocked == ActiveOrders(d) # {}
        keeps   == req[r].kind = "approve" \/ (req[r].kind = "order" /\ req[r].age < Overdue)
    IN  /\ At(r, "blocked?")
        /\ UNCHANGED <<world, database, lastAssigned>>
        /\ \/ ~blocked /\ Goes(r, "find")
           \/ blocked /\ keeps /\ HasDay(r, d, req[r].today)
           \/ blocked /\ ~keeps /\ Ends(r)

-----------------------------------------------------------------------------
\* rotateBusinessDay

\* Mutant: only the day of the pointer is closed.
FindOpenDays_pointerOnly(r) ==
    LET rest == {req[r].seen} \ {NoDay} IN
    /\ At(r, "find")
    /\ req' = [req EXCEPT ![r].rest = rest, ![r].seen = NoDay, ![r].age = 0,
                          ![r].at = IF rest = {} THEN "single?" ELSE "close"]
    /\ UNCHANGED <<world, database, lastAssigned>>

\* Every open day, and the one the pointer named when it was read.
FindOpenDays(r) ==
    LET rest == {d \in Days : Open(d)} \cup ({req[r].seen} \ {NoDay}) IN
    /\ At(r, "find")
    /\ req' = [req EXCEPT ![r].rest = rest, ![r].seen = NoDay, ![r].age = 0,
                          ![r].at = IF rest = {} THEN "single?" ELSE "close"]
    /\ UNCHANGED <<world, database, lastAssigned>>

CloseNext(r) ==
    /\ At(r, "close")
    /\ \E d \in req[r].rest :
         \/ /\ day[d].status # "gone"
            /\ Set(d, "closed")
            /\ req' = [req EXCEPT ![r].rest = @ \ {d},
                                  ![r].at = IF req[r].rest = {d} THEN "single?" ELSE "close"]
         \/ /\ day[d].status = "gone"
            /\ Ends(r)
            /\ UNCHANGED day
    /\ UNCHANGED <<world, pointer, orders, drawers, lastAssigned>>

\* ensureSingleOpenBusinessDay
CheckSingleOpen(r) ==
    /\ At(r, "single?")
    /\ \/ (May("blind") \/ \A d \in Days : ~Open(d)) /\ Goes(r, "create")
       \/ (\E d \in Days : Open(d)) /\ Ends(r)
    /\ UNCHANGED <<world, database, lastAssigned>>

\* An id nothing refers to any more.
Free(d) ==
    /\ ~Open(d) /\ d # pointer /\ \A o \in orders : o.day = d => ~IsOpen(o)
    /\ \A r \in Requests : d \notin {req[r].seen, req[r].day} \cup req[r].rest

\* The insert.  The day an operator opens is not written to the pointer.
CreateDay(r) ==
    /\ At(r, "create")
    /\ \E d \in Days :
         /\ Free(d) /\ \A e \in Days : e < d => ~Free(e)
         /\ day' = [day EXCEPT ![d] = [Unwritten EXCEPT !.status = "open", !.date = req[r].today,
                                                         !.manual = (req[r].kind = "open")]]
         /\ orders' = {o \in orders : o.day # d}
         /\ drawers' = drawers \ {d}
         /\ lastAssigned' = [lastAssigned EXCEPT ![d] = 0]
         /\ IF req[r].kind = "open" THEN Ends(r)
            ELSE req' = [req EXCEPT ![r].at = "point", ![r].day = d]
    /\ UNCHANGED <<world, pointer>>

\* Mutant: the approval opens a day without patching the location.
PatchPointer_notApproval(r) ==
    /\ At(r, "point")
    /\ pointer' = IF req[r].kind = "approve" THEN pointer ELSE req[r].day
    /\ IF req[r].kind = "ensure" THEN Ends(r) ELSE HasDay(r, req[r].day, req[r].today)
    /\ UNCHANGED <<world, day, orders, drawers, lastAssigned>>

PatchPointer(r) ==
    /\ At(r, "point")
    /\ pointer' = req[r].day
    /\ IF req[r].kind = "ensure" THEN Ends(r) ELSE HasDay(r, req[r].day, req[r].today)
    /\ UNCHANGED <<world, day, orders, drawers, lastAssigned>>

\* approveClosedDay stamps the day orders go to.
Stamp(r) ==
    LET d == req[r].day IN
    /\ At(r, "stamp")
    /\ day' = IF Gone(d) THEN day ELSE [day EXCEPT ![d].approved = req[r].today]
    /\ Ends(r)
    /\ UNCHANGED <<world, pointer, orders, drawers, lastAssigned>>

-----------------------------------------------------------------------------
\* The rest of the create chain of orders.

\* Mutant: only the stored numbers count.
NextNumber_stored(d, n) ==
    LET used == {o.number : o \in {x \in orders : x.day = d}} \cup {0} IN
    /\ \A m \in used : m < n
    /\ n - 1 \in used

\* assignDailySequenceNumber: one above the greatest number stored for the day
\* and the last one handed out.
NextNumber(d, n) ==
    LET used == {o.number : o \in {x \in orders : x.day = d}} \cup {lastAssigned[d]} IN
    /\ \A m \in used : m < n
    /\ n = 1 \/ n - 1 \in used

AssignNumber(r) ==
    LET d == req[r].day IN
    /\ At(r, "number")
    /\ \E n \in 1..MaxNumber :
         /\ NextNumber(d, n)
         /\ lastAssigned' = [lastAssigned EXCEPT ![d] = n]
         /\ req' = [req EXCEPT ![r].at = "store", ![r].number = n]
    /\ UNCHANGED <<world, database>>

\* The insert, under the unique index on day and number.
StoreOrder(r) ==
    LET q == req[r] IN
    /\ At(r, "store")
    /\ orders' = IF \E o \in orders : o.day = q.day /\ o.number = q.number THEN orders
                 ELSE orders \cup {[day |-> q.day, number |-> q.number, status |-> "active"]}
    /\ Ends(r)
    /\ UNCHANGED <<world, day, pointer, drawers, lastAssigned>>

\* A hook between the number and the insert refuses the order.
RefuseOrder(r) ==
    /\ May("refuse")
    /\ At(r, "store")
    /\ Ends(r)
    /\ UNCHANGED <<world, database, lastAssigned>>

-----------------------------------------------------------------------------
\* What an operator does to a day.

\* openDay: no day may be open, no rest day; the date is the one of UTC.
OpenDay(r) ==
    /\ ComesIn(r, "open")
    /\ date \notin RestDays
    /\ \A d \in Days : ~Open(d)
    /\ \E today \in {date - 1, date} \cap Dates :
         req' = [req EXCEPT ![r] = [Idle EXCEPT !.at = "single?", !.kind = "open", !.today = today]]

\* closeDay and discardOrphanDay read the day they are asked for first.
ReadDay(r, kind) ==
    /\ kind \in {"close", "discard"}
    /\ ComesIn(r, kind)
    /\ \E d \in Days :
         /\ Open(d)
         /\ kind = "discard" => ~day[d].manual
         /\ req' = [req EXCEPT ![r] = [Idle EXCEPT !.kind = kind, !.day = d,
                                         !.at = IF kind = "close" THEN "closing" ELSE "current?"]]

\* closeDay writes the status without another look.
CloseDay(r) ==
    LET d == req[r].day IN
    /\ At(r, "closing")
    /\ IF Gone(d) THEN UNCHANGED day ELSE Set(d, "closing")
    /\ Ends(r)
    /\ UNCHANGED <<world, pointer, orders, drawers, lastAssigned>>

\* Mutant: the current day may be discarded.
CheckNotCurrent_skipped(r) ==
    /\ At(r, "current?")
    /\ Goes(r, "orders?")
    /\ UNCHANGED <<world, database, lastAssigned>>

\* discardOrphanDay: not the current day, unless the location cannot be read; no
\* orders, no cash sessions.
CheckNotCurrent(r) ==
    /\ At(r, "current?")
    /\ \/ pointer = req[r].day /\ Ends(r)
       \/ (pointer # req[r].day \/ May("blind")) /\ Goes(r, "orders?")
    /\ UNCHANGED <<world, database, lastAssigned>>

CheckNoOrders(r) ==
    /\ At(r, "orders?")
    /\ IF \E o \in orders : o.day = req[r].day THEN Ends(r) ELSE Goes(r, "drawers?")
    /\ UNCHANGED <<world, database, lastAssigned>>

CheckNoDrawers(r) ==
    /\ At(r, "drawers?")
    /\ IF req[r].day \in drawers THEN Ends(r) ELSE Goes(r, "remove")
    /\ UNCHANGED <<world, database, lastAssigned>>

RemoveDay(r) ==
    /\ At(r, "remove")
    /\ Set(req[r].day, "gone")
    /\ Ends(r)
    /\ UNCHANGED <<world, pointer, orders, drawers, lastAssigned>>

-----------------------------------------------------------------------------
\* Around the requests.

Patched(o, status) == orders' = (orders \ {o}) \cup {[o EXCEPT !.status = status]}

\* The kitchen takes an open order on, or gives it back; no status patch asks for
\* the day of the order.
Work(o) ==
    /\ May("overlap") \/ \A r \in Requests : At(r, "idle")
    /\ May("kitchen") /\ IsOpen(o)
    /\ Patched(o, IF o.status = "active" THEN "kitchen" ELSE "active")
    /\ UNCHANGED <<world, day, pointer, drawers, lastAssigned, req>>

\* An order is settled or cancelled.
Settle(o) ==
    /\ IsOpen(o)
    /\ Patched(o, "done")
    /\ UNCHANGED <<world, day, pointer, drawers, lastAssigned, req>>

\* A cash session is opened for a day the till sees as open; look and insert are
\* one step under the mutex of the service.
OpenDrawer(d) ==
    /\ May("discard")
    /\ May("overlap") \/ \A r \in Requests : At(r, "idle")
    /\ Open(d) /\ d \notin drawers
    /\ drawers' = drawers \cup {d}
    /\ UNCHANGED <<world, day, pointer, orders, lastAssigned, req>>

\* Midnight in the time zone of the location.  The last date stands for all later.
Midnight ==
    /\ date < MaxDate
    /\ date' = date + 1
    /\ UNCHANGED <<may, database, lastAssigned, req>>

\* Only the hours of the current day are ever asked for.
HoursPass ==
    /\ pointer # NoDay /\ ~Gone(pointer) /\ day[pointer].age < Overdue
    /\ day' = [day EXCEPT ![pointer].age = @ + 1]
    /\ UNCHANGED <<world, pointer, orders, drawers, lastAssigned, req>>

\* The process stops; what it remembers is lost with it.
Crash ==
    /\ May("crash")
    /\ \E r \in Requests : ~At(r, "idle")
    /\ req' = [r \in Requests |-> Idle]
    /\ lastAssigned' = [d \in Days |-> 0]
    /\ UNCHANGED <<world, database>>

-----------------------------------------------------------------------------
Look(r)   == LookForOrder(r) \/ LookForEnsure(r) \/ LookForApproval(r) \/ CheckActiveOrders(r)
Rotate(r) == FindOpenDays(r) \/ CloseNext(r) \/ CheckSingleOpen(r) \/ CreateDay(r) \/ PatchPointer(r)
Take(r)   == AssignNumber(r) \/ StoreOrder(r) \/ RefuseOrder(r)
Remove(r) == CheckNotCurrent(r) \/ CheckNoOrders(r) \/ CheckNoDrawers(r) \/ RemoveDay(r)

Proceed(r) == Look(r) \/ Rotate(r) \/ Stamp(r) \/ Take(r) \/ CloseDay(r) \/ Remove(r)

Begin(r) == \/ \E kind \in Kinds : ReadLocation(r, kind) \/ ReadDay(r, kind)
            \/ OpenDay(r)

Next ==
    \/ \E r \in Requests : Begin(r) \/ Proceed(r)
    \/ \E o \in orders : Work(o) \/ Settle(o)
    \/ \E d \in Days : OpenDrawer(d)
    \/ HoursPass
    \/ Midnight
    \/ Crash

Spec == Init /\ [][Next]_vars

\* The process works on, the nightly run comes again and again beside the other
\* requests, tabs are settled and time passes.  Nobody has to come to the till.
FairSpec ==
    /\ Spec
    /\ \A r \in Requests : WF_vars(Proceed(r))
    /\ SF_vars(\E r \in Requests : ReadLocation(r, "ensure"))
    /\ WF_vars(\E o \in orders : Settle(o))
    /\ WF_vars(HoursPass)

-----------------------------------------------------------------------------
Serial == ~May("overlap")

\* Two orders of one day never get the same number, also when they overlap, are
\* refused after the number was drawn, or the process restarts between the two:
\* an order on its way to the insert never meets its number there
\* (assignDailySequenceNumber, unique index of the migration 20261004100000).
NumbersUnique ==
    \A r \in Requests : At(r, "store") =>
        /\ \A o \in orders : o.day = req[r].day => o.number # req[r].number
        /\ \A q \in Requests \ {r} :
             At(q, "store") /\ req[q].day = req[r].day => req[q].number # req[r].number

\* With one request at a time the approval of a rest day ends on the day the next
\* orders go to, also when it has to rotate, is blocked by open tabs, or follows a
\* restart in the middle of a rotation (approveClosedDay, assertClosedDayApproved).
ApprovedDayTakesOrders ==
    Serial => \A r \in Requests : At(r, "stamp") => req[r].day = pointer /\ ~Gone(pointer)

\* With one request at a time only an empty day is discarded, and never the one the
\* location points to as long as the location can be read: that one could not be
\* rotated again, since closing it fails (discardOrphanDay, rotateBusinessDay).
DiscardSparesCurrent ==
    Serial => \A d \in Days : Gone(d) =>
        /\ d \notin drawers /\ \A o \in orders : o.day # d
        /\ pointer # d \/ May("blind")

\* With one request at a time a rotation that ends has healed the location: the
\* day it points to is the only open one, whatever drifted, was left behind by a
\* restart, or passed the blind guard before (rotateBusinessDay).
RotationHeals ==
    [][Serial => \A r \in Requests :
         PatchPointer(r) => {d \in Days : Open(d)} = {pointer'}]_vars

\* With one request at a time the location does not leave its day, and no rotation
\* closes it, while one of its orders is active.  That is all hasActiveOrders asks
\* for: tabs in the kitchen, and those of other open days, are left on closed days.
ActiveTabsKeepDay ==
    [][Serial => \A d \in Days : pointer = d /\ ActiveOrders(d) # {} =>
         /\ pointer' = d
         /\ day'[d].status = "closed" => day[d].status = "closed"]_vars

\* Liveness.  With one request at a time and no restart, the location leaves a day
\* of another date, with open tabs as well, unless it is a rest day or that day was
\* discarded (autoEnsureBusinessDay, restrictOrderToBusinessDay).
YesterdayEnds ==
    Serial /\ ~May("crash") =>
        \A d \in Days : (pointer = d /\ day[d].date # date)
                            ~> (pointer # d \/ day[d].date = date \/ date \in RestDays \/ Gone(d))
=============================================================================
