------------------------- MODULE BusinessDaysProofs -------------------------
(***************************************************************************)
(* Proofs about the business days, for any number of requests and days.    *)
(* Type correctness, and that no two orders of a day are on their way with *)
(* one number, hold with overlapping requests, refusals and restarts.      *)
(*                                                                         *)
(* What a request has found out is only true until another one writes, so  *)
(* the rest is about one request at a time (Serial), still with refusals   *)
(* and restarts: a rotation heals what has drifted, an approval ends on    *)
(* the day that takes orders, active tabs keep their day, and discarding   *)
(* spares the current day.  They share one invariant, SerialFacts.         *)
(***************************************************************************)
EXTENDS BusinessDays, TLAPS

\* A request that creates, numbers or stores has a day to do it for.
Placed(q) == q.at \in {"point", "number", "store"} => q.day \in Days

\* The number of an order on its way is remembered until the order is stored.
Remembered(q) == q.at = "store" => q.number <= lastAssigned[q.day]

Inv ==
    /\ TypeOK
    /\ \A r \in Requests : Placed(req[r]) /\ Remembered(req[r])
    /\ NumbersUnique

\* The day of a new installation, and the request that is not there.
LEMMA RecordsTyped == Unwritten \in DayRecords /\ Idle \in RequestRecords /\ 1 \in Dates
  BY DaysAssumption
  DEF Unwritten, DayRecords, Dates, Ages, Idle, RequestRecords, Steps, Kinds, Days, NoDay

\* The initial states satisfy the invariant.
LEMMA InitInv == Init => Inv
<1> SUFFICES ASSUME Init PROVE Inv
  OBVIOUS
<1>1. day \in [Days -> DayRecords]
  <2>1. PICK open \in SUBSET {d \in Days : d <= 2} :
          day = [d \in Days |-> IF d \in open THEN [Unwritten EXCEPT !.status = "open"]
                                ELSE IF d <= 2 /\ open # {} THEN [Unwritten EXCEPT !.status = "closed"]
                                ELSE Unwritten]
    BY DEF Init
  <2>2. /\ [Unwritten EXCEPT !.status = "open"] \in DayRecords
        /\ [Unwritten EXCEPT !.status = "closed"] \in DayRecords
    BY RecordsTyped DEF DayRecords
  <2> QED
    BY <2>1, <2>2, RecordsTyped
<1>2. orders \subseteq OrderRecords
  <2>1. PICK tabs \in SUBSET {d \in Days : May("tabs") /\ day[d].status # "none"} :
          orders = {[day |-> d, number |-> 1, status |-> "active"] : d \in tabs}
    BY DEF Init
  <2>2. \A d \in Days : [day |-> d, number |-> 1, status |-> "active"] \in OrderRecords
    BY DEF OrderRecords, OrderStatuses
  <2> QED
    BY <2>1, <2>2
<1>3. TypeOK
  BY <1>1, <1>2, RecordsTyped DEF Init, TypeOK
<1>4. \A r \in Requests : req[r].at = "idle"
  BY DEF Init, Idle
<1> QED
  BY <1>3, <1>4 DEF Inv, Placed, Remembered, NumbersUnique, At

\* What a step leaves typed besides the requests and the numbers.
RestTyped ==
    /\ may \in Mixes
    /\ date \in Dates
    /\ day \in [Days -> DayRecords]
    /\ pointer \in Days \cup {NoDay}
    /\ drawers \subseteq Days

\* A request goes on to a step other than the insert; numbers and orders stay.
LEMMA RequestKeeps ==
  ASSUME Inv, NEW r \in Requests, NEW new \in RequestRecords,
         new.at # "store", Placed(new),
         req' = [req EXCEPT ![r] = new],
         orders' = orders, lastAssigned' = lastAssigned, RestTyped'
  PROVE  Inv'
<1>1. \A q \in Requests : req'[q] = IF q = r THEN new ELSE req[q]
  BY DEF Inv, TypeOK
<1>2. TypeOK'
  BY DEF Inv, TypeOK, RestTyped
<1>3. \A q \in Requests : Placed(req'[q])
  BY <1>1 DEF Inv
<1>4. \A q \in Requests : req'[q].at = "store" => q # r /\ req'[q] = req[q]
  BY <1>1
<1>5. (\A q \in Requests : Remembered(req[q]))'
  BY <1>4 DEF Inv, Remembered
<1>6. NumbersUnique'
  BY <1>4 DEF Inv, NumbersUnique, At
<1> QED
  BY <1>2, <1>3, <1>5, <1>6 DEF Inv, Placed

\* Nothing but the rest changes.
LEMMA RestKeeps ==
  ASSUME Inv, UNCHANGED <<req, orders, lastAssigned>>, RestTyped'
  PROVE  Inv'
<1>1. TypeOK'
  BY DEF Inv, TypeOK, RestTyped
<1>2. NumbersUnique'
  BY DEF Inv, NumbersUnique, At
<1> QED
  BY <1>1, <1>2 DEF Inv, Placed, Remembered

\* The requests as the steps write them.
LEMMA GoesTyped ==
  ASSUME Inv, NEW r \in Requests, NEW step \in Steps, Goes(r, step)
  PROVE  /\ [req[r] EXCEPT !.at = step] \in RequestRecords
         /\ req' = [req EXCEPT ![r] = [req[r] EXCEPT !.at = step]]
  BY DEF Inv, TypeOK, Goes, RequestRecords

\* The same for a step that needs no day.
LEMMA StepKeeps ==
  ASSUME Inv, NEW r \in Requests, NEW new \in RequestRecords,
         new.at \notin {"point", "number", "store"},
         req' = [req EXCEPT ![r] = new],
         orders' = orders, lastAssigned' = lastAssigned, RestTyped'
  PROVE  Inv'
<1>1. Placed(new)
  BY DEF Placed
<1> QED
  BY <1>1, RequestKeeps

\* Reading and leaving keep the invariant.
LEMMA EndsKeeps ==
  ASSUME Inv, NEW r \in Requests, Ends(r), orders' = orders, lastAssigned' = lastAssigned, RestTyped'
  PROVE  Inv'
<1>1. Idle.at = "idle" /\ Placed(Idle)
  BY DEF Idle, Placed
<1> QED
  BY <1>1, RecordsTyped, RequestKeeps DEF Ends

LEMMA GoesKeeps ==
  ASSUME Inv, NEW r \in Requests, NEW step \in Steps \ {"point", "number", "store"},
         Goes(r, step), orders' = orders, lastAssigned' = lastAssigned, RestTyped'
  PROVE  Inv'
<1> DEFINE new == [req[r] EXCEPT !.at = step]
<1>1. new \in RequestRecords /\ req' = [req EXCEPT ![r] = new]
  BY GoesTyped
<1>2. new.at = step
  BY DEF Inv, TypeOK, RequestRecords
<1>3. new.at # "store" /\ Placed(new)
  BY <1>2 DEF Placed
<1> QED
  BY <1>1, <1>3, RequestKeeps

LEMMA HasDayKeeps ==
  ASSUME Inv, NEW r \in Requests, NEW d \in Days, NEW today \in Dates, HasDay(r, d, today),
         orders' = orders, lastAssigned' = lastAssigned, RestTyped'
  PROVE  Inv'
<1> DEFINE new == IF req[r].kind = "order"
                  THEN [Idle EXCEPT !.at = "number", !.kind = "order", !.day = d]
                  ELSE [Idle EXCEPT !.at = "stamp", !.kind = "approve", !.day = d, !.today = today]
<1>1. req' = [req EXCEPT ![r] = new]
  BY DEF HasDay
<1>2. new \in RequestRecords /\ new.at # "store" /\ new.day = d
  BY RecordsTyped DEF Idle, RequestRecords, Steps, Kinds
<1>3. Placed(new)
  BY <1>2 DEF Placed
<1> QED
  BY <1>1, <1>2, <1>3, RequestKeeps

\* Three steps that read: where the request was sent it has its day.
LEMMA LookKeeps ==
  ASSUME Inv, NEW r \in Requests, Look(r)
  PROVE  Inv'
<1>1. UNCHANGED <<world, database, lastAssigned>>
  BY DEF Look, LookForOrder, LookForEnsure, LookForApproval, CheckActiveOrders
<1>2. orders' = orders /\ lastAssigned' = lastAssigned /\ RestTyped'
  BY <1>1 DEF world, database, Inv, TypeOK, RestTyped
<1>3. req[r].today \in Dates /\ date \in Dates /\ req[r].seen \in Days \cup {NoDay}
  BY DEF Inv, TypeOK, RequestRecords
<1>4. CASE LookForOrder(r)
  <2> DEFINE d   == req[r].seen
             age == IF d = NoDay THEN 0 ELSE day[d].age
  <2>1. age \in Ages
    BY <1>3 DEF Inv, TypeOK, DayRecords, Ages
  <2>2. CASE req' = [req EXCEPT ![r].at = IF d = NoDay THEN "find" ELSE "blocked?", ![r].age = age]
    <3> DEFINE step == IF d = NoDay THEN "find" ELSE "blocked?"
               new  == [[req[r] EXCEPT !.at = step] EXCEPT !.age = age]
    <3>1. new \in RequestRecords /\ new.at \notin {"point", "number", "store"}
      BY <2>1 DEF Inv, TypeOK, RequestRecords, Steps
    <3>2. req' = [req EXCEPT ![r] = new]
      BY <2>2 DEF Inv, TypeOK, RequestRecords
    <3> HIDE DEF new
    <3> QED
      BY <1>2, <3>1, <3>2, StepKeeps
  <2>3. CASE Admits(d, age) /\ HasDay(r, d, date)
    <3>1. d \in Days
      BY <1>3, <2>3 DEF Admits
    <3> QED
      BY <1>2, <1>3, <2>3, <3>1, HasDayKeeps
  <2>4. CASE Ends(r)
    BY <1>2, <2>4, EndsKeeps
  <2> QED
    BY <1>4, <2>2, <2>3, <2>4 DEF LookForOrder
<1>5. CASE LookForEnsure(r)
  <2>1. CASE Goes(r, "find")
    BY <1>2, <2>1, GoesKeeps DEF Steps
  <2>2. CASE Goes(r, "blocked?")
    BY <1>2, <2>2, GoesKeeps DEF Steps
  <2>3. CASE Ends(r)
    BY <1>2, <2>3, EndsKeeps
  <2> QED
    BY <1>5, <2>1, <2>2, <2>3 DEF LookForEnsure
<1>6. CASE LookForApproval(r)
  <2> DEFINE d == req[r].seen
  <2>1. CASE req' = [req EXCEPT ![r].today = date, ![r].at = IF d = NoDay THEN "find" ELSE "blocked?"]
    <3> DEFINE step == IF d = NoDay THEN "find" ELSE "blocked?"
               new  == [[req[r] EXCEPT !.today = date] EXCEPT !.at = step]
    <3>1. new \in RequestRecords /\ new.at \notin {"point", "number", "store"}
      BY <1>3 DEF Inv, TypeOK, RequestRecords, Steps
    <3>2. req' = [req EXCEPT ![r] = new]
      BY <2>1 DEF Inv, TypeOK, RequestRecords
    <3> HIDE DEF new
    <3> QED
      BY <1>2, <3>1, <3>2, StepKeeps
  <2>2. CASE ~Stale(d, date) /\ HasDay(r, d, date)
    <3>1. d \in Days
      BY <1>3, <2>2 DEF Stale
    <3> QED
      BY <1>2, <1>3, <2>2, <3>1, HasDayKeeps
  <2>3. CASE Ends(r)
    BY <1>2, <2>3, EndsKeeps
  <2> QED
    BY <1>6, <2>1, <2>2, <2>3 DEF LookForApproval
<1>7. CASE CheckActiveOrders(r)
  <2> DEFINE d == req[r].seen
  <2>1. CASE Goes(r, "find")
    BY <1>2, <2>1, GoesKeeps DEF Steps
  <2>2. CASE ActiveOrders(d) # {} /\ HasDay(r, d, req[r].today)
    <3>1. PICK o \in orders : o.day = d
      BY <2>2 DEF ActiveOrders
    <3>2. d \in Days
      BY <3>1 DEF Inv, TypeOK, OrderRecords
    <3> QED
      BY <1>2, <1>3, <2>2, <3>2, HasDayKeeps
  <2>3. CASE Ends(r)
    BY <1>2, <2>3, EndsKeeps
  <2> QED
    BY <1>7, <2>1, <2>2, <2>3 DEF CheckActiveOrders
<1> QED
  BY <1>4, <1>5, <1>6, <1>7 DEF Look

\* A new day takes an id no request is busy with, so that no number on its way
\* is forgotten.
LEMMA CreateKeeps ==
  ASSUME Inv, NEW r \in Requests, CreateDay(r)
  PROVE  Inv'
<1>1. PICK d \in Days :
        /\ Free(d)
        /\ day' = [day EXCEPT ![d] = [Unwritten EXCEPT !.status = "open", !.date = req[r].today,
                                                        !.manual = (req[r].kind = "open")]]
        /\ orders' = {o \in orders : o.day # d}
        /\ drawers' = drawers \ {d}
        /\ lastAssigned' = [lastAssigned EXCEPT ![d] = 0]
        /\ IF req[r].kind = "open" THEN Ends(r)
           ELSE req' = [req EXCEPT ![r].at = "point", ![r].day = d]
  BY DEF CreateDay
<1>2. PICK new \in RequestRecords :
        new.at # "store" /\ Placed(new) /\ req' = [req EXCEPT ![r] = new]
  <2>1. CASE Ends(r)
    BY <2>1, RecordsTyped DEF Ends, Placed, Idle
  <2>2. CASE req' = [req EXCEPT ![r].at = "point", ![r].day = d]
    <3> DEFINE new == [[req[r] EXCEPT !.at = "point"] EXCEPT !.day = d]
    <3>1. new \in RequestRecords /\ new.at = "point" /\ new.day = d
      BY DEF Inv, TypeOK, RequestRecords, Steps
    <3>2. req' = [req EXCEPT ![r] = new]
      BY <2>2 DEF Inv, TypeOK, RequestRecords
    <3>3. Placed(new)
      BY <3>1 DEF Placed
    <3> HIDE DEF new
    <3> QED
      BY <3>1, <3>2, <3>3
  <2> QED
    BY <1>1, <2>1, <2>2
<1>3. \A q \in Requests : req'[q] = IF q = r THEN new ELSE req[q]
  BY <1>2 DEF Inv, TypeOK
<1>4. \A q \in Requests : req'[q].at = "store" => q # r /\ req'[q] = req[q] /\ req[q].day # d
  BY <1>1, <1>2, <1>3 DEF Free
<1>5. TypeOK'
  <2>1. [Unwritten EXCEPT !.status = "open", !.date = req[r].today,
                          !.manual = (req[r].kind = "open")] \in DayRecords
    <3>1. req[r].today \in Dates /\ (req[r].kind = "open") \in BOOLEAN
      BY DEF Inv, TypeOK, RequestRecords
    <3> QED
      BY <3>1, RecordsTyped DEF DayRecords
  <2>2. day' \in [Days -> DayRecords]
    BY <1>1, <2>1 DEF Inv, TypeOK
  <2>3. /\ orders' \subseteq OrderRecords
        /\ drawers' \subseteq Days
        /\ lastAssigned' \in [Days -> Nat]
        /\ req' \in [Requests -> RequestRecords]
    BY <1>1, <1>2 DEF Inv, TypeOK
  <2>4. may' = may /\ date' = date /\ pointer' = pointer
    BY DEF CreateDay, world
  <2> QED
    BY <2>2, <2>3, <2>4 DEF Inv, TypeOK
<1>6. \A q \in Requests : Placed(req'[q])
  BY <1>2, <1>3 DEF Inv
<1>7. (\A q \in Requests : Remembered(req[q]))'
  <2> SUFFICES ASSUME NEW q \in Requests, req'[q].at = "store"
               PROVE  req'[q].number <= lastAssigned'[req'[q].day]
    BY DEF Remembered
  <2>1. req'[q] = req[q] /\ req[q].day \in Days \ {d}
    BY <1>4 DEF Inv, Placed
  <2>2. lastAssigned'[req[q].day] = lastAssigned[req[q].day]
    BY <1>1, <2>1 DEF Inv, TypeOK
  <2> QED
    BY <2>1, <2>2 DEF Inv, Remembered
<1>8. NumbersUnique'
  BY <1>1, <1>4 DEF Inv, NumbersUnique, At
<1> QED
  BY <1>5, <1>6, <1>7, <1>8 DEF Inv, Placed

\* Closing, creating and pointing.
LEMMA RotateKeeps ==
  ASSUME Inv, NEW r \in Requests, Rotate(r)
  PROVE  Inv'
<1>1. CASE FindOpenDays(r)
  <2> DEFINE rest == {d \in Days : Open(d)} \cup ({req[r].seen} \ {NoDay})
             step == IF rest = {} THEN "single?" ELSE "close"
             mid  == [[req[r] EXCEPT !.rest = rest] EXCEPT !.seen = NoDay]
             late == [mid EXCEPT !.age = 0]
             new  == [late EXCEPT !.at = step]
  <2>1. rest \subseteq Days
    BY DEF Inv, TypeOK, RequestRecords
  <2>2. step \in Steps /\ step \notin {"point", "number", "store"}
    BY DEF Steps
  <2>3. mid \in RequestRecords
    BY <2>1 DEF Inv, TypeOK, RequestRecords
  <2>4. late \in RequestRecords
    <3> HIDE DEF mid
    <3> QED
      BY <2>3 DEF RequestRecords, Ages
  <2>5. new \in RequestRecords /\ new.at \notin {"point", "number", "store"}
    <3> HIDE DEF late, step
    <3> QED
      BY <2>2, <2>4 DEF RequestRecords
  <2>6. req' = [req EXCEPT ![r] = new]
    BY <1>1 DEF FindOpenDays, Inv, TypeOK, RequestRecords
  <2>7. orders' = orders /\ lastAssigned' = lastAssigned /\ RestTyped'
    BY <1>1 DEF FindOpenDays, world, database, Inv, TypeOK, RestTyped
  <2> HIDE DEF new
  <2> QED
    BY <2>5, <2>6, <2>7, StepKeeps
<1>2. CASE CloseNext(r)
  <2>1. PICK d \in req[r].rest :
         \/ /\ Set(d, "closed")
            /\ req' = [req EXCEPT ![r].rest = @ \ {d},
                                  ![r].at = IF req[r].rest = {d} THEN "single?" ELSE "close"]
         \/ Ends(r) /\ UNCHANGED day
    BY <1>2 DEF CloseNext
  <2>2. d \in Days
    BY DEF Inv, TypeOK, RequestRecords
  <2>3. CASE Ends(r) /\ UNCHANGED day
    <3>1. orders' = orders /\ lastAssigned' = lastAssigned /\ RestTyped'
      BY <1>2, <2>3 DEF CloseNext, world, Inv, TypeOK, RestTyped
    <3> QED
      BY <2>3, <3>1, EndsKeeps
  <2>4. CASE /\ Set(d, "closed")
             /\ req' = [req EXCEPT ![r].rest = @ \ {d},
                                   ![r].at = IF req[r].rest = {d} THEN "single?" ELSE "close"]
    <3> DEFINE step == IF req[r].rest = {d} THEN "single?" ELSE "close"
               new  == [[req[r] EXCEPT !.rest = @ \ {d}] EXCEPT !.at = step]
    <3>1. new \in RequestRecords /\ new.at \notin {"point", "number", "store"}
      BY DEF Inv, TypeOK, RequestRecords, Steps
    <3>2. req' = [req EXCEPT ![r] = new]
      BY <2>4 DEF Inv, TypeOK, RequestRecords
    <3>3. day' \in [Days -> DayRecords]
      BY <2>2, <2>4 DEF Set, Inv, TypeOK, DayRecords
    <3>4. orders' = orders /\ lastAssigned' = lastAssigned /\ RestTyped'
      BY <1>2, <3>3 DEF CloseNext, world, Inv, TypeOK, RestTyped
    <3> HIDE DEF new
    <3> QED
      BY <3>1, <3>2, <3>4, StepKeeps
  <2> QED
    BY <2>1, <2>3, <2>4
<1>3. CASE CheckSingleOpen(r)
  <2>1. orders' = orders /\ lastAssigned' = lastAssigned /\ RestTyped'
    BY <1>3 DEF CheckSingleOpen, world, database, Inv, TypeOK, RestTyped
  <2>2. Goes(r, "create") \/ Ends(r)
    BY <1>3 DEF CheckSingleOpen
  <2> QED
    BY <2>1, <2>2, GoesKeeps, EndsKeeps DEF Steps
<1>4. CASE PatchPointer(r)
  <2>1. req[r].day \in Days /\ req[r].today \in Dates
    BY <1>4 DEF PatchPointer, At, Inv, TypeOK, Placed, RequestRecords
  <2>2. orders' = orders /\ lastAssigned' = lastAssigned /\ RestTyped'
    BY <1>4, <2>1 DEF PatchPointer, world, Inv, TypeOK, RestTyped
  <2>3. Ends(r) \/ HasDay(r, req[r].day, req[r].today)
    BY <1>4 DEF PatchPointer
  <2> QED
    BY <2>1, <2>2, <2>3, EndsKeeps, HasDayKeeps
<1>5. CASE CreateDay(r)
  BY <1>5, CreateKeeps
<1> QED
  BY <1>1, <1>2, <1>3, <1>4, <1>5 DEF Rotate

\* The number of an order, its insert, and its refusal.
LEMMA TakeKeeps ==
  ASSUME Inv, NEW r \in Requests, Take(r)
  PROVE  Inv'
<1>1. CASE AssignNumber(r)
  <2> DEFINE d == req[r].day
  <2>1. PICK n \in 1..MaxNumber :
          /\ NextNumber(d, n)
          /\ lastAssigned' = [lastAssigned EXCEPT ![d] = n]
          /\ req' = [req EXCEPT ![r].at = "store", ![r].number = n]
    BY <1>1 DEF AssignNumber
  <2>2. d \in Days
    BY <1>1 DEF AssignNumber, At, Inv, Placed
  <2>3. n \in Nat /\ lastAssigned[d] < n
    BY <2>1 DEF NextNumber
  <2>4. \A o \in orders : o.day = d => o.number < n
    BY <2>1 DEF NextNumber
  <2> DEFINE new == [[req[r] EXCEPT !.at = "store"] EXCEPT !.number = n]
  <2>5. new \in RequestRecords /\ new.at = "store" /\ new.day = d /\ new.number = n
    BY <2>3 DEF Inv, TypeOK, RequestRecords, Steps
  <2>6. \A q \in Requests : req'[q] = IF q = r THEN new ELSE req[q]
    BY <2>1 DEF Inv, TypeOK, RequestRecords
  <2>7. UNCHANGED <<may, date, day, pointer, orders, drawers>>
    BY <1>1 DEF AssignNumber, world, database
  <2> HIDE DEF new
  <2>8. TypeOK'
    <3>1. req' \in [Requests -> RequestRecords]
      BY <2>1, <2>5, <2>6 DEF Inv, TypeOK
    <3>2. lastAssigned' \in [Days -> Nat]
      BY <2>1, <2>3 DEF Inv, TypeOK
    <3> QED
      BY <2>7, <3>1, <3>2 DEF Inv, TypeOK
  <2>9. \A q \in Requests : Placed(req'[q])
    BY <2>2, <2>5, <2>6 DEF Inv, Placed
  <2>10. \A e \in Days : lastAssigned'[e] = IF e = d THEN n ELSE lastAssigned[e]
    BY <2>1 DEF Inv, TypeOK
  <2>11. \A q \in Requests \ {r} :
           req[q].at = "store" =>
             /\ req[q].day \in Days /\ req[q].number \in Nat
             /\ req[q].number <= lastAssigned[req[q].day]
    BY DEF Inv, Placed, Remembered, TypeOK, RequestRecords
  <2>12. (\A q \in Requests : Remembered(req[q]))'
    <3> SUFFICES ASSUME NEW q \in Requests, req'[q].at = "store"
                 PROVE  req'[q].number <= lastAssigned'[req'[q].day]
      BY DEF Remembered
    <3>1. CASE q = r
      BY <2>2, <2>3, <2>5, <2>6, <2>10, <3>1
    <3>2. CASE q # r
      <4>1. req'[q] = req[q] /\ lastAssigned[req[q].day] \in Nat
        BY <2>6, <2>11, <3>2 DEF Inv, TypeOK
      <4> QED
        BY <2>3, <2>10, <2>11, <3>2, <4>1
    <3> QED
      BY <3>1, <3>2
  <2>13. \A q \in Requests \ {r} :
           req[q].at = "store" /\ req[q].day = d => req[q].number < n
    BY <2>2, <2>3, <2>11 DEF Inv, TypeOK
  <2>14. NumbersUnique'
    <3>1. \A q \in Requests \ {r} : req[q].at = "store" => req[q].number \in Nat
      BY <2>11
    <3>2. \A o \in orders : o.number \in Nat
      BY DEF Inv, TypeOK, OrderRecords
    <3> SUFFICES ASSUME NEW q \in Requests, req'[q].at = "store"
                 PROVE  /\ \A o \in orders : o.day = req'[q].day => o.number # req'[q].number
                        /\ \A p \in Requests \ {q} :
                             req'[p].at = "store" /\ req'[p].day = req'[q].day
                                => req'[p].number # req'[q].number
      BY <2>7 DEF NumbersUnique, At
    <3>3. CASE q = r
      BY <2>3, <2>4, <2>5, <2>6, <2>13, <3>1, <3>2, <3>3
    <3>4. CASE q # r
      <4>1. req'[q] = req[q]
        BY <2>6, <3>4
      <4>2. \A o \in orders : o.day = req[q].day => o.number # req[q].number
        BY <4>1 DEF Inv, NumbersUnique, At
      <4>3. \A p \in Requests \ {q} :
              req'[p].at = "store" /\ req'[p].day = req[q].day => req'[p].number # req[q].number
        <5> SUFFICES ASSUME NEW p \in Requests \ {q}, req'[p].at = "store", req'[p].day = req[q].day
                     PROVE  req'[p].number # req[q].number
          OBVIOUS
        <5>1. CASE p = r
          BY <2>3, <2>5, <2>6, <2>13, <3>1, <3>4, <4>1, <5>1
        <5>2. CASE p # r
          BY <2>6, <4>1, <5>2 DEF Inv, NumbersUnique, At
        <5> QED
          BY <5>1, <5>2
      <4> QED
        BY <4>1, <4>2, <4>3
    <3> QED
      BY <3>3, <3>4
  <2> QED
    BY <2>8, <2>9, <2>12, <2>14 DEF Inv, Placed
<1>2. CASE StoreOrder(r)
  <2> DEFINE new == [day |-> req[r].day, number |-> req[r].number, status |-> "active"]
  <2>1. \A q \in Requests : req'[q] = IF q = r THEN Idle ELSE req[q]
    BY <1>2 DEF StoreOrder, Ends, Inv, TypeOK
  <2>2. orders' \subseteq orders \cup {new}
    BY <1>2 DEF StoreOrder
  <2>3. UNCHANGED <<may, date, day, pointer, drawers, lastAssigned>>
    BY <1>2 DEF StoreOrder, world
  <2>4. req[r].at = "store" /\ req[r].day \in Days /\ req[r].number \in Nat
    BY <1>2 DEF StoreOrder, At, Inv, Placed, TypeOK, RequestRecords
  <2>5. TypeOK'
    <3>1. req' \in [Requests -> RequestRecords]
      BY <1>2, RecordsTyped DEF StoreOrder, Ends, Inv, TypeOK
    <3>2. new \in OrderRecords
      BY <2>4 DEF OrderRecords, OrderStatuses
    <3>3. orders' \subseteq OrderRecords
      <4> HIDE DEF new
      <4> QED
        BY <2>2, <3>2 DEF Inv, TypeOK
    <3> QED
      BY <2>3, <3>1, <3>3 DEF Inv, TypeOK
  <2>6. \A q \in Requests : req'[q].at = "store" => q # r /\ req'[q] = req[q]
    BY <2>1 DEF Idle
  <2>7. \A q \in Requests : Placed(req'[q])
    BY <2>1 DEF Inv, Placed, Idle
  <2>8. (\A q \in Requests : Remembered(req[q]))'
    BY <2>3, <2>6 DEF Inv, Remembered
  <2>9. NumbersUnique'
    BY <2>2, <2>4, <2>6 DEF Inv, NumbersUnique, At
  <2> QED
    BY <2>5, <2>7, <2>8, <2>9 DEF Inv, Placed
<1>3. CASE RefuseOrder(r)
  <2>1. orders' = orders /\ lastAssigned' = lastAssigned /\ RestTyped'
    BY <1>3 DEF RefuseOrder, world, database, Inv, TypeOK, RestTyped
  <2> QED
    BY <1>3, <2>1, EndsKeeps DEF RefuseOrder
<1> QED
  BY <1>1, <1>2, <1>3 DEF Take

\* The approval's stamp, closing a day, and discarding one.
LEMMA OperatorKeeps ==
  ASSUME Inv, NEW r \in Requests, Stamp(r) \/ CloseDay(r) \/ Remove(r)
  PROVE  Inv'
<1>1. req[r].day \in Days \cup {NoDay} /\ req[r].today \in Dates
  BY DEF Inv, TypeOK, RequestRecords
<1>2. CASE Stamp(r)
  <2>1. day' \in [Days -> DayRecords]
    BY <1>1, <1>2 DEF Stamp, Inv, TypeOK, DayRecords
  <2>2. orders' = orders /\ lastAssigned' = lastAssigned /\ RestTyped'
    BY <1>2, <2>1 DEF Stamp, world, Inv, TypeOK, RestTyped
  <2> QED
    BY <1>2, <2>2, EndsKeeps DEF Stamp
<1>3. CASE CloseDay(r)
  <2>1. day' \in [Days -> DayRecords]
    BY <1>3 DEF CloseDay, Set, Inv, TypeOK, DayRecords
  <2>2. orders' = orders /\ lastAssigned' = lastAssigned /\ RestTyped'
    BY <1>3, <2>1 DEF CloseDay, world, Inv, TypeOK, RestTyped
  <2> QED
    BY <1>3, <2>2, EndsKeeps DEF CloseDay
<1>4. CASE RemoveDay(r)
  <2>1. day' \in [Days -> DayRecords]
    BY <1>4 DEF RemoveDay, Set, Inv, TypeOK, DayRecords
  <2>2. orders' = orders /\ lastAssigned' = lastAssigned /\ RestTyped'
    BY <1>4, <2>1 DEF RemoveDay, world, Inv, TypeOK, RestTyped
  <2> QED
    BY <1>4, <2>2, EndsKeeps DEF RemoveDay
<1>5. CASE CheckNotCurrent(r) \/ CheckNoOrders(r) \/ CheckNoDrawers(r)
  <2>1. UNCHANGED <<world, database, lastAssigned>>
    BY <1>5 DEF CheckNotCurrent, CheckNoOrders, CheckNoDrawers
  <2>2. orders' = orders /\ lastAssigned' = lastAssigned /\ RestTyped'
    BY <2>1 DEF world, database, Inv, TypeOK, RestTyped
  <2>3. Ends(r) \/ \E step \in {"orders?", "drawers?", "remove"} : Goes(r, step)
    BY <1>5 DEF CheckNotCurrent, CheckNoOrders, CheckNoDrawers
  <2>4. {"orders?", "drawers?", "remove"} \subseteq Steps \ {"point", "number", "store"}
    BY DEF Steps
  <2> QED
    BY <2>2, <2>3, <2>4, EndsKeeps, GoesKeeps
<1> QED
  BY <1>2, <1>3, <1>4, <1>5 DEF Remove

\* A request comes in.
LEMMA BeginKeeps ==
  ASSUME Inv, NEW r \in Requests, Begin(r)
  PROVE  Inv'
<1>1. UNCHANGED <<world, database, lastAssigned>>
  BY DEF Begin, ReadLocation, ReadDay, OpenDay, ComesIn
<1>2. orders' = orders /\ lastAssigned' = lastAssigned /\ RestTyped'
  BY <1>1 DEF world, database, Inv, TypeOK, RestTyped
<1>3. PICK new \in RequestRecords :
        new.at \notin {"point", "number", "store"} /\ req' = [req EXCEPT ![r] = new]
  <2>1. pointer \in Days \cup {NoDay} /\ date \in Dates
    BY DEF Inv, TypeOK
  <2>2. CASE \E kind \in Kinds : ReadLocation(r, kind)
    <3>1. PICK kind \in Kinds : ReadLocation(r, kind)
      BY <2>2
    <3> DEFINE new == [Idle EXCEPT !.at = "look", !.kind = kind, !.seen = pointer, !.today = date]
    <3>2. new \in RequestRecords /\ new.at = "look"
      BY <2>1, RecordsTyped DEF Idle, RequestRecords, Steps
    <3>3. req' = [req EXCEPT ![r] = new]
      BY <3>1 DEF ReadLocation
    <3> HIDE DEF new
    <3> QED
      BY <3>2, <3>3
  <2>3. CASE \E kind \in Kinds : ReadDay(r, kind)
    <3>1. PICK kind \in Kinds : ReadDay(r, kind)
      BY <2>3
    <3>2. PICK d \in Days :
            req' = [req EXCEPT ![r] = [Idle EXCEPT !.kind = kind, !.day = d,
                                        !.at = IF kind = "close" THEN "closing" ELSE "current?"]]
      BY <3>1 DEF ReadDay
    <3> DEFINE step == IF kind = "close" THEN "closing" ELSE "current?"
               new  == [Idle EXCEPT !.kind = kind, !.day = d, !.at = step]
    <3>3. step \in Steps /\ step \notin {"point", "number", "store"}
      BY DEF Steps
    <3>4. new \in RequestRecords /\ new.at = step
      <4> HIDE DEF step
      <4> QED
        BY <3>3, RecordsTyped DEF Idle, RequestRecords
    <3>5. req' = [req EXCEPT ![r] = new]
      BY <3>2
    <3> HIDE DEF new, step
    <3> QED
      BY <3>3, <3>4, <3>5
  <2>4. CASE OpenDay(r)
    <3>1. PICK today \in Dates :
            req' = [req EXCEPT ![r] = [Idle EXCEPT !.at = "single?", !.kind = "open", !.today = today]]
      BY <2>4 DEF OpenDay
    <3> DEFINE new == [Idle EXCEPT !.at = "single?", !.kind = "open", !.today = today]
    <3>2. new \in RequestRecords /\ new.at = "single?"
      BY RecordsTyped DEF Idle, RequestRecords, Steps, Kinds
    <3>3. req' = [req EXCEPT ![r] = new]
      BY <3>1
    <3> HIDE DEF new
    <3> QED
      BY <3>2, <3>3
  <2> QED
    BY <2>2, <2>3, <2>4 DEF Begin
<1> QED
  BY <1>2, <1>3, StepKeeps

\* An order changes its status: it keeps its day and its number.
LEMMA PatchedOrder ==
  ASSUME Inv, NEW o \in orders, NEW status \in OrderStatuses, Patched(o, status)
  PROVE  /\ orders' \subseteq OrderRecords
         /\ \A x \in orders' : \E y \in orders :
              /\ x.day = y.day /\ x.number = y.number
              /\ x.status = y.status \/ x.status = status
<1> DEFINE new == [o EXCEPT !.status = status]
<1>1. o \in OrderRecords
  BY DEF Inv, TypeOK
<1>2. new \in OrderRecords /\ new.day = o.day /\ new.number = o.number /\ new.status = status
  BY <1>1 DEF OrderRecords
<1>3. orders' = (orders \ {o}) \cup {new}
  BY DEF Patched
<1> HIDE DEF new
<1> QED
  BY <1>2, <1>3 DEF Inv, TypeOK

\* The status an order has after it was worked on or settled.
LEMMA OrderPatches ==
  ASSUME Inv, NEW o \in orders, Work(o) \/ Settle(o)
  PROVE  /\ \E status \in OrderStatuses : Patched(o, status)
         /\ UNCHANGED <<may, date, day, pointer, drawers, lastAssigned, req>>
  BY DEF Work, Settle, world, OrderStatuses

\* An order is worked on or settled.
LEMMA PatchKeeps ==
  ASSUME Inv, NEW o \in orders, Work(o) \/ Settle(o)
  PROVE  Inv'
<1>1. /\ orders' \subseteq OrderRecords
      /\ \A x \in orders' : \E y \in orders : x.day = y.day /\ x.number = y.number
      /\ UNCHANGED <<may, date, day, pointer, drawers, lastAssigned, req>>
  BY OrderPatches, PatchedOrder
<1>2. TypeOK'
  BY <1>1 DEF Inv, TypeOK
<1>3. NumbersUnique'
  BY <1>1 DEF Inv, NumbersUnique, At
<1> QED
  BY <1>1, <1>2, <1>3 DEF Inv, Placed, Remembered

\* What happens around the requests.
LEMMA AroundKeeps ==
  ASSUME Inv, (\E d \in Days : OpenDrawer(d)) \/ HoursPass \/ Midnight \/ Crash
  PROVE  Inv'
<1>1. CASE \E d \in Days : OpenDrawer(d)
  <2>1. UNCHANGED <<req, orders, lastAssigned>> /\ RestTyped'
    BY <1>1 DEF OpenDrawer, world, Inv, TypeOK, RestTyped
  <2> QED
    BY <2>1, RestKeeps
<1>2. CASE HoursPass
  <2>1. day[pointer] \in DayRecords /\ day[pointer].age + 1 \in Ages
    BY <1>2 DEF HoursPass, Inv, TypeOK, DayRecords, Ages, Overdue, NoDay
  <2>2. day' \in [Days -> DayRecords]
    BY <1>2, <2>1 DEF HoursPass, Inv, TypeOK, DayRecords
  <2>3. UNCHANGED <<req, orders, lastAssigned>> /\ RestTyped'
    BY <1>2, <2>2 DEF HoursPass, world, Inv, TypeOK, RestTyped
  <2> QED
    BY <2>3, RestKeeps
<1>3. CASE Midnight
  <2>1. date' \in Dates
    BY <1>3, DaysAssumption DEF Midnight, Inv, TypeOK, Dates
  <2>2. UNCHANGED <<req, orders, lastAssigned>> /\ RestTyped'
    BY <1>3, <2>1 DEF Midnight, database, Inv, TypeOK, RestTyped
  <2> QED
    BY <2>2, RestKeeps
<1>4. CASE Crash
  <2>1. \A r \in Requests : req'[r] = Idle
    BY <1>4 DEF Crash
  <2>2. TypeOK'
    <3>1. UNCHANGED <<may, date, day, pointer, orders, drawers>>
      BY <1>4 DEF Crash, world, database
    <3>2. lastAssigned' \in [Days -> Nat] /\ req' \in [Requests -> RequestRecords]
      BY <1>4, RecordsTyped DEF Crash
    <3> QED
      BY <3>1, <3>2 DEF Inv, TypeOK
  <2> QED
    BY <2>1, <2>2 DEF Inv, Placed, Remembered, NumbersUnique, At, Idle
<1> QED
  BY <1>1, <1>2, <1>3, <1>4

\* Every step keeps the invariant.
LEMMA StepsKeep == Inv /\ [Next]_vars => Inv'
<1> SUFFICES ASSUME Inv, [Next]_vars PROVE Inv'
  OBVIOUS
<1>1. ASSUME NEW r \in Requests, Begin(r) \/ Proceed(r) PROVE Inv'
  BY <1>1, BeginKeeps, LookKeeps, RotateKeeps, TakeKeeps, OperatorKeeps DEF Proceed
<1>2. ASSUME NEW o \in orders, Work(o) \/ Settle(o) PROVE Inv'
  BY <1>2, PatchKeeps
<1>3. CASE (\E d \in Days : OpenDrawer(d)) \/ HoursPass \/ Midnight \/ Crash
  BY <1>3, AroundKeeps
<1>4. CASE UNCHANGED vars
  <2>1. UNCHANGED <<req, orders, lastAssigned>> /\ RestTyped'
    BY <1>4 DEF vars, Inv, TypeOK, RestTyped
  <2> QED
    BY <2>1, RestKeeps
<1> QED
  BY <1>1, <1>2, <1>3, <1>4 DEF Next

\* The invariant holds of every reachable state.
THEOREM Inductive == Spec => []Inv
<1>1. Init => Inv
  BY InitInv
<1>2. Inv /\ [Next]_vars => Inv'
  BY StepsKeep
<1> QED
  BY <1>1, <1>2, PTL DEF Spec

\* The state of the business days has its type (all of BusinessDays).
THEOREM DaysTypeCorrect == Spec => []TypeOK
<1>1. Inv => TypeOK
  BY DEF Inv
<1> QED
  BY <1>1, Inductive, PTL

\* No two orders of a day get one number, whatever overlaps, is refused or stops
\* in between (assignDailySequenceNumber).
THEOREM NumbersSafe == Spec => []NumbersUnique
<1>1. Inv => NumbersUnique
  BY DEF Inv
<1> QED
  BY <1>1, Inductive, PTL
-----------------------------------------------------------------------------
(* One request at a time *)

\* No two requests are at work.
Lone == \A r, q \in Requests : ~At(r, "idle") /\ ~At(q, "idle") => r = q

OpenDays == {d \in Days : Open(d)}

\* No order of the current day is active.
Quiet == ActiveOrders(pointer) = {}

\* Not the current day, as far as discardOrphanDay can tell.
Spared(d) == pointer # d \/ May("blind")

\* What the request r has found out still holds when it acts on it.
CallFacts(r) ==
    LET q == req[r] IN
    /\ q.at \in {"look", "blocked?"} => q.seen = pointer
    /\ q.at \in {"stamp", "number", "store"} => q.day = pointer /\ ~Gone(q.day)
    /\ q.at \in {"find", "close", "point"} => Quiet
    /\ q.at \in {"single?", "create"} => OpenDays = {} /\ (q.kind = "open" \/ Quiet)
    /\ q.at = "close" => OpenDays \subseteq q.rest
    /\ q.at = "point" => OpenDays = {q.day}
    /\ q.at \in {"orders?", "drawers?", "remove"} => Spared(q.day)
    /\ q.at \in {"drawers?", "remove"} => \A o \in orders : o.day # q.day
    /\ q.at = "remove" => q.day \notin drawers

\* What discardOrphanDay leaves behind.
GoneIsEmpty ==
    \A d \in Days : Gone(d) => Spared(d) /\ d \notin drawers /\ \A o \in orders : o.day # d

SerialFacts == Lone /\ GoneIsEmpty /\ \A r \in Requests : CallFacts(r)

\* A step of the only request keeps the facts if it keeps those about the tables
\* and its own.
LEMMA LoneKeeps ==
  ASSUME SerialFacts, NEW r \in Requests, ~At(r, "idle"),
         \A q \in Requests : q # r => req'[q] = req[q],
         CallFacts(r)', GoneIsEmpty'
  PROVE  SerialFacts'
<1>1. \A q \in Requests : q # r => req'[q].at = "idle"
  BY DEF SerialFacts, Lone, At
<1>2. Lone'
  BY <1>1 DEF Lone, At
<1>3. \A q \in Requests : q # r => CallFacts(q)'
  BY <1>1 DEF CallFacts
<1> QED
  BY <1>2, <1>3 DEF SerialFacts

\* The call of r is over.
LEMMA EndsAlone ==
  ASSUME Inv, SerialFacts, NEW r \in Requests, ~At(r, "idle"), Ends(r), GoneIsEmpty'
  PROVE  SerialFacts'
<1>1. \A q \in Requests : req'[q] = IF q = r THEN Idle ELSE req[q]
  BY DEF Ends, Inv, TypeOK
<1>2. CallFacts(r)'
  BY <1>1 DEF CallFacts, Idle
<1> QED
  BY <1>1, <1>2, LoneKeeps

\* A step that writes nothing keeps what is known about the tables.
LEMMA TablesStay ==
  ASSUME SerialFacts, UNCHANGED <<may, database>>
  PROVE  GoneIsEmpty' /\ Quiet' = Quiet /\ OpenDays' = OpenDays
  BY DEF SerialFacts, database, GoneIsEmpty, Gone, Spared, May, Quiet, ActiveOrders, OpenDays, Open

\* A request that has its day, the one of the pointer.
LEMMA HasDayAlone ==
  ASSUME Inv, SerialFacts, NEW r \in Requests, ~At(r, "idle"), NEW d, NEW today, HasDay(r, d, today),
         d = pointer', ~Gone(pointer)', GoneIsEmpty'
  PROVE  SerialFacts'
<1> DEFINE new == IF req[r].kind = "order"
                  THEN [Idle EXCEPT !.at = "number", !.kind = "order", !.day = d]
                  ELSE [Idle EXCEPT !.at = "stamp", !.kind = "approve", !.day = d, !.today = today]
<1>1. req' = [req EXCEPT ![r] = new]
  BY DEF HasDay
<1>2. new.at \in {"number", "stamp"} /\ new.day = d
  BY DEF Idle
<1> HIDE DEF new
<1>3. \A q \in Requests : req'[q] = IF q = r THEN new ELSE req[q]
  BY <1>1 DEF Inv, TypeOK
<1>4. CallFacts(r)'
  BY <1>2, <1>3 DEF CallFacts, Gone
<1> QED
  BY <1>3, <1>4, LoneKeeps

\* A request that goes on to another step and remembers what it has read.
LEMMA GoesAlone ==
  ASSUME Inv, NEW r \in Requests, NEW step, Goes(r, step)
  PROVE  /\ \A q \in Requests : q # r => req'[q] = req[q]
         /\ req'[r].at = step /\ req'[r].seen = req[r].seen /\ req'[r].day = req[r].day
         /\ req'[r].kind = req[r].kind /\ req'[r].rest = req[r].rest
<1>1. req \in [Requests -> RequestRecords]
  BY DEF Inv, TypeOK
<1> QED
  BY <1>1 DEF Goes, RequestRecords

\* Reading the location, the day and its orders: nothing changes in between.
LEMMA LookAlone ==
  ASSUME Inv, SerialFacts, may' = may, NEW r \in Requests, Look(r)
  PROVE  SerialFacts'
<1>1. UNCHANGED database /\ ~At(r, "idle")
  BY DEF Look, LookForOrder, LookForEnsure, LookForApproval, CheckActiveOrders, At
<1>2. GoneIsEmpty' /\ Quiet' = Quiet
  BY <1>1, TablesStay
<1>3. pointer' = pointer /\ day' = day
  BY <1>1 DEF database
<1>4. req[r].seen = pointer /\ req \in [Requests -> RequestRecords]
  BY DEF Look, LookForOrder, LookForEnsure, LookForApproval, CheckActiveOrders, At,
         SerialFacts, CallFacts, Inv, TypeOK
<1>5. pointer = NoDay => Quiet
  BY DEF Quiet, ActiveOrders, Inv, TypeOK, OrderRecords, Days, NoDay
<1>6. ASSUME NEW today, HasDay(r, req[r].seen, today), ~Gone(req[r].seen)
      PROVE  SerialFacts'
  <2>1. ~Gone(pointer)'
    BY <1>3, <1>4, <1>6 DEF Gone
  <2> QED
    BY <1>1, <1>2, <1>3, <1>4, <1>6, <2>1, HasDayAlone
<1>7. CASE Ends(r)
  BY <1>1, <1>2, <1>7, EndsAlone
<1>8. ASSUME \A q \in Requests : q # r => req'[q] = req[q],
             req'[r].seen = req[r].seen,
             \/ req'[r].at = "blocked?"
             \/ req'[r].at = "find" /\ Quiet
      PROVE  SerialFacts'
  <2>1. CallFacts(r)'
    BY <1>2, <1>3, <1>4, <1>8 DEF CallFacts
  <2> QED
    BY <1>1, <1>2, <1>8, <2>1, LoneKeeps
<1>9. CASE LookForOrder(r)
  <2> DEFINE d == req[r].seen
             step == IF d = NoDay THEN "find" ELSE "blocked?"
  <2>1. ASSUME NEW age, req' = [req EXCEPT ![r].at = step, ![r].age = age]
        PROVE  SerialFacts'
    <3>1. /\ \A q \in Requests : q # r => req'[q] = req[q]
          /\ req'[r].seen = req[r].seen /\ req'[r].at = step
      BY <1>4, <2>1 DEF RequestRecords
    <3> QED
      BY <1>4, <1>5, <1>8, <3>1
  <2> QED
    BY <1>6, <1>7, <1>9, <2>1 DEF LookForOrder
<1>10. CASE LookForEnsure(r)
  <2>1. ASSUME Goes(r, IF req[r].seen = NoDay THEN "find" ELSE "blocked?")
        PROVE  SerialFacts'
    BY <1>4, <1>5, <1>8, <2>1, GoesAlone
  <2> QED
    BY <1>7, <1>10, <2>1 DEF LookForEnsure
<1>11. CASE LookForApproval(r)
  <2> DEFINE d == req[r].seen
             step == IF d = NoDay THEN "find" ELSE "blocked?"
  <2>1. ASSUME req' = [req EXCEPT ![r].today = date, ![r].at = step]
        PROVE  SerialFacts'
    <3>1. /\ \A q \in Requests : q # r => req'[q] = req[q]
          /\ req'[r].seen = req[r].seen /\ req'[r].at = step
      BY <1>4, <2>1 DEF RequestRecords
    <3> QED
      BY <1>4, <1>5, <1>8, <3>1
  <2> QED
    BY <1>6, <1>7, <1>11, <2>1 DEF LookForApproval
<1>12. CASE CheckActiveOrders(r)
  <2>1. ASSUME ActiveOrders(req[r].seen) = {}, Goes(r, "find")
        PROVE  SerialFacts'
    <3>1. Quiet
      BY <1>4, <2>1 DEF Quiet
    <3> QED
      BY <1>8, <2>1, <3>1, GoesAlone
  <2>2. ActiveOrders(req[r].seen) # {} => ~Gone(req[r].seen)
    BY DEF ActiveOrders, SerialFacts, GoneIsEmpty, Gone, Inv, TypeOK, OrderRecords
  <2> QED
    BY <1>6, <1>7, <1>12, <2>1, <2>2 DEF CheckActiveOrders
<1> QED
  BY <1>9, <1>10, <1>11, <1>12 DEF Look

\* Closing all that is open.
LEMMA CloseAlone ==
  ASSUME Inv, SerialFacts, may' = may, NEW r \in Requests, FindOpenDays(r) \/ CloseNext(r) \/ CheckSingleOpen(r)
  PROVE  SerialFacts'
<1>1. ~At(r, "idle") /\ pointer' = pointer /\ orders' = orders /\ drawers' = drawers
  BY DEF FindOpenDays, CloseNext, CheckSingleOpen, At, database
<1>2. req \in [Requests -> RequestRecords] /\ day \in [Days -> DayRecords]
  BY DEF Inv, TypeOK
<1>3. Quiet' = Quiet
  BY <1>1 DEF Quiet, ActiveOrders
<1>4. CASE FindOpenDays(r)
  <2> DEFINE rest == {d \in Days : Open(d)} \cup ({req[r].seen} \ {NoDay})
             step == IF rest = {} THEN "single?" ELSE "close"
  <2>1. req' = [req EXCEPT ![r].rest = rest, ![r].seen = NoDay, ![r].age = 0, ![r].at = step]
    BY <1>4 DEF FindOpenDays
  <2>2. /\ \A q \in Requests : q # r => req'[q] = req[q]
        /\ req'[r].rest = rest /\ req'[r].at = step
    <3> HIDE DEF rest, step
    <3> QED
      BY <1>2, <2>1 DEF RequestRecords
  <2>3. UNCHANGED database /\ day' = day /\ Quiet
    BY <1>4 DEF FindOpenDays, database, At, SerialFacts, CallFacts
  <2>4. CallFacts(r)'
    BY <1>1, <1>3, <2>2, <2>3 DEF CallFacts, OpenDays, Open
  <2>5. GoneIsEmpty'
    BY <2>3, TablesStay
  <2> QED
    BY <1>1, <2>2, <2>4, <2>5, LoneKeeps
<1>5. CASE CloseNext(r)
  <2>1. PICK d \in req[r].rest :
         \/ /\ day[d].status # "gone"
            /\ Set(d, "closed")
            /\ req' = [req EXCEPT ![r].rest = @ \ {d},
                                  ![r].at = IF req[r].rest = {d} THEN "single?" ELSE "close"]
         \/ Ends(r) /\ UNCHANGED day
    BY <1>5 DEF CloseNext
  <2>2. CASE Ends(r) /\ UNCHANGED day
    <3>1. UNCHANGED database
      BY <1>1, <2>2 DEF database
    <3>2. GoneIsEmpty'
      BY <3>1, TablesStay
    <3> QED
      BY <1>1, <2>2, <3>2, EndsAlone
  <2>3. CASE /\ Set(d, "closed")
             /\ req' = [req EXCEPT ![r].rest = @ \ {d},
                                   ![r].at = IF req[r].rest = {d} THEN "single?" ELSE "close"]
    <3> DEFINE rest == req[r].rest \ {d}
               step == IF req[r].rest = {d} THEN "single?" ELSE "close"
    <3>1. req' = [req EXCEPT ![r].rest = rest, ![r].at = step]
      BY <1>2, <2>3
    <3>2. /\ \A q \in Requests : q # r => req'[q] = req[q]
          /\ req'[r].rest = rest /\ req'[r].at = step
      <4> HIDE DEF rest, step
      <4> QED
        BY <1>2, <3>1 DEF RequestRecords
    <3>3. d \in Days
      BY <1>2 DEF RequestRecords
    <3>4. \A e \in Days : day'[e].status = IF e = d THEN "closed" ELSE day[e].status
      BY <1>2, <2>3, <3>3 DEF Set, DayRecords
    <3>5. Quiet /\ OpenDays \subseteq req[r].rest
      BY <1>5 DEF CloseNext, At, SerialFacts, CallFacts
    <3>6. OpenDays' \subseteq rest
      BY <3>4, <3>5 DEF OpenDays, Open
    <3>7. rest # {} \/ OpenDays' = {}
      BY <3>6
    <3>8. CallFacts(r)'
      BY <1>1, <1>3, <3>2, <3>5, <3>6, <3>7 DEF CallFacts
    <3>9. GoneIsEmpty'
      BY <1>1, <3>4 DEF SerialFacts, GoneIsEmpty, Gone, Spared, May
    <3> QED
      BY <1>1, <3>2, <3>8, <3>9, LoneKeeps
  <2> QED
    BY <2>1, <2>2, <2>3
<1>6. CASE CheckSingleOpen(r)
  <2>1. UNCHANGED database /\ day' = day
    BY <1>6 DEF CheckSingleOpen, database
  <2>2. GoneIsEmpty'
    BY <2>1, TablesStay
  <2>3. CASE Ends(r)
    BY <1>1, <2>2, <2>3, EndsAlone
  <2>4. CASE Goes(r, "create")
    <3>1. OpenDays = {} /\ (req[r].kind = "open" \/ Quiet)
      BY <1>6 DEF CheckSingleOpen, At, SerialFacts, CallFacts
    <3>2. /\ \A q \in Requests : q # r => req'[q] = req[q]
          /\ req'[r].at = "create" /\ req'[r].kind = req[r].kind
      BY <2>4, GoesAlone
    <3>3. CallFacts(r)'
      BY <1>1, <1>3, <2>1, <3>1, <3>2 DEF CallFacts, OpenDays, Open
    <3> QED
      BY <1>1, <2>2, <3>2, <3>3, LoneKeeps
  <2> QED
    BY <1>6, <2>3, <2>4 DEF CheckSingleOpen
<1> QED
  BY <1>4, <1>5, <1>6

\* The new day is the only open one; the pointer gets it when no tabs are open.
LEMMA CreateAlone ==
  ASSUME Inv, SerialFacts, may' = may, NEW r \in Requests, CreateDay(r)
  PROVE  SerialFacts'
<1>1. PICK d \in Days :
        /\ Free(d)
        /\ day' = [day EXCEPT ![d] = [Unwritten EXCEPT !.status = "open", !.date = req[r].today,
                                                        !.manual = (req[r].kind = "open")]]
        /\ orders' = {o \in orders : o.day # d}
        /\ drawers' = drawers \ {d}
        /\ IF req[r].kind = "open" THEN Ends(r)
           ELSE req' = [req EXCEPT ![r].at = "point", ![r].day = d]
  BY DEF CreateDay
<1>2. ~At(r, "idle") /\ pointer' = pointer /\ OpenDays = {} /\ (req[r].kind = "open" \/ Quiet)
  BY DEF CreateDay, At, SerialFacts, CallFacts
<1>3. req \in [Requests -> RequestRecords] /\ day \in [Days -> DayRecords]
  BY DEF Inv, TypeOK
<1>4. \A e \in Days : day'[e].status = IF e = d THEN "open" ELSE day[e].status
  BY <1>1, <1>3 DEF Unwritten
<1>5. OpenDays' = {d}
  BY <1>2, <1>4 DEF OpenDays, Open
<1>6. Quiet => Quiet'
  BY <1>1, <1>2 DEF Quiet, ActiveOrders
<1>7. GoneIsEmpty'
  BY <1>1, <1>2, <1>4 DEF SerialFacts, GoneIsEmpty, Gone, Spared, May
<1>8. CASE Ends(r)
  BY <1>2, <1>7, <1>8, EndsAlone
<1>9. CASE req[r].kind # "open" /\ req' = [req EXCEPT ![r].at = "point", ![r].day = d]
  <2>1. /\ \A q \in Requests : q # r => req'[q] = req[q]
        /\ req'[r].at = "point" /\ req'[r].day = d
    BY <1>3, <1>9 DEF RequestRecords
  <2>2. CallFacts(r)'
    BY <1>1, <1>2, <1>5, <1>6, <1>9, <2>1 DEF CallFacts
  <2> QED
    BY <1>2, <1>7, <2>1, <2>2, LoneKeeps
<1> QED
  BY <1>1, <1>8, <1>9

\* The pointer moves to the new day, the only open one.
LEMMA PointAlone ==
  ASSUME Inv, SerialFacts, may' = may, NEW r \in Requests, PatchPointer(r)
  PROVE  SerialFacts'
<1>1. ~At(r, "idle") /\ OpenDays = {req[r].day}
  BY DEF PatchPointer, At, SerialFacts, CallFacts
<1>2. pointer' = req[r].day /\ UNCHANGED <<day, orders, drawers>>
  BY DEF PatchPointer
<1>3. ~Gone(pointer)'
  BY <1>1, <1>2 DEF OpenDays, Open, Gone
<1>4. GoneIsEmpty'
  BY <1>1, <1>2 DEF OpenDays, Open, SerialFacts, GoneIsEmpty, Gone, Spared, May
<1>5. Ends(r) \/ HasDay(r, req[r].day, req[r].today)
  BY DEF PatchPointer
<1> QED
  BY <1>1, <1>2, <1>3, <1>4, <1>5, EndsAlone, HasDayAlone

\* A number is drawn for an order of the current day, and the order is stored there.
LEMMA TakeAlone ==
  ASSUME Inv, SerialFacts, may' = may, NEW r \in Requests, Take(r)
  PROVE  SerialFacts'
<1>1. /\ ~At(r, "idle") /\ pointer' = pointer /\ day' = day
      /\ req[r].day = pointer /\ ~Gone(req[r].day)
  BY DEF Take, AssignNumber, StoreOrder, RefuseOrder, At, database, SerialFacts, CallFacts
<1>2. CASE AssignNumber(r)
  <2>1. PICK n : req' = [req EXCEPT ![r].at = "store", ![r].number = n]
    BY <1>2 DEF AssignNumber
  <2>2. /\ \A q \in Requests : q # r => req'[q] = req[q]
        /\ req'[r].at = "store" /\ req'[r].day = req[r].day
    BY <2>1 DEF Inv, TypeOK, RequestRecords
  <2>3. CallFacts(r)'
    BY <1>1, <2>2 DEF CallFacts, Gone
  <2>4. GoneIsEmpty'
    BY <1>2, TablesStay DEF AssignNumber
  <2> QED
    BY <1>1, <2>2, <2>3, <2>4, LoneKeeps
<1>3. CASE StoreOrder(r)
  <2> DEFINE new == [day |-> req[r].day, number |-> req[r].number, status |-> "active"]
  <2>1. orders' \subseteq orders \cup {new} /\ UNCHANGED <<day, drawers>> /\ Ends(r)
    BY <1>3 DEF StoreOrder
  <2>2. ~Gone(new.day)
    BY <1>1
  <2> HIDE DEF new
  <2>3. GoneIsEmpty'
    BY <1>1, <2>1, <2>2 DEF SerialFacts, GoneIsEmpty, Gone, Spared, May
  <2> QED
    BY <1>1, <2>1, <2>3, EndsAlone
<1>4. CASE RefuseOrder(r)
  BY <1>1, <1>4, TablesStay, EndsAlone DEF RefuseOrder
<1> QED
  BY <1>2, <1>3, <1>4 DEF Take

\* Stamping the day of an approval, and closing one, empty none and open none.
LEMMA PatchDayAlone ==
  ASSUME Inv, SerialFacts, may' = may, NEW r \in Requests, Stamp(r) \/ CloseDay(r)
  PROVE  SerialFacts'
<1>1. ~At(r, "idle") /\ Ends(r) /\ UNCHANGED <<pointer, orders, drawers>>
  BY DEF Stamp, CloseDay, At
<1>2. day \in [Days -> DayRecords]
  BY DEF Inv, TypeOK
<1>3. \A d \in Days : day'[d].status = "gone" => day[d].status = "gone"
  BY <1>2 DEF Stamp, CloseDay, Set, DayRecords
<1>4. GoneIsEmpty'
  BY <1>1, <1>3 DEF SerialFacts, GoneIsEmpty, Gone, Spared, May
<1> QED
  BY <1>1, <1>4, EndsAlone

\* discardOrphanDay looks three times, and what it has seen is still so when it removes.
LEMMA RemoveAlone ==
  ASSUME Inv, SerialFacts, may' = may, NEW r \in Requests, Remove(r)
  PROVE  SerialFacts'
<1>1. ~At(r, "idle") /\ UNCHANGED <<pointer, orders, drawers>>
  BY DEF Remove, CheckNotCurrent, CheckNoOrders, CheckNoDrawers, RemoveDay, At, database
<1>2. \A d : Spared(d)' = Spared(d)
  BY <1>1 DEF Spared, May
<1>3. CASE RemoveDay(r)
  <2>1. /\ Spared(req[r].day) /\ req[r].day \notin drawers
        /\ \A o \in orders : o.day # req[r].day
    BY <1>3 DEF RemoveDay, At, SerialFacts, CallFacts
  <2>2. \A d \in Days : day'[d].status = "gone" => d = req[r].day \/ day[d].status = "gone"
    BY <1>3 DEF RemoveDay, Set, Inv, TypeOK, DayRecords
  <2>3. GoneIsEmpty'
    BY <1>1, <1>2, <2>1, <2>2 DEF SerialFacts, GoneIsEmpty, Gone
  <2> QED
    BY <1>1, <1>3, <2>3, EndsAlone DEF RemoveDay
<1>4. CASE CheckNotCurrent(r) \/ CheckNoOrders(r) \/ CheckNoDrawers(r)
  <2>1. UNCHANGED database
    BY <1>4 DEF CheckNotCurrent, CheckNoOrders, CheckNoDrawers
  <2>2. GoneIsEmpty'
    BY <2>1, TablesStay
  <2>3. CASE Ends(r)
    BY <1>1, <2>2, <2>3, EndsAlone
  <2>4. ASSUME NEW step \in {"orders?", "drawers?", "remove"}, Goes(r, step),
               Spared(req[r].day),
               step # "orders?" => \A o \in orders : o.day # req[r].day,
               step = "remove" => req[r].day \notin drawers
        PROVE  SerialFacts'
    <3>1. /\ \A q \in Requests : q # r => req'[q] = req[q]
          /\ req'[r].at = step /\ req'[r].day = req[r].day
      BY <2>4, GoesAlone
    <3>2. CallFacts(r)'
      BY <1>1, <1>2, <2>4, <3>1 DEF CallFacts
    <3> QED
      BY <1>1, <2>2, <3>1, <3>2, LoneKeeps
  <2>5. CASE CheckNotCurrent(r)
    BY <2>3, <2>4, <2>5 DEF CheckNotCurrent, Spared
  <2>6. CASE CheckNoOrders(r)
    BY <2>3, <2>4, <2>6 DEF CheckNoOrders, At, SerialFacts, CallFacts
  <2>7. CASE CheckNoDrawers(r)
    BY <2>3, <2>4, <2>7 DEF CheckNoDrawers, At, SerialFacts, CallFacts
  <2> QED
    BY <1>4, <2>5, <2>6, <2>7
<1> QED
  BY <1>3, <1>4 DEF Remove

\* A request comes in when none is at work, and reads what is there.
LEMMA BeginAlone ==
  ASSUME Inv, SerialFacts, Serial, may' = may, NEW r \in Requests, Begin(r)
  PROVE  SerialFacts'
<1>1. /\ \A q \in Requests : At(q, "idle")
      /\ UNCHANGED database
  BY DEF Begin, ReadLocation, ReadDay, OpenDay, ComesIn, Serial, May
<1>2. GoneIsEmpty' /\ pointer' = pointer /\ day' = day
  BY <1>1, TablesStay DEF database
<1>3. ASSUME NEW new, req' = [req EXCEPT ![r] = new],
             \/ new.at = "look" /\ new.seen = pointer
             \/ new.at \in {"closing", "current?"}
             \/ new.at = "single?" /\ new.kind = "open" /\ OpenDays = {}
      PROVE  SerialFacts'
  <2>1. \A q \in Requests : req'[q] = IF q = r THEN new ELSE req[q]
    BY <1>3 DEF Inv, TypeOK
  <2>2. Lone'
    BY <1>1, <2>1 DEF Lone, At
  <2>3. \A q \in Requests : q # r => CallFacts(q)'
    BY <1>1, <2>1 DEF CallFacts, At
  <2>4. CallFacts(r)'
    BY <1>2, <1>3, <2>1 DEF CallFacts, OpenDays, Open
  <2> QED
    BY <1>2, <2>2, <2>3, <2>4 DEF SerialFacts
<1>4. CASE \E kind \in Kinds : ReadLocation(r, kind)
  <2>1. PICK kind \in Kinds : ReadLocation(r, kind)
    BY <1>4
  <2> DEFINE new == [Idle EXCEPT !.at = "look", !.kind = kind, !.seen = pointer, !.today = date]
  <2>2. req' = [req EXCEPT ![r] = new]
    BY <2>1 DEF ReadLocation
  <2>3. new.at = "look" /\ new.seen = pointer
    BY DEF Idle
  <2> HIDE DEF new
  <2> QED
    BY <1>3, <2>2, <2>3
<1>5. CASE \E kind \in Kinds : ReadDay(r, kind)
  <2>1. PICK kind \in Kinds : ReadDay(r, kind)
    BY <1>5
  <2>2. PICK d \in Days :
          req' = [req EXCEPT ![r] = [Idle EXCEPT !.kind = kind, !.day = d,
                                      !.at = IF kind = "close" THEN "closing" ELSE "current?"]]
    BY <2>1 DEF ReadDay
  <2> DEFINE new == [Idle EXCEPT !.kind = kind, !.day = d,
                                 !.at = IF kind = "close" THEN "closing" ELSE "current?"]
  <2>3. new.at \in {"closing", "current?"}
    BY DEF Idle
  <2>4. req' = [req EXCEPT ![r] = new]
    BY <2>2
  <2> HIDE DEF new
  <2> QED
    BY <1>3, <2>3, <2>4
<1>6. CASE OpenDay(r)
  <2>1. PICK today : req' = [req EXCEPT ![r] = [Idle EXCEPT !.at = "single?", !.kind = "open", !.today = today]]
    BY <1>6 DEF OpenDay
  <2> DEFINE new == [Idle EXCEPT !.at = "single?", !.kind = "open", !.today = today]
  <2>2. new.at = "single?" /\ new.kind = "open"
    BY DEF Idle
  <2>3. req' = [req EXCEPT ![r] = new]
    BY <2>1
  <2>4. OpenDays = {}
    BY <1>6 DEF OpenDay, OpenDays
  <2> HIDE DEF new
  <2> QED
    BY <1>3, <2>2, <2>3, <2>4
<1> QED
  BY <1>4, <1>5, <1>6 DEF Begin

\* What happens around the only request cannot make it wrong: tabs are settled, the
\* kitchen works and drawers are opened between two requests, time passes, the
\* process stops.
LEMMA AroundAlone ==
  ASSUME Inv, SerialFacts, Serial, may' = may,
         \/ \E o \in orders : Work(o) \/ Settle(o)
         \/ \E d \in Days : OpenDrawer(d)
         \/ HoursPass \/ Midnight \/ Crash \/ UNCHANGED vars
  PROVE  SerialFacts'
<1>1. CASE \E o \in orders : Work(o) \/ Settle(o)
  <2>1. PICK o \in orders : Work(o) \/ Settle(o)
    BY <1>1
  <2>2. UNCHANGED <<day, pointer, drawers, req>>
    BY <2>1, OrderPatches
  <2>3. \A x \in orders' : \E y \in orders : x.day = y.day
    BY <2>1, OrderPatches, PatchedOrder
  <2>4. GoneIsEmpty'
    BY <2>2, <2>3 DEF SerialFacts, GoneIsEmpty, Gone, Spared, May
  <2>5. \/ \A r \in Requests : req[r].at = "idle"
        \/ Quiet => Quiet'
    <3>1. CASE Work(o)
      BY <3>1 DEF Work, Serial, May, At
    <3>2. CASE Settle(o)
      <4>1. \A x \in orders' : \E y \in orders :
              x.day = y.day /\ (x.status = y.status \/ x.status = "done")
        BY <3>2, PatchedOrder DEF Settle, OrderStatuses
      <4> QED
        BY <2>2, <4>1 DEF Quiet, ActiveOrders
    <3> QED
      BY <2>1, <3>1, <3>2
  <2>6. ASSUME NEW r \in Requests PROVE CallFacts(r)'
    <3>1. CallFacts(r)
      BY DEF SerialFacts
    <3>2. OpenDays' = OpenDays /\ Spared(req[r].day)' = Spared(req[r].day)
      BY <2>2 DEF OpenDays, Open, Spared, May
    <3>3. (\A x \in orders : x.day # req[r].day) => (\A x \in orders' : x.day # req[r].day)
      BY <2>3
    <3> QED
      BY <2>2, <2>5, <3>1, <3>2, <3>3 DEF CallFacts, Gone
  <2> QED
    BY <2>2, <2>4, <2>6 DEF SerialFacts, Lone, At
<1>2. CASE \E d \in Days : OpenDrawer(d)
  <2>1. PICK d \in Days : OpenDrawer(d)
    BY <1>2
  <2>2. /\ \A r \in Requests : req'[r].at = "idle"
        /\ Open(d) /\ drawers' = drawers \cup {d} /\ UNCHANGED <<day, pointer, orders, req>>
    BY <2>1 DEF OpenDrawer, Serial, May, At
  <2>3. GoneIsEmpty'
    BY <2>2 DEF SerialFacts, GoneIsEmpty, Gone, Spared, May, Open
  <2> QED
    BY <2>2, <2>3 DEF SerialFacts, Lone, At, CallFacts
<1>3. CASE HoursPass \/ Midnight \/ UNCHANGED vars
  <2>1. UNCHANGED <<pointer, orders, drawers, req>>
    BY <1>3 DEF HoursPass, Midnight, database, vars
  <2>2. \A d \in Days : day'[d].status = day[d].status
    BY <1>3 DEF HoursPass, Midnight, database, vars, Inv, TypeOK, DayRecords
  <2>3. GoneIsEmpty'
    BY <2>1, <2>2 DEF SerialFacts, GoneIsEmpty, Gone, Spared, May
  <2>4. ASSUME NEW r \in Requests PROVE CallFacts(r)'
    <3>1. CallFacts(r) /\ req[r].day \in Days \cup {NoDay}
      BY DEF SerialFacts, Inv, TypeOK, RequestRecords
    <3>2. OpenDays' = OpenDays /\ Quiet' = Quiet /\ Spared(req[r].day)' = Spared(req[r].day)
      BY <2>1, <2>2 DEF OpenDays, Open, Quiet, ActiveOrders, Spared, May
    <3>3. Gone(req[r].day)' = Gone(req[r].day)
      BY <2>1, <2>2, <3>1 DEF Gone
    <3> QED
      BY <2>1, <3>1, <3>2, <3>3 DEF CallFacts
  <2> QED
    BY <2>1, <2>3, <2>4 DEF SerialFacts, Lone, At
<1>4. CASE Crash
  <2>1. UNCHANGED database /\ \A r \in Requests : req'[r].at = "idle"
    BY <1>4 DEF Crash, Idle
  <2>2. GoneIsEmpty'
    BY <2>1, TablesStay
  <2> QED
    BY <2>1, <2>2 DEF SerialFacts, Lone, At, CallFacts
<1> QED
  BY <1>1, <1>2, <1>3, <1>4

\* With one request at a time every step keeps the facts.
LEMMA SerialNext ==
  ASSUME Inv, Serial => SerialFacts, [Next]_vars
  PROVE  (Serial => SerialFacts)'
<1>1. may' = may /\ Serial' = Serial
  <2>1. may' = may
    BY DEF Next, Begin, ReadLocation, ReadDay, OpenDay, ComesIn, Proceed, Look, LookForOrder,
           LookForEnsure, LookForApproval, CheckActiveOrders, Rotate, FindOpenDays, CloseNext,
           CheckSingleOpen, CreateDay, PatchPointer, Stamp, Take, AssignNumber, StoreOrder,
           RefuseOrder, CloseDay, Remove, CheckNotCurrent, CheckNoOrders, CheckNoDrawers,
           RemoveDay, Work, Settle, OpenDrawer, HoursPass, Midnight, Crash, vars, world
  <2> QED
    BY <2>1 DEF Serial, May
<1> SUFFICES ASSUME Serial PROVE SerialFacts'
  BY <1>1
<1>2. SerialFacts
  OBVIOUS
<1>3. ASSUME NEW r \in Requests, Begin(r) PROVE SerialFacts'
  BY <1>1, <1>2, <1>3, BeginAlone
<1>4. ASSUME NEW r \in Requests, Rotate(r) PROVE SerialFacts'
  BY <1>1, <1>2, <1>4, CloseAlone, CreateAlone, PointAlone DEF Rotate
<1>5. ASSUME NEW r \in Requests, Proceed(r) PROVE SerialFacts'
  BY <1>1, <1>2, <1>4, <1>5, LookAlone, TakeAlone, PatchDayAlone, RemoveAlone DEF Proceed
<1> QED
  BY <1>1, <1>2, <1>3, <1>5, AroundAlone DEF Next

\* Initially no request is at work and no day is gone.
LEMMA SerialInit == Init => SerialFacts
<1> SUFFICES ASSUME Init PROVE SerialFacts
  OBVIOUS
<1>1. \A r \in Requests : req[r].at = "idle"
  BY DEF Init, Idle
<1>2. \A d \in Days : day[d].status # "gone"
  BY DEF Init, Unwritten
<1>3. Lone /\ \A r \in Requests : CallFacts(r)
  BY <1>1 DEF Lone, At, CallFacts
<1> QED
  BY <1>2, <1>3 DEF SerialFacts, GoneIsEmpty, Gone

LEMMA SerialAlways == Spec => [](Inv /\ (Serial => SerialFacts))
<1>1. Init => (Serial => SerialFacts)
  BY SerialInit
<1>2. Inv /\ (Serial => SerialFacts) /\ [Next]_vars => (Serial => SerialFacts)'
  BY SerialNext
<1> QED
  BY <1>1, <1>2, Inductive, PTL DEF Spec

\* Only a rotation closes a day.
LEMMA OnlyRotationsClose ==
  ASSUME Inv, [Next]_vars, NEW d \in Days, day[d].status # "closed", day'[d].status = "closed"
  PROVE  \E r \in Requests : CloseNext(r)
<1>1. day \in [Days -> DayRecords]
  BY DEF Inv, TypeOK
<1>2. day' # day
  OBVIOUS
<1>3. ~ \E r \in Requests : Begin(r) \/ Look(r) \/ Take(r)
  BY <1>2 DEF Begin, ReadLocation, ReadDay, OpenDay, ComesIn, Look, LookForOrder, LookForEnsure,
     LookForApproval, CheckActiveOrders, Take, AssignNumber, StoreOrder, RefuseOrder, database
<1>4. ~ \E r \in Requests :
         \/ FindOpenDays(r) \/ CheckSingleOpen(r) \/ PatchPointer(r)
         \/ CheckNotCurrent(r) \/ CheckNoOrders(r) \/ CheckNoDrawers(r)
  BY <1>2 DEF FindOpenDays, CheckSingleOpen, PatchPointer, CheckNotCurrent, CheckNoOrders,
     CheckNoDrawers, database
<1>5. ASSUME NEW r \in Requests, CreateDay(r) PROVE FALSE
  <2>1. PICK e \in Days :
          day' = [day EXCEPT ![e] = [Unwritten EXCEPT !.status = "open", !.date = req[r].today,
                                                      !.manual = (req[r].kind = "open")]]
    BY <1>5 DEF CreateDay
  <2>2. day'[d].status = IF d = e THEN "open" ELSE day[d].status
    BY <1>1, <2>1 DEF Unwritten
  <2> QED
    BY <2>2
<1>6. ASSUME NEW r \in Requests, Stamp(r) \/ CloseDay(r) \/ RemoveDay(r) PROVE FALSE
  <2>1. CASE Stamp(r)
    <3>1. day'[d].status = day[d].status
      BY <1>1, <2>1 DEF Stamp, DayRecords
    <3> QED
      BY <3>1
  <2>2. CASE CloseDay(r) \/ RemoveDay(r)
    <3>1. PICK status \in {"closing", "gone"} : day' = day \/ Set(req[r].day, status)
      BY <2>2 DEF CloseDay, RemoveDay
    <3>2. day'[d].status \in {day[d].status, status}
      BY <1>1, <3>1 DEF Set, DayRecords
    <3> QED
      BY <3>2
  <2> QED
    BY <1>6, <2>1, <2>2
<1>7. /\ ~ \E o \in orders : Work(o) \/ Settle(o)
      /\ ~ \E e \in Days : OpenDrawer(e)
      /\ ~Midnight /\ ~Crash
  BY <1>2 DEF Work, Settle, OpenDrawer, Midnight, Crash, database
<1>8. ~UNCHANGED vars
  BY <1>2 DEF vars
<1>9. ~HoursPass
  <2>1. ASSUME HoursPass PROVE day'[d].status = day[d].status
    BY <1>1, <2>1 DEF HoursPass, DayRecords
  <2> QED
    BY <2>1
<1> QED
  BY <1>3, <1>4, <1>5, <1>6, <1>7, <1>8, <1>9 DEF Next, Proceed, Rotate, Remove

\* With one request at a time the approval of a rest day ends on the day the next
\* orders go to, after rotations, blocked rotations and restarts (approveClosedDay,
\* assertClosedDayApproved).
THEOREM ApprovalSafe == Spec => []ApprovedDayTakesOrders
<1>1. Inv /\ (Serial => SerialFacts) => ApprovedDayTakesOrders
  BY DEF ApprovedDayTakesOrders, SerialFacts, CallFacts, GoneIsEmpty, Gone, At, Inv, TypeOK, NoDay
<1> QED
  BY <1>1, SerialAlways, PTL

\* With one request at a time a day that is discarded is empty, and is not the
\* current one as long as the location can be read, although the three checks are
\* three accesses to the database (discardOrphanDay).
THEOREM DiscardSafe == Spec => []DiscardSparesCurrent
<1>1. Inv /\ (Serial => SerialFacts) => DiscardSparesCurrent
  BY DEF DiscardSparesCurrent, SerialFacts, GoneIsEmpty, Spared
<1> QED
  BY <1>1, SerialAlways, PTL

\* With one request at a time a rotation leaves exactly one open day, the one the
\* location points to, whatever it has found, also when the guard against a second
\* open day is blind (rotateBusinessDay, ensureSingleOpenBusinessDay).
THEOREM RotationSafe == Spec => RotationHeals
<1>1. Inv /\ (Serial => SerialFacts) /\ [Next]_vars =>
        [Serial => \A r \in Requests :
           PatchPointer(r) => {d \in Days : Open(d)} = {pointer'}]_vars
  BY DEF PatchPointer, At, SerialFacts, CallFacts, OpenDays
<1> QED
  BY <1>1, SerialAlways, PTL DEF Spec, RotationHeals

\* Only a rotation moves the pointer.
LEMMA OnlyRotationsPoint ==
  ASSUME [Next]_vars, pointer' # pointer
  PROVE  \E r \in Requests : PatchPointer(r)
  BY DEF Next, Begin, ReadLocation, ReadDay, OpenDay, ComesIn, Proceed, Look, LookForOrder,
         LookForEnsure, LookForApproval, CheckActiveOrders, Rotate, FindOpenDays, CloseNext,
         CheckSingleOpen, CreateDay, Stamp, Take, AssignNumber, StoreOrder, RefuseOrder,
         CloseDay, Remove, CheckNotCurrent, CheckNoOrders, CheckNoDrawers, RemoveDay, Work,
         Settle, OpenDrawer, HoursPass, Midnight, Crash, vars, database

\* With one request at a time the location keeps a day with active orders, and no
\* rotation closes it, whatever other days the rotation finds open and whatever is
\* refused or restarts (hasActiveOrders, rotateBusinessDay).
THEOREM ActiveTabsSafe == Spec => ActiveTabsKeepDay
<1>1. ASSUME Inv, Serial => SerialFacts, [Next]_vars, Serial,
             NEW d \in Days, pointer = d, ActiveOrders(d) # {}
      PROVE  pointer' = d /\ (day'[d].status = "closed" => day[d].status = "closed")
  <2>1. SerialFacts /\ ~Quiet
    BY <1>1 DEF Quiet
  <2>2. pointer' = d
    <3>1. \A r \in Requests : ~PatchPointer(r)
      BY <2>1 DEF PatchPointer, At, SerialFacts, CallFacts
    <3> QED
      BY <1>1, <3>1, OnlyRotationsPoint
  <2>3. \A r \in Requests : ~CloseNext(r)
    BY <2>1 DEF CloseNext, At, SerialFacts, CallFacts
  <2> QED
    BY <1>1, <2>2, <2>3, OnlyRotationsClose
<1>2. Inv /\ (Serial => SerialFacts) /\ [Next]_vars =>
        [Serial => \A d \in Days : pointer = d /\ ActiveOrders(d) # {} =>
           /\ pointer' = d
           /\ day'[d].status = "closed" => day[d].status = "closed"]_vars
  BY <1>1
<1> QED
  BY <1>2, SerialAlways, PTL DEF Spec, ActiveTabsKeepDay
=============================================================================
