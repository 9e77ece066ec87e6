------------------------------ MODULE PosOutbox ------------------------------
(***************************************************************************)
(* The offline outbox of a POS terminal and its replay against the edge:   *)
(* orders and cash payments taken without a connection, sent again once    *)
(* there is one (PosOutboxReplayService, OutboxStore), the operator's      *)
(* buttons in the settings, and what the edge does with the calls.         *)
(*                                                                         *)
(* An action is one stretch of the terminal's JavaScript between two       *)
(* awaits (a read or write of IndexedDB, a call to the edge, the dialog),  *)
(* or one step of the edge or of the connection.                           *)
(***************************************************************************)
EXTENDS Naturals, Sequences

CONSTANTS
    Orders,
    Cashiers,
    Replays,       \* activations of replayAll that may exist at once
    Calls,         \* requests that may be under way at once
    Nil,
    Disturbances,  \* what may go wrong, see below
    MaxEntries,    \* bound: changes made offline
    MaxAttempts,   \* OUTBOX_MAX_ATTEMPTS
    MaxMishaps     \* bound: steps of the environment that are not progress

(***************************************************************************)
(*   drop      the connection is lost (again)                              *)
(*   refuse    the edge refuses a call for good (400, 401, 403, 422)       *)
(*   fail      the edge fails on a call (5xx)                              *)
(*   slow      an answer takes longer than the deadline of the socket      *)
(*   restart   the terminal restarts                                       *)
(*   drawer    a drawer is closed                                          *)
(*   till      another till takes the payment of an order                  *)
(*   operator  the buttons in the settings are used                        *)
(***************************************************************************)
AllDisturbances ==
    {"drop", "refuse", "fail", "slow", "restart", "drawer", "till", "operator"}

ASSUME DisturbancesAssumption == Disturbances \subseteq AllDisturbances
ASSUME BoundsAssumption ==
    MaxEntries \in Nat /\ MaxAttempts \in Nat \ {0} /\ MaxMishaps \in Nat

VARIABLES
    log,       \* history: what was enqueued, in the order of occurredAt
    box,       \* the stored entry of each element of log
    link,      \* the socket is authenticated
    replaying, \* #replaying
    pc, mode,  \* what an activation of replayAll does, and in which loop
    todo,      \* the copies of entries its loop still has before it
    entry,     \* the copy it is at
    parked,    \* awaitingCashSession: copies per cashier
    answer,    \* what came back for the call it waits for
    image,     \* an entry that was read and is about to be written back
    calls,     \* requests under way or worked on by the edge
    edge,      \* the orders as the edge has stored them
    drawers,   \* cashiers with an open drawer
    oper,      \* the copies an operator's button still has to write
    discarded, \* history: entries the operator has thrown away
    mishaps

terminal == <<log, box, replaying, oper, discarded>>
replays  == <<pc, mode, todo, entry, parked, answer, image>>
vars == <<log, box, link, replaying, pc, mode, todo, entry, parked, answer,
          image, calls, edge, drawers, oper, discarded, mishaps>>

Ids == 1..Len(log)

\*   create  the order itself          pay   a cash payment of it
\*   work    any other patch of it
LogEntries == [order : Orders, op : {"create", "work", "pay"}, cashier : Cashiers]

\* due is FALSE while nextAttemptAt lies ahead.
Entries == [status : {"pending", "rejected"}, attempts : Nat, due : BOOLEAN]

\* A copy of an entry in the memory of a replay; of the copied fields only
\* attempts can be stale.
Copies == [id : Ids, attempts : Nat]

Verdicts == {"ok", "exists", "missing", "cash", "refused", "transient"}

\*   idle       no activation           claiming   reads the outbox
\*   looping    before the next entry of its loop
\*   calling    waits for the edge      settling   about to book the answer
\*   reading, writing                   get and put of #patch
\*   asking     in #resolveCashSessions, before the next cashier
\*   prompting  the dialog is open
PCs == {"idle", "claiming", "looping", "calling", "settling", "reading",
        "writing", "asking", "prompting"}
Modes == {"replay", "resend", "requeue", "decline"}

\* A request: sent is on its way, running is being worked on, inserting is a
\* create that has passed the look for an order with its id.
Stages == {"sent", "running", "inserting"}
Requests == [id : Ids, by : Replays \cup {Nil}, st : Stages]

ASSUME NilAssumption ==
    /\ Nil \notin Replays /\ Nil \notin Entries
    /\ Nil \notin [id : Nat, by : Replays \cup {Nil}, st : Stages]

\* paid: the entry whose transaction is booked, 0 for none; Nil for one of
\* another till.  work: the last patch that was applied, 0 for none.
EdgeOrders == [made : BOOLEAN, work : Nat, paid : Nat \cup {Nil}]

TypeOK ==
    /\ log \in Seq(LogEntries)
    /\ box \in [Ids -> Entries \cup {Nil}]
    /\ link \in BOOLEAN /\ replaying \in BOOLEAN
    /\ pc \in [Replays -> PCs]
    /\ mode \in [Replays -> Modes]
    /\ todo \in [Replays -> SUBSET Copies]
    /\ entry \in [Replays -> Copies \cup {Nil}]
    /\ parked \in [Replays -> [Cashiers -> SUBSET Copies]]
    /\ answer \in [Replays -> Verdicts \cup {Nil}]
    /\ image \in [Replays -> Entries \cup {Nil}]
    /\ calls \in [Calls -> Requests \cup {Nil}]
    /\ edge \in [Orders -> EdgeOrders]
    /\ drawers \subseteq Cashiers
    /\ oper \subseteq [id : Ids, put : Entries \cup {Nil}]
    /\ discarded \subseteq Ids
    /\ mishaps \in 0..MaxMishaps

Init ==
    /\ log = <<>>
    /\ box = [i \in {} |-> Nil]
    /\ link = FALSE
    /\ replaying = FALSE
    /\ pc = [r \in Replays |-> "idle"]
    /\ mode = [r \in Replays |-> "replay"]
    /\ todo = [r \in Replays |-> {}]
    /\ entry = [r \in Replays |-> Nil]
    /\ parked = [r \in Replays |-> [c \in Cashiers |-> {}]]
    /\ answer = [r \in Replays |-> Nil]
    /\ image = [r \in Replays |-> Nil]
    /\ calls = [k \in Calls |-> Nil]
    /\ edge = [o \in Orders |-> [made |-> FALSE, work |-> 0, paid |-> 0]]
    /\ drawers = {}
    /\ oper = {}
    /\ discarded = {}
    /\ mishaps = 0

-----------------------------------------------------------------------------
(* Taking orders and payments offline (#enqueueOfflineOrder, #patchOffline) *)

Mishap(d) ==
    /\ d \in Disturbances
    /\ mishaps < MaxMishaps
    /\ mishaps' = mishaps + 1

Logged(o, op) == \E i \in Ids : log[i].order = o /\ log[i].op = op

Enqueue(o, op, c) ==
    /\ ~link
    /\ Len(log) < MaxEntries
    /\ log' = Append(log, [order |-> o, op |-> op, cashier |-> c])
    /\ box' = [i \in 1..(Len(log) + 1) |->
                 IF i \in Ids THEN box[i]
                              ELSE [status |-> "pending", attempts |-> 0, due |-> TRUE]]
    /\ UNCHANGED <<link, replaying, replays, calls, edge, drawers, oper,
                   discarded, mishaps>>

CreateOffline(o, c) ==
    /\ ~Logged(o, "create") /\ ~edge[o].made
    /\ Enqueue(o, "create", c)

\* An order whose payment has been taken is closed and not patched again.
PatchOffline(o, op, c) ==
    /\ op \in {"work", "pay"}
    /\ Logged(o, "create") /\ ~Logged(o, "pay")
    /\ Enqueue(o, op, c)

-----------------------------------------------------------------------------
(* replayAll *)

Pending(i) == box[i] # Nil /\ box[i].status = "pending"

\* The effect after a login, the poll, or replayNow of a button.
Start(r) ==
    /\ link /\ ~replaying
    /\ pc[r] = "idle"
    /\ \E i \in Ids : Pending(i)
    /\ replaying' = TRUE
    /\ pc' = [pc EXCEPT ![r] = "claiming"]
    /\ mode' = [mode EXCEPT ![r] = "replay"]
    /\ UNCHANGED <<log, box, link, todo, entry, parked, answer, image, calls,
                   edge, drawers, oper, discarded, mishaps>>

claimDue ==
    {[id |-> i, attempts |-> box[i].attempts] : i \in {j \in Ids : Pending(j) /\ box[j].due}}

Claim(r) ==
    /\ pc[r] = "claiming"
    /\ todo' = [todo EXCEPT ![r] = claimDue]
    /\ pc' = [pc EXCEPT ![r] = "looping"]
    /\ UNCHANGED <<terminal, link, mode, entry, parked, answer, image, calls,
                   edge, drawers, mishaps>>

\* The oldest of the copies by occurredAt.
Oldest(copies) == {c \in copies : \A d \in copies : c.id <= d.id}

\* The loop of a replay sends, as long as there is a connection; a resend
\* sends in any case; #requeue and a declined drawer mark without a call.
Goes(r) == todo[r] # {} /\ (mode[r] = "replay" => link)

LoopStep(r) ==
    /\ pc[r] = "looping"
    /\ \/ /\ Goes(r)
          /\ \E c \in Oldest(todo[r]) :
               /\ entry' = [entry EXCEPT ![r] = c]
               /\ todo' = [todo EXCEPT ![r] = @ \ {c}]
               /\ \/ /\ mode[r] \in {"replay", "resend"}
                     /\ \E k \in Calls :
                          /\ calls[k] = Nil
                          /\ calls' = [calls EXCEPT ![k] =
                                         [id |-> c.id, by |-> r, st |-> "sent"]]
                     /\ pc' = [pc EXCEPT ![r] = "calling"]
                  \/ /\ mode[r] \in {"requeue", "decline"}
                     /\ pc' = [pc EXCEPT ![r] = "reading"]
                     /\ calls' = calls
       \/ /\ ~Goes(r)
          /\ pc' = [pc EXCEPT ![r] = "asking"]
          /\ todo' = [todo EXCEPT ![r] = {}]
          /\ UNCHANGED <<calls, entry>>
    /\ UNCHANGED <<terminal, link, mode, parked, answer, image, edge, drawers,
                   mishaps>>

\* The entry is done, the loop goes on.
NextEntry(r) ==
    /\ entry' = [entry EXCEPT ![r] = Nil]
    /\ answer' = [answer EXCEPT ![r] = Nil]
    /\ pc' = [pc EXCEPT ![r] = "looping"]

-----------------------------------------------------------------------------
(* The answer of the edge (#replayOne, classifyOutboxError, #handleFailure) *)

\* Mutant: a missing order counts as already stored (a message with "exist").
Stored_missing(v) == v \in {"ok", "exists", "missing"}

\* The edge has it: 409 counts as well.
Stored(v) == v \in {"ok", "exists"}

Parks(r) ==
    answer[r] = "cash" /\ mode[r] = "replay" /\ log[entry[r].id].op = "pay"

GivesUp(r) ==
    \/ mode[r] = "decline"
    \/ /\ mode[r] \in {"replay", "resend"}
       /\ \/ answer[r] \in {"refused", "cash"}
          \/ entry[r].attempts + 1 >= MaxAttempts

\* markAcked
Ack(r) ==
    /\ pc[r] = "settling" /\ Stored(answer[r])
    /\ box' = [box EXCEPT ![entry[r].id] = Nil]
    /\ NextEntry(r)
    /\ UNCHANGED <<log, link, replaying, mode, todo, parked, image, calls, edge,
                   drawers, oper, discarded, mishaps>>

Park(r) ==
    /\ pc[r] = "settling" /\ Parks(r)
    /\ parked' = [parked EXCEPT ![r][log[entry[r].id].cashier] = @ \cup {entry[r]}]
    /\ NextEntry(r)
    /\ UNCHANGED <<terminal, link, mode, todo, image, calls, edge, drawers, mishaps>>

\* The entry as markRetry or markRejected writes it back.
Marked(r, e) ==
    [status |-> IF GivesUp(r) THEN "rejected" ELSE "pending",
     attempts |-> e.attempts + 1,
     due |-> GivesUp(r) \/ mode[r] = "requeue"]

\* #patch reads the entry; one that is gone is left alone.
MarkRead(r) ==
    /\ \/ pc[r] = "reading"
       \/ pc[r] = "settling" /\ ~Stored(answer[r]) /\ ~Parks(r)
    /\ IF box[entry[r].id] = Nil
       THEN /\ NextEntry(r)
            /\ image' = image
       ELSE /\ image' = [image EXCEPT ![r] = Marked(r, box[entry[r].id])]
            /\ pc' = [pc EXCEPT ![r] = "writing"]
            /\ UNCHANGED <<entry, answer>>
    /\ UNCHANGED <<terminal, link, mode, todo, parked, calls, edge, drawers,
                   mishaps>>

MarkWrite(r) ==
    /\ pc[r] = "writing"
    /\ box' = [box EXCEPT ![entry[r].id] = image[r]]
    /\ image' = [image EXCEPT ![r] = Nil]
    /\ NextEntry(r)
    /\ UNCHANGED <<log, link, replaying, mode, todo, parked, calls, edge,
                   drawers, oper, discarded, mishaps>>

-----------------------------------------------------------------------------
(* #resolveCashSessions *)

\* Once per cashier, in any order; without a connection nobody is asked.
AskCashier(r) ==
    /\ pc[r] = "asking"
    /\ \E c \in Cashiers :
         /\ parked[r][c] # {}
         /\ parked' = [parked EXCEPT ![r][c] = {}]
         /\ todo' = [todo EXCEPT ![r] = parked[r][c]]
         /\ pc' = [pc EXCEPT ![r] = IF link THEN "prompting" ELSE "looping"]
         /\ mode' = [mode EXCEPT ![r] = IF link THEN @ ELSE "requeue"]
    /\ UNCHANGED <<terminal, link, entry, answer, image, calls, edge, drawers,
                   mishaps>>

\* The dialog is closed; an approval has opened the drawer on the edge.  If the
\* connection is gone by then, the answer does not count.
DialogCloses(r) ==
    /\ pc[r] = "prompting"
    /\ pc' = [pc EXCEPT ![r] = "looping"]
    /\ \/ /\ link
          /\ \E e \in todo[r] : drawers' = drawers \cup {log[e.id].cashier}
          /\ mode' = [mode EXCEPT ![r] = "resend"]
       \/ /\ link
          /\ drawers' = drawers
          /\ mode' = [mode EXCEPT ![r] = "decline"]
       \/ /\ ~link
          /\ drawers' = drawers
          /\ mode' = [mode EXCEPT ![r] = "requeue"]
    /\ UNCHANGED <<terminal, link, todo, entry, parked, answer, image, calls,
                   edge, mishaps>>

\* Mutant: the flag is not cleared at the end.
Finish_keepsFlag(r) ==
    /\ pc[r] = "asking"
    /\ \A c \in Cashiers : parked[r][c] = {}
    /\ pc' = [pc EXCEPT ![r] = "idle"]
    /\ UNCHANGED <<log, box, link, replaying, mode, todo, entry, parked, answer,
                   image, calls, edge, drawers, oper, discarded, mishaps>>

\* Nobody is left to ask; #replaying is cleared, whoever has set it.
Finish(r) ==
    /\ pc[r] = "asking"
    /\ \A c \in Cashiers : parked[r][c] = {}
    /\ pc' = [pc EXCEPT ![r] = "idle"]
    /\ replaying' = FALSE
    /\ UNCHANGED <<log, box, link, mode, todo, entry, parked, answer, image,
                   calls, edge, drawers, oper, discarded, mishaps>>

-----------------------------------------------------------------------------
(* The edge *)

\* A request leaves its slot with a verdict for the replay that still waits.
AnswerWith(k, v) ==
    /\ calls' = [calls EXCEPT ![k] = Nil]
    /\ IF calls[k].by = Nil
       THEN UNCHANGED <<answer, pc>>
       ELSE /\ answer' = [answer EXCEPT ![calls[k].by] = v]
            /\ pc' = [pc EXCEPT ![calls[k].by] = "settling"]
    /\ UNCHANGED <<terminal, link, mode, todo, entry, parked, image, drawers>>

InFlight(o) ==
    \E k \in Calls : calls[k] # Nil /\ calls[k].st = "inserting"
                     /\ log[calls[k].id].order = o

Request(k) == log[calls[k].id]

Receive(k) ==
    /\ link /\ calls[k] # Nil /\ calls[k].st = "sent"
    /\ calls' = [calls EXCEPT ![k].st = "running"]
    /\ UNCHANGED <<terminal, link, replays, edge, drawers, mishaps>>

\* Mutant: a create answers 409 while another one with its id is under way.
LookForId_hasty(k) ==
    /\ calls[k] # Nil /\ calls[k].st = "running" /\ Request(k).op = "create"
    /\ IF edge[Request(k).order].made \/ InFlight(Request(k).order)
       THEN AnswerWith(k, "exists")
       ELSE /\ calls' = [calls EXCEPT ![k].st = "inserting"]
            /\ UNCHANGED <<terminal, link, replays, drawers>>
    /\ UNCHANGED <<edge, mishaps>>

\* rejectDuplicateOrderId: wait for the attempt under way, then look.
LookForId(k) ==
    /\ calls[k] # Nil /\ calls[k].st = "running" /\ Request(k).op = "create"
    /\ ~InFlight(Request(k).order)
    /\ IF edge[Request(k).order].made
       THEN AnswerWith(k, "exists")
       ELSE /\ calls' = [calls EXCEPT ![k].st = "inserting"]
            /\ UNCHANGED <<terminal, link, replays, drawers>>
    /\ UNCHANGED <<edge, mishaps>>

Insert(k) ==
    /\ calls[k] # Nil /\ calls[k].st = "inserting"
    /\ edge' = [edge EXCEPT ![Request(k).order].made = TRUE]
    /\ AnswerWith(k, "ok")
    /\ UNCHANGED mishaps

ApplyWork(k) ==
    /\ calls[k] # Nil /\ calls[k].st = "running" /\ Request(k).op = "work"
    /\ IF edge[Request(k).order].made
       THEN /\ edge' = [edge EXCEPT ![Request(k).order].work = calls[k].id]
            /\ AnswerWith(k, "ok")
       ELSE /\ edge' = edge
            /\ AnswerWith(k, "missing")
    /\ UNCHANGED mishaps

\* Mutant: a settled order answers 409.
PayVerdict_conflict(k) ==
    LET o == edge[Request(k).order] IN
    IF ~o.made THEN "missing"
    ELSE IF o.paid # 0 THEN "exists"
    ELSE IF Request(k).cashier \notin drawers THEN "cash"
    ELSE "ok"

\* Mutant: what another till has booked is not locked, and replaced.
PayVerdict_unlocked(k) ==
    LET o == edge[Request(k).order] IN
    IF ~o.made THEN "missing"
    ELSE IF o.paid = calls[k].id THEN "ok"
    ELSE IF Request(k).cashier \notin drawers THEN "cash"
    ELSE "ok"

\* What the edge says to a payment, under the mutex of its order: the same
\* transaction again is fine, another one is refused with 400.
PayVerdict(k) ==
    LET o == edge[Request(k).order] IN
    IF ~o.made THEN "missing"
    ELSE IF o.paid = calls[k].id THEN "ok"
    ELSE IF o.paid # 0 THEN "refused"
    ELSE IF Request(k).cashier \notin drawers THEN "cash"
    ELSE "ok"

ApplyPayment(k) ==
    /\ calls[k] # Nil /\ calls[k].st = "running" /\ Request(k).op = "pay"
    /\ edge' = IF PayVerdict(k) = "ok"
               THEN [edge EXCEPT ![Request(k).order].paid = calls[k].id]
               ELSE edge
    /\ AnswerWith(k, PayVerdict(k))
    /\ UNCHANGED mishaps

\* Any hook before the write may refuse the call, or fail.
CallFails(k) ==
    /\ calls[k] # Nil /\ calls[k].st \in {"running", "inserting"}
    /\ \/ Mishap("refuse") /\ AnswerWith(k, "refused")
       \/ Mishap("fail") /\ AnswerWith(k, "transient")
    /\ edge' = edge

-----------------------------------------------------------------------------
(* Connection, deadline, restart *)

\* The edge goes on with what it has received, the answer is lost; what is on
\* its way is lost too.
Orphaned(k) ==
    IF calls[k] = Nil \/ calls[k].st = "sent" THEN Nil
    ELSE [calls[k] EXCEPT !.by = Nil]

\* Every waiting call is rejected; the effect clears #replaying.
Drop ==
    /\ link /\ Mishap("drop")
    /\ link' = FALSE
    /\ replaying' = FALSE
    /\ calls' = [k \in Calls |-> Orphaned(k)]
    /\ answer' = [r \in Replays |-> IF pc[r] = "calling" THEN "transient" ELSE answer[r]]
    /\ pc' = [r \in Replays |-> IF pc[r] = "calling" THEN "settling" ELSE pc[r]]
    /\ UNCHANGED <<log, box, mode, todo, entry, parked, image, edge, drawers,
                   oper, discarded>>

Reconnect ==
    /\ ~link
    /\ link' = TRUE
    /\ UNCHANGED <<terminal, replays, calls, edge, drawers, mishaps>>

GiveUpWaiting(k) ==
    /\ calls[k] # Nil /\ calls[k].by # Nil
    /\ answer' = [answer EXCEPT ![calls[k].by] = "transient"]
    /\ pc' = [pc EXCEPT ![calls[k].by] = "settling"]
    /\ UNCHANGED <<terminal, link, mode, todo, entry, parked, image, edge,
                   drawers>>

\* The deadline passes.  The call may still reach the edge and be worked on.
Deadline(k) ==
    /\ link
    /\ GiveUpWaiting(k)
    /\ calls' = [calls EXCEPT ![k].by = Nil]
    /\ Mishap("slow")

\* A call made without a connection leaves the buffer of the socket when its
\* deadline passes.
BufferedCallExpires(k) ==
    /\ ~link
    /\ GiveUpWaiting(k)
    /\ calls' = [calls EXCEPT ![k] = Nil]
    /\ UNCHANGED mishaps

Restart ==
    /\ Mishap("restart")
    /\ link' = FALSE
    /\ replaying' = FALSE
    /\ pc' = [r \in Replays |-> "idle"]
    /\ mode' = [r \in Replays |-> "replay"]
    /\ todo' = [r \in Replays |-> {}]
    /\ entry' = [r \in Replays |-> Nil]
    /\ parked' = [r \in Replays |-> [c \in Cashiers |-> {}]]
    /\ answer' = [r \in Replays |-> Nil]
    /\ image' = [r \in Replays |-> Nil]
    /\ calls' = [k \in Calls |-> Orphaned(k)]
    /\ oper' = {}
    /\ UNCHANGED <<log, box, edge, drawers, discarded>>

BackoffElapses(i) ==
    /\ Pending(i) /\ ~box[i].due
    /\ box' = [box EXCEPT ![i].due = TRUE]
    /\ UNCHANGED <<log, link, replaying, replays, calls, edge, drawers, oper,
                   discarded, mishaps>>

CloseDrawer(c) ==
    /\ c \in drawers /\ Mishap("drawer")
    /\ drawers' = drawers \ {c}
    /\ UNCHANGED <<terminal, link, replays, calls, edge>>

OtherTillPays(o) ==
    /\ edge[o].made /\ edge[o].paid = 0 /\ Mishap("till")
    /\ edge' = [edge EXCEPT ![o].paid = Nil]
    /\ UNCHANGED <<terminal, link, replays, calls, drawers>>

-----------------------------------------------------------------------------
(* The buttons in the settings.  isRetrying admits one at a time; each reads   *)
(* the outbox once and then writes its copies back one by one.                 *)

Fresh == [status |-> "pending", attempts |-> 0, due |-> TRUE]

Rejected == {i \in Ids : box[i] # Nil /\ box[i].status = "rejected"}

\* retryRejected: requeueRejected          syncNow: resetPendingBackoff
\* discardRejected: clearRejected
Press ==
    /\ oper = {} /\ Mishap("operator")
    /\ \/ oper' = {[id |-> i, put |-> Fresh] : i \in Rejected}
       \/ oper' = {[id |-> i, put |-> Fresh] :
                     i \in {j \in Ids : Pending(j) /\ ~box[j].due}}
       \/ oper' = {[id |-> i, put |-> Nil] : i \in Rejected}
    /\ oper' # {}
    /\ UNCHANGED <<log, box, link, replaying, replays, calls, edge, drawers,
                   discarded>>

PressWrite(c) ==
    /\ c \in oper
    /\ oper' = oper \ {c}
    /\ box' = [box EXCEPT ![c.id] = c.put]
    /\ discarded' = IF c.put = Nil THEN discarded \cup {c.id} ELSE discarded
    /\ UNCHANGED <<log, link, replaying, replays, calls, edge, drawers, mishaps>>

-----------------------------------------------------------------------------
ReplayStep(r) ==
    \/ Start(r) \/ Claim(r) \/ LoopStep(r)
    \/ Ack(r) \/ Park(r) \/ MarkRead(r) \/ MarkWrite(r)
    \/ AskCashier(r) \/ DialogCloses(r) \/ Finish(r)

EdgeStep(k) ==
    Receive(k) \/ LookForId(k) \/ Insert(k) \/ ApplyWork(k) \/ ApplyPayment(k)

Environment ==
    \/ \E o \in Orders, c \in Cashiers :
         CreateOffline(o, c) \/ (\E op \in {"work", "pay"} : PatchOffline(o, op, c))
    \/ \E k \in Calls : CallFails(k) \/ Deadline(k)
    \/ \E c \in Cashiers : CloseDrawer(c)
    \/ \E o \in Orders : OtherTillPays(o)
    \/ Drop \/ Restart \/ Press

Next ==
    \/ \E r \in Replays : ReplayStep(r)
    \/ \E k \in Calls : EdgeStep(k) \/ BufferedCallExpires(k)
    \/ \E i \in Ids : BackoffElapses(i)
    \/ \E c \in oper : PressWrite(c)
    \/ Reconnect
    \/ Environment

Spec == Init /\ [][Next]_vars

\* Fairness: the browser resumes every await, the poll and the backoff are
\* timers, the edge works on what it receives, every call has a deadline, the
\* network comes back, and somebody closes the dialog.  Mishaps need not happen.
FairSpec ==
    /\ Spec
    /\ \A r \in Replays : WF_vars(ReplayStep(r))
    /\ \A k \in Calls : WF_vars(EdgeStep(k)) /\ WF_vars(BufferedCallExpires(k))
    /\ \A i \in 1..MaxEntries : WF_vars(i \in Ids /\ BackoffElapses(i))
    /\ WF_vars(\E c \in oper : PressWrite(c))
    /\ WF_vars(Reconnect)

-----------------------------------------------------------------------------
(* Properties *)

Kept(i) == box[i] # Nil \/ i \in discarded

(***************************************************************************)
(* An order taken offline is never lost: it is on the edge, or its entry   *)
(* is still in the outbox (pending, or rejected before the operator's      *)
(* eyes), or the operator has thrown it away.  Holds although answers get  *)
(* lost, replays overlap and 409 counts as success, because the edge says  *)
(* 409 only after the attempt under way has succeeded.                     *)
(***************************************************************************)
OrderNeverLost ==
    \A i \in Ids : log[i].op = "create" => edge[log[i].order].made \/ Kept(i)

(***************************************************************************)
(* Cash taken offline never disappears from the books unseen: its          *)
(* transaction is the one booked on the edge, or the entry is still in the *)
(* outbox, or the operator has thrown it away; also when another till has  *)
(* settled the order meanwhile (hence 400 and not 409).                    *)
(***************************************************************************)
PaymentNeverLost ==
    \A i \in Ids : log[i].op = "pay" => edge[log[i].order].paid = i \/ Kept(i)

(***************************************************************************)
(* The terminal, its replays and the edge implement OfflineSales: however  *)
(* often and by however many replays an entry is sent, the edge stores an  *)
(* order once, books at most one payment of it and never another instead,  *)
(* and an entry leaves the outbox only when the edge has what it says.     *)
(***************************************************************************)
Sales == INSTANCE OfflineSales WITH
    Changes <- LogEntries,
    taken   <- log,
    held    <- {i \in Ids : box[i] # Nil},
    dropped <- discarded,
    made    <- {o \in Orders : edge[o].made},
    paid    <- [o \in Orders |-> edge[o].paid]

BookedOnce == Sales!Spec

(***************************************************************************)
(* Patches of one order reach the edge in the order they were made ("FIFO  *)
(* pro entityId").                                                         *)
(***************************************************************************)
FifoPerOrder == [][\A o \in Orders : edge'[o].work >= edge[o].work]_vars

(***************************************************************************)
(* No entry stays pending for ever: whatever overlaps, drops and restarts, *)
(* it is finally stored on the edge or shown to the operator as rejected.  *)
(***************************************************************************)
Drains == \A i \in 1..MaxEntries :
            (i \in Ids /\ Pending(i)) ~> (i \in Ids /\ ~Pending(i))
=============================================================================
