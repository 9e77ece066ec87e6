---------------------------- MODULE OfflineSales ----------------------------
(***************************************************************************)
(* What a terminal without a connection promises about the orders and the  *)
(* payments it takes, without requests, retries or verdicts: it holds each *)
(* until the edge has it or the operator throws it away, and however often *)
(* it is sent, the edge stores an order once and books at most one payment *)
(* of it, for good.                                                        *)
(***************************************************************************)
EXTENDS Naturals, Sequences

CONSTANTS
    Orders,
    Changes,     \* what may be done to an order: [order, op, ...]
    Nil

VARIABLES
    taken,       \* the changes taken offline, in their order
    held,        \* those the terminal still has
    dropped,     \* those the operator has thrown away
    made,        \* the orders on the edge
    paid         \* the change that paid an order, 0 for none; Nil for another till

vars == <<taken, held, dropped, made, paid>>

Taken == 1..Len(taken)

TakenFor(o, op) == \E i \in Taken : taken[i].order = o /\ taken[i].op = op

\* The edge has what the change is about.
Done(i) ==
    /\ taken[i].order \in made
    /\ taken[i].op = "pay" => paid[taken[i].order] = i

Init ==
    /\ taken = <<>> /\ held = {} /\ dropped = {}
    /\ made = {}
    /\ paid = [o \in Orders |-> 0]

\* An order is made once and paid once, and nothing is done to it afterwards.
Take(t) ==
    /\ IF t.op = "create"
       THEN t.order \notin made /\ ~TakenFor(t.order, "create")
       ELSE TakenFor(t.order, "create") /\ ~TakenFor(t.order, "pay")
    /\ taken' = Append(taken, t)
    /\ held' = held \cup {Len(taken) + 1}
    /\ UNCHANGED <<dropped, made, paid>>

\* The edge stores an order; it keeps it.
Store(o) ==
    /\ o \notin made /\ TakenFor(o, "create")
    /\ made' = made \cup {o}
    /\ UNCHANGED <<taken, held, dropped, paid>>

\* The edge books a payment, the first of its order and the last.
Book(i) ==
    LET o == taken[i].order IN
    /\ taken[i].op = "pay"
    /\ o \in made /\ paid[o] = 0
    /\ paid' = [paid EXCEPT ![o] = i]
    /\ UNCHANGED <<taken, held, dropped, made>>

PayElsewhere(o) ==
    /\ o \in made /\ paid[o] = 0
    /\ paid' = [paid EXCEPT ![o] = Nil]
    /\ UNCHANGED <<taken, held, dropped, made>>

\* The terminal lets go of what is on the edge, and of nothing else.
Release(i) ==
    /\ i \in held /\ Done(i)
    /\ held' = held \ {i}
    /\ UNCHANGED <<taken, dropped, made, paid>>

\* A stale copy brings a change back, which is then sent once more.
Return(i) ==
    /\ held' = held \cup {i}
    /\ UNCHANGED <<taken, dropped, made, paid>>

Discard(i) ==
    /\ held' = held \ {i}
    /\ dropped' = dropped \cup {i}
    /\ UNCHANGED <<taken, made, paid>>

Next ==
    \/ \E t \in Changes : Take(t)
    \/ \E o \in Orders : Store(o) \/ PayElsewhere(o)
    \/ \E i \in Taken : Book(i) \/ Release(i) \/ Return(i) \/ Discard(i)

Spec == Init /\ [][Next]_vars
=============================================================================
