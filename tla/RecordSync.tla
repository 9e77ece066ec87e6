----------------------------- MODULE RecordSync -----------------------------
(***************************************************************************)
(* What pushing promises about a record, without rows, batches or answers: *)
(* the cloud follows the versions the edge goes through.  It may skip some *)
(* of them, but it never takes a version the edge has not reached, and     *)
(* never goes back to one it has left behind.                              *)
(***************************************************************************)
EXTENDS Naturals

CONSTANT Entities    \* records of the syncable services

VARIABLES
    edge,            \* version of every record on the edge
    cloud            \* version of every record in the cloud

Init ==
    /\ edge = [e \in Entities |-> 0]
    /\ cloud = [e \in Entities |-> 0]

\* A user of the edge changes or removes the record.
Change(e) ==
    /\ edge' = [edge EXCEPT ![e] = @ + 1]
    /\ UNCHANGED cloud

\* The cloud takes over a younger version of the record.
Deliver(e) ==
    /\ \E v \in (cloud[e] + 1)..edge[e] : cloud' = [cloud EXCEPT ![e] = v]
    /\ UNCHANGED edge

Next == \E e \in Entities : Change(e) \/ Deliver(e)

Spec == Init /\ [][Next]_<<edge, cloud>>
=============================================================================
