------------------------------ MODULE MCOrders ------------------------------
(***************************************************************************)
(* Instances of Orders; requests, lines and cashiers are model values.     *)
(***************************************************************************)
EXTENDS Orders

CONSTANTS c1, c2

\* Calls one after the other: orders split and paid, or cancelled; the same with
\* steps that fail, crashes, and orders that cannot be read while a split is undone;
\* settled and reopened by their status.  Then tills that settle at the same time,
\* with cash drawers and without.
AllMixes ==
    {{"split", "pay", c1, "status", "aborted"},
     {"split", "pay", c1, "fail", "crash"},
     {"split", "status", "completed", "fail", "unreadable"},
     {"split", "status", "completed", "unclaimed", "active", "aborted"},
     {"pay", c1, c2, "grant", "count", "cashier", "auto", "overlap", "fail"},
     {"pay", c1, "grant", "count", "cashier", "fail"},
     {"pay", c1, c2, "overlap", "fail", "crash"}}
=============================================================================
