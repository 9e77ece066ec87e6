---------------------------- MODULE MCBusinessDays ----------------------------
(***************************************************************************)
(* Instances of BusinessDays; requests are model values.                   *)
(***************************************************************************)
EXTENDS BusinessDays

\* Orders that overlap, rotate and are refused; one request at a time with rest
\* days and restarts; with what an operator does to a day; with tabs from before,
\* kitchen orders and a location that cannot be read.
AllMixes ==
    {{"order", "overlap", "refuse"},
     {"order", "ensure", "approve", "refuse", "crash", "blind"},
     {"order", "ensure", "open", "close", "discard"},
     {"order", "ensure", "discard", "blind", "tabs", "kitchen"}}
=============================================================================
