---------------------------- MODULE MCPullCursor ----------------------------
(* Instances of PullCursor; records and pullers are model values. *)
EXTENDS PullCursor

\* Orderly runs with failing pulls, restarts and records of the edge; the same
\* with records that cannot be compared or applied; realtime pulls beside them.
AllMixes ==
    {{"fail", "restart", "local"},
     {"fail", "restart", "compare", "reject"},
     {"realtime", "compare", "reject"}}

\* Realtime pulls and nothing else that could disturb.
RealtimeOnly == {{"realtime"}}
=============================================================================
