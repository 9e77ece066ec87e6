---------------------------- MODULE MCPosOutbox -----------------------------
(* A terminal with its outbox, for TLC. *)
EXTENDS PosOutbox
=============================================================================
