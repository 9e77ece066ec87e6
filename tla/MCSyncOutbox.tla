---------------------------- MODULE MCSyncOutbox ----------------------------
(***************************************************************************)
(* Instances of SyncOutbox for TLC: the .cfg files MCSyncOutbox_*.cfg give *)
(* the constants their values.  The versions and row ids of the instances  *)
(* are kept large enough that every status meets every other status of a   *)
(* younger row of the same entity.                                         *)
(***************************************************************************)
EXTENDS SyncOutbox
=============================================================================
