---------------------------- MODULE MCSyncCycle -----------------------------
(* Instances of SyncCycle; calls and NoCall are model values. *)
EXTENDS SyncCycle
=============================================================================
