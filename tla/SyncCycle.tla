----------------------------- MODULE SyncCycle ------------------------------
(***************************************************************************)
(* The single-flight mutex around a full sync cycle of the edge            *)
(* (cycleInFlight, cycleQueued): who may run a cycle, who is queued, who   *)
(* waits.  What a cycle does is not looked at here.                        *)
(*                                                                         *)
(* A call is one activation of triggerImmediateCycle (scheduler tick,      *)
(* force-sync event, PIN change), of runUsersReloadCycle (operator) or of  *)
(* syncNow (operator).  JavaScript runs a call without interruption up to  *)
(* its next await; one action is one such stretch.                         *)
(***************************************************************************)
EXTENDS Naturals

CONSTANTS
    Calls,         \* activations that may exist at once
    NoCall,
    Disturbances   \* what the environment may do in some behaviour, see below

(***************************************************************************)
(*   gap        a call may arrive, or a cycle end, while another call is   *)
(*              between reading the connection and occupying the slot, or  *)
(*              is about to look at the slot                               *)
(*   direct     syncNow is used                                            *)
(*   unpaired   a call may find no active connection (or fail to read it)  *)
(***************************************************************************)
AllDisturbances == {"gap", "direct", "unpaired"}

ASSUME NoCallAssumption == NoCall \notin Calls
ASSUME DisturbancesAssumption == Disturbances \subseteq AllDisturbances

VARIABLES
    pc,            \* what a call is doing
    cycleInFlight, \* the call that occupied the slot last and has not been released
    cycleQueued,   \* catch-ups in the queue slot
    awaits,        \* the run a waiting reload awaits; NoCall once it has ended
    owed,          \* history: a trigger came and no cycle has started since
    may            \* what the environment does in this behaviour

vars == <<pc, cycleInFlight, cycleQueued, awaits, owed, may>>

\*   idle        no activation          connecting  trigger reads the connection
\*   draining    scheduled by setImmediate
\*   loading     reload reads the connection
\*   waiting     reload awaits the run in the slot
\*   running, reloading, direct         runs a cycle
PCs == {"idle", "connecting", "draining", "loading", "waiting",
        "running", "reloading", "direct"}

TypeOK ==
    /\ pc \in [Calls -> PCs]
    /\ cycleInFlight \in Calls \cup {NoCall}
    /\ cycleQueued \in 0..1
    /\ awaits \in [Calls -> Calls \cup {NoCall}]
    /\ owed \in BOOLEAN
    /\ may \subseteq Disturbances

Init ==
    /\ pc = [c \in Calls |-> "idle"]
    /\ cycleInFlight = NoCall
    /\ cycleQueued = 0
    /\ awaits = [c \in Calls |-> NoCall]
    /\ owed = FALSE
    /\ may \in SUBSET Disturbances

-----------------------------------------------------------------------------
May(d) == d \in may

Holders == {c \in Calls : pc[c] \in {"running", "reloading"}}

\* Reloads whose awaited run has ended; they go on before any timer or
\* setImmediate callback does.
Woken == {c \in Calls : pc[c] = "waiting" /\ awaits[c] = NoCall}

MayTouch ==
    \/ May("gap")
    \/ /\ Woken = {}
       /\ \A d \in Calls : pc[d] \notin {"connecting", "draining", "loading"}

\* The call c occupies the slot and its cycle starts.
Occupy(c, state) ==
    /\ cycleInFlight' = c
    /\ pc' = [pc EXCEPT ![c] = state]
    /\ owed' = FALSE

-----------------------------------------------------------------------------
(* triggerImmediateCycle *)

\* The synchronous part: queue behind the cycle in flight (a queued trigger is
\* replaced), or go on and read the connection.
Enter(c) ==
    \/ /\ cycleInFlight # NoCall
       /\ cycleQueued' = 1
       /\ pc' = [pc EXCEPT ![c] = "idle"]
    \/ /\ cycleInFlight = NoCall
       /\ cycleQueued' = cycleQueued
       /\ pc' = [pc EXCEPT ![c] = "connecting"]

Trigger(c) ==
    /\ pc[c] = "idle"
    /\ MayTouch
    /\ Enter(c)
    /\ owed' = TRUE
    /\ UNCHANGED <<cycleInFlight, awaits>>

\* The setImmediate callback of a release.
Drain(c) ==
    /\ pc[c] = "draining"
    /\ Woken = {}
    /\ Enter(c)
    /\ UNCHANGED <<cycleInFlight, awaits, owed>>

\* The connection has been read; the slot is occupied without looking at it
\* again.
StartCycle(c) ==
    /\ pc[c] = "connecting"
    /\ Occupy(c, "running")
    /\ UNCHANGED <<cycleQueued, awaits>>

\* No active connection: the call returns null.
NotPaired(c) ==
    /\ May("unpaired")
    /\ pc[c] \in {"connecting", "loading"}
    /\ pc' = [pc EXCEPT ![c] = "idle"]
    /\ UNCHANGED <<cycleInFlight, cycleQueued, awaits, owed>>

-----------------------------------------------------------------------------
(* runUsersReloadCycle *)

Reload(c) ==
    /\ pc[c] = "idle"
    /\ MayTouch
    /\ pc' = [pc EXCEPT ![c] = "loading"]
    /\ UNCHANGED <<cycleInFlight, cycleQueued, awaits, owed>>

\* Mutant: the reload waits once and then takes the slot, whoever has it.
ReloadLoop_once(c) ==
    /\ pc[c] = "loading" \/ c \in Woken
    /\ \/ /\ cycleInFlight = NoCall \/ pc[c] = "waiting"
          /\ Occupy(c, "reloading")
          /\ awaits' = awaits
       \/ /\ cycleInFlight # NoCall /\ pc[c] = "loading"
          /\ awaits' = [awaits EXCEPT ![c] = cycleInFlight]
          /\ pc' = [pc EXCEPT ![c] = "waiting"]
          /\ UNCHANGED <<cycleInFlight, owed>>
    /\ UNCHANGED cycleQueued

\* while (cycleInFlight) await cycleInFlight, and the occupation in the same
\* synchronous stretch as the last test of the loop.
ReloadLoop(c) ==
    /\ pc[c] = "loading" \/ c \in Woken
    /\ \/ /\ cycleInFlight = NoCall
          /\ Occupy(c, "reloading")
          /\ awaits' = awaits
       \/ /\ cycleInFlight # NoCall
          /\ awaits' = [awaits EXCEPT ![c] = cycleInFlight]
          /\ pc' = [pc EXCEPT ![c] = "waiting"]
          /\ UNCHANGED <<cycleInFlight, owed>>
    /\ UNCHANGED cycleQueued

-----------------------------------------------------------------------------
(* releaseCycle: the run of c has ended, well or not.  The slot is cleared     *)
(* whoever occupies it, and a queued trigger becomes an activation of its own. *)

\* Mutants: the queue slot is emptied without a drain; the queue is not looked at.
Release_forgets(c) ==
    /\ c \in Holders
    /\ MayTouch
    /\ cycleInFlight' = NoCall
    /\ cycleQueued' = 0
    /\ pc' = [pc EXCEPT ![c] = "idle"]
    /\ awaits' = [d \in Calls |-> IF awaits[d] = c THEN NoCall ELSE awaits[d]]
    /\ UNCHANGED owed

Release_keepsQueue(c) ==
    /\ c \in Holders
    /\ MayTouch
    /\ cycleInFlight' = NoCall
    /\ pc' = [pc EXCEPT ![c] = "idle"]
    /\ awaits' = [d \in Calls |-> IF awaits[d] = c THEN NoCall ELSE awaits[d]]
    /\ UNCHANGED <<cycleQueued, owed>>

\* Mutant: the promise in the slot stays pending after the cycle has ended.
Release_noWake(c) ==
    /\ c \in Holders
    /\ MayTouch
    /\ cycleInFlight' = NoCall
    /\ cycleQueued' = 0
    /\ pc' = [pc EXCEPT ![c] = IF cycleQueued = 1 THEN "draining" ELSE "idle"]
    /\ UNCHANGED <<awaits, owed>>

Release(c) ==
    /\ c \in Holders
    /\ MayTouch
    /\ cycleInFlight' = NoCall
    /\ cycleQueued' = 0
    /\ pc' = [pc EXCEPT ![c] = IF cycleQueued = 1 THEN "draining" ELSE "idle"]
    /\ awaits' = [d \in Calls |-> IF awaits[d] = c THEN NoCall ELSE awaits[d]]
    /\ UNCHANGED owed

-----------------------------------------------------------------------------
(* syncNow calls runSyncOnce itself. *)

SyncNow(c) ==
    /\ May("direct")
    /\ pc[c] = "idle"
    /\ pc' = [pc EXCEPT ![c] = "direct"]
    /\ owed' = FALSE
    /\ UNCHANGED <<cycleInFlight, cycleQueued, awaits>>

SyncNowEnds(c) ==
    /\ pc[c] = "direct"
    /\ pc' = [pc EXCEPT ![c] = "idle"]
    /\ UNCHANGED <<cycleInFlight, cycleQueued, awaits, owed>>

-----------------------------------------------------------------------------
Arrival(c) ==
    /\ Trigger(c) \/ NotPaired(c) \/ Reload(c) \/ SyncNow(c)
    /\ UNCHANGED may

Progress(c) ==
    /\ Drain(c) \/ StartCycle(c) \/ ReloadLoop(c) \/ Release(c) \/ SyncNowEnds(c)
    /\ UNCHANGED may

Next == \E c \in Calls : Arrival(c) \/ Progress(c)

Spec == Init /\ [][Next]_vars

\* Fairness: the event loop resumes every call, and a cycle ends because every
\* request to the cloud carries a timeout.  Triggers need not come.
FairSpec == Spec /\ \A c \in Calls : WF_vars(Progress(c))

-----------------------------------------------------------------------------
(* Properties *)

(***************************************************************************)
(* At most one cycle at a time ("max. 1 Cycle gleichzeitig"), so that two  *)
(* pushes never work on the outbox and two pulls never on a cursor.        *)
(***************************************************************************)
Active == {c \in Calls : pc[c] \in {"running", "reloading", "direct"}}

SingleFlight == \A c, d \in Active : c = d

(***************************************************************************)
(* The gap between a look at the slot and its occupation, and syncNow, are *)
(* all that is wrong with the mutex: where neither occurs, ticks, forced   *)
(* syncs, PIN changes, waiting reloads and missing connections never run   *)
(* two cycles.                                                             *)
(***************************************************************************)
ExclusiveOutsideGaps == ~May("gap") /\ ~May("direct") => SingleFlight

(***************************************************************************)
(* A queued trigger always has someone who will drain it: the slot is      *)
(* occupied by a call whose cycle is still running, even when the mutex    *)
(* has let several cycles through.  Otherwise the catch-up would sit in    *)
(* the slot until some later cycle happens to end.                         *)
(***************************************************************************)
QueuedWillDrain ==
    cycleQueued = 1 => cycleInFlight \in Holders

(***************************************************************************)
(* A reload never awaits a run that is over: whatever run it picked from   *)
(* the slot will still end and wake it, also after other calls have taken  *)
(* and released the slot (runUsersReloadCycle has no timeout of its own).  *)
(***************************************************************************)
AwaitsARun ==
    \A c \in Calls : awaits[c] # NoCall => awaits[c] \in Holders

(***************************************************************************)
(* No trigger is lost: after a trigger a cycle starts, although triggers   *)
(* are coalesced in the queue slot and reloads overtake the drain (unless  *)
(* the connection is gone).                                                *)
(***************************************************************************)
TriggerServed == (owed /\ ~May("unpaired")) ~> ~owed
=============================================================================
