--------------------------- MODULE SyncCycleProofs --------------------------
(***************************************************************************)
(* Proofs about the single-flight mutex: its bookkeeping is right however  *)
(* many cycles it lets through (Bookkeeping), and it lets one through at a *)
(* time if nothing happens between a look at the slot and its occupation   *)
(* (Serial).                                                               *)
(***************************************************************************)
EXTENDS SyncCycle, TLAPS

\* The slot names a running cycle or nobody.
FlightRuns == cycleInFlight # NoCall => cycleInFlight \in Holders

Bookkeeping ==
    /\ TypeOK
    /\ FlightRuns
    /\ QueuedWillDrain
    /\ AwaitsARun

\* Initially nothing is in the slot, queued or awaited.
LEMMA BookkeepingInit == Init => Bookkeeping
<1> SUFFICES ASSUME Init PROVE Bookkeeping
  OBVIOUS
<1>1. owed \in BOOLEAN /\ may \subseteq Disturbances
  BY DEF Init
<1> QED
  BY <1>1, NoCallAssumption DEF Init, Bookkeeping, TypeOK, PCs, FlightRuns,
     QueuedWillDrain, AwaitsARun

\* Every step keeps the books.
LEMMA BookkeepingStep == Bookkeeping /\ [Next]_vars => Bookkeeping'
<1> SUFFICES ASSUME Bookkeeping, [Next]_vars PROVE Bookkeeping'
  OBVIOUS
<1>0. owed' \in BOOLEAN /\ may' \subseteq Disturbances
  <2>1. owed \in BOOLEAN /\ may \subseteq Disturbances
    BY DEF Bookkeeping, TypeOK
  <2> QED
    BY <2>1 DEF Next, Arrival, Progress, vars, Trigger, NotPaired, Reload, SyncNow, Drain,
       StartCycle, ReloadLoop, Occupy, Release, SyncNowEnds
<1> USE NoCallAssumption
<1> USE DEF Bookkeeping, TypeOK, PCs, FlightRuns, QueuedWillDrain, AwaitsARun, Holders
<1>1. ASSUME NEW c \in Calls, Trigger(c) PROVE Bookkeeping'
  BY <1>0, <1>1 DEF Trigger, Enter
<1>2. ASSUME NEW c \in Calls, NotPaired(c) PROVE Bookkeeping'
  BY <1>0, <1>2 DEF NotPaired
<1>3. ASSUME NEW c \in Calls, Reload(c) PROVE Bookkeeping'
  BY <1>0, <1>3 DEF Reload
<1>4. ASSUME NEW c \in Calls, SyncNow(c) PROVE Bookkeeping'
  BY <1>0, <1>4 DEF SyncNow
<1>5. ASSUME NEW c \in Calls, Drain(c) PROVE Bookkeeping'
  BY <1>0, <1>5 DEF Drain, Enter
<1>6. ASSUME NEW c \in Calls, StartCycle(c) PROVE Bookkeeping'
  BY <1>0, <1>6 DEF StartCycle, Occupy
<1>7. ASSUME NEW c \in Calls, ReloadLoop(c) PROVE Bookkeeping'
  BY <1>0, <1>7 DEF ReloadLoop, Occupy, Woken
<1>8. ASSUME NEW c \in Calls, Release(c) PROVE Bookkeeping'
  BY <1>0, <1>8 DEF Release
<1>9. ASSUME NEW c \in Calls, SyncNowEnds(c) PROVE Bookkeeping'
  BY <1>0, <1>9 DEF SyncNowEnds
<1>10. CASE UNCHANGED vars
  BY <1>0, <1>10 DEF vars
<1> QED
  BY <1>1, <1>2, <1>3, <1>4, <1>5, <1>6, <1>7, <1>8, <1>9, <1>10 DEF Next, Arrival, Progress

(***************************************************************************)
(* However triggers, reloads, syncNow and missing connections interleave,  *)
(* the queue slot holds at most one catch-up (TypeOK), ...                 *)
(***************************************************************************)
THEOREM CycleTypeCorrect == Spec => []TypeOK
<1>1. Bookkeeping => TypeOK
  BY DEF Bookkeeping
<1> QED
  BY <1>1, BookkeepingInit, BookkeepingStep, PTL DEF Spec

(***************************************************************************)
(* ... a queued trigger always has a running cycle that will drain it ...  *)
(***************************************************************************)
THEOREM QueuedSafe == Spec => []QueuedWillDrain
<1>1. Bookkeeping => QueuedWillDrain
  BY DEF Bookkeeping
<1> QED
  BY <1>1, BookkeepingInit, BookkeepingStep, PTL DEF Spec

(***************************************************************************)
(* ... and a waiting reload awaits a cycle that is still running.          *)
(***************************************************************************)
THEOREM AwaitsSafe == Spec => []AwaitsARun
<1>1. Bookkeeping => AwaitsARun
  BY DEF Bookkeeping
<1> QED
  BY <1>1, BookkeepingInit, BookkeepingStep, PTL DEF Spec

-----------------------------------------------------------------------------
\* Calls that have looked at the slot, or are about to, without occupying it.
InGap == {c \in Calls : pc[c] \in {"connecting", "draining", "loading"}}

\* What makes the mutex exclusive: only the call in the slot runs, at most one
\* call is in the gap, and one that reads the connection as a trigger finds the
\* slot as empty as it has seen it.
Serial ==
    /\ \A c \in Active : cycleInFlight = c
    /\ \A c, d \in InGap : c = d
    /\ \A c \in Calls : pc[c] = "connecting" => cycleInFlight = NoCall /\ Woken = {}
    /\ \A c \in Calls : pc[c] = "loading" => Woken = {}
    /\ \A c \in Calls : pc[c] # "direct"

\* Initially no call is active.
LEMMA SerialInit == Init => Serial
  BY DEF Init, Serial, Active, InGap, Woken

\* Where neither of the two occurs.
Calm == ~May("gap") /\ ~May("direct")

\* Without the disturbances gap and direct every step keeps Serial.
LEMMA SerialStep == Bookkeeping /\ Calm /\ Serial /\ [Next]_vars => Serial'
<1> SUFFICES ASSUME Bookkeeping, ~May("gap"), ~May("direct"), Serial, [Next]_vars
             PROVE  Serial'
  BY DEF Calm
<1> USE NoCallAssumption
<1> USE DEF Bookkeeping, TypeOK, PCs, Serial, Active, InGap, Woken
<1>1. ASSUME NEW c \in Calls, Trigger(c) PROVE Serial'
  BY <1>1 DEF Trigger, Enter, MayTouch
<1>2. ASSUME NEW c \in Calls, NotPaired(c) PROVE Serial'
  BY <1>2 DEF NotPaired
<1>3. ASSUME NEW c \in Calls, Reload(c) PROVE Serial'
  BY <1>3 DEF Reload, MayTouch
<1>4. ASSUME NEW c \in Calls, SyncNow(c) PROVE Serial'
  BY <1>4 DEF SyncNow
<1>5. ASSUME NEW c \in Calls, Drain(c) PROVE Serial'
  BY <1>5 DEF Drain, Enter
<1>6. ASSUME NEW c \in Calls, StartCycle(c) PROVE Serial'
  BY <1>6 DEF StartCycle, Occupy
<1>7. ASSUME NEW c \in Calls, ReloadLoop(c) PROVE Serial'
  BY <1>7 DEF ReloadLoop, Occupy
<1>8. ASSUME NEW c \in Calls, Release(c) PROVE Serial'
  BY <1>8 DEF Release, Holders, MayTouch
<1>9. ASSUME NEW c \in Calls, SyncNowEnds(c) PROVE Serial'
  BY <1>9 DEF SyncNowEnds
<1>10. CASE UNCHANGED vars
  BY <1>10 DEF vars
<1> QED
  BY <1>1, <1>2, <1>3, <1>4, <1>5, <1>6, <1>7, <1>8, <1>9, <1>10 DEF Next, Arrival, Progress

(***************************************************************************)
(* The mutex is exclusive for any number of calls, if syncNow is not used  *)
(* and nothing happens while a call is between its look at the slot and    *)
(* the occupation: the gap is all that is wrong with it.                   *)
(***************************************************************************)
THEOREM ExclusiveSafe == Spec => []ExclusiveOutsideGaps
<1> DEFINE Inv == Bookkeeping /\ (Calm => Serial)
<1>1. Init => Inv
  BY BookkeepingInit, SerialInit
<1>2. Inv /\ [Next]_vars => Inv'
  <2> SUFFICES ASSUME Inv, [Next]_vars PROVE Inv'
    OBVIOUS
  <2>1. may' = may
    BY DEF Next, Arrival, Progress, vars
  <2>2. Calm' => Calm
    BY <2>1 DEF Calm, May
  <2> QED
    BY <2>2, BookkeepingStep, SerialStep
<1>3. Inv => ExclusiveOutsideGaps
  BY DEF Calm, Serial, SingleFlight, ExclusiveOutsideGaps
<1> QED
  BY <1>1, <1>2, <1>3, PTL DEF Spec
=============================================================================
