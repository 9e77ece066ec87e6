----------------------------- MODULE PullCursor -----------------------------
(***************************************************************************)
(* The pull path of the edge for one service that is also reconciled       *)
(* (users): pullers fetch pages of changed records from the cloud, apply   *)
(* them to the edge database and advance a stored cursor.  A pull without  *)
(* a cursor is a full pull; it carries a snapshot of the visible ids and   *)
(* ends by archiving local records the snapshot does not name.             *)
(*                                                                         *)
(*   cycles     pulls of a sync cycle, or of the operator's reload         *)
(*   realtime   pulls set off by a change event, outside the mutex         *)
(*   cloud      (external) changes, hides and deletes records              *)
(*                                                                         *)
(* Time is the number of changes made in the cloud; the content of a       *)
(* record is abstracted to the time of its last change.                    *)
(***************************************************************************)
EXTENDS Naturals, FiniteSets

CONSTANTS
    Entities,
    Owners,        \* records whose role is never pushed (isSyncPushBlockedRole)
    Cycles,        \* pullers inside sync cycles
    Realtime,      \* pullers of the realtime worker
    PageSize,      \* PULL_PAGE_SIZE
    MaxPages,      \* pages a pull asks for at most, 200 in the code
    Mixes,         \* what the environment may do in a run, see below
    MaxTime,       \* bound: changes in the cloud
    OverlapTime,   \* bound: the same beside realtime pulls
    MaxMishaps     \* bound: failing pulls and restarts

(***************************************************************************)
(*   realtime   realtime pulls beside the cycles                           *)
(*   fail       a request or a database call of a puller fails             *)
(*   compare    the local rows of a page cannot be read                    *)
(*   reject     a single record cannot be applied or archived              *)
(*   restart    the process stops at any moment                            *)
(*   local      the edge creates records of its own                        *)
(***************************************************************************)
Disturbances == {"realtime", "fail", "compare", "reject", "restart", "local"}

ASSUME PullAssumption ==
    /\ Owners \subseteq Entities
    /\ Cycles \cap Realtime = {}
    /\ PageSize \in Nat \ {0}
    /\ MaxPages \in Nat \ {0}
    /\ MaxTime \in Nat \ {0}
    /\ OverlapTime \in 1..MaxTime
    /\ MaxMishaps \in Nat
    /\ Mixes \subseteq SUBSET Disturbances

VARIABLES
    may,       \* the disturbances of this run
    now,       \* cloud clock
    cloud,     \* cloud database
    edge,      \* edge database
    cursor,    \* lastPullAt of the service, 0 if there is none
    pc,        \* what a puller is doing
    pull,      \* the local variables of a puller
    mishaps    \* failed pulls and restarts so far

vars == <<may, now, cloud, edge, cursor, pc, pull, mishaps>>

Pullers == Cycles \cup Realtime
Times   == 0..MaxTime

CloudRecords == [time : Times, state : {"none", "shown", "hidden", "deleted"}]
EdgeRecords  == [time : Times, state : {"none", "active", "archived"}]
None         == [time |-> 0, state |-> "none"]

\* since, mark: the cursor read, the serverTimestamp of the first page
\* rest: matching records no page has brought yet;  page: records to apply
\* pages: pages fetched;  seen: the edge database when the page was compared with it
\* snapshot: visibilitySnapshot;  stale: records still to archive
\* reload: the pull belongs to a reload
Pulls == [since : Times, mark : Times, rest : SUBSET Entities,
          page : SUBSET [ent : Entities, rec : CloudRecords], pages : 0..MaxPages,
          seen : [Entities -> EdgeRecords], snapshot : SUBSET Entities,
          stale : SUBSET Entities, reload : BOOLEAN]

NoPull == [since |-> 0, mark |-> 0, rest |-> {}, page |-> {}, pages |-> 0,
           seen |-> [e \in Entities |-> None], snapshot |-> {},
           stale |-> {}, reload |-> FALSE]

PathOK ==
    /\ now \in 1..MaxTime
    /\ cloud \in [Entities -> CloudRecords]
    /\ edge \in [Entities -> EdgeRecords]
    /\ cursor \in 0..now
    /\ pc \in [Pullers -> {"idle", "reset", "cursor", "request", "compare",
                           "apply", "reconcile", "archive"}]
    /\ pull \in [Pullers -> Pulls]
    /\ mishaps \in 0..MaxMishaps

TypeOK == may \in Mixes /\ PathOK

\* Freshly paired: owners exist on the edge only, everything else in the cloud
\* only or nowhere; no cursor.
Init ==
    /\ may \in Mixes
    /\ now = 1
    /\ cloud \in [Entities -> {None, [time |-> 1, state |-> "shown"]}]
    /\ \A e \in Owners : cloud[e] = None
    /\ edge = [e \in Entities |->
                 IF e \in Owners THEN [time |-> 0, state |-> "active"] ELSE None]
    /\ cursor = 0
    /\ pc = [p \in Pullers |-> "idle"]
    /\ pull = [p \in Pullers |-> NoPull]
    /\ mishaps = 0

-----------------------------------------------------------------------------
May(d) == d \in may

Horizon == IF May("realtime") THEN OverlapTime ELSE MaxTime

Shown == {e \in Entities : cloud[e].state = "shown"}

\* The record e of the cloud as it changes now.
Changed(e, state) ==
    /\ now < Horizon
    /\ now' = now + 1
    /\ cloud' = [cloud EXCEPT ![e] = [time |-> now + 1, state |-> state]]
    /\ UNCHANGED <<edge, cursor, pc, pull, mishaps>>

\* A user is created, edited or given back to the location.
CloudWrites(e) ==
    /\ e \notin Owners
    /\ cloud[e].state # "none" \/ edge[e].state = "none"
    /\ Changed(e, "shown")

\* A user loses the location: it just does not appear in answers any more.
CloudHides(e) == e \in Shown /\ Changed(e, "hidden")

\* A tombstone.
CloudDeletes(e) == e \in Shown /\ Changed(e, "deleted")

\* The edge creates a record, and later pushes it (module SyncOutbox).
LocalCreate(e) ==
    /\ May("local")
    /\ edge[e].state = "none" /\ cloud[e].state = "none"
    /\ edge' = [edge EXCEPT ![e] = [time |-> 0, state |-> "active"]]
    /\ UNCHANGED <<now, cloud, cursor, pc, pull, mishaps>>

LocalPushed(e) ==
    /\ e \notin Owners
    /\ edge[e].state # "none" /\ cloud[e].state = "none"
    /\ Changed(e, "shown")

-----------------------------------------------------------------------------
(* A pull *)

Goto(p, label) == pc' = [pc EXCEPT ![p] = label]

Ends(p) == Goto(p, "idle") /\ pull' = [pull EXCEPT ![p] = NoPull]

\* Cycles exclude each other (module SyncCycle); a realtime pull asks nobody.
MayBegin(p) ==
    /\ pc[p] = "idle"
    /\ IF p \in Realtime THEN May("realtime") ELSE \A q \in Cycles : pc[q] = "idle"

Begin(p) ==
    /\ MayBegin(p)
    /\ Goto(p, "cursor")
    /\ UNCHANGED <<now, cloud, edge, cursor, pull, mishaps>>

BeginReload(p) ==
    /\ p \in Cycles
    /\ MayBegin(p)
    /\ Goto(p, "reset")
    /\ pull' = [pull EXCEPT ![p].reload = TRUE]
    /\ UNCHANGED <<now, cloud, edge, cursor, mishaps>>

\* Mutant: the reload only pulls.
ResetCursor_not(p) ==
    /\ pc[p] = "reset"
    /\ Goto(p, "cursor")
    /\ UNCHANGED <<now, cloud, edge, cursor, pull, mishaps>>

ResetCursor(p) ==
    /\ pc[p] = "reset"
    /\ cursor' = 0
    /\ Goto(p, "cursor")
    /\ UNCHANGED <<now, cloud, edge, pull, mishaps>>

\* A cursor that cannot be read counts as none.
ReadCursor(p) ==
    /\ pc[p] = "cursor"
    /\ \E since \in {cursor} \cup {IF May("fail") THEN 0 ELSE cursor} :
          pull' = [pull EXCEPT ![p].since = since]
    /\ Goto(p, "request")
    /\ UNCHANGED <<now, cloud, edge, cursor, mishaps>>

\* What the cloud has to tell: changed after since, hidden records left out.
Matching(since) ==
    {e \in Entities : cloud[e].time > since /\ cloud[e].state \in {"shown", "deleted"}}

\* The pages that S may be answered with next.
PagesOf(S) ==
    {P \in SUBSET S : IF Cardinality(S) <= PageSize THEN P = S ELSE Cardinality(P) = PageSize}

\* A record that was hidden since the first page is left out.
Answer(P) == {[ent |-> e, rec |-> cloud[e]] : e \in {d \in P : cloud[d].state # "hidden"}}

\* Mutant: the mark is taken from the clock of the edge, which may be ahead.
FirstPage_edgeClock(p) ==
    LET all == Matching(pull[p].since) IN
    /\ pc[p] = "request"
    /\ \E P \in PagesOf(all) :
          pull' = [pull EXCEPT ![p].mark = now + 1, ![p].rest = all \ P,
                               ![p].page = Answer(P), ![p].pages = 1,
                               ![p].snapshot = IF pull[p].since = 0 THEN Shown ELSE {}]
    /\ Goto(p, "compare")
    /\ UNCHANGED <<now, cloud, edge, cursor, mishaps>>

\* Page 0: it fixes the mark and, for a full pull, brings the snapshot.
FirstPage(p) ==
    LET all == Matching(pull[p].since) IN
    /\ pc[p] = "request"
    /\ \E P \in PagesOf(all) :
          pull' = [pull EXCEPT ![p].mark = now, ![p].rest = all \ P,
                               ![p].page = Answer(P), ![p].pages = 1,
                               ![p].snapshot = IF pull[p].since = 0 THEN Shown ELSE {}]
    /\ Goto(p, "compare")
    /\ UNCHANGED <<now, cloud, edge, cursor, mishaps>>

\* Mutant: the mark follows the clock to the last page.
NextPage_movesMark(p) ==
    /\ pc[p] = "apply"
    /\ pull[p].page = {}
    /\ pull[p].rest # {} /\ pull[p].pages < MaxPages
    /\ \E P \in PagesOf(pull[p].rest) :
          pull' = [pull EXCEPT ![p].rest = @ \ P, ![p].page = Answer(P), ![p].pages = @ + 1,
                               ![p].mark = now]
    /\ Goto(p, "compare")
    /\ UNCHANGED <<now, cloud, edge, cursor, mishaps>>

NextPage(p) ==
    /\ pc[p] = "apply"
    /\ pull[p].page = {}
    /\ pull[p].rest # {} /\ pull[p].pages < MaxPages
    /\ \E P \in PagesOf(pull[p].rest) :
          pull' = [pull EXCEPT ![p].rest = @ \ P, ![p].page = Answer(P), ![p].pages = @ + 1]
    /\ Goto(p, "compare")
    /\ UNCHANGED <<now, cloud, edge, cursor, mishaps>>

\* applyPulledRecords reads the local rows of the page once; if that fails every
\* record is taken for new.
Compare(p) ==
    /\ pc[p] = "compare"
    /\ \E seen \in {edge} \cup {IF May("compare") THEN NoPull.seen ELSE edge} :
          pull' = [pull EXCEPT ![p].seen = seen]
    /\ Goto(p, "apply")
    /\ UNCHANGED <<now, cloud, edge, cursor, mishaps>>

\* What applying the record r to the row of an entity leaves there, when the
\* row was last read as seen.  An unchanged record is not written, a create of
\* an existing and a patch of a missing row are rejected; nothing else is asked.
Applied(r, seen, row) ==
    LET new == [time |-> r.time, state |-> "active"] IN
    CASE r.state = "deleted" -> None
      [] r.state = "shown" /\ (seen.state = "none") = (row.state = "none") /\ seen # new -> new
      [] OTHER -> row

ApplyRecord(p, r) ==
    /\ pc[p] = "apply"
    /\ \E row \in {Applied(r.rec, pull[p].seen[r.ent], edge[r.ent])}
                   \cup (IF May("reject") THEN {edge[r.ent]} ELSE {}) :
          edge' = [edge EXCEPT ![r.ent] = row]
    /\ pull' = [pull EXCEPT ![p].page = @ \ {r}]
    /\ UNCHANGED <<now, cloud, cursor, pc, mishaps>>

\* The cursor moves after the last page, or the last the loop asks for, whatever
\* became of the records.
UpsertCursor(p) ==
    /\ pc[p] = "apply"
    /\ pull[p].page = {}
    /\ pull[p].rest = {} \/ pull[p].pages = MaxPages
    /\ cursor' = pull[p].mark
    /\ IF pull[p].since = 0
         THEN Goto(p, "reconcile") /\ pull' = pull
         ELSE Ends(p)
    /\ UNCHANGED <<now, cloud, edge, mishaps>>

\* Mutant: owners are archived like everybody else.
selectStaleUsersToArchive_all(visible) ==
    {e \in Entities : e \notin visible /\ edge[e].state = "active"}

selectStaleUsersToArchive(visible) ==
    {e \in Entities \ Owners : e \notin visible /\ edge[e].state = "active"}

Reconcile(p) ==
    LET stale == selectStaleUsersToArchive(pull[p].snapshot) IN
    /\ pc[p] = "reconcile"
    /\ IF stale = {} THEN Ends(p)
       ELSE Goto(p, "archive") /\ pull' = [pull EXCEPT ![p].stale = stale]
    /\ UNCHANGED <<now, cloud, edge, cursor, mishaps>>

Archive(p, e) ==
    /\ pc[p] = "archive"
    /\ e \in pull[p].stale
    /\ \E done \in {TRUE} \cup {~May("reject")} :
          edge' = IF done /\ edge[e].state # "none"
                    THEN [edge EXCEPT ![e].state = "archived"] ELSE edge
    /\ IF pull[p].stale = {e} THEN Ends(p)
       ELSE pc' = pc /\ pull' = [pull EXCEPT ![p].stale = @ \ {e}]
    /\ UNCHANGED <<now, cloud, cursor, mishaps>>

\* Mutant: the cursor moves although pages are missing.
PullFails_movesCursor(p) ==
    /\ May("fail")
    /\ mishaps < MaxMishaps
    /\ \/ pc[p] \in {"reset", "cursor", "request", "reconcile"}
       \/ pc[p] = "apply" /\ pull[p].page = {}
    /\ cursor' = IF pc[p] = "apply" THEN pull[p].mark ELSE cursor
    /\ Ends(p)
    /\ mishaps' = mishaps + 1
    /\ UNCHANGED <<now, cloud, edge>>

\* A request fails (network, 401, 429, 5xx), or a phase of the cycle before the
\* pull, or a database call outside the loop over the records: the pull ends
\* where it is.
PullFails(p) ==
    /\ May("fail")
    /\ mishaps < MaxMishaps
    /\ \/ pc[p] \in {"reset", "cursor", "request", "reconcile"}
       \/ pc[p] = "apply" /\ pull[p].page = {}
    /\ Ends(p)
    /\ mishaps' = mishaps + 1
    /\ UNCHANGED <<now, cloud, edge, cursor>>

Restart ==
    /\ May("restart")
    /\ mishaps < MaxMishaps
    /\ mishaps' = mishaps + 1
    /\ pc' = [p \in Pullers |-> "idle"]
    /\ pull' = [p \in Pullers |-> NoPull]
    /\ UNCHANGED <<now, cloud, edge, cursor>>

-----------------------------------------------------------------------------
PullStep(p) ==
    \/ ReadCursor(p) \/ FirstPage(p) \/ NextPage(p) \/ Compare(p)
    \/ \E r \in pull[p].page : ApplyRecord(p, r)
    \/ UpsertCursor(p) \/ Reconcile(p)
    \/ \E e \in pull[p].stale : Archive(p, e)

CloudStep ==
    \E e \in Entities : CloudWrites(e) \/ CloudHides(e) \/ CloudDeletes(e)

Next ==
    /\ \/ CloudStep
       \/ \E e \in Entities : LocalCreate(e) \/ LocalPushed(e)
       \/ \E p \in Pullers :
             Begin(p) \/ BeginReload(p) \/ ResetCursor(p) \/ PullStep(p) \/ PullFails(p)
       \/ Restart
    /\ UNCHANGED may

Spec == Init /\ [][Next]_vars

\* Ticks recur, a pull that has begun goes on, and records that the edge has
\* created are pushed in the end.  Nobody need press reload.
FairSpec ==
    /\ Spec
    /\ \A p \in Cycles : WF_vars(Begin(p) /\ UNCHANGED may)
    /\ \A p \in Pullers : WF_vars((PullStep(p) \/ ResetCursor(p)) /\ UNCHANGED may)
    /\ WF_vars((\E e \in Entities : LocalPushed(e)) /\ UNCHANGED may)

-----------------------------------------------------------------------------
(* Properties *)

\* One pull at a time, and every record that is pulled can be applied.
Orderly == may \cap {"realtime", "compare", "reject"} = {}

Mirrors(e) ==
    CASE cloud[e].state = "shown" -> edge[e] = [time |-> cloud[e].time, state |-> "active"]
      [] cloud[e].state = "deleted" -> edge[e].state = "none"
      [] OTHER -> TRUE

(***************************************************************************)
(* Nothing is skipped, in an orderly run: what the cloud changed up to the *)
(* cursor has arrived on the edge.  No later pull asks for it again, so a  *)
(* record for which this fails stays wrong until it changes once more      *)
(* (runPullForService: otherwise it "würde Records dauerhaft überspringen").*)
(***************************************************************************)
NothingSkipped ==
    Orderly => \A e \in Entities : cloud[e].time <= cursor => Mirrors(e)

(***************************************************************************)
(* The owner of the edge is never archived, whatever else goes wrong: the  *)
(* snapshot cannot name an account that is never pushed, and archiving it  *)
(* would lock the last account out of the admin panel.                     *)
(***************************************************************************)
OwnersStay == \A e \in Owners : edge[e].state = "active"

(***************************************************************************)
(* A reload is a full pull: nobody brings the cursor back between its      *)
(* removal and the pull (runUsersReloadCycle).                             *)
(***************************************************************************)
ReloadIsFull ==
    \A p \in Cycles :
        pull[p].reload /\ pc[p] \notin {"idle", "reset", "cursor"} => pull[p].since = 0

(***************************************************************************)
(* In an orderly run a reload that comes to its end leaves the edge as the *)
(* cloud was when it began: what has not changed since is there, deleted   *)
(* or hidden users cannot log in any more.                                 *)
(***************************************************************************)
SignedOff(e) == cloud[e].state = "hidden" => edge[e].state # "active"

ReloadComplete ==
    [][Orderly => \A p \in Cycles :
          /\ pull[p].reload /\ pc[p] \in {"apply", "reconcile", "archive"}
          /\ pc'[p] = "idle" /\ mishaps' = mishaps
          => \A e \in Entities :
                  cloud'[e].time <= pull[p].mark => Mirrors(e)' /\ SignedOff(e)']_vars

(***************************************************************************)
(* In an orderly run the edge follows the cloud: when pulls have stopped   *)
(* failing and the process stays up, every record ends up as the cloud has *)
(* it ("holt alle aufgelaufenen Änderungen in einem Durchlauf",            *)
(* cloud-realtime.worker.ts).  Changes and mishaps are finitely many.      *)
(***************************************************************************)
FollowsCloud == Orderly => \A e \in Entities : <>[]Mirrors(e)
=============================================================================
