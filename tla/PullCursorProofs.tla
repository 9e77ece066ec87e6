-------------------------- MODULE PullCursorProofs --------------------------
(***************************************************************************)
(* Proofs about the pull path, for any number of records and pullers.      *)
(* Type correctness, and that owners are never archived, hold under all    *)
(* disturbances.                                                           *)
(*                                                                         *)
(* That the cursor passes nothing and that a reload is complete hold for   *)
(* pulls that do not overlap (Orderly), by the invariant OrderFacts; and   *)
(* only if the pages the loop may ask for can hold all records, which the  *)
(* theorems assume (EnoughPages).                                          *)
(***************************************************************************)
EXTENDS PullCursor, FiniteSetTheorems, TLAPS

\* Owners are unknown to the cloud, so no answer and no list of stale records
\* ever names one.
OwnersInv ==
    /\ OwnersStay
    /\ \A o \in Owners : cloud[o].state = "none"
    /\ \A p \in Pullers :
         /\ pull[p].rest \cap Owners = {}
         /\ pull[p].stale \cap Owners = {}
         /\ \A r \in pull[p].page : r.ent \notin Owners

\* No pull has read a cursor or a mark from the future.
ClockInv == \A p \in Pullers : pull[p].since <= now /\ pull[p].mark <= now

Inv == PathOK /\ OwnersInv /\ ClockInv

\* The empty pull has its type.
LEMMA NoPullTyped == NoPull \in Pulls
  BY PullAssumption DEF NoPull, Pulls, None, EdgeRecords, Times

\* Initially nothing is pulled and owners exist on the edge only.
LEMMA InitInv == Init => Inv
<1> SUFFICES ASSUME Init PROVE Inv
  OBVIOUS
<1>1. PathOK
  BY NoPullTyped, PullAssumption DEF Init, PathOK, CloudRecords, EdgeRecords, None, Times
<1>2. OwnersInv
  BY PullAssumption DEF Init, OwnersInv, OwnersStay, NoPull, None
<1>3. ClockInv
  BY DEF Init, ClockInv, NoPull
<1> QED
  BY <1>1, <1>2, <1>3 DEF Inv

\* A puller ends, or goes on with a pull that is typed, names no owner and knows
\* no future; the rest of the pull state is as it was.
LEMMA PullKeeps ==
  ASSUME Inv, now' = now, NEW p \in Pullers, NEW new \in Pulls,
         pull' = [pull EXCEPT ![p] = new],
         new.rest \cap Owners = {}, new.stale \cap Owners = {},
         \A r \in new.page : r.ent \notin Owners,
         new.since <= now, new.mark <= now
  PROVE  /\ pull' \in [Pullers -> Pulls]
         /\ \A q \in Pullers :
              /\ pull'[q].rest \cap Owners = {}
              /\ pull'[q].stale \cap Owners = {}
              /\ \A r \in pull'[q].page : r.ent \notin Owners
         /\ ClockInv'
<1>1. \A q \in Pullers : pull'[q] = IF q = p THEN new ELSE pull[q]
  BY DEF Inv, PathOK
<1>2. pull' \in [Pullers -> Pulls]
  BY DEF Inv, PathOK
<1>3. \A q \in Pullers :
         /\ pull'[q].rest \cap Owners = {}
         /\ pull'[q].stale \cap Owners = {}
         /\ \A r \in pull'[q].page : r.ent \notin Owners
  BY <1>1, Zenon DEF Inv, OwnersInv
<1>4. ClockInv'
  BY <1>1 DEF Inv, ClockInv
<1> QED
  BY <1>2, <1>3, <1>4

Labels == {"idle", "reset", "cursor", "request", "compare", "apply", "reconcile", "archive"}

\* With the pulls in order, an action that touches none but the cursor, the
\* edge and the counters of mishaps keeps the invariant if those stay typed.
LEMMA RestKeeps ==
  ASSUME Inv, now' = now, cloud' = cloud,
         pull' \in [Pullers -> Pulls],
         \A q \in Pullers :
              /\ pull'[q].rest \cap Owners = {}
              /\ pull'[q].stale \cap Owners = {}
              /\ \A r \in pull'[q].page : r.ent \notin Owners,
         ClockInv',
         pc' \in [Pullers -> Labels],
         edge' \in [Entities -> EdgeRecords], OwnersStay',
         cursor' \in 0..now, mishaps' \in 0..MaxMishaps
  PROVE  Inv'
<1>1. PathOK'
  BY DEF Inv, PathOK, Labels
<1>2. OwnersInv'
  BY DEF Inv, OwnersInv
<1> QED
  BY <1>1, <1>2 DEF Inv

\* Every puller has one of the labels, and still has after a step to a label.
LEMMA GotoTyped ==
  ASSUME Inv, NEW p \in Pullers, NEW label \in Labels, Goto(p, label)
  PROVE  pc' \in [Pullers -> Labels]
  BY DEF Inv, PathOK, Labels, Goto

\* Ending a pull leaves the pulls in order.
LEMMA EndsKeeps ==
  ASSUME Inv, now' = now, NEW p \in Pullers, Ends(p)
  PROVE  /\ pc' \in [Pullers -> Labels]
         /\ pull' \in [Pullers -> Pulls]
         /\ \A q \in Pullers :
              /\ pull'[q].rest \cap Owners = {}
              /\ pull'[q].stale \cap Owners = {}
              /\ \A r \in pull'[q].page : r.ent \notin Owners
         /\ ClockInv'
<1>1. pc' \in [Pullers -> Labels]
  BY GotoTyped DEF Ends, Labels
<1>2. /\ NoPull.rest \cap Owners = {} /\ NoPull.stale \cap Owners = {}
      /\ \A r \in NoPull.page : r.ent \notin Owners
      /\ NoPull.since <= now /\ NoPull.mark <= now
  BY DEF NoPull, Inv, PathOK
<1>3. pull' = [pull EXCEPT ![p] = NoPull]
  BY DEF Ends
<1> QED
  BY <1>1, <1>2, <1>3, NoPullTyped, PullKeeps

\* Changes in the cloud do not touch what the cloud does not know.
LEMMA ChangedKeeps ==
  ASSUME Inv, NEW e \in Entities, e \notin Owners,
         NEW state \in {"shown", "hidden", "deleted"}, Changed(e, state)
  PROVE  Inv'
<1>1. PathOK'
  BY PullAssumption DEF Inv, PathOK, Changed, Horizon, CloudRecords, Times
<1>2. OwnersInv'
  BY PullAssumption DEF Inv, PathOK, OwnersInv, OwnersStay, Changed
<1>3. ClockInv'
  BY DEF Inv, PathOK, ClockInv, Changed, Pulls, Times
<1> QED
  BY <1>1, <1>2, <1>3 DEF Inv

\* The cloud, and records the edge creates and pushes.
LEMMA CloudKeeps ==
  ASSUME Inv, NEW e \in Entities,
         CloudWrites(e) \/ CloudHides(e) \/ CloudDeletes(e) \/ LocalPushed(e) \/ LocalCreate(e)
  PROVE  Inv'
<1>1. CASE CloudWrites(e) \/ LocalPushed(e)
  <2>1. e \notin Owners /\ Changed(e, "shown")
    BY <1>1 DEF CloudWrites, LocalPushed
  <2> QED
    BY <2>1, ChangedKeeps
<1>2. CASE CloudHides(e)
  <2>1. e \notin Owners /\ Changed(e, "hidden")
    BY <1>2 DEF CloudHides, Shown, Inv, OwnersInv
  <2> QED
    BY <2>1, ChangedKeeps
<1>3. CASE CloudDeletes(e)
  <2>1. e \notin Owners /\ Changed(e, "deleted")
    BY <1>3 DEF CloudDeletes, Shown, Inv, OwnersInv
  <2> QED
    BY <2>1, ChangedKeeps
<1>4. CASE LocalCreate(e)
  <2>1. PathOK'
    BY <1>4, PullAssumption DEF LocalCreate, Inv, PathOK, EdgeRecords, Times
  <2>2. OwnersInv'
    BY <1>4, PullAssumption DEF LocalCreate, Inv, PathOK, OwnersInv, OwnersStay
  <2>3. ClockInv'
    BY <1>4 DEF LocalCreate, Inv, ClockInv
  <2> QED
    BY <2>1, <2>2, <2>3 DEF Inv
<1> QED
  BY <1>1, <1>2, <1>3, <1>4

\* The facts about the pull of p that its next step starts from.
LEMMA PullFacts ==
  ASSUME Inv, NEW p \in Pullers
  PROVE  /\ pull[p] \in Pulls
         /\ pull[p].rest \cap Owners = {} /\ pull[p].stale \cap Owners = {}
         /\ \A r \in pull[p].page : r.ent \notin Owners
         /\ pull[p].since <= now /\ pull[p].mark <= now
         /\ now \in Times /\ now \in 1..MaxTime
  BY PullAssumption DEF Inv, PathOK, OwnersInv, ClockInv, Times

\* What is typed and stays as it was.
LEMMA SameTyped ==
  ASSUME Inv
  PROVE  /\ pull \in [Pullers -> Pulls] /\ pc \in [Pullers -> Labels]
         /\ edge \in [Entities -> EdgeRecords] /\ OwnersStay
         /\ cursor \in 0..now /\ mishaps \in 0..MaxMishaps
  BY DEF Inv, PathOK, OwnersInv, Labels

\* A step of p that changes its pull, and perhaps the edge, in an orderly way.
LEMMA PullMoves ==
  ASSUME Inv, NEW p \in Pullers, NEW new \in Pulls,
         pull' = [pull EXCEPT ![p] = new],
         new.rest \cap Owners = {}, new.stale \cap Owners = {},
         \A r \in new.page : r.ent \notin Owners,
         new.since <= now, new.mark <= now,
         pc' \in [Pullers -> Labels],
         edge' \in [Entities -> EdgeRecords], OwnersStay',
         UNCHANGED <<now, cloud, cursor, mishaps>>
  PROVE  Inv'
<1>1. now' = now /\ cloud' = cloud
  OBVIOUS
<1>2. cursor' \in 0..now /\ mishaps' \in 0..MaxMishaps
  BY SameTyped
<1> QED
  BY <1>1, <1>2, PullKeeps, RestKeeps

\* Beginning a pull, and removing the cursor.
LEMMA BeginKeeps ==
  ASSUME Inv, NEW p \in Pullers, Begin(p) \/ BeginReload(p) \/ ResetCursor(p)
  PROVE  Inv'
<1>1. CASE Begin(p) \/ ResetCursor(p)
  <2>1. pc' \in [Pullers -> Labels]
    BY <1>1, GotoTyped DEF Begin, ResetCursor, Labels
  <2>2. cursor' \in 0..now
    BY <1>1, SameTyped, PullFacts DEF Begin, ResetCursor
  <2>3. pull' = pull /\ now' = now
    BY <1>1 DEF Begin, ResetCursor
  <2>4. ClockInv'
    BY <2>3 DEF ClockInv, Inv
  <2> QED
    BY <1>1, <2>1, <2>2, <2>3, <2>4, SameTyped, RestKeeps
       DEF Begin, ResetCursor, Inv, OwnersInv, OwnersStay
<1>2. CASE BeginReload(p)
  <2> DEFINE new == [pull[p] EXCEPT !.reload = TRUE]
  <2>1. new \in Pulls
    BY PullFacts DEF Pulls
  <2>2. /\ new.rest = pull[p].rest /\ new.stale = pull[p].stale /\ new.page = pull[p].page
        /\ new.since = pull[p].since /\ new.mark = pull[p].mark
    BY PullFacts DEF Pulls
  <2>3. pull' = [pull EXCEPT ![p] = new] /\ UNCHANGED <<now, cloud, edge, cursor, mishaps>>
    BY <1>2 DEF BeginReload
  <2>4. pc' \in [Pullers -> Labels]
    BY <1>2, GotoTyped DEF BeginReload, Labels
  <2> HIDE DEF new
  <2> QED
    BY <2>1, <2>2, <2>3, <2>4, PullFacts, SameTyped, PullMoves DEF OwnersStay
<1> QED
  BY <1>1, <1>2

\* Reading the cursor.
LEMMA ReadKeeps ==
  ASSUME Inv, NEW p \in Pullers, ReadCursor(p)
  PROVE  Inv'
<1>1. PICK since \in {cursor, 0} : pull' = [pull EXCEPT ![p].since = since]
  BY DEF ReadCursor
<1> DEFINE new == [pull[p] EXCEPT !.since = since]
<1>2. since \in Times /\ since <= now
  BY PullAssumption, SameTyped, PullFacts DEF Times
<1>3. new \in Pulls
  BY <1>2, PullFacts DEF Pulls
<1>4. /\ new.rest = pull[p].rest /\ new.stale = pull[p].stale /\ new.page = pull[p].page
      /\ new.since = since /\ new.mark = pull[p].mark
  BY PullFacts DEF Pulls
<1>5. pull' = [pull EXCEPT ![p] = new]
  BY <1>1
<1>6. pc' \in [Pullers -> Labels]
  BY GotoTyped DEF ReadCursor, Labels
<1>7. UNCHANGED <<now, cloud, edge, cursor, mishaps>>
  BY DEF ReadCursor
<1> HIDE DEF new
<1> QED
  BY <1>2, <1>3, <1>4, <1>5, <1>6, <1>7, PullFacts, SameTyped, PullMoves DEF OwnersStay

\* What the cloud answers is typed and names no owner.
LEMMA AnswerTyped ==
  ASSUME Inv, NEW P \in SUBSET Entities, P \cap Owners = {}
  PROVE  /\ Answer(P) \in SUBSET [ent : Entities, rec : CloudRecords]
         /\ \A r \in Answer(P) : r.ent \notin Owners
  BY DEF Inv, PathOK, Answer

\* Fetching the first page.
LEMMA FirstKeeps ==
  ASSUME Inv, NEW p \in Pullers, FirstPage(p)
  PROVE  Inv'
<1> DEFINE all == Matching(pull[p].since)
           snap == IF pull[p].since = 0 THEN Shown ELSE {}
<1>1. all \subseteq Entities /\ all \cap Owners = {} /\ snap \subseteq Entities
  BY DEF Matching, Shown, Inv, OwnersInv
<1>2. PICK P \in PagesOf(all) :
        pull' = [pull EXCEPT ![p].mark = now, ![p].rest = all \ P,
                             ![p].page = Answer(P), ![p].pages = 1,
                             ![p].snapshot = snap]
  BY DEF FirstPage
<1>3. P \subseteq all
  BY <1>2 DEF PagesOf
<1>4. /\ Answer(P) \in SUBSET [ent : Entities, rec : CloudRecords]
      /\ \A r \in Answer(P) : r.ent \notin Owners
  BY <1>1, <1>3, AnswerTyped
<1> HIDE DEF all, snap
<1> DEFINE left == all \ P
           ans == Answer(P)
           new == [pull[p] EXCEPT !.mark = now, !.rest = left, !.page = ans, !.pages = 1,
                          !.snapshot = snap]
<1>5. left \in SUBSET Entities /\ left \cap Owners = {}
  BY <1>1
<1>6. ans \in SUBSET [ent : Entities, rec : CloudRecords] /\ snap \in SUBSET Entities
  BY <1>1, <1>4
<1>7. pull' = [pull EXCEPT ![p] = new]
  BY <1>2
<1>8. \A r \in ans : r.ent \notin Owners
  BY <1>4
<1> HIDE DEF left, ans
<1>9. new \in Pulls
  <2>1. 1 \in 0..MaxPages
    BY PullAssumption
  <2> QED
    BY <1>5, <1>6, <2>1, PullFacts DEF Pulls
<1>10. /\ new.rest = left /\ new.stale = pull[p].stale /\ new.page = ans
       /\ new.since = pull[p].since /\ new.mark = now
  BY PullFacts DEF Pulls
<1>11. pc' \in [Pullers -> Labels]
  BY GotoTyped DEF FirstPage, Labels
<1>12. UNCHANGED <<now, cloud, edge, cursor, mishaps>>
  BY DEF FirstPage
<1> HIDE DEF new
<1>13. now <= now
  BY PullFacts
<1> QED
  BY <1>5, <1>7, <1>8, <1>9, <1>10, <1>11, <1>12, <1>13, PullFacts, SameTyped, PullMoves
     DEF OwnersStay

\* Fetching a further page.
LEMMA NextKeeps ==
  ASSUME Inv, NEW p \in Pullers, NextPage(p)
  PROVE  Inv'
<1>1. pull[p].rest \subseteq Entities /\ pull[p].rest \cap Owners = {}
  BY PullFacts DEF Pulls
<1>2. PICK P \in PagesOf(pull[p].rest) :
        pull' = [pull EXCEPT ![p].rest = pull[p].rest \ P, ![p].page = Answer(P),
                             ![p].pages = pull[p].pages + 1]
  BY DEF NextPage, Inv, PathOK
<1>3. P \subseteq pull[p].rest
  BY <1>2 DEF PagesOf
<1>4. /\ Answer(P) \in SUBSET [ent : Entities, rec : CloudRecords]
      /\ \A r \in Answer(P) : r.ent \notin Owners
  BY <1>1, <1>3, AnswerTyped
<1> DEFINE left == pull[p].rest \ P
           ans == Answer(P)
           new == [pull[p] EXCEPT !.rest = left, !.page = ans, !.pages = pull[p].pages + 1]
<1>5. left \in SUBSET Entities /\ left \cap Owners = {}
  BY <1>1
<1>6. pull' = [pull EXCEPT ![p] = new]
  BY <1>2
<1>7. ans \in SUBSET [ent : Entities, rec : CloudRecords] /\ \A r \in ans : r.ent \notin Owners
  BY <1>4
<1> HIDE DEF left, ans
<1>8. new \in Pulls
  <2>1. pull[p].pages + 1 \in 0..MaxPages
    BY PullFacts, PullAssumption DEF NextPage, Pulls
  <2> QED
    BY <1>5, <1>7, <2>1, PullFacts DEF Pulls
<1>9. /\ new.rest = left /\ new.stale = pull[p].stale /\ new.page = ans
      /\ new.since = pull[p].since /\ new.mark = pull[p].mark
  BY PullFacts DEF Pulls
<1>10. pc' \in [Pullers -> Labels]
  BY GotoTyped DEF NextPage, Labels
<1>11. UNCHANGED <<now, cloud, edge, cursor, mishaps>>
  BY DEF NextPage
<1> HIDE DEF new
<1> QED
  BY <1>5, <1>6, <1>7, <1>8, <1>9, <1>10, <1>11, PullFacts, SameTyped, PullMoves
     DEF OwnersStay

\* Comparing a page with the edge database.
LEMMA CompareKeeps ==
  ASSUME Inv, NEW p \in Pullers, Compare(p)
  PROVE  Inv'
<1>1. PICK seen \in {edge, NoPull.seen} : pull' = [pull EXCEPT ![p].seen = seen]
  BY DEF Compare
<1>2. seen \in [Entities -> EdgeRecords]
  <2>1. NoPull.seen \in [Entities -> EdgeRecords]
    BY NoPullTyped DEF Pulls
  <2> QED
    BY <1>1, <2>1, SameTyped
<1> DEFINE new == [pull[p] EXCEPT !.seen = seen]
<1>3. new \in Pulls
  BY <1>2, PullFacts DEF Pulls
<1>4. /\ new.rest = pull[p].rest /\ new.stale = pull[p].stale /\ new.page = pull[p].page
      /\ new.since = pull[p].since /\ new.mark = pull[p].mark
  BY PullFacts DEF Pulls
<1>5. pull' = [pull EXCEPT ![p] = new]
  BY <1>1
<1>6. pc' \in [Pullers -> Labels]
  BY GotoTyped DEF Compare, Labels
<1>7. UNCHANGED <<now, cloud, edge, cursor, mishaps>>
  BY DEF Compare
<1> HIDE DEF new
<1> QED
  BY <1>3, <1>4, <1>5, <1>6, <1>7, PullFacts, SameTyped, PullMoves DEF OwnersStay

\* Applying a record: it is not an owner's.
LEMMA ApplyKeeps ==
  ASSUME Inv, NEW p \in Pullers, NEW r \in pull[p].page, ApplyRecord(p, r)
  PROVE  Inv'
<1>1. r \in [ent : Entities, rec : CloudRecords] /\ r.ent \notin Owners
  BY PullFacts DEF Pulls
<1>2. PICK row \in {Applied(r.rec, pull[p].seen[r.ent], edge[r.ent]), edge[r.ent]} :
        edge' = [edge EXCEPT ![r.ent] = row]
  BY DEF ApplyRecord
<1>3. row \in EdgeRecords
  <2>1. edge[r.ent] \in EdgeRecords /\ r.rec \in CloudRecords
    BY <1>1, SameTyped
  <2>2. None \in EdgeRecords /\ [time |-> r.rec.time, state |-> "active"] \in EdgeRecords
    BY <2>1, PullAssumption DEF None, EdgeRecords, CloudRecords, Times
  <2>3. Applied(r.rec, pull[p].seen[r.ent], edge[r.ent]) \in EdgeRecords
    BY <2>1, <2>2 DEF Applied
  <2> QED
    BY <1>2, <2>1, <2>3
<1>4. edge' \in [Entities -> EdgeRecords]
  BY <1>2, <1>3, SameTyped
<1>5. OwnersStay'
  BY <1>1, <1>2, SameTyped, PullAssumption DEF OwnersStay
<1> DEFINE left == pull[p].page \ {r}
           new == [pull[p] EXCEPT !.page = left]
<1>6. left \in SUBSET [ent : Entities, rec : CloudRecords] /\ \A s \in left : s.ent \notin Owners
  BY PullFacts DEF Pulls
<1>7. pull' = [pull EXCEPT ![p] = new]
  BY DEF ApplyRecord, Inv, PathOK
<1> HIDE DEF left
<1>8. new \in Pulls
  BY <1>6, PullFacts DEF Pulls
<1>9. /\ new.rest = pull[p].rest /\ new.stale = pull[p].stale /\ new.page = left
      /\ new.since = pull[p].since /\ new.mark = pull[p].mark
  BY PullFacts DEF Pulls
<1>10. pc' \in [Pullers -> Labels]
  BY SameTyped DEF ApplyRecord
<1>11. UNCHANGED <<now, cloud, cursor, mishaps>>
  BY DEF ApplyRecord
<1> HIDE DEF new
<1> QED
  BY <1>4, <1>5, <1>6, <1>7, <1>8, <1>9, <1>10, <1>11, PullFacts, PullMoves

\* Moving the cursor: to a mark, which is never in the future.
LEMMA UpsertKeeps ==
  ASSUME Inv, NEW p \in Pullers, UpsertCursor(p)
  PROVE  Inv'
<1>1. now' = now /\ cloud' = cloud /\ edge' = edge
  BY DEF UpsertCursor
<1>2. cursor' \in 0..now
  BY PullFacts, PullAssumption DEF UpsertCursor, Pulls, Times
<1>3. mishaps' \in 0..MaxMishaps
  BY SameTyped DEF UpsertCursor
<1>4. OwnersStay' /\ edge' \in [Entities -> EdgeRecords]
  BY <1>1, SameTyped DEF OwnersStay
<1>5. CASE Ends(p)
  BY <1>1, <1>2, <1>3, <1>4, <1>5, EndsKeeps, RestKeeps
<1>6. CASE Goto(p, "reconcile") /\ pull' = pull
  <2>1. pc' \in [Pullers -> Labels]
    BY <1>6, GotoTyped DEF Labels
  <2>2. ClockInv'
    BY <1>1, <1>6 DEF Inv, ClockInv
  <2> QED
    BY <1>1, <1>2, <1>3, <1>4, <1>6, <2>1, <2>2, SameTyped, RestKeeps DEF Inv, OwnersInv
<1> QED
  BY <1>5, <1>6 DEF UpsertCursor

\* Choosing what to archive: never an owner.
LEMMA ReconcileKeeps ==
  ASSUME Inv, NEW p \in Pullers, Reconcile(p)
  PROVE  Inv'
<1> DEFINE stale == selectStaleUsersToArchive(pull[p].snapshot)
<1>1. UNCHANGED <<now, cloud, edge, cursor, mishaps>>
  BY DEF Reconcile
<1>2. CASE Ends(p)
  BY <1>1, <1>2, SameTyped, EndsKeeps, RestKeeps DEF OwnersStay
<1>3. CASE Goto(p, "archive") /\ pull' = [pull EXCEPT ![p].stale = stale]
  <2>1. stale \in SUBSET Entities /\ stale \cap Owners = {}
    BY DEF selectStaleUsersToArchive
  <2> HIDE DEF stale
  <2> DEFINE new == [pull[p] EXCEPT !.stale = stale]
  <2>2. new \in Pulls
    BY <2>1, PullFacts DEF Pulls
  <2>3. /\ new.rest = pull[p].rest /\ new.stale = stale /\ new.page = pull[p].page
        /\ new.since = pull[p].since /\ new.mark = pull[p].mark
    BY PullFacts DEF Pulls
  <2>4. pull' = [pull EXCEPT ![p] = new]
    BY <1>3
  <2>5. pc' \in [Pullers -> Labels]
    BY <1>3, GotoTyped DEF Labels
  <2> HIDE DEF new
  <2> QED
    BY <1>1, <2>1, <2>2, <2>3, <2>4, <2>5, PullFacts, SameTyped, PullMoves DEF OwnersStay
<1> QED
  BY <1>2, <1>3 DEF Reconcile

\* Archiving a record of the list: it is not an owner's.
LEMMA ArchiveKeeps ==
  ASSUME Inv, NEW p \in Pullers, NEW e \in pull[p].stale, Archive(p, e)
  PROVE  Inv'
<1>1. e \in Entities /\ e \notin Owners
  BY PullFacts DEF Pulls
<1>2. edge' = edge \/ edge' = [edge EXCEPT ![e].state = "archived"]
  BY DEF Archive
<1>3. edge' \in [Entities -> EdgeRecords]
  BY <1>1, <1>2, SameTyped DEF EdgeRecords
<1>4. OwnersStay'
  BY <1>1, <1>2, SameTyped, PullAssumption DEF OwnersStay
<1>5. UNCHANGED <<now, cloud, cursor, mishaps>>
  BY DEF Archive
<1>6. CASE Ends(p)
  BY <1>3, <1>4, <1>5, <1>6, SameTyped, EndsKeeps, RestKeeps
<1>7. CASE pc' = pc /\ pull' = [pull EXCEPT ![p].stale = @ \ {e}]
  <2> DEFINE left == pull[p].stale \ {e}
             new == [pull[p] EXCEPT !.stale = left]
  <2>1. left \in SUBSET Entities /\ left \cap Owners = {}
    BY PullFacts DEF Pulls
  <2>2. pull' = [pull EXCEPT ![p] = new]
    BY <1>7 DEF Inv, PathOK
  <2> HIDE DEF left
  <2>3. new \in Pulls
    BY <2>1, PullFacts DEF Pulls
  <2>4. /\ new.rest = pull[p].rest /\ new.stale = left /\ new.page = pull[p].page
        /\ new.since = pull[p].since /\ new.mark = pull[p].mark
    BY PullFacts DEF Pulls
  <2> HIDE DEF new
  <2> QED
    BY <1>3, <1>4, <1>5, <1>7, <2>1, <2>2, <2>3, <2>4, PullFacts, SameTyped, PullMoves
<1> QED
  BY <1>6, <1>7 DEF Archive

\* A pull that fails ends and leaves everything else.
LEMMA FailKeeps ==
  ASSUME Inv, NEW p \in Pullers, PullFails(p)
  PROVE  Inv'
<1>1. /\ now' = now /\ cloud' = cloud /\ edge' = edge
      /\ cursor' = cursor /\ Ends(p)
  BY DEF PullFails
<1>2. mishaps' \in 0..MaxMishaps
  BY PullAssumption, SameTyped DEF PullFails
<1> QED
  BY <1>1, <1>2, SameTyped, EndsKeeps, RestKeeps DEF OwnersStay

\* A restart ends all pulls.
LEMMA RestartKeeps ==
  ASSUME Inv, Restart
  PROVE  Inv'
<1>1. /\ now' = now /\ cloud' = cloud /\ edge' = edge /\ cursor' = cursor
      /\ pc' = [p \in Pullers |-> "idle"] /\ pull' = [p \in Pullers |-> NoPull]
  BY DEF Restart
<1>2. mishaps' \in 0..MaxMishaps
  BY PullAssumption, SameTyped DEF Restart
<1>3. /\ NoPull.rest \cap Owners = {} /\ NoPull.stale \cap Owners = {}
      /\ \A r \in NoPull.page : r.ent \notin Owners
      /\ NoPull.since <= now /\ NoPull.mark <= now
  BY DEF NoPull, Inv, PathOK
<1>4. pull' \in [Pullers -> Pulls] /\ pc' \in [Pullers -> Labels]
  BY <1>1, NoPullTyped DEF Labels
<1>5. \A q \in Pullers : pull'[q] = NoPull
  BY <1>1
<1>6. ClockInv'
  BY <1>1, <1>3, <1>5 DEF ClockInv
<1> QED
  BY <1>1, <1>2, <1>3, <1>4, <1>5, <1>6, SameTyped, RestKeeps DEF OwnersStay

\* Every step keeps the invariant.
LEMMA Inductive == Inv /\ [Next]_vars => Inv'
<1> SUFFICES ASSUME Inv, [Next]_vars PROVE Inv'
  OBVIOUS
<1>1. CASE CloudStep
  BY <1>1, CloudKeeps DEF CloudStep
<1>2. CASE \E e \in Entities : LocalCreate(e) \/ LocalPushed(e)
  BY <1>2, CloudKeeps
<1>3. ASSUME NEW p \in Pullers, Begin(p) \/ BeginReload(p) \/ ResetCursor(p) PROVE Inv'
  BY <1>3, BeginKeeps
<1>4. ASSUME NEW p \in Pullers, PullStep(p) PROVE Inv'
  <2>1. CASE ReadCursor(p)
    BY <2>1, ReadKeeps
  <2>2. CASE FirstPage(p)
    BY <2>2, FirstKeeps
  <2>3. CASE NextPage(p)
    BY <2>3, NextKeeps
  <2>4. CASE Compare(p)
    BY <2>4, CompareKeeps
  <2>5. CASE \E r \in pull[p].page : ApplyRecord(p, r)
    BY <2>5, ApplyKeeps
  <2>6. CASE UpsertCursor(p)
    BY <2>6, UpsertKeeps
  <2>7. CASE Reconcile(p)
    BY <2>7, ReconcileKeeps
  <2>8. CASE \E e \in pull[p].stale : Archive(p, e)
    BY <2>8, ArchiveKeeps
  <2> QED
    BY <1>4, <2>1, <2>2, <2>3, <2>4, <2>5, <2>6, <2>7, <2>8 DEF PullStep
<1>5. ASSUME NEW p \in Pullers, PullFails(p) PROVE Inv'
  BY <1>5, FailKeeps
<1>6. CASE Restart
  BY <1>6, RestartKeeps
<1>7. CASE UNCHANGED vars
  BY <1>7 DEF vars, Inv, PathOK, OwnersInv, OwnersStay, ClockInv
<1> QED
  BY <1>1, <1>2, <1>3, <1>4, <1>5, <1>6, <1>7 DEF Next

(***************************************************************************)
(* Type correctness; the cursor never runs ahead of the clock of the cloud *)
(* (runPullForService takes it from the answer of page 0).                 *)
(***************************************************************************)
THEOREM PullTypeCorrect == Spec => []TypeOK
<1>1. Inv /\ may \in Mixes => TypeOK
  BY DEF Inv, TypeOK
<1>2. Init => may \in Mixes
  BY DEF Init
<1>3. may \in Mixes /\ [Next]_vars => (may \in Mixes)'
  BY DEF Next, vars
<1> QED
  BY <1>1, <1>2, <1>3, InitInv, Inductive, PTL DEF Spec

(***************************************************************************)
(* No owner is ever archived, for any number of records and pullers and    *)
(* under every combination of failures (selectStaleUsersToArchive).        *)
(***************************************************************************)
THEOREM OwnersSafe == Spec => []OwnersStay
<1>1. Inv => OwnersStay
  BY DEF Inv, OwnersInv
<1> QED
  BY <1>1, InitInv, Inductive, PTL DEF Spec
-----------------------------------------------------------------------------
(***************************************************************************)
(* Orderly runs.  The facts a pull relies on between its requests: what    *)
(* the cloud has not changed since the first page is on the edge already,  *)
(* in the page at hand or still to be asked for.                           *)
(***************************************************************************)

\* The pages the loop may ask for hold all records (in the code 200 of 500).
EnoughPages == IsFiniteSet(Entities) /\ Cardinality(Entities) <= PageSize * MaxPages

\* One pull at a time, and none of the realtime worker.
Lone ==
    /\ \A p \in Realtime : pc[p] = "idle"
    /\ \A p, q \in Pullers : pc[p] # "idle" /\ pc[q] # "idle" => p = q

CloudFacts ==
    \A e \in Entities : cloud[e].time <= now /\ (cloud[e].time = 0 => cloud[e].state = "none")

Arrived == \A e \in Entities : cloud[e].time <= cursor => Mirrors(e)

Fetching == {"compare", "apply"}
Cleaning == {"reconcile", "archive"}

\* Unless it has changed since the first page, a record is on the edge, in the
\* page, or among those no page has brought yet.
OnItsWay(p) ==
    LET q == pull[p] IN
    \A e \in Entities : cloud[e].time <= q.mark =>
        Mirrors(e) \/ e \in q.rest \/ [ent |-> e, rec |-> cloud[e]] \in q.page

\* A page has a record once, as the cloud has it or had it after the first page.
PageFacts(p) ==
    LET q == pull[p] IN
    /\ \A e \in q.rest : cloud[e].state # "none"
    /\ \A r \in q.page :
         cloud[r.ent].state # "none" /\ (r.rec = cloud[r.ent] \/ cloud[r.ent].time > q.mark)
    /\ \A r, s \in q.page : r.ent = s.ent => r = s

\* Every page brings PageSize records nearer to the end.
Room(p) ==
    LET q == pull[p] IN
    q.rest = {} \/ Cardinality(q.rest) + q.pages * PageSize <= Cardinality(Entities)

\* The snapshot still tells who is visible, of the records that have not changed.
SnapshotFacts(p) ==
    LET q == pull[p] IN
    q.since = 0 =>
      \A e \in Entities : cloud[e].time <= q.mark => (e \in q.snapshot <=> cloud[e].state = "shown")

\* Who is to be archived is not visible, and nobody else is left signed on.
StaleFacts(p) ==
    LET q == pull[p] IN
    /\ q.stale \cap q.snapshot = {}
    /\ \A e \in Entities : cloud[e].time <= q.mark /\ ~SignedOff(e) => e \in q.stale

PullOrder(p) ==
    LET q == pull[p] IN
    /\ pc[p] = "idle" => ~q.reload
    /\ pc[p] = "cursor" /\ q.reload => cursor = 0
    /\ pc[p] = "request" => q.since <= cursor
    /\ pc[p] \in {"request"} \cup Fetching \cup Cleaning => (q.reload => q.since = 0)
    /\ pc[p] \in Fetching => cursor <= q.mark /\ OnItsWay(p) /\ PageFacts(p) /\ Room(p)
    /\ pc[p] = "apply" => \A r \in q.page : q.seen[r.ent] = edge[r.ent]
    /\ pc[p] \in Fetching \cup Cleaning => SnapshotFacts(p)
    /\ pc[p] \in Cleaning => cursor = q.mark /\ q.since = 0
    /\ pc[p] = "archive" => StaleFacts(p)

OrderFacts == Lone /\ CloudFacts /\ Arrived /\ \A p \in Pullers : PullOrder(p)

\* A step of the only pull keeps the facts if it keeps those about the databases
\* and its own.
LEMMA AloneKeeps ==
  ASSUME OrderFacts, NEW p \in Pullers, pc[p] # "idle",
         \A q \in Pullers : q # p => pc'[q] = pc[q] /\ pull'[q] = pull[q],
         PullOrder(p)', CloudFacts', Arrived'
  PROVE  OrderFacts'
<1>1. \A q \in Pullers : q # p => pc'[q] = "idle" /\ ~pull'[q].reload
  BY DEF OrderFacts, Lone, PullOrder
<1>2. Lone'
  BY <1>1 DEF OrderFacts, Lone, Pullers
<1>3. \A q \in Pullers : q # p => PullOrder(q)'
  BY <1>1 DEF PullOrder, Fetching, Cleaning
<1> QED
  BY <1>2, <1>3 DEF OrderFacts

\* The pull ends.
LEMMA EndsAlone ==
  ASSUME Inv, OrderFacts, NEW p \in Pullers, pc[p] # "idle", Ends(p), CloudFacts', Arrived'
  PROVE  OrderFacts'
<1>1. /\ \A q \in Pullers : pc'[q] = IF q = p THEN "idle" ELSE pc[q]
      /\ \A q \in Pullers : pull'[q] = IF q = p THEN NoPull ELSE pull[q]
  BY DEF Ends, Goto, Inv, PathOK
<1>2. PullOrder(p)'
  BY <1>1 DEF PullOrder, Fetching, Cleaning, NoPull
<1> QED
  BY <1>1, <1>2, AloneKeeps

\* What is not touched stays as it is.
LEMMA DatabasesStay ==
  ASSUME OrderFacts, UNCHANGED <<now, cloud, edge, cursor>>
  PROVE  CloudFacts' /\ Arrived'
  BY DEF OrderFacts, CloudFacts, Arrived, Mirrors

\* A change in the cloud is younger than every mark and cursor.
LEMMA ChangedAlone ==
  ASSUME Inv, OrderFacts, NEW e \in Entities,
         NEW state \in {"shown", "hidden", "deleted"}, Changed(e, state)
  PROVE  OrderFacts'
<1>1. UNCHANGED <<edge, cursor, pc, pull>> /\ now' = now + 1 /\ now \in Nat
  BY DEF Changed, Inv, PathOK
<1>2. cloud'[e] = [time |-> now + 1, state |-> state] /\ \A x \in Entities : x # e => cloud'[x] = cloud[x]
  BY DEF Changed, Inv, PathOK
<1>3. \A x \in Entities : cloud[x].time \in Nat /\ cloud[x].time <= now
  BY DEF OrderFacts, CloudFacts, Inv, PathOK, CloudRecords, Times
<1>4. CloudFacts'
  BY <1>1, <1>2, <1>3 DEF OrderFacts, CloudFacts
<1>5. \A x \in Entities, t \in Nat : t <= now /\ cloud'[x].time <= t => x # e /\ cloud'[x] = cloud[x]
  BY <1>1, <1>2
<1>6. \A x \in Entities : cloud'[x] = cloud[x] => (Mirrors(x)' <=> Mirrors(x))
  BY <1>1 DEF Mirrors
<1>7. cursor \in Nat /\ cursor <= now
  BY <1>1 DEF Inv, PathOK
<1>8. Arrived'
  BY <1>1, <1>5, <1>6, <1>7 DEF OrderFacts, Arrived
<1>9. ASSUME NEW p \in Pullers PROVE PullOrder(p)'
  <2> DEFINE q == pull[p]
  <2>1. PullOrder(p) /\ q.mark \in Nat /\ q.mark <= now /\ q.page \subseteq [ent : Entities, rec : CloudRecords]
        /\ q.rest \subseteq Entities
    BY PullFacts DEF OrderFacts, Pulls, Times
  <2>2. OnItsWay(p) => OnItsWay(p)'
    BY <1>1, <1>5, <1>6, <2>1 DEF OnItsWay
  <2>3. PageFacts(p) => PageFacts(p)'
    <3> SUFFICES ASSUME PageFacts(p) PROVE PageFacts(p)'
      OBVIOUS
    <3>1. \A x \in Entities : cloud[x].state # "none" => cloud'[x].state # "none"
      BY <1>2
    <3>2. cloud'[e].time > q.mark
      BY <1>1, <1>2, <2>1
    <3>3. \A r \in q.page : r.rec = cloud'[r.ent] \/ cloud'[r.ent].time > q.mark
      BY <1>2, <2>1, <3>2 DEF PageFacts
    <3> QED
      BY <1>1, <2>1, <3>1, <3>3 DEF PageFacts
  <2>4. Room(p) => Room(p)'
    BY <1>1 DEF Room
  <2>5. SnapshotFacts(p) => SnapshotFacts(p)'
    BY <1>1, <1>5, <2>1 DEF SnapshotFacts
  <2>6. StaleFacts(p) => StaleFacts(p)'
    BY <1>1, <1>5, <2>1 DEF StaleFacts, SignedOff
  <2> QED
    BY <1>1, <2>1, <2>2, <2>3, <2>4, <2>5, <2>6 DEF PullOrder
<1> QED
  BY <1>1, <1>4, <1>8, <1>9 DEF OrderFacts, Lone

\* A record of the edge's own is unknown to the cloud, and so to every pull.
LEMMA LocalAlone ==
  ASSUME Inv, OrderFacts, NEW e \in Entities, LocalCreate(e)
  PROVE  OrderFacts'
<1>1. UNCHANGED <<now, cloud, cursor, pc, pull>> /\ cloud[e].state = "none"
  BY DEF LocalCreate
<1>2. \A x \in Entities : x # e => edge'[x] = edge[x]
  BY DEF LocalCreate, Inv, PathOK
<1>3. \A x \in Entities : Mirrors(x) => Mirrors(x)'
  BY <1>1, <1>2 DEF Mirrors
<1>4. \A x \in Entities : SignedOff(x) => SignedOff(x)'
  BY <1>1, <1>2 DEF SignedOff
<1>5. CloudFacts' /\ Arrived'
  BY <1>1, <1>3 DEF OrderFacts, CloudFacts, Arrived
<1>6. ASSUME NEW p \in Pullers PROVE PullOrder(p)'
  <2>1. PullOrder(p) /\ pull[p].page \subseteq [ent : Entities, rec : CloudRecords]
    BY PullFacts DEF OrderFacts, Pulls
  <2>2. OnItsWay(p) => OnItsWay(p)'
    BY <1>1, <1>3 DEF OnItsWay
  <2>3. PageFacts(p) => PageFacts(p)' /\ \A r \in pull[p].page : r.ent # e
    BY <1>1 DEF PageFacts
  <2>4. (Room(p) => Room(p)') /\ (SnapshotFacts(p) => SnapshotFacts(p)')
    BY <1>1 DEF Room, SnapshotFacts
  <2>5. StaleFacts(p) => StaleFacts(p)'
    BY <1>1, <1>4 DEF StaleFacts
  <2>6. pc[p] = "apply" => \A r \in pull[p].page : pull[p].seen[r.ent] = edge'[r.ent]
    BY <1>2, <2>1, <2>3 DEF PullOrder, Fetching
  <2> QED
    BY <1>1, <2>1, <2>2, <2>3, <2>4, <2>5, <2>6 DEF PullOrder
<1> QED
  BY <1>1, <1>5, <1>6 DEF OrderFacts, Lone

\* A pull begins when no other is under way; a reload removes the cursor first.
LEMMA BeginAlone ==
  ASSUME Inv, OrderFacts, Orderly, NEW p \in Pullers, Begin(p) \/ BeginReload(p)
  PROVE  OrderFacts'
<1>1. MayBegin(p)
  BY DEF Begin, BeginReload
<1>2. \A q \in Pullers : pc[q] = "idle"
  BY <1>1 DEF MayBegin, Orderly, May, OrderFacts, Lone, Pullers
<1>3. p \notin Realtime
  BY <1>1 DEF MayBegin, Orderly, May
<1>4. \A q \in Pullers : q # p => pc'[q] = "idle" /\ pull'[q] = pull[q]
  BY <1>2, SameTyped DEF Begin, BeginReload, Goto
<1>5. CloudFacts' /\ Arrived'
  BY DatabasesStay DEF Begin, BeginReload
<1>6. Lone'
  BY <1>3, <1>4 DEF Lone, Pullers
<1>7. \A q \in Pullers : ~pull[q].reload
  BY <1>2 DEF OrderFacts, PullOrder
<1>8. \A q \in Pullers : q # p => PullOrder(q)'
  BY <1>4, <1>7 DEF PullOrder, Fetching, Cleaning
<1>9. PullOrder(p)'
  <2>1. CASE Begin(p)
    <3>1. pc'[p] = "cursor" /\ ~pull'[p].reload
      BY <1>7, <2>1, SameTyped DEF Begin, Goto
    <3> QED
      BY <3>1 DEF PullOrder, Fetching, Cleaning
  <2>2. CASE BeginReload(p)
    <3>1. pc'[p] = "reset"
      BY <2>2, SameTyped DEF BeginReload, Goto
    <3> QED
      BY <3>1 DEF PullOrder, Fetching, Cleaning
  <2> QED
    BY <2>1, <2>2
<1> QED
  BY <1>5, <1>6, <1>8, <1>9 DEF OrderFacts

\* Without a cursor nothing need have arrived.
LEMMA ResetAlone ==
  ASSUME Inv, OrderFacts, NEW p \in Pullers, ResetCursor(p)
  PROVE  OrderFacts'
<1>1. /\ pc[p] = "reset" /\ pc'[p] = "cursor" /\ cursor' = 0
      /\ UNCHANGED <<now, cloud, edge, pull>>
      /\ \A q \in Pullers : q # p => pc'[q] = pc[q]
  BY SameTyped DEF ResetCursor, Goto
<1>2. CloudFacts'
  BY <1>1 DEF OrderFacts, CloudFacts
<1>3. Arrived'
  <2>1. \A e \in Entities : cloud[e].time \in Nat
    BY DEF Inv, PathOK, CloudRecords, Times
  <2>2. \A e \in Entities : cloud[e].time <= 0 => cloud[e].state = "none"
    BY <2>1 DEF OrderFacts, CloudFacts
  <2> QED
    BY <1>1, <2>2 DEF Arrived, Mirrors
<1>4. PullOrder(p)'
  BY <1>1 DEF PullOrder, Fetching, Cleaning
<1> QED
  BY <1>1, <1>2, <1>3, <1>4, AloneKeeps

\* Whatever the pull reads is not beyond the cursor, and nothing in a reload.
LEMMA ReadAlone ==
  ASSUME Inv, OrderFacts, NEW p \in Pullers, ReadCursor(p)
  PROVE  OrderFacts'
<1>1. PICK since \in {cursor, 0} : pull' = [pull EXCEPT ![p].since = since]
  BY DEF ReadCursor
<1>2. /\ pc[p] = "cursor" /\ pc'[p] = "request" /\ UNCHANGED <<now, cloud, edge, cursor>>
      /\ \A q \in Pullers : q # p => pc'[q] = pc[q] /\ pull'[q] = pull[q]
  BY <1>1, SameTyped DEF ReadCursor, Goto
<1>3. pull'[p].since = since /\ pull'[p].reload = pull[p].reload
  BY <1>1, SameTyped DEF Pulls
<1>4. cursor \in Nat /\ since <= cursor
  BY SameTyped, <1>1, PullFacts
<1>5. pull[p].reload => since = 0
  BY <1>1, <1>2 DEF OrderFacts, PullOrder
<1>6. PullOrder(p)'
  BY <1>2, <1>3, <1>4, <1>5 DEF PullOrder, Fetching, Cleaning
<1>7. CloudFacts' /\ Arrived'
  BY <1>2, DatabasesStay
<1> QED
  BY <1>2, <1>6, <1>7, AloneKeeps

\* A page that leaves something has PageSize records.
LEMMA PagesShrink ==
  ASSUME EnoughPages, NEW S \in SUBSET Entities, NEW P \in PagesOf(S)
  PROVE  /\ Cardinality(S) <= Cardinality(Entities)
         /\ S \ P = {} \/ Cardinality(S \ P) + PageSize = Cardinality(S)
         /\ Cardinality(S) \in Nat /\ Cardinality(S \ P) \in Nat
<1>1. IsFiniteSet(S) /\ Cardinality(S) <= Cardinality(Entities)
  BY FS_Subset DEF EnoughPages
<1>2. P \subseteq S /\ (Cardinality(S) <= PageSize => P = S)
      /\ (~(Cardinality(S) <= PageSize) => Cardinality(P) = PageSize)
  BY DEF PagesOf
<1>3. IsFiniteSet(P) /\ IsFiniteSet(S \ P) /\ Cardinality(S) \in Nat /\ Cardinality(S \ P) \in Nat
  BY <1>1, <1>2, FS_Subset, FS_CardinalityType
<1>4. Cardinality(S \ P) = Cardinality(S) - Cardinality(S \cap P)
  BY <1>1, FS_Difference
<1>5. Cardinality(S \cap P) = Cardinality(P)
  <2>1. S \cap P = P
    BY <1>2
  <2> QED
    BY <2>1
<1>6. CASE Cardinality(S) <= PageSize
  BY <1>1, <1>2, <1>3, <1>6
<1>7. CASE ~(Cardinality(S) <= PageSize)
  <2>1. Cardinality(S \ P) = Cardinality(S) - PageSize
    BY <1>2, <1>4, <1>5, <1>7
  <2> QED
    BY <1>1, <1>3, <2>1, PullAssumption
<1> QED
  BY <1>6, <1>7


\* An answer has each record of its page that is not hidden, as the cloud has it.
LEMMA AnswerFacts ==
  ASSUME NEW P \in SUBSET Entities
  PROVE  /\ \A r \in Answer(P) : r.ent \in P /\ r.rec = cloud[r.ent]
         /\ \A r, s \in Answer(P) : r.ent = s.ent => r = s
         /\ \A e \in P : cloud[e].state = "hidden" \/ [ent |-> e, rec |-> cloud[e]] \in Answer(P)
  BY DEF Answer

\* The first page, with the mark taken when it was answered.
LEMMA FirstAlone ==
  ASSUME Inv, OrderFacts, EnoughPages, NEW p \in Pullers, FirstPage(p)
  PROVE  OrderFacts'
<1> DEFINE all == Matching(pull[p].since)
           snap == IF pull[p].since = 0 THEN Shown ELSE {}
<1>1. PICK P \in PagesOf(all) :
        pull' = [pull EXCEPT ![p].mark = now, ![p].rest = all \ P,
                             ![p].page = Answer(P), ![p].pages = 1,
                             ![p].snapshot = snap]
  BY DEF FirstPage
<1>2. /\ pc[p] = "request" /\ pc'[p] = "compare" /\ UNCHANGED <<now, cloud, edge, cursor>>
      /\ \A q \in Pullers : q # p => pc'[q] = pc[q] /\ pull'[q] = pull[q]
  BY <1>1, SameTyped DEF FirstPage, Goto
<1>3. /\ pull'[p].since = pull[p].since /\ pull'[p].reload = pull[p].reload
      /\ pull'[p].mark = now /\ pull'[p].rest = all \ P /\ pull'[p].page = Answer(P)
      /\ pull'[p].pages = 1 /\ pull'[p].snapshot = snap
  BY <1>1, SameTyped DEF Pulls
<1>4. all \in SUBSET Entities /\ P \subseteq all /\ P \in SUBSET Entities
  BY <1>1 DEF Matching, PagesOf
<1>5. /\ pull[p].since <= cursor /\ (pull[p].reload => pull[p].since = 0)
      /\ pull[p].since \in Nat /\ cursor \in Nat /\ cursor <= now /\ now \in Nat
      /\ \A e \in Entities : cloud[e] \in CloudRecords /\ cloud[e].time \in Nat
  BY <1>2, PullFacts, SameTyped DEF OrderFacts, PullOrder, Pulls, Times, Inv, PathOK, CloudRecords
<1>6. CloudFacts' /\ Arrived'
  BY <1>2, DatabasesStay
<1>7. OnItsWay(p)'
  <2> SUFFICES ASSUME NEW e \in Entities
               PROVE  Mirrors(e) \/ e \in all \ P \/ [ent |-> e, rec |-> cloud[e]] \in Answer(P)
    BY <1>2, <1>3 DEF OnItsWay, Mirrors
  <2>1. CASE cloud[e].time <= pull[p].since
    BY <1>5, <2>1 DEF OrderFacts, Arrived
  <2>2. CASE cloud[e].state \in {"none", "hidden"}
    BY <2>2 DEF Mirrors
  <2>3. CASE cloud[e].time > pull[p].since /\ cloud[e].state \in {"shown", "deleted"}
    <3>1. e \in all
      BY <2>3 DEF Matching
    <3>2. e \in P => [ent |-> e, rec |-> cloud[e]] \in Answer(P)
      BY <1>4, <2>3, AnswerFacts
    <3> QED
      BY <3>1, <3>2
  <2> QED
    BY <1>5, <2>1, <2>2, <2>3 DEF CloudRecords
<1>8. PageFacts(p)'
  <2>1. \A e \in all : cloud[e].state # "none"
    BY DEF Matching
  <2>2. \A r \in Answer(P) : r.ent \in all /\ r.rec = cloud[r.ent]
    BY <1>4, AnswerFacts
  <2>3. \A r, s \in Answer(P) : r.ent = s.ent => r = s
    BY <1>4, AnswerFacts
  <2> HIDE DEF all
  <2> QED
    BY <1>2, <1>3, <2>1, <2>2, <2>3 DEF PageFacts
<1>9. Room(p)'
  <2> HIDE DEF all
  <2>1. all \ P = {} \/ Cardinality(all \ P) + PageSize = Cardinality(all)
    BY <1>1, <1>4, PagesShrink
  <2>2. Cardinality(all) <= Cardinality(Entities)
    BY <1>1, <1>4, PagesShrink
  <2>3. 1 * PageSize = PageSize
    BY PullAssumption
  <2>4. all \ P = {} \/ Cardinality(all \ P) + 1 * PageSize <= Cardinality(Entities)
    BY <2>1, <2>2, <2>3
  <2> QED
    BY <1>3, <2>4 DEF Room
<1>10. SnapshotFacts(p)'
  BY <1>2, <1>3 DEF SnapshotFacts, Shown
<1>11. PullOrder(p)'
  BY <1>2, <1>3, <1>5, <1>7, <1>8, <1>9, <1>10 DEF PullOrder, Fetching, Cleaning
<1> QED
  BY <1>2, <1>6, <1>11, AloneKeeps

\* A further page: records hidden since the first are left out of it.
LEMMA NextAlone ==
  ASSUME Inv, OrderFacts, EnoughPages, NEW p \in Pullers, NextPage(p)
  PROVE  OrderFacts'
<1> DEFINE rest == pull[p].rest
<1>1. PICK P \in PagesOf(rest) :
        pull' = [pull EXCEPT ![p].rest = rest \ P, ![p].page = Answer(P),
                             ![p].pages = pull[p].pages + 1]
  BY SameTyped DEF NextPage
<1>2. /\ pc[p] = "apply" /\ pc'[p] = "compare" /\ UNCHANGED <<now, cloud, edge, cursor>>
      /\ \A q \in Pullers : q # p => pc'[q] = pc[q] /\ pull'[q] = pull[q]
      /\ pull[p].page = {} /\ pull[p].rest # {}
  BY <1>1, SameTyped DEF NextPage, Goto
<1>3. /\ pull'[p].since = pull[p].since /\ pull'[p].reload = pull[p].reload
      /\ pull'[p].mark = pull[p].mark /\ pull'[p].rest = rest \ P /\ pull'[p].page = Answer(P)
      /\ pull'[p].pages = pull[p].pages + 1 /\ pull'[p].snapshot = pull[p].snapshot
  BY <1>1, SameTyped DEF Pulls
<1>4. rest \in SUBSET Entities /\ P \subseteq rest /\ P \in SUBSET Entities
  BY <1>1, PullFacts DEF PagesOf, Pulls
<1>5. /\ PullOrder(p) /\ OnItsWay(p) /\ PageFacts(p) /\ Room(p) /\ SnapshotFacts(p)
      /\ cursor <= pull[p].mark /\ (pull[p].reload => pull[p].since = 0)
  BY <1>2 DEF OrderFacts, PullOrder, Fetching, Cleaning
<1>6. CloudFacts' /\ Arrived'
  BY <1>2, DatabasesStay
<1>7. OnItsWay(p)'
  <2> SUFFICES ASSUME NEW e \in Entities, cloud[e].time <= pull[p].mark
               PROVE  Mirrors(e) \/ e \in rest \ P \/ [ent |-> e, rec |-> cloud[e]] \in Answer(P)
    BY <1>2, <1>3 DEF OnItsWay, Mirrors
  <2>1. Mirrors(e) \/ e \in rest
    BY <1>2, <1>5 DEF OnItsWay
  <2>2. cloud[e].state = "hidden" => Mirrors(e)
    BY DEF Mirrors
  <2>3. e \in P => Mirrors(e) \/ [ent |-> e, rec |-> cloud[e]] \in Answer(P)
    BY <1>4, <2>2, AnswerFacts
  <2> QED
    BY <2>1, <2>3
<1>8. PageFacts(p)'
  <2>1. \A e \in rest : cloud[e].state # "none"
    BY <1>5 DEF PageFacts
  <2>2. \A r \in Answer(P) : r.ent \in rest /\ r.rec = cloud[r.ent]
    BY <1>4, AnswerFacts
  <2>3. \A r, s \in Answer(P) : r.ent = s.ent => r = s
    BY <1>4, AnswerFacts
  <2> HIDE DEF rest
  <2> QED
    BY <1>2, <1>3, <2>1, <2>2, <2>3 DEF PageFacts
<1>9. Room(p)'
  <2>1. Cardinality(rest) + pull[p].pages * PageSize <= Cardinality(Entities)
    BY <1>2, <1>5 DEF Room
  <2> DEFINE n == pull[p].pages
  <2>2. n \in Nat /\ PageSize \in Nat
    BY PullFacts, PullAssumption DEF Pulls
  <2> HIDE DEF n, rest
  <2>3. (n + 1) * PageSize = n * PageSize + PageSize /\ n * PageSize \in Nat
    BY <2>2
  <2>4. rest \ P = {} \/ Cardinality(rest \ P) + PageSize = Cardinality(rest)
    BY <1>1, <1>4, PagesShrink
  <2>5. Cardinality(rest \ P) \in Nat /\ Cardinality(rest) \in Nat /\ Cardinality(Entities) \in Nat
    BY <1>1, <1>4, PagesShrink, FS_CardinalityType DEF EnoughPages
  <2>6. Cardinality(rest) + n * PageSize <= Cardinality(Entities)
    BY <2>1 DEF n, rest
  <2>7. rest \ P = {} \/ Cardinality(rest \ P) + (n * PageSize + PageSize) <= Cardinality(Entities)
    BY <2>2, <2>3, <2>4, <2>5, <2>6
  <2>8. pull'[p].pages * PageSize = n * PageSize + PageSize
    BY <1>3, <2>3 DEF n
  <2> QED
    BY <1>3, <2>7, <2>8 DEF Room
<1>10. SnapshotFacts(p)'
  BY <1>2, <1>3, <1>5 DEF SnapshotFacts
<1>11. PullOrder(p)'
  BY <1>2, <1>3, <1>5, <1>7, <1>8, <1>9, <1>10 DEF PullOrder, Fetching, Cleaning
<1> QED
  BY <1>2, <1>6, <1>11, AloneKeeps

\* Comparing reads the rows as they are.
LEMMA CompareAlone ==
  ASSUME Inv, OrderFacts, Orderly, NEW p \in Pullers, Compare(p)
  PROVE  OrderFacts'
<1>1. pull' = [pull EXCEPT ![p].seen = edge]
  BY DEF Compare, Orderly, May
<1>2. /\ pc[p] = "compare" /\ pc'[p] = "apply" /\ UNCHANGED <<now, cloud, edge, cursor>>
      /\ \A q \in Pullers : q # p => pc'[q] = pc[q] /\ pull'[q] = pull[q]
  BY <1>1, SameTyped DEF Compare, Goto
<1>3. /\ pull'[p].since = pull[p].since /\ pull'[p].reload = pull[p].reload
      /\ pull'[p].mark = pull[p].mark /\ pull'[p].rest = pull[p].rest
      /\ pull'[p].page = pull[p].page /\ pull'[p].pages = pull[p].pages
      /\ pull'[p].snapshot = pull[p].snapshot /\ pull'[p].seen = edge
  BY <1>1, SameTyped DEF Pulls
<1>4. CloudFacts' /\ Arrived'
  BY <1>2, DatabasesStay
<1>5. /\ PullOrder(p) /\ OnItsWay(p) /\ PageFacts(p) /\ Room(p) /\ SnapshotFacts(p)
      /\ cursor <= pull[p].mark /\ (pull[p].reload => pull[p].since = 0)
  BY <1>2 DEF OrderFacts, PullOrder, Fetching, Cleaning
<1>6. OnItsWay(p)'
  BY <1>2, <1>3, <1>5 DEF OnItsWay, Mirrors
<1>7. PageFacts(p)' /\ Room(p)' /\ SnapshotFacts(p)'
  BY <1>2, <1>3, <1>5 DEF PageFacts, Room, SnapshotFacts
<1>8. PullOrder(p)'
  BY <1>2, <1>3, <1>5, <1>6, <1>7 DEF PullOrder, Fetching, Cleaning
<1> QED
  BY <1>2, <1>4, <1>8, AloneKeeps

\* A record that is applied is on the edge then, unless the cloud has changed it
\* since the first page; it does not disturb the other records of the page.
LEMMA ApplyAlone ==
  ASSUME Inv, OrderFacts, Orderly, NEW p \in Pullers, NEW r \in pull[p].page, ApplyRecord(p, r)
  PROVE  OrderFacts'
<1> DEFINE e == r.ent
<1>1. e \in Entities /\ r.rec \in CloudRecords
  BY PullFacts DEF Pulls
<1>2. edge' = [edge EXCEPT ![e] = Applied(r.rec, pull[p].seen[e], edge[e])]
  BY DEF ApplyRecord, Orderly, May
<1>3. /\ pc[p] = "apply" /\ pc' = pc /\ UNCHANGED <<now, cloud, cursor>>
      /\ pull' = [pull EXCEPT ![p].page = pull[p].page \ {r}]
      /\ \A q \in Pullers : q # p => pc'[q] = pc[q] /\ pull'[q] = pull[q]
  BY SameTyped DEF ApplyRecord
<1>4. /\ pull'[p].since = pull[p].since /\ pull'[p].reload = pull[p].reload
      /\ pull'[p].mark = pull[p].mark /\ pull'[p].rest = pull[p].rest
      /\ pull'[p].page = pull[p].page \ {r} /\ pull'[p].pages = pull[p].pages
      /\ pull'[p].snapshot = pull[p].snapshot /\ pull'[p].seen = pull[p].seen
  BY <1>3, SameTyped DEF Pulls
<1>5. /\ PullOrder(p) /\ OnItsWay(p) /\ PageFacts(p) /\ Room(p) /\ SnapshotFacts(p)
      /\ cursor <= pull[p].mark /\ (pull[p].reload => pull[p].since = 0)
      /\ \A s \in pull[p].page : pull[p].seen[s.ent] = edge[s.ent]
  BY <1>3 DEF OrderFacts, PullOrder, Fetching, Cleaning
<1>6. edge'[e] = Applied(r.rec, edge[e], edge[e]) /\ \A x \in Entities : x # e => edge'[x] = edge[x]
  BY <1>1, <1>2, <1>5, SameTyped
<1>7. r.rec = cloud[e] \/ cloud[e].time > pull[p].mark
  BY <1>5 DEF PageFacts
<1>8. \A x \in Entities : x # e => (Mirrors(x)' <=> Mirrors(x))
  BY <1>3, <1>6 DEF Mirrors
<1>9. r.rec = cloud[e] => Mirrors(e)'
  BY <1>1, <1>3, <1>6 DEF Applied, Mirrors, None, CloudRecords
<1>10. \A x \in Entities : cloud[x].time \in Nat
  BY DEF Inv, PathOK, CloudRecords, Times
<1>11. pull[p].mark \in Nat /\ cursor \in Nat
  BY PullFacts, SameTyped DEF Pulls, Times
<1>12. cloud[e].time <= pull[p].mark => Mirrors(e)'
  BY <1>1, <1>7, <1>9, <1>10, <1>11
<1>13. CloudFacts'
  BY <1>3 DEF OrderFacts, CloudFacts
<1>14. Arrived'
  BY <1>1, <1>3, <1>5, <1>8, <1>10, <1>11, <1>12 DEF OrderFacts, Arrived
<1>15. OnItsWay(p)'
  <2> SUFFICES ASSUME NEW x \in Entities, cloud[x].time <= pull[p].mark
               PROVE  Mirrors(x)' \/ x \in pull[p].rest
                      \/ [ent |-> x, rec |-> cloud[x]] \in pull[p].page \ {r}
    BY <1>3, <1>4 DEF OnItsWay
  <2>1. CASE x = e
    BY <1>12, <2>1
  <2>2. CASE x # e
    BY <1>5, <1>8, <2>2 DEF OnItsWay
  <2> QED
    BY <2>1, <2>2
<1>16. PageFacts(p)' /\ Room(p)' /\ SnapshotFacts(p)'
  BY <1>3, <1>4, <1>5 DEF PageFacts, Room, SnapshotFacts
<1>17. \A s \in pull'[p].page : pull'[p].seen[s.ent] = edge'[s.ent]
  <2> SUFFICES ASSUME NEW s \in pull[p].page, s # r
               PROVE  pull[p].seen[s.ent] = edge'[s.ent]
    BY <1>4
  <2>1. s.ent # e /\ s.ent \in Entities
    BY <1>5, PullFacts DEF PageFacts, Pulls
  <2> QED
    BY <1>5, <1>6, <2>1
<1> HIDE DEF e
<1>18. PullOrder(p)'
  BY <1>3, <1>4, <1>5, <1>15, <1>16, <1>17 DEF PullOrder, Fetching, Cleaning
<1> QED
  BY <1>3, <1>13, <1>14, <1>18, AloneKeeps

\* When the cursor moves every page has been fetched, and all has arrived that
\* has not changed since the first one.
LEMMA UpsertAlone ==
  ASSUME Inv, OrderFacts, EnoughPages, NEW p \in Pullers, UpsertCursor(p)
  PROVE  OrderFacts' /\ (pull[p].reload => pc'[p] = "reconcile")
<1>1. /\ pc[p] = "apply" /\ pull[p].page = {} /\ UNCHANGED <<now, cloud, edge>>
      /\ cursor' = pull[p].mark /\ (pull[p].rest = {} \/ pull[p].pages = MaxPages)
  BY DEF UpsertCursor
<1>2. /\ OnItsWay(p) /\ Room(p) /\ SnapshotFacts(p)
      /\ (pull[p].reload => pull[p].since = 0)
  BY <1>1 DEF OrderFacts, PullOrder, Fetching, Cleaning
<1>3. pull[p].rest = {}
  <2> SUFFICES ASSUME pull[p].rest # {} PROVE FALSE
    OBVIOUS
  <2> DEFINE rest == pull[p].rest
  <2>1. Cardinality(rest) + MaxPages * PageSize <= Cardinality(Entities)
    BY <1>1, <1>2 DEF Room
  <2>2. IsFiniteSet(rest)
    BY PullFacts, FS_Subset DEF EnoughPages, Pulls
  <2>3. Cardinality(rest) \in Nat /\ Cardinality(rest) # 0 /\ Cardinality(Entities) \in Nat
    BY <2>2, FS_CardinalityType, FS_EmptySet DEF EnoughPages
  <2>4. MaxPages * PageSize = PageSize * MaxPages /\ PageSize * MaxPages \in Nat
    BY PullAssumption
  <2>5. Cardinality(Entities) <= PageSize * MaxPages
    BY DEF EnoughPages
  <2> HIDE DEF rest
  <2> QED
    BY <2>1, <2>3, <2>4, <2>5
<1>4. \A e \in Entities : cloud[e].time <= pull[p].mark => Mirrors(e)
  BY <1>1, <1>2, <1>3 DEF OnItsWay
<1>5. CloudFacts' /\ Arrived'
  BY <1>1, <1>4 DEF OrderFacts, CloudFacts, Arrived, Mirrors
<1>6. CASE pull[p].since = 0
  <2>1. pc'[p] = "reconcile" /\ pull' = pull /\ \A q \in Pullers : q # p => pc'[q] = pc[q]
    BY <1>6, SameTyped DEF UpsertCursor, Goto
  <2>2. SnapshotFacts(p)'
    BY <1>1, <1>2, <2>1 DEF SnapshotFacts
  <2>3. PullOrder(p)'
    BY <1>1, <1>6, <2>1, <2>2 DEF PullOrder, Fetching, Cleaning
  <2> QED
    BY <1>1, <1>5, <2>1, <2>3, AloneKeeps
<1>7. CASE pull[p].since # 0
  <2>1. Ends(p) /\ ~pull[p].reload
    BY <1>2, <1>7 DEF UpsertCursor
  <2> QED
    BY <1>1, <1>5, <2>1, EndsAlone
<1> QED
  BY <1>6, <1>7

\* Whoever has lost the location without a change since the first page is found
\* by the reconciliation, and nobody who is visible.
LEMMA StaleFound ==
  ASSUME Inv, NEW p \in Pullers, SnapshotFacts(p), pull[p].since = 0
  PROVE  LET stale == selectStaleUsersToArchive(pull[p].snapshot) IN
         /\ stale \cap pull[p].snapshot = {} /\ stale \in SUBSET Entities
         /\ \A e \in Entities : cloud[e].time <= pull[p].mark /\ ~SignedOff(e) => e \in stale
  BY DEF selectStaleUsersToArchive, SnapshotFacts, SignedOff, Inv, OwnersInv

\* The reconciliation lists whom to archive, or ends.
LEMMA ReconcileAlone ==
  ASSUME Inv, OrderFacts, NEW p \in Pullers, Reconcile(p)
  PROVE  OrderFacts'
<1> DEFINE stale == selectStaleUsersToArchive(pull[p].snapshot)
<1>1. pc[p] = "reconcile" /\ UNCHANGED <<now, cloud, edge, cursor>>
  BY DEF Reconcile
<1>2. SnapshotFacts(p) /\ cursor = pull[p].mark /\ pull[p].since = 0
  BY <1>1 DEF OrderFacts, PullOrder, Fetching, Cleaning
<1>3. CloudFacts' /\ Arrived'
  BY <1>1, DatabasesStay
<1>4. CASE Ends(p)
  BY <1>1, <1>3, <1>4, EndsAlone
<1>5. CASE Goto(p, "archive") /\ pull' = [pull EXCEPT ![p].stale = stale]
  <2>1. /\ stale \cap pull[p].snapshot = {}
        /\ \A e \in Entities : cloud[e].time <= pull[p].mark /\ ~SignedOff(e) => e \in stale
    BY <1>2, StaleFound
  <2> HIDE DEF stale
  <2>2. pc'[p] = "archive" /\ \A q \in Pullers : q # p => pc'[q] = pc[q] /\ pull'[q] = pull[q]
    BY <1>5, SameTyped DEF Goto
  <2>3. /\ pull'[p].since = pull[p].since /\ pull'[p].mark = pull[p].mark
        /\ pull'[p].snapshot = pull[p].snapshot /\ pull'[p].stale = stale
    BY <1>5, SameTyped DEF Pulls
  <2>4. SnapshotFacts(p)' /\ StaleFacts(p)'
    BY <1>1, <1>2, <2>1, <2>3 DEF SnapshotFacts, StaleFacts, SignedOff
  <2>5. PullOrder(p)'
    BY <1>1, <1>2, <2>2, <2>3, <2>4 DEF PullOrder, Fetching, Cleaning
  <2> QED
    BY <1>1, <1>3, <2>2, <2>5, AloneKeeps
<1> QED
  BY <1>4, <1>5 DEF Reconcile

\* Archiving someone who is not visible undoes nothing that has arrived.
LEMMA ArchiveAlone ==
  ASSUME Inv, OrderFacts, Orderly, NEW p \in Pullers, NEW e \in pull[p].stale, Archive(p, e)
  PROVE  /\ OrderFacts'
         /\ cursor' = cursor /\ cursor = pull[p].mark
         /\ \A x \in Entities : cloud'[x].time <= pull[p].mark /\ ~SignedOff(x)' =>
                x \in pull[p].stale \ {e}
<1>1. pc[p] = "archive" /\ UNCHANGED <<now, cloud, cursor>> /\ e \in Entities
  BY PullFacts DEF Archive, Pulls
<1>2. edge' = IF edge[e].state # "none" THEN [edge EXCEPT ![e].state = "archived"] ELSE edge
  BY DEF Archive, Orderly, May
<1>3. /\ SnapshotFacts(p) /\ StaleFacts(p) /\ cursor = pull[p].mark /\ pull[p].since = 0
  BY <1>1 DEF OrderFacts, PullOrder, Fetching, Cleaning
<1>4. /\ edge[e].state = "none" => edge'[e] = edge[e]
      /\ edge'[e].state \in {"none", "archived"}
      /\ \A x \in Entities : x # e => edge'[x] = edge[x]
  BY <1>1, <1>2, SameTyped DEF EdgeRecords
<1>5. CloudFacts'
  BY <1>1 DEF OrderFacts, CloudFacts
<1>6. Arrived'
  <2> SUFFICES ASSUME NEW x \in Entities, cloud[x].time <= cursor PROVE Mirrors(x)'
    BY <1>1 DEF Arrived
  <2>1. Mirrors(x)
    BY DEF OrderFacts, Arrived
  <2>2. CASE x # e
    BY <1>1, <1>4, <2>1, <2>2 DEF Mirrors
  <2>3. CASE x = e
    <3>1. cloud[e].state # "shown"
      BY <1>3, <2>3 DEF StaleFacts, SnapshotFacts
    <3> QED
      BY <1>1, <1>4, <2>1, <2>3, <3>1 DEF Mirrors
  <2> QED
    BY <2>2, <2>3
<1>7. \A x \in Entities : cloud'[x].time <= pull[p].mark /\ ~SignedOff(x)' =>
          x \in pull[p].stale \ {e}
  BY <1>1, <1>3, <1>4 DEF StaleFacts, SignedOff
<1>8. CASE Ends(p)
  BY <1>1, <1>3, <1>5, <1>6, <1>7, <1>8, EndsAlone
<1>9. CASE pc' = pc /\ pull' = [pull EXCEPT ![p].stale = @ \ {e}]
  <2>1. /\ pull'[p].since = pull[p].since /\ pull'[p].mark = pull[p].mark
        /\ pull'[p].snapshot = pull[p].snapshot /\ pull'[p].stale = pull[p].stale \ {e}
        /\ \A q \in Pullers : q # p => pc'[q] = pc[q] /\ pull'[q] = pull[q]
    BY <1>9, SameTyped DEF Pulls
  <2>2. SnapshotFacts(p)'
    BY <1>1, <1>3, <2>1 DEF SnapshotFacts
  <2>3. StaleFacts(p)'
    BY <1>1, <1>3, <1>7, <2>1 DEF StaleFacts
  <2>4. PullOrder(p)'
    BY <1>1, <1>3, <1>9, <2>1, <2>2, <2>3 DEF PullOrder, Fetching, Cleaning
  <2> QED
    BY <1>1, <1>3, <1>5, <1>6, <1>7, <2>1, <2>4, AloneKeeps
<1> QED
  BY <1>8, <1>9 DEF Archive

\* A restart ends all pulls and leaves the databases.
LEMMA RestartAlone ==
  ASSUME OrderFacts, Restart
  PROVE  OrderFacts'
<1>1. \A q \in Pullers : pc'[q] = "idle" /\ pull'[q] = NoPull
  BY DEF Restart
<1>2. CloudFacts' /\ Arrived'
  BY DatabasesStay DEF Restart
<1>3. Lone'
  BY <1>1 DEF Lone, Pullers
<1>4. \A q \in Pullers : PullOrder(q)'
  BY <1>1 DEF PullOrder, Fetching, Cleaning, NoPull
<1> QED
  BY <1>2, <1>3, <1>4 DEF OrderFacts

\* A pull that fails leaves the databases.
LEMMA FailAlone ==
  ASSUME Inv, OrderFacts, NEW p \in Pullers, PullFails(p)
  PROVE  OrderFacts'
<1>1. pc[p] # "idle" /\ Ends(p) /\ UNCHANGED <<now, cloud, edge, cursor>>
  BY DEF PullFails
<1>2. CloudFacts' /\ Arrived'
  BY <1>1, DatabasesStay
<1> QED
  BY <1>1, <1>2, EndsAlone

\* What the cloud does, and records of the edge's own.
LEMMA CloudAlone ==
  ASSUME Inv, OrderFacts, NEW e \in Entities,
         CloudWrites(e) \/ CloudHides(e) \/ CloudDeletes(e) \/ LocalPushed(e) \/ LocalCreate(e)
  PROVE  OrderFacts'
<1>1. \/ Changed(e, "shown") \/ Changed(e, "hidden") \/ Changed(e, "deleted")
      \/ LocalCreate(e)
  BY DEF CloudWrites, CloudHides, CloudDeletes, LocalPushed
<1> QED
  BY <1>1, ChangedAlone, LocalAlone

\* Every step of an orderly run keeps the facts.
LEMMA OrderNext ==
  ASSUME EnoughPages, Inv, Orderly, OrderFacts, [Next]_vars
  PROVE  OrderFacts'
<1>1. CASE CloudStep
  BY <1>1, CloudAlone DEF CloudStep
<1>2. CASE \E e \in Entities : LocalCreate(e) \/ LocalPushed(e)
  BY <1>2, CloudAlone
<1>3. ASSUME NEW p \in Pullers, Begin(p) \/ BeginReload(p) PROVE OrderFacts'
  BY <1>3, BeginAlone
<1>4. ASSUME NEW p \in Pullers, ResetCursor(p) PROVE OrderFacts'
  BY <1>4, ResetAlone
<1>5. ASSUME NEW p \in Pullers, PullStep(p) PROVE OrderFacts'
  <2>1. CASE ReadCursor(p)
    BY <2>1, ReadAlone
  <2>2. CASE FirstPage(p)
    BY <2>2, FirstAlone
  <2>3. CASE NextPage(p)
    BY <2>3, NextAlone
  <2>4. CASE Compare(p)
    BY <2>4, CompareAlone
  <2>5. CASE \E r \in pull[p].page : ApplyRecord(p, r)
    BY <2>5, ApplyAlone
  <2>6. CASE UpsertCursor(p)
    BY <2>6, UpsertAlone
  <2>7. CASE Reconcile(p)
    BY <2>7, ReconcileAlone
  <2>8. CASE \E e \in pull[p].stale : Archive(p, e)
    BY <2>8, ArchiveAlone
  <2> QED
    BY <1>5, <2>1, <2>2, <2>3, <2>4, <2>5, <2>6, <2>7, <2>8 DEF PullStep
<1>6. ASSUME NEW p \in Pullers, PullFails(p) PROVE OrderFacts'
  BY <1>6, FailAlone
<1>7. CASE Restart
  BY <1>7, RestartAlone
<1>8. CASE UNCHANGED vars
  <2>1. UNCHANGED <<now, cloud, edge, cursor, pc, pull>>
    BY <1>8 DEF vars
  <2>2. CloudFacts' /\ Arrived' /\ Lone'
    BY <2>1, DatabasesStay DEF OrderFacts, Lone
  <2>3. ASSUME NEW p \in Pullers PROVE PullOrder(p)'
    BY <2>1 DEF OrderFacts, PullOrder, OnItsWay, PageFacts, Room, SnapshotFacts, StaleFacts,
                SignedOff, Mirrors
  <2> QED
    BY <2>2, <2>3 DEF OrderFacts
<1> QED
  BY <1>1, <1>2, <1>3, <1>4, <1>5, <1>6, <1>7, <1>8 DEF Next

\* Initially nothing has been pulled, and no cursor says otherwise.
LEMMA OrderInit == Init => OrderFacts
<1> SUFFICES ASSUME Init PROVE OrderFacts
  OBVIOUS
<1>1. /\ now = 1 /\ cursor = 0
      /\ \A e \in Entities : cloud[e] = None \/ cloud[e] = [time |-> 1, state |-> "shown"]
      /\ \A p \in Pullers : pc[p] = "idle" /\ pull[p] = NoPull
  BY DEF Init
<1>2. CloudFacts /\ Arrived
  BY <1>1 DEF CloudFacts, Arrived, Mirrors, None
<1>3. Lone
  BY <1>1 DEF Lone, Pullers
<1>4. \A p \in Pullers : PullOrder(p)
  BY <1>1 DEF PullOrder, Fetching, Cleaning, NoPull
<1> QED
  BY <1>2, <1>3, <1>4 DEF OrderFacts

\* The facts hold throughout every orderly run.
LEMMA OrderAlways ==
  ASSUME EnoughPages
  PROVE  Spec => [](Inv /\ (Orderly => OrderFacts))
<1>1. Init => Inv /\ (Orderly => OrderFacts)
  BY InitInv, OrderInit
<1>2. Inv /\ (Orderly => OrderFacts) /\ [Next]_vars => (Inv /\ (Orderly => OrderFacts))'
  <2> SUFFICES ASSUME Inv, Orderly => OrderFacts, [Next]_vars
               PROVE  Inv' /\ (Orderly' => OrderFacts')
    OBVIOUS
  <2>1. Orderly' => Orderly
    BY DEF Orderly, Next, vars
  <2> QED
    BY <2>1, Inductive, OrderNext
<1> QED
  BY <1>1, <1>2, PTL DEF Spec

(***************************************************************************)
(* In an orderly run no record is skipped: what the cloud changed up to    *)
(* the stored cursor is on the edge, for any number of records that fit    *)
(* into the pages a pull asks for (runPullForService).                     *)
(***************************************************************************)
THEOREM NothingLost ==
  ASSUME EnoughPages
  PROVE  Spec => []NothingSkipped
<1>1. Inv /\ (Orderly => OrderFacts) => NothingSkipped
  BY DEF OrderFacts, Arrived, NothingSkipped
<1> QED
  BY <1>1, OrderAlways, PTL

\* Whoever steps, the other pullers stay where they are.
LEMMA OthersStay ==
  ASSUME Inv, NEW p \in Pullers, NEW q \in Pullers, p # q,
         \/ Begin(q) \/ BeginReload(q) \/ ResetCursor(q) \/ PullStep(q)
  PROVE  pc'[p] = pc[p]
<1>1. pc' = pc \/ \E label \in Labels : Goto(q, label)
  BY DEF Begin, BeginReload, ResetCursor, PullStep, ReadCursor, FirstPage, NextPage, Compare,
         ApplyRecord, UpsertCursor, Reconcile, Archive, Ends, Labels
<1> QED
  BY <1>1, SameTyped DEF Goto

\* A reload that ends has signed off all who were hidden when it began.
LEMMA ReloadEnds ==
  ASSUME EnoughPages, Inv, Orderly, OrderFacts, [Next]_vars, NEW p \in Pullers,
         pull[p].reload, pc[p] \in {"apply", "reconcile", "archive"},
         pc'[p] = "idle", mishaps' = mishaps
  PROVE  /\ cursor' = pull[p].mark
         /\ \A e \in Entities : cloud'[e].time <= pull[p].mark => SignedOff(e)'
<1>1. CASE PullStep(p)
  <2>1. ~(ReadCursor(p) \/ FirstPage(p))
    BY DEF ReadCursor, FirstPage
  <2>2. ~(NextPage(p) \/ Compare(p) \/ \E r \in pull[p].page : ApplyRecord(p, r))
    BY SameTyped DEF NextPage, Compare, ApplyRecord, Goto
  <2>3. ~UpsertCursor(p)
    BY UpsertAlone
  <2>4. CASE Reconcile(p)
    <3>1. /\ pc[p] = "reconcile" /\ UNCHANGED <<now, cloud, edge, cursor>>
          /\ SnapshotFacts(p) /\ cursor = pull[p].mark /\ pull[p].since = 0
      BY <2>4 DEF Reconcile, OrderFacts, PullOrder, Fetching, Cleaning
    <3>2. selectStaleUsersToArchive(pull[p].snapshot) = {}
      BY <2>4, SameTyped DEF Reconcile, Goto
    <3>3. \A e \in Entities : cloud[e].time <= pull[p].mark => SignedOff(e)
      BY <3>1, <3>2, StaleFound
    <3> QED
      BY <3>1, <3>3 DEF SignedOff
  <2>5. ASSUME NEW e \in pull[p].stale, Archive(p, e)
        PROVE  /\ cursor' = pull[p].mark
               /\ \A x \in Entities : cloud'[x].time <= pull[p].mark => SignedOff(x)'
    <3>1. pull[p].stale = {e}
      BY <2>5 DEF Archive
    <3>2. /\ cursor' = cursor /\ cursor = pull[p].mark
          /\ \A x \in Entities : cloud'[x].time <= pull[p].mark /\ ~SignedOff(x)' =>
                 x \in pull[p].stale \ {e}
      BY <2>5, ArchiveAlone
    <3> QED
      BY <3>1, <3>2
  <2> QED
    BY <1>1, <2>1, <2>2, <2>3, <2>4, <2>5 DEF PullStep
<1>2. ~(Begin(p) \/ BeginReload(p) \/ ResetCursor(p))
  BY DEF Begin, BeginReload, ResetCursor, MayBegin
<1>3. ASSUME NEW q \in Pullers, q # p PROVE ~(Begin(q) \/ BeginReload(q) \/ ResetCursor(q) \/ PullStep(q))
  BY <1>3, OthersStay
<1>4. ~(Restart \/ \E q \in Pullers : PullFails(q))
  BY SameTyped, PullAssumption DEF Restart, PullFails
<1>5. ~(CloudStep \/ (\E e \in Entities : LocalCreate(e) \/ LocalPushed(e)) \/ UNCHANGED vars)
  BY DEF CloudStep, CloudWrites, CloudHides, CloudDeletes, Changed, LocalCreate, LocalPushed, vars
<1> QED
  BY <1>1, <1>2, <1>3, <1>4, <1>5 DEF Next

(***************************************************************************)
(* A reload that comes to its end, in an orderly run, leaves every record  *)
(* that has not changed since it began as the cloud has it, and signs off  *)
(* those who lost the location (runUsersReloadCycle).                      *)
(***************************************************************************)
THEOREM ReloadCompletes ==
  ASSUME EnoughPages
  PROVE  Spec => ReloadComplete
<1>1. ASSUME Inv, Orderly => OrderFacts, [Next]_vars
      PROVE  [Orderly => \A p \in Cycles :
                /\ pull[p].reload /\ pc[p] \in {"apply", "reconcile", "archive"}
                /\ pc'[p] = "idle" /\ mishaps' = mishaps
                => \A e \in Entities :
                     cloud'[e].time <= pull[p].mark => Mirrors(e)' /\ SignedOff(e)']_vars
  <2> SUFFICES ASSUME Orderly, NEW p \in Cycles,
                      pull[p].reload, pc[p] \in {"apply", "reconcile", "archive"},
                      pc'[p] = "idle", mishaps' = mishaps,
                      NEW e \in Entities, cloud'[e].time <= pull[p].mark
               PROVE  Mirrors(e)' /\ SignedOff(e)'
    OBVIOUS
  <2>1. p \in Pullers
    BY DEF Pullers
  <2>2. OrderFacts'
    BY <1>1, OrderNext
  <2>3. cursor' = pull[p].mark /\ SignedOff(e)'
    BY <1>1, <2>1, ReloadEnds
  <2> QED
    BY <2>2, <2>3 DEF OrderFacts, Arrived
<1> QED
  BY <1>1, OrderAlways, PTL DEF Spec, ReloadComplete
=============================================================================
