------------------------ MODULE InstanceSync_proofs -------------------------
(***************************************************************************)
(* Theorems about InstanceSync, for any number of spokes, keys, rows per   *)
(* page, stamps and failures.                                              *)
(***************************************************************************)
EXTENDS InstanceSync, FiniteSetTheorems, TLAPS

-----------------------------------------------------------------------------
(***************************************************************************)
(* The operators of the model                                              *)
(***************************************************************************)
\* Every phase moves one of the three datasets.
LEMMA DatasetOfPhase ==
  /\ \A p \in Phase : DatasetOf(p) \in Dataset
  /\ DatasetOf(1) = "cards" /\ DatasetOf(2) = "torrents" /\ DatasetOf(3) = "events"
  /\ DatasetOf(4) = "cards" /\ DatasetOf(5) = "torrents" /\ DatasetOf(6) = "events"
BY DEF DatasetOf, Phase, Dataset

\* A transfer's source and target are two different instances.
LEMMA SourceAndTarget ==
  ASSUME NEW s \in Spoke, NEW p \in Phase
  PROVE  Source(s, p) \in Inst /\ Target(s, p) \in Inst /\ Source(s, p) # Target(s, p)
BY ConstantsAssumption DEF Source, Target, Inst

\* The phases are walked upwards; after the last one the tick ends.
LEMMA NextPhaseLater ==
  ASSUME NEW p \in {0} \cup Phase
  PROVE  NextPhase(p) = 0 \/ (NextPhase(p) \in Phase /\ NextPhase(p) > p)
<1> DEFINE later == {q \in Phase : q > p /\ DatasetOf(q) \in Datasets}
<1>1. CASE later = {}
  BY <1>1 DEF NextPhase
<1>2. CASE later # {}
  <2>1. \E q \in later : \A r \in later : q <= r
    <3>1. later \subseteq {1, 2, 3, 4, 5, 6}
      BY DEF Phase
    <3> HIDE DEF later
    <3>2. CASE 1 \in later
      <4>1. \A r \in later : 1 <= r
        BY <3>1, <3>2
      <4> QED BY <3>2, <4>1
    <3>3. CASE 1 \notin later /\ 2 \in later
      <4>1. \A r \in later : 2 <= r
        BY <3>1, <3>3
      <4> QED BY <3>3, <4>1
    <3>4. CASE 1 \notin later /\ 2 \notin later /\ 3 \in later
      <4>1. \A r \in later : 3 <= r
        BY <3>1, <3>4
      <4> QED BY <3>4, <4>1
    <3>5. CASE 1 \notin later /\ 2 \notin later /\ 3 \notin later /\ 4 \in later
      <4>1. \A r \in later : 4 <= r
        BY <3>1, <3>5
      <4> QED BY <3>5, <4>1
    <3>6. CASE 1 \notin later /\ 2 \notin later /\ 3 \notin later /\ 4 \notin later /\ 5 \in later
      <4>1. \A r \in later : 5 <= r
        BY <3>1, <3>6
      <4> QED BY <3>6, <4>1
    <3>7. CASE 1 \notin later /\ 2 \notin later /\ 3 \notin later /\ 4 \notin later /\ 5 \notin later /\ 6 \in later
      <4>1. \A r \in later : 6 <= r
        BY <3>1, <3>7
      <4> QED BY <3>7, <4>1
    <3> QED BY <1>2, <3>1, <3>2, <3>3, <3>4, <3>5, <3>6, <3>7
  <2>2. (CHOOSE q \in later : \A r \in later : q <= r) \in later
    BY <2>1
  <2> QED BY <1>2, <2>2 DEF NextPhase
<1> QED BY <1>1, <1>2

\* Keys are positive numbers, so the origin of a feed precedes every row.
LEMMA KeysAreNat == \A k \in Key : k \in Nat /\ k > 0
BY ConstantsAssumption

\* Positions are totally ordered.
LEMMA PositionOrder ==
  ASSUME NEW a \in Position, NEW b \in Position, NEW c \in Position
  PROVE  /\ Precedes(a, b) \/ Precedes(b, a) \/ a = b
         /\ ~Precedes(a, a)
         /\ Precedes(a, b) /\ Precedes(b, c) => Precedes(a, c)
         /\ UpTo(a, b) /\ UpTo(b, c) => UpTo(a, c)
         /\ UpTo(a, b) <=> ~Precedes(b, a)
         /\ Precedes(a, b) => a.at <= b.at
BY DEF Position, Precedes, UpTo

\* A position up to another one has no later stamp.
LEMMA UpToAt ==
  ASSUME NEW a \in Position, NEW b \in Position, UpTo(a, b)
  PROVE  a.at <= b.at
BY DEF Position, Precedes, UpTo

\* A cursor with a half of another position is still a position.
LEMMA MixedPosition ==
  ASSUME NEW a \in Position, NEW b \in Position
  PROVE  [a EXCEPT !.at = b.at] \in Position /\ [a EXCEPT !.tie = b.tie] \in Position
BY DEF Position

\* Entering a phase resumes from the stored cursor.
LEMMA EnterType ==
  ASSUME TypeOK, NEW s \in Spoke, NEW p \in {0} \cup Phase
  PROVE  /\ Enter(s, p) \in Job
         /\ Enter(s, p).ph = p
         /\ (p = 0) = (Enter(s, p).step = "idle")
         /\ Enter(s, p).step \in {"idle", "ask"}
         /\ Enter(s, p).page = NoPage
         /\ p # 0 => Enter(s, p).cur = cursor[s][p] /\ Enter(s, p).nxt = cursor[s][p]
         /\ p = 0 => Enter(s, p).cur = Origin /\ Enter(s, p).nxt = Origin
<1>1. Origin \in Position /\ NoPage \in [Key -> Nat]
  BY DEF Origin, Pos, Position, NoPage
<1>2. p # 0 => cursor[s][p] \in Position
  BY DEF TypeOK
<1> HIDE DEF Position, Origin, NoPage
<1>3. CASE p = 0
  BY <1>1, <1>3 DEF Enter, Idle, Job
<1>4. CASE p # 0
  BY <1>1, <1>2, <1>4 DEF Enter, Idle, Job
<1> QED BY <1>3, <1>4

\* A page holds the stamps of rows of the feed.
LEMMA PageType ==
  ASSUME TypeOK, NEW i \in Inst, NEW d \in Dataset, NEW cur
  PROVE  /\ Page(i, d, cur) \in [Key -> Nat]
         /\ FirstRows(i, d, cur) \subseteq After(i, d, cur)
         /\ Rows(Page(i, d, cur)) = FirstRows(i, d, cur)
         /\ \A k \in FirstRows(i, d, cur) : Page(i, d, cur)[k] = stamp[i][d][k]
<1>1. \A k \in Key : stamp[i][d][k] \in Nat
  BY DEF TypeOK
<1>2. FirstRows(i, d, cur) \subseteq After(i, d, cur)
  BY DEF FirstRows
<1>3. \A k \in After(i, d, cur) : k \in Key /\ stamp[i][d][k] > 0
  BY DEF After, Listed
<1> HIDE DEF FirstRows, After
<1> QED BY <1>1, <1>2, <1>3 DEF Page, Rows

-----------------------------------------------------------------------------
(***************************************************************************)
(* Type correctness                                                        *)
(***************************************************************************)
\* The steps that write rows keep the tables well formed.
LEMMA WriteRowsType ==
  ASSUME TypeOK, NEW i \in Inst, NEW d \in Dataset, NEW S \in SUBSET Key, NEW at \in Nat,
         WriteRows(i, d, S, at)
  PROVE  /\ stamp' \in [Inst -> [Dataset -> [Key -> Nat]]]
         /\ linked' \in [Inst -> [Key -> BOOLEAN]]
BY DEF TypeOK, WriteRows

\* Merging one received row keeps the tables' types.
LEMMA UpsertType ==
  ASSUME TypeOK, NEW i \in Inst, NEW d \in Dataset, NEW k \in Key, NEW at \in Nat,
         Upsert(i, d, k, at)
  PROVE  /\ clock' \in Nat
         /\ stamp' \in [Inst -> [Dataset -> [Key -> Nat]]]
         /\ linked' \in [Inst -> [Key -> BOOLEAN]]
         /\ open' = open
<1> USE DEF TypeOK, Dataset, Greatest
<1>1. CASE d = "cards" /\ UpsertSyncedCard(i, k, at)
  BY <1>1 DEF UpsertSyncedCard
<1>2. CASE d = "events" /\ UpsertSyncedPlayEvent(i, k, at)
  BY <1>2 DEF UpsertSyncedPlayEvent
<1>3. CASE d = "torrents" /\ UpsertSyncedTorrent(i, k, at)
  <2>1. linked' = [linked EXCEPT ![i][k] = TRUE] /\ open' = open
    BY <1>3 DEF UpsertSyncedTorrent
  <2>2. linked' \in [Inst -> [Key -> BOOLEAN]]
    BY <2>1
  <2>3. CASE stamp[i]["torrents"][k] > 0
    BY <1>3, <2>1, <2>2, <2>3 DEF UpsertSyncedTorrent
  <2>4. CASE ~(stamp[i]["torrents"][k] > 0)
    <3>1. /\ clock' = clock + 1
          /\ stamp' = [stamp EXCEPT ![i]["torrents"][k] = clock + 1]
      BY <1>3, <2>4 DEF UpsertSyncedTorrent
    <3> QED BY <2>1, <2>2, <3>1
  <2> QED BY <2>3, <2>4
<1> QED BY <1>1, <1>2, <1>3 DEF Upsert

\* A job is replaced as a whole, by a well formed one.
LEMMA JobReplaced ==
  ASSUME TypeOK, NEW s \in Spoke, NEW j \in Job, (j.ph = 0) = (j.step = "idle"),
         job' = [job EXCEPT ![s] = j]
  PROVE  /\ job' \in [Spoke -> Job]
         /\ \A r \in Spoke : (job'[r].ph = 0) = (job'[r].step = "idle")
BY DEF TypeOK

\* A step of a spoke, or a failure of one, keeps the types.
LEMMA SpokeStepType ==
  ASSUME TypeOK, NEW s \in Spoke, Progress(s) \/ Failure(s)
  PROVE  TypeOK'
<1>1. job[s] \in Job /\ job[s].ph \in {0} \cup Phase /\ (job[s].ph = 0) = (job[s].step = "idle")
  BY DEF TypeOK, Job
<1>2. NextPhase(job[s].ph) \in {0} \cup Phase /\ NextPhase(0) \in {0} \cup Phase
  BY <1>1, NextPhaseLater
<1>3. ASSUME NEW p \in {0} \cup Phase, job' = [job EXCEPT ![s] = Enter(s, p)]
      PROVE  /\ job' \in [Spoke -> Job]
             /\ \A r \in Spoke : (job'[r].ph = 0) = (job'[r].step = "idle")
  <2> DEFINE j == Enter(s, p)
  <2>1. j \in Job /\ (j.ph = 0) = (j.step = "idle")
    BY EnterType
  <2> HIDE DEF j
  <2>2. job' = [job EXCEPT ![s] = j]
    BY <1>3 DEF j
  <2> QED BY <2>1, <2>2, JobReplaced
<1>4. ASSUME Fail PROVE faults' \in Nat
  BY <1>4 DEF Fail, TypeOK
<1>5. ASSUME NEW k \in Key, NEW ok \in BOOLEAN, NextRow(s, k), RowHandled(s, k, ok)
      PROVE  /\ job' \in [Spoke -> Job]
             /\ \A r \in Spoke : (job'[r].ph = 0) = (job'[r].step = "idle")
  <2> DEFINE j == [job[s] EXCEPT !.page[k] = 0,
                     !.failed = @ \/ ~ok,
                     !.nxt = IF ok /\ ~job[s].failed THEN Pos(job[s].page[k], k) ELSE @]
  <2>1. job' = [job EXCEPT ![s] = j]
    BY <1>5 DEF RowHandled, TypeOK
  <2>2. Pos(job[s].page[k], k) \in Position
    BY <1>1, KeysAreNat DEF Job, Pos, Position
  <2>3. j \in Job /\ (j.ph = 0) = (j.step = "idle")
    BY <1>1, <2>2 DEF Job
  <2> QED BY <2>1, <2>3, JobReplaced
<1>6. CASE StartTick(s)
  BY <1>2, <1>3, <1>6 DEF StartTick, TypeOK, tables
<1>7. CASE AskPage(s)
  <2> DEFINE page == Page(Source(s, job[s].ph), DatasetOf(job[s].ph), job[s].cur)
             j == [job[s] EXCEPT !.step = "apply", !.page = page, !.nxt = job[s].cur,
                                 !.more = Cardinality(Rows(page)) = Limit, !.failed = FALSE]
  <2>1. job[s].ph \in Phase /\ job[s].step = "ask"
    BY <1>1, <1>7 DEF AskPage
  <2>2. page \in [Key -> Nat]
    BY <2>1, PageType, SourceAndTarget, DatasetOfPhase
  <2>3. j \in Job /\ (j.ph = 0) = (j.step = "idle")
    <3> HIDE DEF page
    <3> QED BY <1>1, <2>1, <2>2 DEF Job, Phase
  <2>4. CASE page = NoPage
    <3>1. job' = [job EXCEPT ![s] = Enter(s, NextPhase(job[s].ph))]
      BY <1>7, <2>4 DEF AskPage, TypeOK
    <3> QED BY <1>2, <1>3, <1>7, <3>1 DEF AskPage, TypeOK, tables
  <2>5. CASE page # NoPage
    <3>1. job' = [job EXCEPT ![s] = j]
      BY <1>7, <2>5 DEF AskPage, TypeOK
    <3> HIDE DEF j
    <3>2. /\ job' \in [Spoke -> Job]
          /\ \A r \in Spoke : (job'[r].ph = 0) = (job'[r].step = "idle")
      BY <2>3, <3>1, JobReplaced
    <3> QED BY <1>7, <3>2 DEF AskPage, TypeOK, tables
  <2> QED BY <2>4, <2>5
<1>8. ASSUME NEW k \in Key, ApplyRow(s, k) PROVE TypeOK'
  <2>1. job[s].ph \in Phase /\ job[s].page[k] \in Nat
    BY <1>1, <1>8 DEF ApplyRow, NextRow, Job
  <2>2. /\ clock' \in Nat
        /\ stamp' \in [Inst -> [Dataset -> [Key -> Nat]]]
        /\ linked' \in [Inst -> [Key -> BOOLEAN]]
        /\ open' = open
    BY <1>8, <2>1, UpsertType, SourceAndTarget, DatasetOfPhase DEF ApplyRow
  <2> QED BY <1>5, <1>8, <2>2 DEF ApplyRow, TypeOK
<1>9. CASE SaveSince(s)
  <2> DEFINE j == [job[s] EXCEPT !.step = "tie"]
  <2>1. job[s].ph \in Phase
    BY <1>1, <1>9 DEF SaveSince
  <2>2. CASE job[s].nxt = job[s].cur
    BY <1>2, <1>3, <1>9, <2>2 DEF SaveSince, TypeOK, tables
  <2>3. CASE job[s].nxt # job[s].cur
    <3>1. /\ job' = [job EXCEPT ![s] = j]
          /\ cursor' = [cursor EXCEPT ![s][job[s].ph].at = job[s].nxt.at]
          /\ UNCHANGED <<tables, faults>>
      BY <1>9, <2>3 DEF SaveSince, TypeOK
    <3>2. j \in Job /\ (j.ph = 0) = (j.step = "idle")
      BY <1>1, <2>1 DEF Job, Phase
    <3>3. cursor' \in [Spoke -> [Phase -> Position]]
      <4>1. cursor' = [cursor EXCEPT ![s][job[s].ph] = [@ EXCEPT !.at = job[s].nxt.at]]
        BY <3>1
      <4>2. [cursor[s][job[s].ph] EXCEPT !.at = job[s].nxt.at] \in Position
        BY <1>1, <2>1, MixedPosition DEF TypeOK, Job
      <4> QED BY <2>1, <4>1, <4>2 DEF TypeOK
    <3> QED BY <3>1, <3>2, <3>3, JobReplaced DEF TypeOK, tables
  <2> QED BY <2>2, <2>3
<1>10. ASSUME Proceed(s), job[s].step = "tie"
       PROVE  /\ job' \in [Spoke -> Job]
              /\ \A r \in Spoke : (job'[r].ph = 0) = (job'[r].step = "idle")
  <2> DEFINE j == [job[s] EXCEPT !.step = "ask", !.cur = job[s].nxt]
  <2>1. CASE job[s].more /\ ~job[s].failed
    <3>1. job' = [job EXCEPT ![s] = j]
      BY <1>10, <2>1 DEF Proceed, TypeOK
    <3>2. j \in Job /\ (j.ph = 0) = (j.step = "idle")
      BY <1>1, <1>10 DEF Job
    <3> QED BY <3>1, <3>2, JobReplaced
  <2>2. CASE ~(job[s].more /\ ~job[s].failed)
    BY <1>2, <1>3, <1>10, <2>2 DEF Proceed, TypeOK
  <2> QED BY <2>1, <2>2
<1>11. CASE SaveTie(s)
  <2>1. job[s].ph \in Phase
    BY <1>1, <1>11 DEF SaveTie
  <2>2. cursor' \in [Spoke -> [Phase -> Position]]
    <3>1. cursor' = [cursor EXCEPT ![s][job[s].ph] = [@ EXCEPT !.tie = job[s].nxt.tie]]
      BY <1>11 DEF SaveTie
    <3>2. [cursor[s][job[s].ph] EXCEPT !.tie = job[s].nxt.tie] \in Position
      BY <1>1, <2>1, MixedPosition DEF TypeOK, Job
    <3> QED BY <2>1, <3>1, <3>2 DEF TypeOK
  <2> QED BY <1>10, <1>11, <2>2 DEF SaveTie, TypeOK, tables
<1>12. ASSUME NEW k \in Key, RowFails(s, k) PROVE TypeOK'
  <2>1. NextRow(s, k) /\ RowHandled(s, k, FALSE)
    BY <1>12, Zenon DEF RowFails
  <2>2. /\ job' \in [Spoke -> Job]
        /\ \A r \in Spoke : (job'[r].ph = 0) = (job'[r].step = "idle")
    BY <1>5, <2>1
  <2> QED BY <1>12, <2>2 DEF RowFails, TypeOK, tables
<1>13. CASE CallFails(s)
  BY <1>2, <1>3, <1>4, <1>13 DEF CallFails, TypeOK, tables
<1>14. CASE LoseSince(s)
  <2> DEFINE j == [job[s] EXCEPT !.step = "tie"]
  <2>1. job' = [job EXCEPT ![s] = j]
    BY <1>14 DEF LoseSince, TypeOK
  <2>2. j \in Job /\ (j.ph = 0) = (j.step = "idle")
    BY <1>1, <1>14 DEF LoseSince, Job
  <2> QED BY <1>4, <1>14, <2>1, <2>2, JobReplaced DEF LoseSince, TypeOK, tables
<1>15. CASE LoseTie(s)
  BY <1>4, <1>10, <1>15 DEF LoseTie, TypeOK, tables
<1>16. CASE Crash(s)
  <2>1. job' = [job EXCEPT ![s] = Enter(s, 0)]
    BY <1>16 DEF Crash, Enter
  <2> QED BY <1>3, <1>4, <1>16, <2>1 DEF Crash, TypeOK, tables
<1> QED BY <1>6, <1>7, <1>8, <1>9, <1>11, <1>12, <1>13, <1>14, <1>15, <1>16
        DEF Progress, Failure

\* A step of an instance's own writers keeps the types.
LEMMA EnvironmentStepType ==
  ASSUME TypeOK, Environment
  PROVE  TypeOK'
<1>1. ASSUME NEW i \in Inst, NEW d \in Dataset, NEW S \in SUBSET Key, LocalWrite(i, d, S)
      PROVE  TypeOK'
  <2>1. clock + 1 \in Nat /\ WriteRows(i, d, S, clock + 1)
    BY <1>1 DEF LocalWrite, TypeOK
  <2> QED BY <1>1, <2>1, WriteRowsType DEF LocalWrite, TypeOK
<1>2. ASSUME NEW i \in Inst, NEW d \in Dataset, NEW k \in Key, BeginWrite(i, d, k)
      PROVE  TypeOK'
  BY <1>2 DEF BeginWrite, TypeOK, Statement
<1>3. ASSUME NEW w \in open, CommitWrite(w) PROVE TypeOK'
  <2>1. /\ w.i \in Inst /\ w.d \in Dataset /\ {w.k} \in SUBSET Key /\ w.at \in Nat
        /\ open' \subseteq Statement
    BY <1>3 DEF CommitWrite, TypeOK, Statement
  <2>2. CASE CanWrite(w.i, w.d, {w.k})
    <3>1. WriteRows(w.i, w.d, {w.k}, w.at)
      BY <1>3, <2>2 DEF CommitWrite
    <3> QED BY <1>3, <2>1, <3>1, WriteRowsType DEF CommitWrite, TypeOK
  <2>3. CASE ~CanWrite(w.i, w.d, {w.k})
    BY <1>3, <2>1, <2>3 DEF CommitWrite, TypeOK
  <2> QED BY <2>2, <2>3
<1>4. ASSUME NEW i \in Inst, NEW k \in Key, DeleteCard(i, k) PROVE TypeOK'
  BY <1>4 DEF DeleteCard, TypeOK, Dataset
<1> QED BY <1>1, <1>2, <1>3, <1>4 DEF Environment

\* The initial state is well typed.
LEMMA InitType == Init => TypeOK
BY DEF Init, TypeOK, Idle, Job, Origin, Pos, Position, NoPage

\* Every step keeps the types.
LEMMA NextType == TypeOK /\ [Next]_vars => TypeOK'
<1> SUFFICES ASSUME TypeOK, [Next]_vars PROVE TypeOK'
  OBVIOUS
<1>1. CASE Environment
  BY <1>1, EnvironmentStepType
<1>2. ASSUME NEW s \in Spoke, Progress(s) \/ Failure(s) PROVE TypeOK'
  BY <1>2, SpokeStepType
<1>3. CASE UNCHANGED vars
  BY <1>3 DEF vars, TypeOK
<1> QED BY <1>1, <1>2, <1>3 DEF Next

\* Tables, cursors and ticks stay well formed under every local statement, every
\* step of a tick and every failure, with or without the operational hazards.
THEOREM TypeCorrect == Spec => []TypeOK
BY InitType, NextType, PTL DEF Spec

-----------------------------------------------------------------------------
(***************************************************************************)
(* Events and their cards                                                  *)
(***************************************************************************)
\* A statement that is not visible yet has a real stamp: without this a late
\* commit could take a card away from under its event.
OpenStamped == \A w \in open : w.at > 0

EventInv == TypeOK /\ OpenStamped /\ EventsHaveCards

\* Every step keeps each event attached to a card the instance has.
LEMMA EventsHaveCardsStep == EventInv /\ [Next]_vars => EventInv'
<1> SUFFICES ASSUME EventInv, [Next]_vars PROVE EventInv'
  OBVIOUS
<1>t. TypeOK /\ TypeOK'
  BY NextType DEF EventInv
<1> SUFFICES OpenStamped' /\ EventsHaveCards'
  BY <1>t DEF EventInv
<1> USE DEF EventInv
<1>1. ASSUME NEW i \in Inst, NEW d \in Dataset, NEW S \in SUBSET Key, LocalWrite(i, d, S)
      PROVE  OpenStamped' /\ EventsHaveCards'
  BY <1>t, <1>1 DEF LocalWrite, CanWrite, WriteRows, TypeOK, Dataset, OpenStamped, EventsHaveCards
<1>2. ASSUME NEW i \in Inst, NEW d \in Dataset, NEW k \in Key, BeginWrite(i, d, k)
      PROVE  OpenStamped' /\ EventsHaveCards'
  BY <1>t, <1>2 DEF BeginWrite, TypeOK, OpenStamped, EventsHaveCards
<1>3. ASSUME NEW w \in open, CommitWrite(w)
      PROVE  OpenStamped' /\ EventsHaveCards'
  <2>1. w.i \in Inst /\ w.d \in Dataset /\ w.k \in Key /\ w.at \in Nat /\ w.at > 0
    BY <1>t DEF TypeOK, Statement, OpenStamped
  <2>2. OpenStamped'
    BY <1>3 DEF CommitWrite, OpenStamped
  <2>3. CASE CanWrite(w.i, w.d, {w.k})
    <3>1. WriteRows(w.i, w.d, {w.k}, w.at)
      BY <1>3, <2>3 DEF CommitWrite
    <3> QED BY <1>t, <2>1, <2>2, <2>3, <3>1
            DEF CanWrite, WriteRows, TypeOK, Dataset, EventsHaveCards
  <2>4. CASE ~CanWrite(w.i, w.d, {w.k})
    BY <1>3, <2>2, <2>4 DEF CommitWrite, EventsHaveCards
  <2> QED BY <2>3, <2>4
<1>4. ASSUME NEW i \in Inst, NEW k \in Key, DeleteCard(i, k)
      PROVE  OpenStamped' /\ EventsHaveCards'
  BY <1>t, <1>4 DEF DeleteCard, TypeOK, Dataset, OpenStamped, EventsHaveCards
<1>5. ASSUME NEW s \in Spoke, NEW k \in Key, ApplyRow(s, k)
      PROVE  OpenStamped' /\ EventsHaveCards'
  <2> DEFINE i == Target(s, job[s].ph)
             d == DatasetOf(job[s].ph)
             at == job[s].page[k]
  <2>1. i \in Inst /\ d \in Dataset /\ at \in Nat
    <3>1. job[s].ph \in Phase /\ job[s].page[k] \in Nat
      BY <1>t, <1>5 DEF ApplyRow, NextRow, TypeOK, Job
    <3> QED BY <3>1, SourceAndTarget, DatasetOfPhase
  <2>2. Upsert(i, d, k, at)
    BY <1>5 DEF ApplyRow
  <2> HIDE DEF i, d, at
  <2>3. CASE UpsertSyncedCard(i, k, at)
    BY <1>t, <2>1, <2>3 DEF UpsertSyncedCard, Greatest, TypeOK, Dataset, OpenStamped, EventsHaveCards
  <2>4. CASE UpsertSyncedPlayEvent(i, k, at)
    BY <1>t, <2>1, <2>4 DEF UpsertSyncedPlayEvent, Greatest, TypeOK, Dataset, OpenStamped, EventsHaveCards
  <2>5. CASE UpsertSyncedTorrent(i, k, at)
    <3>1. open' = open
      BY <2>5 DEF UpsertSyncedTorrent
    <3>2. \A j \in Inst, m \in Key : /\ stamp'[j]["cards"][m] = stamp[j]["cards"][m]
                                     /\ stamp'[j]["events"][m] = stamp[j]["events"][m]
      <4>1. CASE stamp' = stamp
        BY <4>1
      <4>2. CASE stamp' = [stamp EXCEPT ![i]["torrents"][k] = clock + 1]
        BY <1>t, <2>1, <4>2 DEF TypeOK, Dataset
      <4> QED BY <2>5, <4>1, <4>2 DEF UpsertSyncedTorrent
    <3> QED BY <3>1, <3>2 DEF OpenStamped, EventsHaveCards
  <2> QED BY <2>2, <2>3, <2>4, <2>5 DEF Upsert
<1>6. ASSUME UNCHANGED tables PROVE OpenStamped' /\ EventsHaveCards'
  BY <1>6 DEF tables, OpenStamped, EventsHaveCards
<1>7. ASSUME NEW s \in Spoke, Progress(s) \/ Failure(s)
      PROVE  (\E k \in Key : ApplyRow(s, k)) \/ UNCHANGED tables
  BY <1>7 DEF Progress, Failure, StartTick, AskPage, SaveSince, SaveTie, RowFails, CallFails,
              LoseSince, LoseTie, Crash, Fail
<1> QED BY <1>1, <1>2, <1>3, <1>4, <1>5, <1>6, <1>7 DEF Next, Environment, vars, tables

\* An event never outlives its card or precedes it, at any instance, also with
\* deletions and late commits between any two steps of a sync.
THEOREM EventsAlwaysHaveCards == Spec => []EventsHaveCards
<1>1. Init => EventInv
  <2>1. Init => OpenStamped /\ EventsHaveCards
    BY DEF Init, OpenStamped, EventsHaveCards, NoPage, Dataset
  <2> QED BY <2>1, InitType DEF EventInv
<1>2. EventInv => EventsHaveCards
  BY DEF EventInv
<1> QED BY <1>1, <1>2, EventsHaveCardsStep, PTL DEF Spec

-----------------------------------------------------------------------------
(***************************************************************************)
(* Nothing is skipped.  Without hazards the tables move in three ways: a   *)
(* row gets a new stamp, the greatest there is; a card gets the stamp of   *)
(* the row a running transfer holds; or nothing changes.                   *)
(***************************************************************************)
TorrentRow(i, k) ==
  \/ stamp'[i]["torrents"][k] = stamp[i]["torrents"][k] /\ linked'[i][k] = linked[i][k]
  \/ stamp'[i]["torrents"][k] = clock + 1 /\ linked'[i][k] /\ clock' = clock + 1

CardTaken(s, i, k) ==
  /\ job[s].ph \in Phase /\ job[s].step = "apply"
  /\ DatasetOf(job[s].ph) = "cards" /\ i = Target(s, job[s].ph)
  /\ k \in Rows(job[s].page)
  /\ stamp'[i]["cards"][k] = job[s].page[k]
  /\ stamp'[i]["cards"][k] > stamp[i]["cards"][k]

CardRow(i, k) ==
  \/ stamp'[i]["cards"][k] = stamp[i]["cards"][k]
  \/ stamp'[i]["cards"][k] = clock + 1 /\ clock' = clock + 1
  \/ \E s \in Spoke : CardTaken(s, i, k)

TablesStep ==
  /\ open' = {}
  /\ clock' \in {clock, clock + 1}
  /\ \A i \in Inst, k \in Key : TorrentRow(i, k) /\ CardRow(i, k)
  /\ \A i \in Inst, k \in Key : stamp'[i]["events"][k] <= clock'

\* The inductive invariant includes the types.
LEMMA IInvType == IInv => TypeOK
BY DEF IInv

\* The clock and the stamps are numbers.
LEMMA StampType ==
  ASSUME TypeOK
  PROVE  /\ clock \in Nat
         /\ \A i \in Inst, d \in Dataset, k \in Key : stamp[i][d][k] \in Nat
         /\ \A i \in Inst, k \in Key : linked[i][k] \in BOOLEAN
BY DEF TypeOK

\* A step that leaves the tables alone is a step of the tables the argument allows.
LEMMA TablesStayed ==
  ASSUME IInv, UNCHANGED tables
  PROVE  TablesStep
BY DEF IInv, TypeOK, BehindClock, tables, TablesStep, TorrentRow, CardRow, Dataset

\* A local write stamps what it writes with the present, later than every stamp before.
LEMMA LocalWriteMoves ==
  ASSUME IInv, NEW i \in Inst, NEW d \in Dataset, NEW S \in SUBSET Key, LocalWrite(i, d, S)
  PROVE  TablesStep
<1> USE DEF Dataset
<1>1. TypeOK /\ BehindClock /\ open = {}
  BY DEF IInv
<1>2. /\ clock' = clock + 1 /\ open' = open
      /\ WriteRows(i, d, S, clock + 1)
  BY DEF LocalWrite
<1>3. \A j \in Inst, e \in Dataset, k \in Key :
        \/ stamp'[j][e][k] = stamp[j][e][k]
        \/ stamp'[j][e][k] = clock + 1
  BY <1>1, <1>2 DEF WriteRows, TypeOK
<1>4. ASSUME NEW j \in Inst, NEW k \in Key PROVE TorrentRow(j, k)
  <2>1. CASE d = "torrents" /\ j = i /\ k \in S
    BY <1>1, <1>2, <2>1 DEF WriteRows, TypeOK, TorrentRow
  <2>2. CASE d = "torrents" /\ ~(j = i /\ k \in S)
    BY <1>1, <1>2, <2>2 DEF WriteRows, TypeOK, TorrentRow
  <2>3. CASE d # "torrents"
    BY <1>1, <1>2, <2>3 DEF WriteRows, TypeOK, TorrentRow
  <2> QED BY <2>1, <2>2, <2>3
<1>5. \A j \in Inst, k \in Key : stamp'[j]["events"][k] <= clock'
  <2>1. \A j \in Inst, k \in Key : stamp[j]["events"][k] \in Nat /\ stamp[j]["events"][k] <= clock
    BY <1>1, StampType DEF BehindClock
  <2> QED BY <1>1, <1>2, <1>3, <2>1, StampType
<1>6. \A j \in Inst, k \in Key : CardRow(j, k)
  BY <1>2, <1>3 DEF CardRow
<1> QED BY <1>1, <1>2, <1>4, <1>5, <1>6 DEF TablesStep

\* Applying a received row either leaves the receiver's row or stamps it anew; a card
\* keeps the stamp its sender gave it.
LEMMA ApplyMoves ==
  ASSUME IInv, NEW s \in Spoke, NEW k \in Key, ApplyRow(s, k)
  PROVE  TablesStep
<1> USE DEF Dataset
<1> DEFINE i == Target(s, job[s].ph)
           d == DatasetOf(job[s].ph)
           at == job[s].page[k]
<1>1. TypeOK /\ BehindClock /\ LinkedIffStamped /\ open = {}
  BY DEF IInv
<1>2. /\ job[s].ph \in Phase /\ job[s].step = "apply" /\ k \in Rows(job[s].page)
      /\ at \in Nat /\ at <= clock
  BY <1>1 DEF ApplyRow, NextRow, TypeOK, Job, BehindClock
<1>3. i \in Inst /\ d \in Dataset
  BY <1>2, SourceAndTarget, DatasetOfPhase
<1>4. Upsert(i, d, k, at)
  BY DEF ApplyRow
<1>5. clock \in Nat /\ \A j \in Inst, e \in Dataset, m \in Key : stamp[j][e][m] \in Nat /\ stamp[j][e][m] <= clock
  BY <1>1, StampType DEF BehindClock
<1>6. CASE d = "cards" /\ UpsertSyncedCard(i, k, at)
  <2>1. \A j \in Inst, m \in Key : TorrentRow(j, m) /\ stamp'[j]["events"][m] = stamp[j]["events"][m]
    BY <1>1, <1>3, <1>6 DEF UpsertSyncedCard, TypeOK, TorrentRow
  <2>2. \A j \in Inst, m \in Key :
          \/ stamp'[j]["cards"][m] = stamp[j]["cards"][m]
          \/ j = i /\ m = k /\ stamp'[j]["cards"][m] = at /\ at > stamp[j]["cards"][m]
    <3>1. stamp' = [stamp EXCEPT ![i]["cards"][k] = Greatest(@, at)]
      BY <1>6 DEF UpsertSyncedCard
    <3>2. \A j \in Inst, m \in Key :
            stamp'[j]["cards"][m] = IF j = i /\ m = k THEN Greatest(stamp[j]["cards"][m], at)
                                    ELSE stamp[j]["cards"][m]
      <4> HIDE DEF i, at
      <4> QED BY <1>1, <1>3, <3>1 DEF TypeOK
    <3>3. \A n \in Nat : Greatest(n, at) = n \/ (Greatest(n, at) = at /\ at > n)
      BY <1>2 DEF Greatest
    <3>4. \A j \in Inst, m \in Key : stamp[j]["cards"][m] \in Nat
      BY <1>5
    <3> HIDE DEF i, at
    <3> QED BY <3>2, <3>3, <3>4
  <2>3. \A j \in Inst, m \in Key : CardRow(j, m)
    BY <1>2, <1>6, <2>2 DEF CardRow, CardTaken
  <2> QED BY <1>1, <1>5, <1>6, <2>1, <2>3 DEF TablesStep, UpsertSyncedCard
<1>7. CASE d = "events" /\ UpsertSyncedPlayEvent(i, k, at)
  <2>1. \A j \in Inst, m \in Key : TorrentRow(j, m) /\ stamp'[j]["cards"][m] = stamp[j]["cards"][m]
    BY <1>1, <1>3, <1>7 DEF UpsertSyncedPlayEvent, TypeOK, TorrentRow
  <2>2. \A j \in Inst, m \in Key : stamp'[j]["events"][m] <= clock
    BY <1>1, <1>2, <1>3, <1>5, <1>7 DEF UpsertSyncedPlayEvent, Greatest, TypeOK
  <2> QED BY <1>1, <1>7, <2>1, <2>2 DEF TablesStep, CardRow, UpsertSyncedPlayEvent
<1>8. CASE d = "torrents" /\ UpsertSyncedTorrent(i, k, at)
  <2>0. linked' = [linked EXCEPT ![i][k] = TRUE] /\ open' = open
    BY <1>8 DEF UpsertSyncedTorrent
  <2>1. CASE stamp[i]["torrents"][k] > 0
    <3>1. linked[i][k] = TRUE
      BY <1>1, <1>3, <2>1 DEF LinkedIffStamped
    <3>2. \A j \in Inst, m \in Key : linked'[j][m] = linked[j][m]
      BY <1>1, <1>3, <2>0, <3>1 DEF TypeOK
    <3>3. clock' = clock /\ stamp' = stamp
      BY <1>8, <2>1 DEF UpsertSyncedTorrent
    <3> QED BY <1>1, <1>5, <2>0, <3>2, <3>3 DEF TablesStep, TorrentRow, CardRow
  <2>2. CASE ~(stamp[i]["torrents"][k] > 0)
    <3>1. clock' = clock + 1 /\ stamp' = [stamp EXCEPT ![i]["torrents"][k] = clock + 1]
      BY <1>8, <2>2 DEF UpsertSyncedTorrent
    <3>2. \A j \in Inst, m \in Key : /\ stamp'[j]["cards"][m] = stamp[j]["cards"][m]
                                     /\ stamp'[j]["events"][m] = stamp[j]["events"][m]
      BY <1>1, <1>3, <3>1 DEF TypeOK
    <3>3. \A j \in Inst, m \in Key : TorrentRow(j, m)
      BY <1>1, <1>3, <2>0, <3>1 DEF TypeOK, TorrentRow
    <3> QED BY <1>1, <1>5, <2>0, <3>1, <3>2, <3>3 DEF TablesStep, CardRow
  <2> QED BY <2>1, <2>2
<1> QED BY <1>4, <1>6, <1>7, <1>8 DEF Upsert

\* Without hazards every step moves the tables in one of the ways above.
LEMMA TablesMove == IInv /\ Hazards = {} /\ [Next]_vars => TablesStep
<1> SUFFICES ASSUME IInv, Hazards = {}, [Next]_vars PROVE TablesStep
  OBVIOUS
<1>1. CASE Environment
  BY <1>1, LocalWriteMoves DEF Environment, BeginWrite, CommitWrite, DeleteCard, IInv
<1>2. ASSUME NEW s \in Spoke, Progress(s) \/ Failure(s) PROVE TablesStep
  <2>1. (\E k \in Key : ApplyRow(s, k)) \/ UNCHANGED tables
    BY <1>2 DEF Progress, Failure, StartTick, AskPage, SaveSince, SaveTie, RowFails, CallFails,
                LoseSince, LoseTie, Crash, Fail
  <2> QED BY <2>1, ApplyMoves, TablesStayed
<1>3. CASE UNCHANGED vars
  BY <1>3, TablesStayed DEF vars, tables
<1> QED BY <1>1, <1>2, <1>3 DEF Next

\* Stamps only grow, and stay behind the clock.
LEMMA StampsGrow ==
  ASSUME IInv, TypeOK', TablesStep
  PROVE  /\ clock <= clock'
         /\ \A i \in Inst, k \in Key : /\ stamp[i]["cards"][k] <= stamp'[i]["cards"][k]
                                       /\ linked[i][k] => linked'[i][k]
         /\ \A i \in Inst, d \in Dataset, k \in Key : stamp'[i][d][k] <= clock'
<1>1. /\ clock \in Nat /\ clock' \in Nat /\ clock <= clock'
      /\ \A i \in Inst, d \in Dataset, k \in Key :
           stamp[i][d][k] \in Nat /\ stamp[i][d][k] <= clock /\ stamp'[i][d][k] \in Nat
  BY StampType DEF IInv, BehindClock, TablesStep, TypeOK
<1>2. \A s \in Spoke, k \in Key : job[s].page[k] <= clock
  BY DEF IInv, BehindClock
<1>3. ASSUME NEW i \in Inst, NEW k \in Key
      PROVE  /\ stamp[i]["cards"][k] <= stamp'[i]["cards"][k] /\ stamp'[i]["cards"][k] <= clock'
             /\ linked[i][k] => linked'[i][k]
             /\ stamp'[i]["torrents"][k] <= clock'
             /\ stamp'[i]["events"][k] <= clock'
  BY <1>1, <1>2, <1>3 DEF TablesStep, TorrentRow, CardRow, CardTaken, Dataset
<1> QED BY <1>1, <1>3 DEF Dataset

\* One row of a feed that feeds a safe phase: it stays, it moves to the end of
\* the feed, or it is a card this spoke is just moving the other way.
FeedRow(s, p, k) ==
  LET src == Source(s, p)
      d   == DatasetOf(p)
  IN  \/ /\ stamp'[src][d][k] = stamp[src][d][k]
         /\ Listed(src, d, k)' <=> Listed(src, d, k)
         /\ Delivered(s, p, k) => Delivered(s, p, k)'
      \/ stamp'[src][d][k] = clock + 1 /\ Listed(src, d, k)'
      \/ job[s].ph \in {1, 4} \ {p} /\ Delivered(s, p, k)'

\* Every row of a feed moves in one of the three ways of FeedRow.
LEMMA FeedMoves ==
  ASSUME IInv, TypeOK', TablesStep, NEW s \in Spoke, NEW p \in SafePhase, NEW k \in Key
  PROVE  FeedRow(s, p, k)
<1>0. Hub \in Inst /\ s \in Inst /\ Hub # s /\ p \in Phase
  BY ConstantsAssumption DEF Inst, SafePhase, Phase
<1>t. /\ clock \in Nat
      /\ \A i \in Inst, d \in Dataset : stamp[i][d][k] \in Nat /\ stamp'[i][d][k] \in Nat
  BY DEF IInv, TypeOK
<1>1. CASE p = 2
  <2>1. Source(s, p) = Hub /\ Target(s, p) = s /\ DatasetOf(p) = "torrents"
    BY <1>1, DatasetOfPhase DEF Source, Target, IsPull
  <2>2. TorrentRow(Hub, k) /\ (linked[s][k] => linked'[s][k])
    BY <1>0, StampsGrow DEF TablesStep
  <2>3. CASE stamp'[Hub]["torrents"][k] = stamp[Hub]["torrents"][k] /\ linked'[Hub][k] = linked[Hub][k]
    BY <2>1, <2>2, <2>3 DEF FeedRow, Listed, Delivered
  <2>4. CASE stamp'[Hub]["torrents"][k] = clock + 1 /\ linked'[Hub][k]
    BY <1>t, <2>1, <2>4 DEF FeedRow, Listed
  <2> QED BY <2>2, <2>3, <2>4 DEF TorrentRow
<1>2. CASE p = 5
  <2>1. Source(s, p) = s /\ Target(s, p) = Hub /\ DatasetOf(p) = "torrents"
    BY <1>2, DatasetOfPhase DEF Source, Target, IsPull
  <2>2. TorrentRow(s, k) /\ (linked[Hub][k] => linked'[Hub][k])
    BY <1>0, StampsGrow DEF TablesStep
  <2>3. CASE stamp'[s]["torrents"][k] = stamp[s]["torrents"][k] /\ linked'[s][k] = linked[s][k]
    BY <2>1, <2>2, <2>3 DEF FeedRow, Listed, Delivered
  <2>4. CASE stamp'[s]["torrents"][k] = clock + 1 /\ linked'[s][k]
    BY <1>t, <2>1, <2>4 DEF FeedRow, Listed
  <2> QED BY <2>2, <2>3, <2>4 DEF TorrentRow
<1>3. CASE p = 4
  <2>1. Source(s, p) = s /\ Target(s, p) = Hub /\ DatasetOf(p) = "cards"
    BY <1>3, DatasetOfPhase DEF Source, Target, IsPull
  <2>2. CardRow(s, k) /\ stamp[Hub]["cards"][k] <= stamp'[Hub]["cards"][k]
    BY <1>0, StampsGrow DEF TablesStep
  <2>3. CASE stamp'[s]["cards"][k] = stamp[s]["cards"][k]
    BY <1>0, <1>t, <2>1, <2>2, <2>3 DEF FeedRow, Listed, Delivered, Dataset
  <2>4. CASE stamp'[s]["cards"][k] = clock + 1
    BY <1>t, <2>1, <2>4 DEF FeedRow, Listed
  <2>5. ASSUME NEW r \in Spoke, CardTaken(r, s, k) PROVE FeedRow(s, p, k)
    <3>1. IsPull(job[r].ph) /\ r = s
      BY <1>0, <2>5 DEF CardTaken, Target
    <3>2. job[s].ph = 1
      BY <2>5, <3>1, DatasetOfPhase DEF CardTaken, IsPull
    <3>3. stamp'[s]["cards"][k] <= stamp[Hub]["cards"][k]
      BY <2>5, <3>1, <3>2 DEF CardTaken, IInv, JobInv
    <3> QED BY <1>0, <1>3, <1>t, <2>1, <2>2, <3>2, <3>3 DEF FeedRow, Delivered, Dataset
  <2> QED BY <2>2, <2>3, <2>4, <2>5 DEF CardRow
<1>4. CASE p = 1 /\ SoleSpoke
  <2>1. Source(s, p) = Hub /\ Target(s, p) = s /\ DatasetOf(p) = "cards"
    BY <1>4, DatasetOfPhase DEF Source, Target, IsPull
  <2>2. CardRow(Hub, k) /\ stamp[s]["cards"][k] <= stamp'[s]["cards"][k]
    BY <1>0, StampsGrow DEF TablesStep
  <2>3. CASE stamp'[Hub]["cards"][k] = stamp[Hub]["cards"][k]
    BY <1>0, <1>t, <2>1, <2>2, <2>3 DEF FeedRow, Listed, Delivered, Dataset
  <2>4. CASE stamp'[Hub]["cards"][k] = clock + 1
    BY <1>t, <2>1, <2>4 DEF FeedRow, Listed
  <2>5. ASSUME NEW r \in Spoke, CardTaken(r, Hub, k) PROVE FeedRow(s, p, k)
    <3>1. ~ IsPull(job[r].ph) /\ r = s
      BY <1>0, <1>4, <2>5 DEF CardTaken, Target, SoleSpoke, Inst
    <3>2. job[s].ph = 4 /\ job[s].step = "apply" /\ k \in Rows(job[s].page)
      BY <2>5, <3>1, DatasetOfPhase DEF CardTaken, IsPull, Phase
    <3>3. PageInv(s)
      BY <3>2 DEF IInv, JobInv, SafePhase
    <3>4. Source(s, 4) = s /\ DatasetOf(4) = "cards"
      BY DatasetOfPhase DEF Source, IsPull
    <3>5. job[s].page[k] <= stamp[s]["cards"][k]
      <4>1. job[s].page[k] \in Nat /\ stamp[s]["cards"][k] \in Nat
        BY <1>0, <1>t, IInvType DEF TypeOK, Job, Dataset
      <4>2. stamp[s]["cards"][k] = job[s].page[k] \/ stamp[s]["cards"][k] > job[s].page[k]
        BY <3>2, <3>3, <3>4 DEF PageInv
      <4> QED BY <4>1, <4>2
    <3>6. stamp'[Hub]["cards"][k] <= stamp[s]["cards"][k]
      BY <2>5, <3>1, <3>5 DEF CardTaken
    <3> QED BY <1>0, <1>4, <1>t, <2>1, <2>2, <3>2, <3>6 DEF FeedRow, Delivered, Dataset
  <2> QED BY <2>2, <2>3, <2>4, <2>5 DEF CardRow
<1> QED BY <1>1, <1>2, <1>3, <1>4 DEF SafePhase

\* What lies at or below a position stays delivered.
LEMMA SkippedStable ==
  ASSUME IInv, TypeOK', TablesStep, NEW s \in Spoke, NEW p \in SafePhase,
         NEW pos \in Position, pos.at <= clock, Skipped(s, p, pos) = {}
  PROVE  Skipped(s, p, pos)' = {}
<1> DEFINE src == Source(s, p)
           d   == DatasetOf(p)
<1>1. src \in Inst /\ d \in Dataset
  BY SourceAndTarget, DatasetOfPhase DEF SafePhase, Phase
<1>2. ASSUME NEW k \in Key, Listed(src, d, k)', UpTo(PosOf(src, d, k)', pos)
      PROVE  Delivered(s, p, k)'
  <2>1. CASE /\ stamp'[src][d][k] = stamp[src][d][k]
             /\ Listed(src, d, k)' <=> Listed(src, d, k)
             /\ Delivered(s, p, k) => Delivered(s, p, k)'
    BY <1>2, <2>1 DEF Skipped, PosOf
  <2>2. CASE stamp'[src][d][k] = clock + 1
    <3>1. clock \in Nat
      BY IInvType, StampType
    <3> QED BY <1>2, <2>2, <3>1 DEF PosOf, Pos, UpTo, Precedes, Position
  <2> QED BY <2>1, <2>2, FeedMoves DEF FeedRow
<1> QED BY <1>2 DEF Skipped

\* The same for a position that is part of the state and does not move.
LEMMA CursorStable ==
  ASSUME IInv, TypeOK', TablesStep, NEW s \in Spoke, NEW p \in SafePhase,
         NothingSkipped(s, p), ~Saving(s, p), cursor'[s][p] = cursor[s][p]
  PROVE  NothingSkipped(s, p)'
<1>1. PICK pos \in Position : pos = cursor[s][p]
  BY IInvType DEF TypeOK, SafePhase, Phase
<1>2. pos.at <= clock
  BY <1>1 DEF IInv, BehindClock, SafePhase, Phase
<1>3. Skipped(s, p, pos) = {}
  BY <1>1 DEF NothingSkipped
<1>4. Skipped(s, p, pos)' = {}
  BY <1>2, <1>3, SkippedStable
<1>5. cursor'[s][p] = pos
  BY <1>1
<1> QED BY <1>4, <1>5 DEF NothingSkipped, Skipped

\* The position a page will advance the cursor to still leaves no row behind after a step
\* of the tables.
LEMMA NextPositionStable ==
  ASSUME IInv, TypeOK', TablesStep, NEW s \in Spoke, job[s].ph \in SafePhase,
         job'[s].ph = job[s].ph, job'[s].nxt = job[s].nxt
  PROVE  Skipped(s, job[s].ph, job[s].nxt)' = {}
<1>1. PICK p \in SafePhase : p = job[s].ph
  OBVIOUS
<1>2. PICK pos \in Position : pos = job[s].nxt
  BY IInvType DEF TypeOK, Job
<1>3. pos.at <= clock /\ Skipped(s, p, pos) = {}
  BY <1>1, <1>2 DEF IInv, BehindClock, JobInv
<1>4. Skipped(s, p, pos)' = {}
  BY <1>3, SkippedStable
<1>5. job'[s].ph = p /\ job'[s].nxt = pos
  BY <1>1, <1>2
<1> QED BY <1>4, <1>5 DEF Skipped

\* A page in hand stays what it is while others write.
LEMMA PageStable ==
  ASSUME IInv, TypeOK', TablesStep, NEW s \in Spoke, job'[s] = job[s],
         job[s].ph \in SafePhase, job[s].step = "apply"
  PROVE  PageInv(s)'
<1> DEFINE p == job[s].ph
           src == Source(s, p)
           d == DatasetOf(p)
           pg == job[s].page
<1>1. src \in Inst /\ d \in Dataset
  BY SourceAndTarget, DatasetOfPhase DEF SafePhase, Phase
<1>2. PageInv(s)
  BY DEF IInv, JobInv
<1>3. \A k \in Key : \/ /\ stamp'[src][d][k] = stamp[src][d][k]
                        /\ Listed(src, d, k)' <=> Listed(src, d, k)
                     \/ stamp'[src][d][k] = clock + 1 /\ Listed(src, d, k)'
  BY FeedMoves DEF FeedRow, SafePhase
<1>4. clock \in Nat /\ \A k \in Key : pg[k] \in Nat /\ pg[k] < clock + 1
  BY IInvType, StampType DEF IInv, BehindClock, TypeOK, Job
<1>5. (p' = p) /\ pg' = pg /\ job'[s].failed = job[s].failed /\ job'[s].nxt = job[s].nxt
  OBVIOUS
<1>6. \A k \in Key : Rows(pg) \subseteq Key /\ stamp[src][d][k] \in Nat /\ stamp'[src][d][k] \in Nat
  BY <1>1, IInvType DEF TypeOK, Rows
<1>7. ASSUME NEW k \in Rows(pg)
      PROVE  /\ Listed(src, d, k)'
             /\ stamp'[src][d][k] = pg[k] \/ \A j \in Rows(pg) : stamp'[src][d][k] > pg[j]
             /\ job[s].failed \/ Precedes(job[s].nxt, Pos(pg[k], k))
  <2>1. /\ Listed(src, d, k)
        /\ stamp[src][d][k] = pg[k] \/ \A j \in Rows(pg) : stamp[src][d][k] > pg[j]
        /\ job[s].failed \/ Precedes(job[s].nxt, Pos(pg[k], k))
    BY <1>2 DEF PageInv
  <2>2. k \in Key /\ Rows(pg) \subseteq Key
    BY DEF Rows
  <2>3. CASE /\ stamp'[src][d][k] = stamp[src][d][k]
             /\ Listed(src, d, k)' <=> Listed(src, d, k)
    BY <2>1, <2>3
  <2>4. CASE stamp'[src][d][k] = clock + 1 /\ Listed(src, d, k)'
    <3>1. \A j \in Rows(pg) : stamp'[src][d][k] > pg[j]
      BY <1>4, <2>2, <2>4
    <3> QED BY <2>1, <2>4, <3>1
  <2> QED BY <1>3, <2>2, <2>3, <2>4
<1>8. ASSUME ~job[s].failed, NEW k \in Key \ Rows(pg),
             Listed(src, d, k)', Precedes(job[s].nxt, PosOf(src, d, k)'), NEW j \in Rows(pg)
      PROVE  Precedes(Pos(pg[j], j), PosOf(src, d, k)')
  <2>1. CASE /\ stamp'[src][d][k] = stamp[src][d][k]
             /\ Listed(src, d, k)' <=> Listed(src, d, k)
    BY <1>2, <1>8, <2>1 DEF PageInv, PosOf
  <2>2. CASE stamp'[src][d][k] = clock + 1
    BY <1>4, <1>6, <2>2 DEF PosOf, Pos, Precedes
  <2> QED BY <1>3, <2>1, <2>2
<1> QED BY <1>5, <1>7, <1>8 DEF PageInv

\* What holds of a spoke goes on holding while others move.
LEMMA OthersMove ==
  ASSUME IInv, TypeOK', TablesStep, NEW s \in Spoke, job'[s] = job[s], cursor'[s] = cursor[s]
  PROVE  JobInv(s)' /\ \A p \in SafePhase : NothingSkipped(s, p)'
<1>1. JobInv(s) /\ \A p \in SafePhase : NothingSkipped(s, p)
  BY DEF IInv
<1>2. ASSUME NEW p \in SafePhase PROVE NothingSkipped(s, p)'
  <2>1. CASE Saving(s, p)
    BY <2>1 DEF NothingSkipped, Saving
  <2>2. CASE ~Saving(s, p)
    BY <1>1, <2>2, CursorStable
  <2> QED BY <2>1, <2>2
<1>3. ASSUME job[s].ph \in SafePhase
      PROVE  /\ Skipped(s, job[s].ph, job[s].nxt)' = {}
             /\ cursor'[s][job[s].ph].at <= job[s].nxt.at
             /\ job[s].step = "apply" => PageInv(s)'
  BY <1>1, <1>3, NextPositionStable, PageStable DEF JobInv
<1>4. ASSUME job[s].ph = 1, NEW k \in Rows(job[s].page)
      PROVE  job[s].page[k] <= stamp'[Hub]["cards"][k]
  <2>1. k \in Key /\ Hub \in Inst /\ job[s].page[k] <= stamp[Hub]["cards"][k]
    BY <1>1, <1>4 DEF JobInv, Rows, Inst
  <2>2. stamp[Hub]["cards"][k] <= stamp'[Hub]["cards"][k]
    BY <2>1, StampsGrow
  <2>3. /\ job[s].page[k] \in Nat /\ stamp[Hub]["cards"][k] \in Nat
        /\ stamp'[Hub]["cards"][k] \in Nat
    BY <2>1, IInvType DEF TypeOK, Job, Dataset
  <2> QED BY <2>1, <2>2, <2>3
<1> QED BY <1>1, <1>2, <1>3, <1>4 DEF JobInv

-----------------------------------------------------------------------------
(***************************************************************************)
(* The steps of one spoke's own tick                                       *)
(***************************************************************************)
\* Everything the invariant says of spoke s.
SpokeInv(s) ==
  /\ JobInv(s)
  /\ \A p \in SafePhase : NothingSkipped(s, p)
  /\ \A p \in Phase : cursor[s][p].at <= clock
  /\ job[s].nxt.at <= clock
  /\ \A k \in Key : job[s].page[k] <= clock

\* The rows behind a position are a function of the tables.
LEMMA SameTables ==
  ASSUME UNCHANGED tables, NEW s \in Spoke, NEW p \in Phase, NEW pos
  PROVE  Skipped(s, p, pos)' = Skipped(s, p, pos)
BY DEF tables, Skipped, Listed, PosOf, Delivered

\* Entering a phase, or ending the tick, keeps the invariant of the spoke's job.
LEMMA EnterInv ==
  ASSUME IInv, TypeOK', UNCHANGED tables, NEW s \in Spoke, NEW q \in {0} \cup Phase,
         job'[s] = Enter(s, q), q # 0 => cursor'[s][q] = cursor[s][q], ~Saving(s, q)
  PROVE  /\ JobInv(s)'
         /\ job'[s].nxt.at <= clock'
         /\ \A k \in Key : job'[s].page[k] <= clock'
<1>1. TypeOK /\ clock \in Nat /\ clock' = clock
  BY IInvType, StampType DEF tables
<1>2. CASE q = 0
  <2>1. /\ job'[s].ph = 0 /\ job'[s].step = "idle" /\ job'[s].page = NoPage
        /\ job'[s].nxt = Origin
    BY <1>1, <1>2, EnterType
  <2> QED BY <1>1, <2>1 DEF JobInv, SafePhase, Phase, NoPage, Origin, Pos
<1>3. CASE q # 0
  <2>1. /\ job'[s].ph = q /\ job'[s].step = "ask" /\ job'[s].page = NoPage
        /\ job'[s].nxt = cursor[s][q] /\ job'[s].cur = cursor[s][q]
    BY <1>1, <1>3, EnterType
  <2>2. cursor[s][q].at <= clock /\ cursor'[s][q] = cursor[s][q] /\ cursor[s][q].at \in Nat
    BY <1>1, <1>3 DEF IInv, BehindClock, TypeOK, Position
  <2>3. ASSUME q \in SafePhase PROVE Skipped(s, job[s].ph, job[s].nxt)' = {}
    <3>1. PICK pos : pos = cursor[s][q]
      OBVIOUS
    <3>2. Skipped(s, q, pos) = {}
      BY <2>3, <3>1 DEF IInv, NothingSkipped
    <3>3. Skipped(s, q, pos)' = {}
      BY <1>3, <3>2, SameTables
    <3>4. job'[s].ph = q /\ job'[s].nxt = pos
      BY <2>1, <3>1
    <3> QED BY <3>3, <3>4 DEF Skipped
  <2>4. Rows(NoPage) = {} /\ \A k \in Key : NoPage[k] = 0
    BY DEF Rows, NoPage
  <2>5. JobInv(s)'
    BY <2>1, <2>2, <2>3, <2>4 DEF JobInv
  <2> QED BY <1>1, <2>1, <2>2, <2>4, <2>5
<1> QED BY <1>2, <1>3

\* Nothing but the tick's place changes, and it was not storing a cursor.
LEMMA EnterSpokeInv ==
  ASSUME IInv, TypeOK', UNCHANGED <<tables, cursor>>, NEW s \in Spoke, NEW q \in {0} \cup Phase,
         job'[s] = Enter(s, q), job[s].step # "tie"
  PROVE  SpokeInv(s)'
<1>1. /\ JobInv(s)'
      /\ job'[s].nxt.at <= clock'
      /\ \A k \in Key : job'[s].page[k] <= clock'
  BY EnterInv DEF Saving
<1>2. \A p \in SafePhase : NothingSkipped(s, p)'
  BY TablesStayed, CursorStable DEF Saving, IInv
<1>3. \A p \in Phase : cursor'[s][p].at <= clock'
  BY DEF IInv, BehindClock, tables
<1> QED BY <1>1, <1>2, <1>3 DEF SpokeInv

\* A page is a prefix of what lies after the cursor.
LEMMA FirstRowsPrefix ==
  ASSUME TypeOK, NEW i \in Inst, NEW d \in Dataset, NEW cur,
         NEW k \in After(i, d, cur) \ FirstRows(i, d, cur), NEW j \in FirstRows(i, d, cur)
  PROVE  Precedes(PosOf(i, d, j), PosOf(i, d, k))
<1> DEFINE before(m) == {n \in After(i, d, cur) : Precedes(PosOf(i, d, n), PosOf(i, d, m))}
<1>1. /\ \A m \in After(i, d, cur) : m \in Key /\ PosOf(i, d, m) \in Position
      /\ j \in After(i, d, cur) /\ k \in After(i, d, cur) /\ j # k
  <2>1. \A m \in Key : PosOf(i, d, m) \in Position
    BY KeysAreNat, StampType DEF PosOf, Pos, Position
  <2>2. After(i, d, cur) \subseteq Key /\ FirstRows(i, d, cur) \subseteq After(i, d, cur)
    BY DEF After, FirstRows
  <2> QED BY <2>1, <2>2
<1>2. IsFiniteSet(After(i, d, cur))
  BY ConstantsAssumption, FS_Subset DEF After
<1>3. \A m \in Key : IsFiniteSet(before(m)) /\ Cardinality(before(m)) \in Nat
  BY <1>2, FS_Subset, FS_CardinalityType
<1>4. Cardinality(before(j)) < Limit /\ ~(Cardinality(before(k)) < Limit)
  BY DEF FirstRows
<1>5. SUFFICES ASSUME ~Precedes(PosOf(i, d, j), PosOf(i, d, k)) PROVE FALSE
  OBVIOUS
<1>6. PosOf(i, d, j) # PosOf(i, d, k)
  BY <1>1 DEF PosOf, Pos
<1>7. Precedes(PosOf(i, d, k), PosOf(i, d, j))
  BY <1>1, <1>5, <1>6, PositionOrder
<1>8. before(k) \subseteq before(j)
  BY <1>1, <1>7, PositionOrder
<1>9. Cardinality(before(k)) <= Cardinality(before(j))
  BY <1>1, <1>3, <1>8, FS_Subset
<1>10. Cardinality(before(j)) \in Nat /\ Cardinality(before(k)) \in Nat /\ Limit \in Nat
  BY <1>1, <1>3, ConstantsAssumption
<1> HIDE DEF before
<1> QED BY <1>4, <1>9, <1>10

\* Asking for a page keeps the spoke's invariant: the page is the feed's next rows, and an
\* empty one ends the phase.
LEMMA AskInv ==
  ASSUME IInv, TypeOK', NEW s \in Spoke, AskPage(s)
  PROVE  SpokeInv(s)'
<1> DEFINE p == job[s].ph
           src == Source(s, p)
           d == DatasetOf(p)
           page == Page(src, d, job[s].cur)
<1>1. /\ job[s].step = "ask" /\ p \in Phase /\ UNCHANGED <<tables, cursor>>
      /\ TypeOK /\ NextPhase(p) \in {0} \cup Phase
  BY IInvType, NextPhaseLater DEF AskPage, TypeOK, Job
<1>2. CASE page = NoPage
  <2>1. job'[s] = Enter(s, NextPhase(p))
    BY <1>1, <1>2 DEF AskPage, TypeOK
  <2> QED BY <1>1, <2>1, EnterSpokeInv
<1>3. CASE page # NoPage
  <2>1. job'[s] = [job[s] EXCEPT !.step = "apply", !.page = page, !.nxt = job[s].cur,
                                 !.more = Cardinality(Rows(page)) = Limit, !.failed = FALSE]
    BY <1>1, <1>3 DEF AskPage, TypeOK
  <2>2. /\ job'[s].ph = p /\ job'[s].step = "apply" /\ job'[s].page = page
        /\ job'[s].nxt = job[s].cur /\ job'[s].failed = FALSE
    <3> HIDE DEF page
    <3> QED BY <1>1, <2>1 DEF TypeOK, Job
  <2>3. job[s].cur = job[s].nxt
    BY <1>1 DEF IInv, JobInv
  <2>4. src \in Inst /\ d \in Dataset
    BY <1>1, SourceAndTarget, DatasetOfPhase
  <2>5. /\ page \in [Key -> Nat] /\ Rows(page) = FirstRows(src, d, job[s].cur)
        /\ Rows(page) \subseteq After(src, d, job[s].cur)
        /\ \A k \in Rows(page) : page[k] = stamp[src][d][k]
    BY <1>1, <2>4, PageType
  <2>6. clock' = clock /\ clock \in Nat /\ \A k \in Key : page[k] <= clock
    <3>1. clock' = clock /\ clock \in Nat /\ \A k \in Key : stamp[src][d][k] <= clock
      BY <1>1, <2>4, StampType DEF IInv, BehindClock, tables
    <3> QED BY <3>1, <2>5 DEF Rows
  <2>7. PageInv(s)'
    <3>1. \A k \in Rows(page) : /\ Listed(src, d, k)
                                /\ stamp[src][d][k] = page[k]
                                /\ Precedes(job[s].cur, Pos(page[k], k))
      BY <2>5 DEF After, PosOf
    <3>2. ASSUME NEW k \in Key \ Rows(page), Listed(src, d, k),
                 Precedes(job[s].cur, PosOf(src, d, k)), NEW j \in Rows(page)
          PROVE  Precedes(Pos(page[j], j), PosOf(src, d, k))
      <4>1. k \in After(src, d, job[s].cur) \ FirstRows(src, d, job[s].cur)
        BY <2>5, <3>2 DEF After
      <4>2. Precedes(PosOf(src, d, j), PosOf(src, d, k))
        BY <1>1, <2>4, <2>5, <4>1, FirstRowsPrefix
      <4> QED BY <2>5, <4>2 DEF PosOf
    <3>3. PICK c \in Inst, e \in Dataset : c = src /\ e = d
      BY <2>4
    <3>4. stamp' = stamp /\ linked' = linked
      BY <1>1 DEF tables
    <3>5. \A k \in Key : /\ Listed(c, e, k)' <=> Listed(c, e, k)
                         /\ PosOf(c, e, k)' = PosOf(c, e, k)
      BY <3>4 DEF Listed, PosOf
    <3>6. Source(s, job'[s].ph) = c /\ DatasetOf(job'[s].ph) = e
      BY <2>2, <3>3
    <3>7. Rows(page) \subseteq Key
      BY DEF Rows
    <3> HIDE DEF page, src, d, p
    <3>8. /\ \A k \in Rows(page) : /\ Listed(c, e, k)'
                                   /\ stamp'[c][e][k] = page[k]
                                   /\ Precedes(job'[s].nxt, Pos(page[k], k))
          /\ \A k \in Key \ Rows(page) :
               Listed(c, e, k)' /\ Precedes(job'[s].nxt, PosOf(c, e, k)')
                 => \A j \in Rows(page) : Precedes(Pos(page[j], j), PosOf(c, e, k)')
      BY <2>2, <3>1, <3>2, <3>3, <3>4, <3>5, <3>7
    <3> QED BY <2>2, <3>6, <3>8 DEF PageInv
  <2>8. ASSUME p \in SafePhase PROVE Skipped(s, job[s].ph, job[s].nxt)' = {}
    BY <1>1, <2>2, <2>3, <2>8, TablesStayed, NextPositionStable
  <2>9. ASSUME p \in SafePhase PROVE cursor'[s][job'[s].ph].at <= job'[s].nxt.at
    BY <1>1, <2>2, <2>3, <2>9 DEF IInv, JobInv
  <2>10. ASSUME p = 1, NEW k \in Rows(page) PROVE page[k] <= stamp'[Hub]["cards"][k]
    <3>1. src = Hub /\ d = "cards"
      BY <2>10, DatasetOfPhase DEF Source, IsPull
    <3>2. page[k] = stamp'[Hub]["cards"][k] /\ page[k] \in Nat
      BY <1>1, <2>5, <3>1 DEF tables, Rows
    <3> QED BY <3>2
  <2>11. JobInv(s)'
    <3> HIDE DEF page
    <3> QED BY <2>2, <2>7, <2>8, <2>9, <2>10 DEF JobInv
  <2>12. \A q \in SafePhase : NothingSkipped(s, q)'
    BY <1>1, TablesStayed, CursorStable DEF Saving, IInv
  <2>13. \A q \in Phase : cursor'[s][q].at <= clock'
    BY <1>1 DEF IInv, BehindClock, tables
  <2>14. job'[s].nxt.at <= clock'
    BY <2>2, <2>3, <2>6 DEF IInv, BehindClock
  <2> HIDE DEF page
  <2> QED BY <2>2, <2>6, <2>11, <2>12, <2>13, <2>14 DEF SpokeInv
<1> QED BY <1>2, <1>3

\* Handling the next row, whether it is applied or fails.
LEMMA RowHandledJob ==
  ASSUME TypeOK, NEW s \in Spoke, NEW k \in Key, NEW ok \in BOOLEAN, RowHandled(s, k, ok)
  PROVE  /\ job'[s].ph = job[s].ph /\ job'[s].step = job[s].step /\ job'[s].cur = job[s].cur
         /\ job'[s].page = [job[s].page EXCEPT ![k] = 0]
         /\ job'[s].failed = (job[s].failed \/ ~ok)
         /\ job'[s].nxt = IF ok /\ ~job[s].failed THEN Pos(job[s].page[k], k) ELSE job[s].nxt
<1>1. job[s] \in Job
  BY DEF TypeOK
<1>2. job'[s] = [job[s] EXCEPT !.page[k] = 0,
                     !.failed = @ \/ ~ok,
                     !.nxt = IF ok /\ ~job[s].failed THEN Pos(job[s].page[k], k) ELSE @]
  BY DEF RowHandled, TypeOK
<1> QED BY <1>1, <1>2 DEF Job

\* The rows left in the page, and what the row just handled means for the rest.
LEMMA PageGoesOn ==
  ASSUME IInv, TypeOK', NEW s \in Spoke, NEW k \in Key, NEW ok \in BOOLEAN,
         NextRow(s, k), RowHandled(s, k, ok), job[s].ph \in SafePhase,
         NEW c \in Inst, NEW e \in Dataset,
         c = Source(s, job[s].ph), e = DatasetOf(job[s].ph),
         \A m \in Key : /\ stamp'[c][e][m] = stamp[c][e][m]
                        /\ linked'[c][m] = linked[c][m]
  PROVE  PageInv(s)'
<1> DEFINE pg == job[s].page
           pg2 == [pg EXCEPT ![k] = 0]
           at == Pos(pg[k], k)
<1>1. PICK nxt \in Position : nxt = job[s].nxt
  BY IInvType DEF TypeOK, Job
<1>2. /\ TypeOK /\ job[s].step = "apply" /\ k \in Rows(pg)
      /\ \A j \in Rows(pg) : ~Precedes(Pos(pg[j], j), at)
      /\ pg \in [Key -> Nat]
  BY IInvType DEF NextRow, TypeOK, Job
<1>3. PageInv(s)
  BY <1>2 DEF IInv, JobInv
<1>4. /\ \A m \in Rows(pg) :
           /\ Listed(c, e, m)
           /\ stamp[c][e][m] = pg[m] \/ \A j \in Rows(pg) : stamp[c][e][m] > pg[j]
           /\ job[s].failed \/ Precedes(nxt, Pos(pg[m], m))
      /\ job[s].failed \/
         \A m \in Key \ Rows(pg) :
           Listed(c, e, m) /\ Precedes(nxt, PosOf(c, e, m))
             => \A j \in Rows(pg) : Precedes(Pos(pg[j], j), PosOf(c, e, m))
  BY <1>1, <1>3 DEF PageInv
<1>5. Rows(pg2) = Rows(pg) \ {k} /\ \A j \in Rows(pg2) : pg2[j] = pg[j] /\ j \in Key
  BY <1>2 DEF Rows
<1>6. /\ job'[s].page = pg2 /\ Source(s, job'[s].ph) = c /\ DatasetOf(job'[s].ph) = e
      /\ job'[s].failed = (job[s].failed \/ ~ok)
      /\ job'[s].nxt = IF ok /\ ~job[s].failed THEN at ELSE nxt
  BY <1>1, <1>2, RowHandledJob
<1>7. \A m \in Key : /\ Listed(c, e, m)' <=> Listed(c, e, m)
                     /\ PosOf(c, e, m)' = PosOf(c, e, m)
                     /\ stamp[c][e][m] \in Nat
                     /\ PosOf(c, e, m) \in Position
                     /\ Pos(pg[m], m) \in Position
  BY <1>2, KeysAreNat, StampType DEF Listed, PosOf, Pos, Position
<1>8. ASSUME NEW m \in Rows(pg2)
      PROVE  /\ Listed(c, e, m)'
             /\ stamp'[c][e][m] = pg2[m] \/ \A j \in Rows(pg2) : stamp'[c][e][m] > pg2[j]
  BY <1>4, <1>5, <1>7
<1>9. ASSUME ~job'[s].failed, NEW m \in Rows(pg2)
      PROVE  Precedes(job'[s].nxt, Pos(pg2[m], m))
  <2>1. job'[s].nxt = at
    BY <1>6, <1>9
  <2>2. at # Pos(pg[m], m) /\ ~Precedes(Pos(pg[m], m), at) /\ m \in Key
    BY <1>2, <1>5 DEF Pos
  <2>3. Precedes(at, Pos(pg[m], m))
    BY <1>7, <2>2, PositionOrder
  <2> QED BY <1>5, <2>1, <2>3
<1>10. ASSUME ~job'[s].failed, NEW m \in Key \ Rows(pg2),
              Listed(c, e, m)', Precedes(job'[s].nxt, PosOf(c, e, m)'), NEW j \in Rows(pg2)
       PROVE  Precedes(Pos(pg2[j], j), PosOf(c, e, m)')
  <2>1. job'[s].nxt = at /\ ~job[s].failed
    BY <1>6, <1>10
  <2>2. Listed(c, e, m) /\ Precedes(at, PosOf(c, e, m)) /\ pg2[j] = pg[j] /\ j \in Rows(pg) /\ j \in Key
    BY <1>5, <1>7, <1>10, <2>1
  <2>3. CASE m = k
    <3>1. stamp[c][e][k] # pg[k]
      BY <1>7, <2>2, <2>3, PositionOrder DEF PosOf
    <3>2. stamp[c][e][k] > pg[j]
      BY <1>2, <1>4, <2>2, <3>1
    <3> QED BY <1>2, <1>7, <2>2, <2>3, <3>2 DEF PosOf, Pos, Precedes
  <2>4. CASE m # k
    <3>1. m \in Key \ Rows(pg)
      BY <1>5, <2>4
    <3>2. Precedes(nxt, at)
      BY <1>2, <1>4, <2>1
    <3>3. Precedes(nxt, PosOf(c, e, m))
      BY <1>7, <2>2, <3>1, <3>2, PositionOrder
    <3>4. Precedes(Pos(pg[j], j), PosOf(c, e, m))
      BY <1>4, <2>1, <2>2, <3>1, <3>3
    <3> QED BY <1>7, <2>2, <3>4
  <2> QED BY <2>3, <2>4
<1> HIDE DEF pg, pg2
<1> QED BY <1>6, <1>8, <1>9, <1>10 DEF PageInv

\* The cursor may move over a row that was applied.
LEMMA RowPassed ==
  ASSUME IInv, TypeOK', NEW s \in Spoke, NEW k \in Key,
         ApplyRow(s, k), ~job[s].failed,
         NEW p \in SafePhase, p = job[s].ph
  PROVE  Skipped(s, job[s].ph, job[s].nxt)' = {}
<1>1. PICK c \in Inst, e \in Dataset : c = Source(s, p) /\ e = DatasetOf(p)
  BY SourceAndTarget, DatasetOfPhase DEF SafePhase, Phase
<1>2. PICK pg \in [Key -> Nat], nxt \in Position : pg = job[s].page /\ nxt = job[s].nxt
  BY IInvType DEF TypeOK, Job
<1>3. PICK at \in Position : at = Pos(pg[k], k)
  BY KeysAreNat DEF Pos, Position
<1>4. /\ TypeOK /\ job[s].step = "apply" /\ k \in Rows(pg)
      /\ \A j \in Rows(pg) : ~Precedes(Pos(pg[j], j), at)
      /\ RowHandled(s, k, TRUE)
  BY <1>2, <1>3, IInvType, Zenon DEF ApplyRow, NextRow
<1>5. job'[s].nxt = at /\ job'[s].ph = p
  BY <1>2, <1>3, <1>4, RowHandledJob
<1>6. PageInv(s) /\ Skipped(s, p, nxt) = {}
  BY <1>2, <1>4 DEF IInv, JobInv
<1>7. TablesStep
  BY ApplyMoves
<1>8. \A m \in Key : FeedRow(s, p, m)
  BY <1>7, FeedMoves
<1>9. \A m \in Key : /\ PosOf(c, e, m) \in Position /\ PosOf(c, e, m)' \in Position
                     /\ stamp[c][e][m] \in Nat /\ pg[m] <= clock /\ clock \in Nat
                     /\ Pos(pg[m], m) \in Position
  BY <1>2, <1>4, KeysAreNat, StampType DEF TypeOK, PosOf, Pos, Position, IInv, BehindClock
<1>10. Delivered(s, p, k)' \/ stamp[c][e][k] # pg[k]
  <2>1. Upsert(Target(s, p), e, k, pg[k])
    BY <1>1, <1>2 DEF ApplyRow
  <2>2. Target(s, p) \in Inst /\ c # Target(s, p)
    BY <1>1, SourceAndTarget DEF SafePhase, Phase
  <2>3. CASE e = "torrents" /\ UpsertSyncedTorrent(Target(s, p), k, pg[k])
    BY <1>1, <1>4, <2>2, <2>3 DEF UpsertSyncedTorrent, Delivered, TypeOK
  <2>4. CASE e = "cards" /\ UpsertSyncedCard(Target(s, p), k, pg[k])
    <3>1. stamp' = [stamp EXCEPT ![Target(s, p)]["cards"][k] = Greatest(@, pg[k])]
      BY <2>4 DEF UpsertSyncedCard
    <3>2. /\ stamp'[Target(s, p)]["cards"][k] = Greatest(stamp[Target(s, p)]["cards"][k], pg[k])
          /\ stamp'[c]["cards"][k] = stamp[c]["cards"][k]
      BY <1>4, <2>2, <3>1 DEF TypeOK, Dataset
    <3>3. stamp[Target(s, p)]["cards"][k] \in Nat /\ pg[k] \in Nat
      BY <1>4, <2>2, StampType DEF Dataset
    <3> QED BY <1>1, <2>4, <3>2, <3>3 DEF Delivered, Greatest
  <2>5. e # "events"
    BY <1>1, DatasetOfPhase DEF SafePhase
  <2> QED BY <2>1, <2>3, <2>4, <2>5 DEF Upsert
<1>11. /\ at.at = pg[k] /\ pg[k] \in Nat
       /\ \A m \in Key : /\ PosOf(c, e, m).at = stamp[c][e][m]
                         /\ PosOf(c, e, m)'.at = stamp'[c][e][m]
  BY <1>2, <1>3 DEF PosOf, Pos
<1>12. ASSUME NEW m \in Key, Listed(c, e, m)', UpTo(PosOf(c, e, m)', at)
       PROVE  Delivered(s, p, m)'
  <2>1. CASE stamp'[c][e][m] = clock + 1
    <3>1. ~(PosOf(c, e, m)'.at <= at.at)
      BY <1>9, <1>11, <2>1
    <3> QED BY <1>9, <1>12, <3>1, UpToAt
  <2>2. job[s].ph \notin {1, 4} \ {p}
    OBVIOUS
  <2>3. CASE /\ stamp'[c][e][m] = stamp[c][e][m]
             /\ Listed(c, e, m)' <=> Listed(c, e, m)
             /\ Delivered(s, p, m) => Delivered(s, p, m)'
    <3>1. Listed(c, e, m) /\ UpTo(PosOf(c, e, m), at) /\ PosOf(c, e, m) \in Position
      BY <1>9, <1>12, <2>3 DEF PosOf
    <3>2. CASE UpTo(PosOf(c, e, m), nxt)
      BY <1>1, <1>6, <2>3, <3>1, <3>2 DEF Skipped
    <3>3. CASE ~UpTo(PosOf(c, e, m), nxt)
      <4>1. Precedes(nxt, PosOf(c, e, m))
        BY <3>1, <3>3, PositionOrder
      <4>2. m \in Rows(pg)
        <5>1. SUFFICES ASSUME m \in Key \ Rows(pg) PROVE FALSE
          OBVIOUS
        <5>2. Precedes(at, PosOf(c, e, m))
          BY <1>1, <1>2, <1>3, <1>4, <1>6, <3>1, <4>1, <5>1 DEF PageInv
        <5> QED BY <3>1, <5>2, PositionOrder
      <4>3. stamp[c][e][m] = pg[m] \/ stamp[c][e][m] > pg[k]
        BY <1>1, <1>2, <1>4, <1>6, <4>2 DEF PageInv
      <4>4. CASE stamp[c][e][m] > pg[k]
        <5>1. ~(PosOf(c, e, m).at <= at.at)
          BY <1>9, <1>11, <4>4
        <5> QED BY <1>9, <3>1, <5>1, UpToAt
      <4>5. CASE stamp[c][e][m] = pg[m]
        <5>1. PosOf(c, e, m) = Pos(pg[m], m)
          BY <4>5 DEF PosOf
        <5>2. PosOf(c, e, m) = at
          BY <1>4, <3>1, <4>2, <5>1 DEF UpTo
        <5>3. m = k
          BY <1>3, <5>1, <5>2 DEF Pos
        <5> QED BY <1>10, <4>5, <5>3
      <4> QED BY <4>3, <4>4, <4>5
    <3> QED BY <3>2, <3>3
  <2> QED BY <1>1, <1>8, <2>1, <2>2, <2>3 DEF FeedRow
<1> QED BY <1>1, <1>5, <1>12 DEF Skipped

\* Handling one row of a page, applied or failed, keeps the spoke's invariant.
LEMMA RowInv ==
  ASSUME IInv, TypeOK', TablesStep, NEW s \in Spoke, NEW k \in Key, NEW ok \in BOOLEAN,
         NextRow(s, k), RowHandled(s, k, ok), UNCHANGED cursor,
         IF ok THEN ApplyRow(s, k) ELSE UNCHANGED tables
  PROVE  SpokeInv(s)'
<1>1. /\ TypeOK /\ job[s].step = "apply" /\ k \in Rows(job[s].page) /\ job[s].ph \in Phase
      /\ clock \in Nat /\ clock' \in Nat /\ clock <= clock' /\ job[s].page \in [Key -> Nat]
  BY IInvType, StampType, StampsGrow DEF NextRow, TypeOK, Job
<1>2. PICK p \in Phase : p = job[s].ph
  BY <1>1
<1>3. /\ job'[s].ph = p /\ job'[s].step = "apply"
      /\ job'[s].page = [job[s].page EXCEPT ![k] = 0]
      /\ job'[s].nxt = IF ok /\ ~job[s].failed THEN Pos(job[s].page[k], k) ELSE job[s].nxt
  BY <1>1, <1>2, RowHandledJob
<1>4. Rows(job'[s].page) = Rows(job[s].page) \ {k} /\ \A j \in Rows(job'[s].page) : job'[s].page[j] = job[s].page[j]
  BY <1>1, <1>3 DEF Rows
<1>5. PICK c \in Inst, e \in Dataset : c = Source(s, p) /\ e = DatasetOf(p)
  BY SourceAndTarget, DatasetOfPhase
\* The source's own rows do not change: it is not the target.
<1>6. \A m \in Key : stamp'[c][e][m] = stamp[c][e][m] /\ linked'[c][m] = linked[c][m]
  <2>1. CASE ok
    <3>1. Upsert(Target(s, p), e, k, job[s].page[k])
      BY <1>2, <1>5, <2>1 DEF ApplyRow
    <3>2. Target(s, p) \in Inst /\ c # Target(s, p)
      BY <1>5, SourceAndTarget
    <3>3. CASE UpsertSyncedTorrent(Target(s, p), k, job[s].page[k])
      BY <1>1, <1>5, <3>2, <3>3 DEF UpsertSyncedTorrent, TypeOK
    <3>4. CASE UpsertSyncedCard(Target(s, p), k, job[s].page[k])
      BY <1>1, <1>5, <3>2, <3>4 DEF UpsertSyncedCard, TypeOK
    <3>5. CASE UpsertSyncedPlayEvent(Target(s, p), k, job[s].page[k])
      BY <1>1, <1>5, <3>2, <3>5 DEF UpsertSyncedPlayEvent, TypeOK
    <3> QED BY <3>1, <3>3, <3>4, <3>5 DEF Upsert
  <2>2. CASE ~ok
    BY <2>2 DEF tables
  <2> QED BY <2>1, <2>2
<1>7. ASSUME p \in SafePhase PROVE PageInv(s)'
  BY <1>2, <1>5, <1>6, <1>7, PageGoesOn
<1>8. ASSUME p \in SafePhase PROVE Skipped(s, job[s].ph, job[s].nxt)' = {}
  <2>1. CASE ok /\ ~job[s].failed
    BY <1>2, <1>8, <2>1, RowPassed
  <2>2. CASE ~(ok /\ ~job[s].failed)
    BY <1>2, <1>3, <1>8, <2>2, NextPositionStable
  <2> QED BY <2>1, <2>2
<1>9. ASSUME p \in SafePhase PROVE cursor'[s][job'[s].ph].at <= job'[s].nxt.at
  <2>1. /\ cursor'[s][p].at = cursor[s][p].at /\ cursor[s][p].at <= job[s].nxt.at
        /\ cursor[s][p].at \in Nat /\ job[s].nxt \in Position
    BY <1>1, <1>2, <1>9 DEF IInv, JobInv, TypeOK, Job, Position
  <2>2. CASE ok /\ ~job[s].failed
    <3>1. Precedes(job[s].nxt, Pos(job[s].page[k], k))
      BY <1>1, <1>2, <1>9, <2>2 DEF IInv, JobInv, PageInv
    <3>2. Pos(job[s].page[k], k) \in Position
      BY <1>1, KeysAreNat DEF Pos, Position
    <3>3. job[s].nxt.at <= Pos(job[s].page[k], k).at
      BY <2>1, <3>1, <3>2, PositionOrder
    <3> QED BY <1>3, <2>1, <2>2, <3>2, <3>3 DEF Position
  <2>3. CASE ~(ok /\ ~job[s].failed)
    BY <1>3, <2>1, <2>3
  <2> QED BY <2>2, <2>3
<1>10. ASSUME p = 1, NEW m \in Rows(job'[s].page) PROVE job'[s].page[m] <= stamp'[Hub]["cards"][m]
  <2>1. job'[s].page[m] <= stamp[Hub]["cards"][m] /\ m \in Key
    BY <1>2, <1>4, <1>10 DEF IInv, JobInv, Rows
  <2>2. c = Hub /\ e = "cards"
    BY <1>5, <1>10, DatasetOfPhase DEF Source, IsPull
  <2> QED BY <1>6, <2>1, <2>2
<1>11. JobInv(s)'
  BY <1>3, <1>7, <1>8, <1>9, <1>10 DEF JobInv
<1>12. \A q \in SafePhase : NothingSkipped(s, q)'
  BY <1>1, CursorStable DEF Saving, IInv
<1>13. \A q \in Phase : cursor'[s][q].at <= clock'
  BY <1>1 DEF IInv, BehindClock, TypeOK, Position
<1>14. /\ job'[s].nxt.at <= clock'
       /\ \A m \in Key : job'[s].page[m] <= clock'
  <2>1. job[s].nxt.at <= clock /\ job[s].nxt.at \in Nat /\ \A m \in Key : job[s].page[m] <= clock
    BY <1>1 DEF IInv, BehindClock, TypeOK, Job, Position
  <2>2. Pos(job[s].page[k], k).at <= clock
    BY <2>1 DEF Pos
  <2>3. job'[s].nxt.at <= clock'
    BY <1>1, <1>3, <2>1, <2>2 DEF Pos
  <2>4. \A m \in Key : job'[s].page[m] <= clock'
    BY <1>1, <1>3, <2>1
  <2> QED BY <2>3, <2>4
<1> QED BY <1>11, <1>12, <1>13, <1>14 DEF SpokeInv

\* Saving the stamp half of the cursor, or losing that save, keeps the spoke's invariant.
LEMMA SaveSinceInv ==
  ASSUME IInv, TypeOK', NEW s \in Spoke, SaveSince(s) \/ LoseSince(s)
  PROVE  SpokeInv(s)'
<1>1. /\ TypeOK /\ job[s].step = "apply" /\ job[s].ph \in Phase /\ UNCHANGED tables
      /\ job[s].page = NoPage /\ NextPhase(job[s].ph) \in {0} \cup Phase /\ clock \in Nat
  BY IInvType, NextPhaseLater, StampType DEF SaveSince, LoseSince, TypeOK, Job
<1>2. PICK p \in Phase : p = job[s].ph
  BY <1>1
<1>3. CASE SaveSince(s) /\ job[s].nxt = job[s].cur
  <2>1. UNCHANGED cursor /\ job'[s] = Enter(s, NextPhase(p))
    BY <1>1, <1>2, <1>3 DEF SaveSince, TypeOK
  <2> QED BY <1>1, <1>2, <2>1, EnterSpokeInv
<1>4. CASE ~(SaveSince(s) /\ job[s].nxt = job[s].cur)
  <2>1. /\ job'[s] = [job[s] EXCEPT !.step = "tie"]
        /\ \/ cursor' = [cursor EXCEPT ![s][p].at = job[s].nxt.at]
           \/ cursor' = cursor
    BY <1>1, <1>2, <1>4 DEF SaveSince, LoseSince, TypeOK
  <2>2. /\ job'[s].ph = p /\ job'[s].step = "tie" /\ job'[s].page = NoPage
        /\ job'[s].nxt = job[s].nxt
    BY <1>1, <1>2, <2>1 DEF TypeOK, Job
  <2>3. /\ \A q \in Phase \ {p} : cursor'[s][q] = cursor[s][q]
        /\ cursor'[s][p].at \in {cursor[s][p].at, job[s].nxt.at}
    BY <1>1, <2>1 DEF TypeOK, Position
  <2>4. \A q \in SafePhase : NothingSkipped(s, q)'
    <3>1. NothingSkipped(s, p)'
      BY <2>2 DEF NothingSkipped, Saving
    <3>2. ASSUME NEW q \in SafePhase \ {p} PROVE NothingSkipped(s, q)'
      BY <1>1, <2>3, TablesStayed, CursorStable DEF Saving, IInv, SafePhase, Phase
    <3> QED BY <3>1, <3>2
  <2>5. ASSUME p \in SafePhase PROVE Skipped(s, job[s].ph, job[s].nxt)' = {}
    BY <1>1, <1>2, <2>2, <2>5, TablesStayed, NextPositionStable
  <2>6. ASSUME p \in SafePhase PROVE cursor'[s][job'[s].ph].at <= job'[s].nxt.at
    <3>1. cursor[s][p].at <= job[s].nxt.at /\ job[s].nxt.at \in Nat
      BY <1>1, <1>2, <2>6 DEF IInv, JobInv, TypeOK, Job, Position
    <3> QED BY <2>2, <2>3, <3>1
  <2>7. Rows(NoPage) = {} /\ \A k \in Key : NoPage[k] = 0
    BY DEF Rows, NoPage
  <2>8. JobInv(s)'
    BY <2>2, <2>5, <2>6, <2>7 DEF JobInv
  <2>9. clock' = clock /\ job[s].nxt.at <= clock /\ \A q \in Phase : cursor[s][q].at <= clock
    BY <1>1 DEF IInv, BehindClock, tables
  <2> QED BY <1>1, <2>2, <2>3, <2>4, <2>7, <2>8, <2>9 DEF SpokeInv
<1> QED BY <1>3, <1>4

\* A stored position that is not beyond the one reached passes over nothing.
LEMMA SavedBehind ==
  ASSUME IInv, UNCHANGED tables, NEW s \in Spoke, NEW p \in SafePhase, p = job[s].ph,
         NEW nxt \in Position, nxt = job[s].nxt,
         NEW new \in Position, new.at = cursor[s][p].at, new.tie = nxt.tie,
         cursor'[s][p] = new
  PROVE  NothingSkipped(s, p)'
<1>1. Skipped(s, p, nxt) = {} /\ new.at <= nxt.at
  BY DEF IInv, JobInv
<1>2. UpTo(new, nxt)
  BY <1>1 DEF Position, UpTo, Precedes
<1>3. Skipped(s, p, new) = {}
  <2>1. PICK c \in Inst, e \in Dataset : c = Source(s, p) /\ e = DatasetOf(p)
    BY SourceAndTarget, DatasetOfPhase DEF SafePhase, Phase
  <2>2. \A k \in Key : PosOf(c, e, k) \in Position
    BY <2>1, IInvType, StampType, KeysAreNat DEF PosOf, Pos, Position
  <2>3. \A k \in Key : UpTo(PosOf(c, e, k), new) => UpTo(PosOf(c, e, k), nxt)
    BY <1>2, <2>2, PositionOrder
  <2> QED BY <1>1, <2>1, <2>3 DEF Skipped
<1>4. Skipped(s, p, new)' = {}
  BY <1>3, SameTables DEF SafePhase, Phase
<1> QED BY <1>4 DEF NothingSkipped, Skipped

\* The pair of settings rows is whole again: it is at most the position the
\* transfer has reached, also when the write of its first half was lost.
LEMMA SaveTieInv ==
  ASSUME IInv, TypeOK', NEW s \in Spoke, SaveTie(s)
  PROVE  SpokeInv(s)'
<1>1. /\ TypeOK /\ job[s].step = "tie" /\ job[s].ph \in Phase /\ UNCHANGED tables
      /\ clock \in Nat /\ clock' = clock /\ job[s] \in Job
      /\ Proceed(s)
  BY IInvType, StampType DEF SaveTie, TypeOK, Job, tables
<1>2. PICK p \in Phase : p = job[s].ph
  BY <1>1
<1>3. PICK nxt \in Position : nxt = job[s].nxt
  BY <1>1 DEF Job
<1>4. PICK new \in Position : new = [cursor[s][p] EXCEPT !.tie = nxt.tie]
  BY <1>1, MixedPosition DEF TypeOK
<1>5. /\ cursor'[s][p] = new
      /\ \A q \in Phase \ {p} : cursor'[s][q] = cursor[s][q]
      /\ new.at = cursor[s][p].at /\ new.tie = nxt.tie
  <2>1. cursor' = [cursor EXCEPT ![s][p] = [@ EXCEPT !.tie = nxt.tie]]
    BY <1>2, <1>3 DEF SaveTie
  <2> QED BY <1>1, <1>4, <2>1 DEF TypeOK, Position
<1>6. \A q \in Phase : cursor'[s][q].at <= clock
  BY <1>5 DEF IInv, BehindClock
<1>7. NextPhase(p) \in {0} \cup Phase /\ NextPhase(p) # p /\ p > 0
  BY NextPhaseLater DEF Phase
<1>8. CASE job[s].more /\ ~job[s].failed
  <2>1. job'[s] = [job[s] EXCEPT !.step = "ask", !.cur = nxt]
    BY <1>1, <1>3, <1>8 DEF Proceed, TypeOK
  <2>2. /\ job'[s].ph = p /\ job'[s].step = "ask" /\ job'[s].cur = nxt /\ job'[s].nxt = nxt
        /\ job'[s].page = job[s].page
    BY <1>1, <1>2, <1>3, <2>1 DEF Job
  <2>3. ASSUME p \in SafePhase PROVE Skipped(s, job[s].ph, job[s].nxt)' = {}
    BY <1>1, <1>2, <1>3, <2>2, <2>3, TablesStayed, NextPositionStable
  <2>4. ASSUME p \in SafePhase PROVE cursor'[s][job'[s].ph].at <= job'[s].nxt.at
    BY <1>2, <1>3, <1>5, <2>2, <2>4 DEF IInv, JobInv
  <2>5. ASSUME p = 1, NEW k \in Rows(job'[s].page)
        PROVE  job'[s].page[k] <= stamp'[Hub]["cards"][k]
    BY <1>1, <1>2, <2>2, <2>5 DEF IInv, JobInv, tables
  <2>6. JobInv(s)'
    BY <2>2, <2>3, <2>4, <2>5 DEF JobInv
  <2>7. \A q \in SafePhase : NothingSkipped(s, q)'
    <3>1. ASSUME p \in SafePhase PROVE NothingSkipped(s, p)'
      <4>1. /\ UNCHANGED tables /\ new.at = cursor[s][p].at /\ new.tie = nxt.tie
            /\ cursor'[s][p] = new
        BY <1>1, <1>5
      <4> QED BY <1>2, <1>3, <3>1, <4>1, SavedBehind
    <3>2. ASSUME NEW q \in SafePhase \ {p} PROVE NothingSkipped(s, q)'
      BY <1>1, <1>2, <1>5, TablesStayed, CursorStable DEF Saving, IInv, SafePhase, Phase
    <3> QED BY <3>1, <3>2
  <2> QED BY <1>1, <1>3, <1>6, <2>2, <2>6, <2>7 DEF SpokeInv, IInv, BehindClock
<1>9. CASE ~(job[s].more /\ ~job[s].failed)
  <2>1. job'[s] = Enter(s, NextPhase(p))
    BY <1>1, <1>2, <1>9 DEF Proceed, TypeOK
  <2>2. /\ JobInv(s)'
        /\ job'[s].nxt.at <= clock'
        /\ \A k \in Key : job'[s].page[k] <= clock'
    <3>1. ~Saving(s, NextPhase(p))
      BY <1>2, <1>7 DEF Saving
    <3>2. NextPhase(p) # 0 => cursor'[s][NextPhase(p)] = cursor[s][NextPhase(p)]
      BY <1>5, <1>7
    <3> QED BY <1>1, <1>7, <2>1, <3>1, <3>2, EnterInv
  <2>3. \A q \in SafePhase : NothingSkipped(s, q)'
    <3>1. ASSUME p \in SafePhase PROVE NothingSkipped(s, p)'
      <4>1. /\ UNCHANGED tables /\ new.at = cursor[s][p].at /\ new.tie = nxt.tie
            /\ cursor'[s][p] = new
        BY <1>1, <1>5
      <4> QED BY <1>2, <1>3, <3>1, <4>1, SavedBehind
    <3>2. ASSUME NEW q \in SafePhase \ {p} PROVE NothingSkipped(s, q)'
      BY <1>1, <1>2, <1>5, TablesStayed, CursorStable DEF Saving, IInv, SafePhase, Phase
    <3> QED BY <3>1, <3>2
  <2> QED BY <1>1, <1>6, <2>2, <2>3 DEF SpokeInv
<1> QED BY <1>8, <1>9

-----------------------------------------------------------------------------
(***************************************************************************)
(* The invariant and what follows from it                                  *)
(***************************************************************************)
\* One spoke's step changes no other spoke's place or cursor.
LEMMA OneSpokeMoves ==
  ASSUME TypeOK, NEW s \in Spoke, Progress(s) \/ Failure(s), NEW r \in Spoke \ {s}
  PROVE  job'[r] = job[r] /\ cursor'[r] = cursor[r]
<1>1. \E j : job' = [job EXCEPT ![s] = j]
  BY DEF Progress, Failure, StartTick, AskPage, ApplyRow, SaveSince, SaveTie, RowFails, CallFails,
         LoseSince, LoseTie, Crash, RowHandled, Proceed
<1>2. \E c : cursor' = cursor \/ cursor' = [cursor EXCEPT ![s] = c]
  BY DEF Progress, Failure, StartTick, AskPage, ApplyRow, SaveSince, SaveTie, RowFails, CallFails,
         LoseSince, LoseTie, Crash
<1> QED BY <1>1, <1>2 DEF TypeOK

\* Every step of a spoke keeps its own invariant.
LEMMA OwnStep ==
  ASSUME IInv, TypeOK', Hazards = {}, TablesStep, NEW s \in Spoke, Progress(s) \/ Failure(s)
  PROVE  SpokeInv(s)'
<1>1. /\ TypeOK /\ NextPhase(job[s].ph) \in {0} \cup Phase /\ NextPhase(0) \in {0} \cup Phase
      /\ (job[s].ph = 0) = (job[s].step = "idle")
  BY IInvType, NextPhaseLater DEF TypeOK, Job
<1>2. CASE StartTick(s)
  <2>1. /\ job'[s] = Enter(s, NextPhase(0)) /\ job[s].step # "tie"
        /\ UNCHANGED <<tables, cursor>>
    BY <1>1, <1>2 DEF StartTick, TypeOK
  <2> QED BY <1>1, <2>1, EnterSpokeInv
<1>3. CASE AskPage(s)
  BY <1>3, AskInv
<1>4. ASSUME NEW k \in Key, ApplyRow(s, k) PROVE SpokeInv(s)'
  <2>1. NextRow(s, k) /\ RowHandled(s, k, TRUE)
    BY <1>4, Zenon DEF ApplyRow
  <2>2. UNCHANGED cursor
    BY <1>4 DEF ApplyRow
  <2> QED BY <1>4, <2>1, <2>2, RowInv
<1>5. ASSUME NEW k \in Key, RowFails(s, k) PROVE SpokeInv(s)'
  <2>1. NextRow(s, k) /\ RowHandled(s, k, FALSE)
    BY <1>5, Zenon DEF RowFails
  <2>2. UNCHANGED cursor /\ UNCHANGED tables
    BY <1>5 DEF RowFails
  <2> QED BY <2>1, <2>2, RowInv
<1>6. CASE SaveSince(s) \/ LoseSince(s)
  BY <1>6, SaveSinceInv
<1>7. CASE SaveTie(s)
  BY <1>7, SaveTieInv
<1>8. CASE CallFails(s)
  <2>1. /\ job'[s] = Enter(s, NextPhase(job[s].ph)) /\ job[s].step # "tie"
        /\ UNCHANGED <<tables, cursor>>
    BY <1>1, <1>8 DEF CallFails, TypeOK
  <2> QED BY <1>1, <2>1, EnterSpokeInv
<1>9. CASE Crash(s)
  <2>1. /\ job'[s] = Enter(s, 0) /\ job[s].step # "tie"
        /\ UNCHANGED <<tables, cursor>>
    BY <1>1, <1>9 DEF Crash, Enter, TypeOK
  <2> QED BY <2>1, EnterSpokeInv
<1>10. CASE LoseTie(s)
  BY <1>10 DEF LoseTie
<1> QED BY <1>2, <1>3, <1>4, <1>5, <1>6, <1>7, <1>8, <1>9, <1>10 DEF Progress, Failure

\* Every step keeps every spoke's invariant: its own by OwnStep, the others' by OthersMove.
LEMMA SpokesKept ==
  ASSUME IInv, TypeOK', Hazards = {}, TablesStep, [Next]_vars, NEW s \in Spoke
  PROVE  SpokeInv(s)'
<1>1. CASE job'[s] = job[s] /\ cursor'[s] = cursor[s]
  <2>1. JobInv(s)' /\ \A p \in SafePhase : NothingSkipped(s, p)'
    BY <1>1, OthersMove
  <2>2. /\ clock \in Nat /\ clock' \in Nat /\ clock <= clock'
        /\ \A p \in Phase : cursor[s][p].at \in Nat /\ cursor[s][p].at <= clock
        /\ job[s].nxt.at \in Nat /\ job[s].nxt.at <= clock
        /\ \A k \in Key : job[s].page[k] \in Nat /\ job[s].page[k] <= clock
    BY IInvType, StampsGrow DEF IInv, BehindClock, TypeOK, Job, Position
  <2>3. /\ \A p \in Phase : cursor'[s][p].at <= clock'
        /\ job'[s].nxt.at <= clock'
        /\ \A k \in Key : job'[s].page[k] <= clock'
    BY <1>1, <2>2
  <2> QED BY <2>1, <2>3 DEF SpokeInv
<1>2. CASE Progress(s) \/ Failure(s)
  BY <1>2, OwnStep
<1>3. ASSUME NEW r \in Spoke \ {s}, Progress(r) \/ Failure(r)
      PROVE  job'[s] = job[s] /\ cursor'[s] = cursor[s]
  BY <1>3, IInvType, OneSpokeMoves
<1>4. ASSUME Environment PROVE job'[s] = job[s] /\ cursor'[s] = cursor[s]
  BY <1>4 DEF Environment, LocalWrite, BeginWrite, CommitWrite, DeleteCard
<1>5. ASSUME UNCHANGED vars PROVE job'[s] = job[s] /\ cursor'[s] = cursor[s]
  BY <1>5 DEF vars
<1> QED BY <1>1, <1>2, <1>3, <1>4, <1>5 DEF Next

\* The inductive invariant holds initially.
LEMMA InitIInv == Init => IInv
<1> SUFFICES ASSUME Init PROVE IInv
  OBVIOUS
<1>1. TypeOK
  BY InitType
<1>2. /\ clock = 0 /\ open = {} /\ job = [s \in Spoke |-> Idle]
      /\ cursor = [s \in Spoke |-> [p \in Phase |-> Origin]]
      /\ \A i \in Inst, d \in Dataset, k \in Key : stamp[i][d][k] = 0
      /\ \A i \in Inst, k \in Key : linked[i][k] = FALSE
  BY DEF Init, NoPage
<1>3. BehindClock
  BY <1>2 DEF BehindClock, Idle, Origin, Pos, NoPage
<1>4. LinkedIffStamped
  <2>1. ASSUME NEW i \in Inst, NEW k \in Key PROVE linked[i][k] = (stamp[i]["torrents"][k] > 0)
    <3>1. stamp[i]["torrents"][k] = 0
      BY <1>2 DEF Dataset
    <3>2. (stamp[i]["torrents"][k] > 0) = FALSE
      BY <3>1
    <3> QED BY <1>2, <3>2, Zenon
  <2> QED BY <2>1 DEF LinkedIffStamped
<1>5. ASSUME NEW s \in Spoke, NEW p \in SafePhase PROVE NothingSkipped(s, p)
  <2>1. Source(s, p) \in Inst /\ DatasetOf(p) \in Dataset
    BY SourceAndTarget, DatasetOfPhase DEF SafePhase, Phase
  <2>2. \A k \in Key : ~Listed(Source(s, p), DatasetOf(p), k)
    BY <1>2, <2>1 DEF Listed
  <2> QED BY <2>2 DEF NothingSkipped, Skipped
<1>6. \A s \in Spoke : JobInv(s)
  BY <1>2 DEF JobInv, Idle, SafePhase
<1> QED BY <1>1, <1>2, <1>3, <1>4, <1>5, <1>6 DEF IInv

\* Without hazards every step keeps the inductive invariant.
LEMMA NextIInv == Hazards = {} /\ IInv /\ [Next]_vars => IInv'
<1> SUFFICES ASSUME Hazards = {}, IInv, [Next]_vars PROVE IInv'
  OBVIOUS
<1>1. TypeOK /\ TypeOK' /\ TablesStep
  BY IInvType, NextType, TablesMove
<1>2. \A s \in Spoke : SpokeInv(s)'
  BY <1>1, SpokesKept
<1>3. open' = {}
  BY <1>1 DEF TablesStep
<1>4. BehindClock'
  BY <1>1, <1>2, StampsGrow DEF BehindClock, SpokeInv
<1>5. LinkedIffStamped'
  <2>1. ASSUME NEW i \in Inst, NEW k \in Key
        PROVE  linked'[i][k] = (stamp'[i]["torrents"][k] > 0)
    <3>1. linked[i][k] = (stamp[i]["torrents"][k] > 0) /\ TorrentRow(i, k) /\ clock \in Nat
      BY <1>1, StampType DEF IInv, LinkedIffStamped, TablesStep
    <3>2. linked'[i][k] \in BOOLEAN
      BY <1>1 DEF TypeOK
    <3>3. CASE stamp'[i]["torrents"][k] = stamp[i]["torrents"][k] /\ linked'[i][k] = linked[i][k]
      BY <3>1, <3>3
    <3>4. CASE stamp'[i]["torrents"][k] = clock + 1 /\ linked'[i][k]
      <4>1. stamp'[i]["torrents"][k] > 0
        BY <3>1, <3>4
      <4> QED BY <3>2, <3>4, <4>1
    <3> QED BY <3>1, <3>3, <3>4 DEF TorrentRow
  <2> QED BY <2>1 DEF LinkedIffStamped
<1> QED BY <1>1, <1>2, <1>3, <1>4, <1>5 DEF IInv, SpokeInv

\* Without hazards the strengthened invariant holds in every reachable state.
THEOREM SyncInvariant ==
  ASSUME Hazards = {}
  PROVE  Spec => []IInv
<1>1. IInv /\ [Next]_vars => IInv'
  BY NextIInv
<1> QED BY InitIInv, <1>1, PTL DEF Spec

\* No torrent is passed over by a pull or by a push, for any number of spokes,
\* rows and failures, as long as nobody deletes cards, commits late or tears the
\* pair of settings rows apart.
THEOREM NoTorrentSkipped ==
  ASSUME Hazards = {}
  PROVE  Spec => []TorrentsNothingSkipped
<1>1. IInv => TorrentsNothingSkipped
  BY DEF IInv, TorrentsNothingSkipped, SafePhase
<1> QED BY <1>1, SyncInvariant, PTL

\* No card is passed over by a push: the hub gets every card of every spoke.
THEOREM NoPushedCardSkipped ==
  ASSUME Hazards = {}
  PROVE  Spec => []PushedCardsNothingSkipped
<1>1. IInv => PushedCardsNothingSkipped
  BY DEF IInv, PushedCardsNothingSkipped, SafePhase
<1> QED BY <1>1, SyncInvariant, PTL

\* And a hub's only spoke gets every card of the hub, though its own pushes put cards with
\* older stamps into the feed it pulls from: those are the cards it has.
THEOREM NoPulledCardSkipped ==
  ASSUME Hazards = {}, SoleSpoke
  PROVE  Spec => []PulledCardsNothingSkipped
<1>1. IInv => PulledCardsNothingSkipped
  BY DEF IInv, PulledCardsNothingSkipped, SafePhase
<1> QED BY <1>1, SyncInvariant, PTL

\* A torrent that gets its card is news to every cursor that reads its feed.
THEOREM MatchesAreNews ==
  ASSUME Hazards = {}
  PROVE  Spec => MatchIsNews
<1>1. ASSUME IInv, [Next]_vars
      PROVE  [\A s \in Spoke, p \in {2, 5}, k \in Key :
                ~linked[Source(s, p)][k] /\ linked'[Source(s, p)][k]
                  => Precedes(cursor[s][p], Pos(stamp'[Source(s, p)]["torrents"][k], k))]_vars
  <2>1. SUFFICES ASSUME NEW s \in Spoke, NEW p \in {2, 5}, NEW k \in Key,
                        ~linked[Source(s, p)][k], linked'[Source(s, p)][k]
                 PROVE  Precedes(cursor[s][p], Pos(stamp'[Source(s, p)]["torrents"][k], k))
    OBVIOUS
  <2>2. Source(s, p) \in Inst /\ p \in Phase
    BY SourceAndTarget DEF Phase
  <2>3. TorrentRow(Source(s, p), k)
    BY <1>1, <2>2, TablesMove DEF TablesStep
  <2>4. stamp'[Source(s, p)]["torrents"][k] = clock + 1
    BY <2>1, <2>3 DEF TorrentRow
  <2>5. clock \in Nat /\ cursor[s][p].at \in Nat /\ cursor[s][p].at <= clock
    BY <1>1, <2>2 DEF IInv, BehindClock, TypeOK, Position
  <2> QED BY <2>4, <2>5 DEF Precedes, Pos
<1> QED BY <1>1, SyncInvariant, PTL DEF Spec, MatchIsNews

\* A step of a tick gives a card no stamp but one the card had somewhere or one a page carries.
LEMMA TickMintsNothing ==
  ASSUME TypeOK, NEW r \in Spoke, Progress(r) \/ Failure(r), NEW i \in Inst, NEW k \in Key
  PROVE  \/ stamp'[i]["cards"][k] <= stamp[i]["cards"][k]
         \/ \E s \in Spoke : stamp'[i]["cards"][k] <= job[s].page[k]
<1>1. stamp[i]["cards"][k] \in Nat
  BY DEF TypeOK, Dataset
<1>2. CASE UNCHANGED stamp
  BY <1>1, <1>2
<1>3. ASSUME NEW m \in Key, ApplyRow(r, m)
      PROVE  \/ stamp'[i]["cards"][k] <= stamp[i]["cards"][k]
             \/ stamp'[i]["cards"][k] <= job[r].page[k]
  <2> DEFINE t == Target(r, job[r].ph)
             at == job[r].page[m]
  <2>1. t \in Inst /\ at \in Nat /\ Upsert(t, DatasetOf(job[r].ph), m, at)
    BY <1>3, SourceAndTarget DEF ApplyRow, NextRow, TypeOK, Job
  <2> HIDE DEF t
  <2>2. CASE UpsertSyncedCard(t, m, at)
    <3>1. stamp' = [stamp EXCEPT ![t]["cards"][m] = Greatest(@, at)]
      BY <2>2 DEF UpsertSyncedCard
    <3> HIDE DEF at
    <3>2. stamp'[i]["cards"][k] = IF i = t /\ k = m THEN Greatest(stamp[i]["cards"][k], at)
                                  ELSE stamp[i]["cards"][k]
      BY <2>1, <3>1 DEF TypeOK, Dataset
    <3>3. stamp'[i]["cards"][k] <= stamp[i]["cards"][k] \/ (k = m /\ stamp'[i]["cards"][k] <= at)
      BY <1>1, <2>1, <3>2 DEF Greatest
    <3> QED BY <3>3 DEF at
  <2>3. CASE UpsertSyncedPlayEvent(t, m, at) \/ UpsertSyncedTorrent(t, m, at)
    <3>1. \E d \in {"events", "torrents"} : \E v : stamp' = stamp \/ stamp' = [stamp EXCEPT ![t][d][m] = v]
      BY <2>3 DEF UpsertSyncedPlayEvent, UpsertSyncedTorrent
    <3>2. stamp'[i]["cards"][k] = stamp[i]["cards"][k]
      BY <2>1, <3>1 DEF TypeOK, Dataset
    <3> QED BY <1>1, <3>2
  <2> QED BY <2>1, <2>2, <2>3 DEF Upsert
<1>4. (\E m \in Key : ApplyRow(r, m)) \/ UNCHANGED stamp
  BY DEF Progress, Failure, StartTick, AskPage, SaveSince, SaveTie, RowFails, CallFails, LoseSince,
         LoseTie, Crash, tables
<1> QED BY <1>2, <1>3, <1>4

\* Whatever fails, is torn apart, deleted or late: sync invents no card stamp.
THEOREM SyncNeverMintsCardStamp == Spec => SyncMintsNoCardStamp
<1>1. ASSUME TypeOK, [Next]_vars
      PROVE  [\A i \in Inst, k \in Key :
                \/ \E j \in Inst : stamp'[i]["cards"][k] <= stamp[j]["cards"][k]
                \/ \E s \in Spoke : stamp'[i]["cards"][k] <= job[s].page[k]
                \/ Environment]_vars
  BY <1>1, TickMintsNothing DEF Next
<1> QED BY <1>1, TypeCorrect, PTL DEF Spec, SyncMintsNoCardStamp
=============================================================================
