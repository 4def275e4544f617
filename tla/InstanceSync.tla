---------------------------- MODULE InstanceSync ----------------------------
(***************************************************************************)
(* Instance-to-instance sync: one hub and any number of spokes exchange    *)
(* three datasets, cards, torrents and play events.  A spoke's tick pulls  *)
(* the hub's feeds and pushes its own, page by page, each of the six       *)
(* transfers resuming from a cursor kept in two rows of app_settings.      *)
(*                                                                         *)
(* Abstractions.  A row is its sync stamp (updated_at or matched_at); a    *)
(* key stands for a card, its one torrent and its one event, so the        *)
(* torrent and the event of key k belong to card k.  All instances share   *)
(* one clock, which moves on with every writing statement: two statements  *)
(* never get the same stamp, the rows of one bulk statement all do.  A     *)
(* dataset outside Datasets has no rows, so the tick's calls for it return *)
(* at their first empty page and are not steps of the model.               *)
(***************************************************************************)
EXTENDS Naturals, FiniteSets

CONSTANTS
  Spoke,      \* the instances with a sync_peer_url
  Hub,        \* the instance they all point to
  Key,        \* the primary keys, as positive numbers in collation order
  Limit,      \* rows in a page (500 in the code)
  Datasets,   \* the datasets that have rows
  Writers,    \* Writers[d]: the instances whose own parser or players write d
  Hazards,    \* the operational hazards of this instance of the model
  MaxClock,   \* bound: no local statement starts after this many stamps
  MaxFaults   \* bound: how many calls, items or processes may fail

Dataset == {"cards", "torrents", "events"}
Inst    == Spoke \cup {Hub}

\* "tear":   a stop or an error may separate the two SetSetting calls of a cursor
\* "delete": an administrator deletes cards
\* "late":   a statement's now() may be long before its rows become visible
HazardKinds == {"tear", "delete", "late"}

ASSUME ConstantsAssumption ==
  /\ Hub \notin Spoke
  /\ Key \subseteq Nat \ {0} /\ IsFiniteSet(Key)
  /\ Limit \in Nat \ {0}
  /\ Datasets \subseteq Dataset
  /\ Writers \in [Dataset -> SUBSET Inst]
  /\ Hazards \subseteq HazardKinds
  /\ MaxClock \in Nat /\ MaxFaults \in Nat

VARIABLES
  clock,    \* the last stamp a statement got from now()
  stamp,    \* stamp[i][d][k]: the sync stamp of row k; 0 = no row, or never matched
  linked,   \* linked[i][k]: torrent k of instance i has a card_id
  open,     \* statements that took their stamp and are not visible yet
  cursor,   \* cursor[s][p]: the two settings rows of phase p, as one record
  job,      \* job[s]: where spoke s is in its tick
  faults    \* failures so far

vars == <<clock, stamp, linked, open, cursor, job, faults>>
tables == <<clock, stamp, linked, open>>

-----------------------------------------------------------------------------
(***************************************************************************)
(* Cursors, feeds and pages                                                *)
(***************************************************************************)
Pos(at, tie) == [at |-> at, tie |-> tie]
Origin == Pos(0, 0)
Position == [at : Nat, tie : Nat]

Precedes(a, b) == a.at < b.at \/ (a.at = b.at /\ a.tie < b.tie)
UpTo(a, b) == Precedes(a, b) \/ a = b

Listed(i, d, k) == stamp[i][d][k] > 0 /\ (d = "torrents" => linked[i][k])
PosOf(i, d, k) == Pos(stamp[i][d][k], k)
After(i, d, cur) == {k \in Key : Listed(i, d, k) /\ Precedes(cur, PosOf(i, d, k))}

NoPage == [k \in Key |-> 0]
Rows(page) == {k \in Key : page[k] > 0}

\* Mutant: a bare timestamp cursor, what the feed did before it had a tiebreak.
FirstRowsNoTie(i, d, cur) ==
  LET after == {k \in Key : Listed(i, d, k) /\ cur.at < stamp[i][d][k]}
  IN  {k \in after :
         Cardinality({j \in after : Precedes(PosOf(i, d, j), PosOf(i, d, k))}) < Limit}

\* The first Limit rows strictly after cur, in (stamp, key) order.
FirstRows(i, d, cur) ==
  {k \in After(i, d, cur) :
     Cardinality({j \in After(i, d, cur) :
                    Precedes(PosOf(i, d, j), PosOf(i, d, k))}) < Limit}

Page(i, d, cur) ==
  [k \in Key |-> IF k \in FirstRows(i, d, cur) THEN stamp[i][d][k] ELSE 0]

-----------------------------------------------------------------------------
(***************************************************************************)
(* The tick: six phases in a fixed order                                   *)
(***************************************************************************)
Phase == 1..6

DatasetOf(p) ==
  CASE p \in {1, 4} -> "cards" [] p \in {2, 5} -> "torrents" [] p \in {3, 6} -> "events"
IsPull(p) == p \in {1, 2, 3}
Source(s, p) == IF IsPull(p) THEN Hub ELSE s
Target(s, p) == IF IsPull(p) THEN s ELSE Hub

NextPhase(p) ==
  LET later == {q \in Phase : q > p /\ DatasetOf(q) \in Datasets}
  IN  IF later = {} THEN 0 ELSE CHOOSE q \in later : \A r \in later : q <= r

Idle == [ph |-> 0, step |-> "idle", cur |-> Origin, nxt |-> Origin,
         page |-> NoPage, more |-> FALSE, failed |-> FALSE]

\* A transfer begins by reading its persisted cursor.
Enter(s, p) ==
  IF p = 0 THEN Idle
  ELSE [Idle EXCEPT !.ph = p, !.step = "ask", !.cur = cursor[s][p], !.nxt = cursor[s][p]]

Job ==
  [ph : {0} \cup Phase, step : {"idle", "ask", "apply", "tie"},
   cur : Position, nxt : Position, page : [Key -> Nat], more : BOOLEAN, failed : BOOLEAN]

Statement == [i : Inst, d : Dataset, k : Key, at : Nat]

TypeOK ==
  /\ clock \in Nat
  /\ stamp \in [Inst -> [Dataset -> [Key -> Nat]]]
  /\ linked \in [Inst -> [Key -> BOOLEAN]]
  /\ open \subseteq Statement
  /\ cursor \in [Spoke -> [Phase -> Position]]
  /\ job \in [Spoke -> Job]
  /\ \A s \in Spoke : (job[s].ph = 0) = (job[s].step = "idle")
  /\ faults \in Nat

Init ==
  /\ clock = 0
  /\ stamp = [i \in Inst |-> [d \in Dataset |-> NoPage]]
  /\ linked = [i \in Inst |-> [k \in Key |-> FALSE]]
  /\ open = {}
  /\ cursor = [s \in Spoke |-> [p \in Phase |-> Origin]]
  /\ job = [s \in Spoke |-> Idle]
  /\ faults = 0

-----------------------------------------------------------------------------
(***************************************************************************)
(* Local statements: the parser, the TMDB refresh, players, administrators *)
(***************************************************************************)
\* A torrent is matched once; an event needs its card (INSERT ... WHERE EXISTS).
CanWrite(i, d, S) ==
  /\ d = "torrents" => \A k \in S : ~linked[i][k]
  /\ d = "events" => \A k \in S : stamp[i]["cards"][k] > 0

WriteRows(i, d, S, at) ==
  /\ stamp' = [stamp EXCEPT ![i][d] = [k \in Key |-> IF k \in S THEN at ELSE @[k]]]
  /\ linked' = IF d = "torrents"
               THEN [linked EXCEPT ![i] = [k \in Key |-> k \in S \/ @[k]]]
               ELSE linked

\* One statement that becomes visible at once: S has several rows for a bulk
\* statement (a migration's backfill), one row otherwise.
LocalWrite(i, d, S) ==
  /\ clock < MaxClock /\ d \in Datasets /\ i \in Writers[d]
  /\ CanWrite(i, d, S)
  /\ clock' = clock + 1
  /\ WriteRows(i, d, S, clock + 1)
  /\ UNCHANGED <<open, cursor, job, faults>>

\* The same statement in two steps: now() is read here ...
BeginWrite(i, d, k) ==
  /\ "late" \in Hazards
  /\ clock < MaxClock /\ d \in Datasets /\ i \in Writers[d]
  /\ clock' = clock + 1
  /\ open' = open \cup {[i |-> i, d |-> d, k |-> k, at |-> clock + 1]}
  /\ UNCHANGED <<stamp, linked, cursor, job, faults>>

\* ... and its row becomes visible here.
CommitWrite(w) ==
  /\ open' = open \ {w}
  /\ IF CanWrite(w.i, w.d, {w.k})
     THEN WriteRows(w.i, w.d, {w.k}, w.at)
     ELSE UNCHANGED <<stamp, linked>>
  /\ UNCHANGED <<clock, cursor, job, faults>>

\* The card goes, its events with it (ON DELETE CASCADE); its torrent stays,
\* unlinked, and keeps its matched_at.
DeleteCard(i, k) ==
  /\ "delete" \in Hazards
  /\ stamp[i]["cards"][k] > 0
  /\ stamp' = [stamp EXCEPT ![i]["cards"][k] = 0, ![i]["events"][k] = 0]
  /\ linked' = [linked EXCEPT ![i][k] = FALSE]
  /\ UNCHANGED <<clock, open, cursor, job, faults>>

-----------------------------------------------------------------------------
(***************************************************************************)
(* Applying one synced row                                                 *)
(***************************************************************************)
Greatest(a, b) == IF a > b THEN a ELSE b

\* Mutant: the row is stamped with the moment of its arrival.
UpsertSyncedCardNow(i, k, at) ==
  /\ clock' = clock + 1
  /\ stamp' = [stamp EXCEPT ![i]["cards"][k] = clock + 1]
  /\ UNCHANGED <<linked, open>>

\* updated_at is the greater of the local and the incoming one.
UpsertSyncedCard(i, k, at) ==
  /\ stamp' = [stamp EXCEPT ![i]["cards"][k] = Greatest(@, at)]
  /\ UNCHANGED <<clock, linked, open>>

\* Mutant: the card's existence is not looked at.
UpsertSyncedPlayEventUnchecked(i, k, at) ==
  /\ stamp' = [stamp EXCEPT ![i]["events"][k] = Greatest(@, at)]
  /\ UNCHANGED <<clock, linked, open>>

\* Nothing happens, and no error is returned, when the card is not there.
UpsertSyncedPlayEvent(i, k, at) ==
  /\ stamp' = IF stamp[i]["cards"][k] > 0
              THEN [stamp EXCEPT ![i]["events"][k] = Greatest(@, at)]
              ELSE stamp
  /\ UNCHANGED <<clock, linked, open>>

\* Mutant: a row that arrives keeps the sender's matched_at.
UpsertSyncedTorrentSenderStamp(i, k, at) ==
  /\ linked' = [linked EXCEPT ![i][k] = TRUE]
  /\ stamp' = [stamp EXCEPT ![i]["torrents"][k] = IF @ > 0 THEN @ ELSE at]
  /\ UNCHANGED <<clock, open>>

\* matched_at = COALESCE(matched_at, now()): the sender's stamp is not used.
UpsertSyncedTorrent(i, k, at) ==
  /\ linked' = [linked EXCEPT ![i][k] = TRUE]
  /\ IF stamp[i]["torrents"][k] > 0
     THEN UNCHANGED <<clock, stamp>>
     ELSE /\ clock' = clock + 1
          /\ stamp' = [stamp EXCEPT ![i]["torrents"][k] = clock + 1]
  /\ UNCHANGED open

Upsert(i, d, k, at) ==
  \/ d = "cards" /\ UpsertSyncedCard(i, k, at)
  \/ d = "events" /\ UpsertSyncedPlayEvent(i, k, at)
  \/ d = "torrents" /\ UpsertSyncedTorrent(i, k, at)

-----------------------------------------------------------------------------
(***************************************************************************)
(* The tick of spoke s                                                     *)
(***************************************************************************)
StartTick(s) ==
  /\ job[s].ph = 0
  /\ job' = [job EXCEPT ![s] = Enter(s, NextPhase(0))]
  /\ UNCHANGED <<tables, cursor, faults>>

\* One page is read: by the hub's GET handler, or locally before a push.  An
\* empty page ends the transfer.
AskPage(s) ==
  LET p    == job[s].ph
      page == Page(Source(s, p), DatasetOf(p), job[s].cur)
  IN  /\ job[s].step = "ask"
      /\ job' = [job EXCEPT ![s] =
           IF page = NoPage THEN Enter(s, NextPhase(p))
           ELSE [@ EXCEPT !.step = "apply", !.page = page, !.nxt = job[s].cur,
                          !.more = Cardinality(Rows(page)) = Limit, !.failed = FALSE]]
      /\ UNCHANGED <<tables, cursor, faults>>

NextRow(s, k) ==
  /\ job[s].step = "apply"
  /\ k \in Rows(job[s].page)
  /\ \A j \in Rows(job[s].page) :
       ~Precedes(Pos(job[s].page[j], j), Pos(job[s].page[k], k))

\* Mutant: the cursor moves to the page's end whatever failed.
RowHandledPastFailures(s, k, ok) ==
  job' = [job EXCEPT ![s].page[k] = 0, ![s].nxt = Pos(job[s].page[k], k)]

\* The cursor may move up to the last row before the first failure.
RowHandled(s, k, ok) ==
  job' = [job EXCEPT ![s].page[k] = 0,
                     ![s].failed = @ \/ ~ok,
                     ![s].nxt = IF ok /\ ~job[s].failed THEN Pos(job[s].page[k], k) ELSE @]

ApplyRow(s, k) ==
  /\ NextRow(s, k)
  /\ Upsert(Target(s, job[s].ph), DatasetOf(job[s].ph), k, job[s].page[k])
  /\ RowHandled(s, k, TRUE)
  /\ UNCHANGED <<cursor, faults>>

RowFails(s, k) ==
  /\ NextRow(s, k)
  /\ faults < MaxFaults
  /\ faults' = faults + 1
  /\ RowHandled(s, k, FALSE)
  /\ UNCHANGED <<tables, cursor>>

\* The whole page was handled: the timestamp half of the cursor is stored,
\* or nothing is if the cursor did not move.
SaveSince(s) ==
  LET p == job[s].ph
  IN  /\ job[s].step = "apply" /\ job[s].page = NoPage
      /\ IF job[s].nxt = job[s].cur
         THEN job' = [job EXCEPT ![s] = Enter(s, NextPhase(p))] /\ UNCHANGED cursor
         ELSE /\ job' = [job EXCEPT ![s].step = "tie"]
              /\ cursor' = [cursor EXCEPT ![s][p].at = job[s].nxt.at]
      /\ UNCHANGED <<tables, faults>>

\* Mutants: the loop asks for the same page again; the next transfer goes on
\* with the variables of this one.
ProceedSamePage(s) ==
  job' = [job EXCEPT ![s] =
    IF @.more /\ ~@.failed THEN [@ EXCEPT !.step = "ask"] ELSE Enter(s, NextPhase(@.ph))]

ProceedKeepsJob(s) ==
  job' = [job EXCEPT ![s] =
    IF @.more /\ ~@.failed THEN [@ EXCEPT !.step = "ask", !.cur = job[s].nxt]
    ELSE [@ EXCEPT !.ph = NextPhase(@)]]

\* With the second half stored the loop goes on in memory, or the transfer ends.
Proceed(s) ==
  job' = [job EXCEPT ![s] =
    IF @.more /\ ~@.failed THEN [@ EXCEPT !.step = "ask", !.cur = job[s].nxt]
    ELSE Enter(s, NextPhase(@.ph))]

\* Mutant: only the timestamp is stored.
SaveTieDropped(s) ==
  /\ job[s].step = "tie"
  /\ Proceed(s)
  /\ UNCHANGED <<tables, cursor, faults>>

SaveTie(s) ==
  /\ job[s].step = "tie"
  /\ cursor' = [cursor EXCEPT ![s][job[s].ph].tie = job[s].nxt.tie]
  /\ Proceed(s)
  /\ UNCHANGED <<tables, faults>>

-----------------------------------------------------------------------------
(***************************************************************************)
(* Failures                                                                *)
(***************************************************************************)
Fail == faults < MaxFaults /\ faults' = faults + 1

\* Mutant: any answer to a push counts as an acceptance of its whole page.
CallFailsAccepted(s) ==
  /\ job[s].step = "ask" \/ (job[s].step = "apply" /\ ~IsPull(job[s].ph))
  /\ Fail
  /\ job' = [job EXCEPT ![s] = Enter(s, NextPhase(job[s].ph))]
  /\ cursor' = IF job[s].step = "apply" /\ Rows(job[s].page) # {}
               THEN [cursor EXCEPT ![s][job[s].ph] =
                       CHOOSE z \in {Pos(job[s].page[k], k) : k \in Rows(job[s].page)} :
                         \A k \in Rows(job[s].page) : UpTo(Pos(job[s].page[k], k), z)]
               ELSE cursor
  /\ UNCHANGED tables

\* A network error, a status other than 200, a timeout.  A push may have been
\* applied by the hub in part or in full when its answer is lost.
CallFails(s) ==
  /\ job[s].step = "ask" \/ (job[s].step = "apply" /\ ~IsPull(job[s].ph))
  /\ Fail
  /\ job' = [job EXCEPT ![s] = Enter(s, NextPhase(job[s].ph))]
  /\ UNCHANGED <<tables, cursor>>

\* SetSetting ignores its errors: the loop goes on with what it has in memory.
LoseSince(s) ==
  /\ job[s].step = "apply" /\ job[s].page = NoPage /\ job[s].nxt # job[s].cur
  /\ Fail
  /\ job' = [job EXCEPT ![s].step = "tie"]
  /\ UNCHANGED <<tables, cursor>>

LoseTie(s) ==
  /\ "tear" \in Hazards
  /\ job[s].step = "tie"
  /\ Fail
  /\ Proceed(s)
  /\ UNCHANGED <<tables, cursor>>

\* The process stops; tables and cursors are in the database, the tick is not.
Crash(s) ==
  /\ job[s].ph # 0
  /\ job[s].step = "tie" => "tear" \in Hazards
  /\ Fail
  /\ job' = [job EXCEPT ![s] = Idle]
  /\ UNCHANGED <<tables, cursor>>

-----------------------------------------------------------------------------
Environment ==
  \/ \E i \in Inst, d \in Dataset : \E S \in SUBSET Key \ {{}} : LocalWrite(i, d, S)
  \/ \E i \in Inst, d \in Dataset, k \in Key : BeginWrite(i, d, k)
  \/ \E w \in open : CommitWrite(w)
  \/ \E i \in Inst, k \in Key : DeleteCard(i, k)

Progress(s) ==
  \/ StartTick(s)
  \/ AskPage(s)
  \/ \E k \in Key : ApplyRow(s, k)
  \/ SaveSince(s)
  \/ SaveTie(s)

Failure(s) ==
  \/ \E k \in Key : RowFails(s, k)
  \/ CallFails(s)
  \/ LoseSince(s)
  \/ LoseTie(s)
  \/ Crash(s)

Next == Environment \/ \E s \in Spoke : Progress(s) \/ Failure(s)

Spec == Init /\ [][Next]_vars

\* The sync loop is one goroutine on a timer and each of its calls ends, by
\* itself or by its timeout; nobody has to write anything, and nothing has to fail.
FairSpec == Spec /\ \A s \in Spoke : WF_vars(Progress(s))

-----------------------------------------------------------------------------
(***************************************************************************)
(* Safety                                                                  *)
(***************************************************************************)
\* What the target must hold once row k of the source was transferred.
Delivered(s, p, k) ==
  IF DatasetOf(p) = "torrents" THEN linked[Target(s, p)][k]
  ELSE stamp[Target(s, p)][DatasetOf(p)][k] >= stamp[Source(s, p)][DatasetOf(p)][k]

\* The rows at or below a position that the target does not have.
Skipped(s, p, pos) ==
  {k \in Key : /\ Listed(Source(s, p), DatasetOf(p), k)
               /\ UpTo(PosOf(Source(s, p), DatasetOf(p), k), pos)
               /\ ~Delivered(s, p, k)}

\* The two halves of the cursor of phase p are being stored one after the other.
Saving(s, p) == job[s].ph = p /\ job[s].step = "tie"

\* No row at or below the stored cursor is missing at the other side: the feed
\* only moves forward, such a row would never be sent again.
NothingSkipped(s, p) == Saving(s, p) \/ Skipped(s, p, cursor[s][p]) = {}

\* A torrent that the cursor of a pull or of a push has passed is linked at the
\* other side, whatever failed, was lost or was retried on the way, and also
\* when it came to the hub from another spoke with an older match.
TorrentsNothingSkipped == \A s \in Spoke, p \in {2, 5} : NothingSkipped(s, p)

\* A card that the push cursor of any spoke has passed is at the hub, at least
\* as new as at the spoke, although pulls put older stamps into the same table.
PushedCardsNothingSkipped == \A s \in Spoke : NothingSkipped(s, 4)

\* The same for the cards a spoke pulls: true while the spoke is the hub's only
\* one.  Cards pushed by a second spoke enter the hub's feed with an old stamp.
PulledCardsNothingSkipped == \A s \in Spoke : NothingSkipped(s, 1)

\* A cursor whose halves come from different pages can pass over rows, but only
\* over rows that share their stamp with another row of the feed.
SkippedOnlyAmongTies ==
  \A s \in Spoke, p \in {2, 5} :
    Saving(s, p) \/
    \A k \in Skipped(s, p, cursor[s][p]) :
      \E j \in Key \ {k} : stamp[Source(s, p)]["torrents"][j] = stamp[Source(s, p)]["torrents"][k]

\* Deleting a card takes its event along, and a synced event that arrives before
\* its card or after the card's deletion leaves nothing behind.
EventsHaveCards ==
  \A i \in Inst, k \in Key : stamp[i]["events"][k] > 0 => stamp[i]["cards"][k] > 0

\* Sync invents no card stamp: only a local statement can make a card newer than
\* the newest copy there is.  Two instances that both pull and push cannot keep
\* sending each other the same card as if it had changed.
SyncMintsNoCardStamp ==
  [][\A i \in Inst, k \in Key :
       \/ \E j \in Inst : stamp'[i]["cards"][k] <= stamp[j]["cards"][k]
       \/ \E s \in Spoke : stamp'[i]["cards"][k] <= job[s].page[k]
       \/ Environment]_vars

\* Once a torrent gets (or gets back) its card, its stamp is newer than every
\* cursor that reads this instance's feed, so each reader sees the match.
MatchIsNews ==
  [][\A s \in Spoke, p \in {2, 5}, k \in Key :
       ~linked[Source(s, p)][k] /\ linked'[Source(s, p)][k]
         => Precedes(cursor[s][p], Pos(stamp'[Source(s, p)]["torrents"][k], k))]_vars

-----------------------------------------------------------------------------
(***************************************************************************)
(* Why nothing is skipped: an inductive strengthening, for Hazards = {}    *)
(***************************************************************************)
SoleSpoke == \A r, s \in Spoke : r = s

\* The transfers whose rows enter the source's feed only at its new end, or come from
\* the very instance that reads it: the pull of cards, while there is one spoke.
SafePhase == {2, 4, 5} \cup {p \in {1} : SoleSpoke}

\* Nothing recorded anywhere is ahead of the clock, so a new stamp is.
BehindClock ==
  /\ \A i \in Inst, d \in Dataset, k \in Key : stamp[i][d][k] <= clock
  /\ \A s \in Spoke, p \in Phase : cursor[s][p].at <= clock
  /\ \A s \in Spoke : /\ job[s].nxt.at <= clock
                      /\ \A k \in Key : job[s].page[k] <= clock

LinkedIffStamped == \A i \in Inst, k \in Key : linked[i][k] = (stamp[i]["torrents"][k] > 0)

\* The page in hand: its rows are in the feed, unchanged or moved behind the
\* page; they lie after nxt; and what else lies after nxt lies after the page.
PageInv(s) ==
  LET p   == job[s].ph
      src == Source(s, p)
      d   == DatasetOf(p)
      pg  == job[s].page
  IN  /\ \A k \in Rows(pg) :
           /\ Listed(src, d, k)
           /\ stamp[src][d][k] = pg[k] \/ \A j \in Rows(pg) : stamp[src][d][k] > pg[j]
           /\ job[s].failed \/ Precedes(job[s].nxt, Pos(pg[k], k))
      /\ job[s].failed \/
         \A k \in Key \ Rows(pg) :
           Listed(src, d, k) /\ Precedes(job[s].nxt, PosOf(src, d, k))
             => \A j \in Rows(pg) : Precedes(Pos(pg[j], j), PosOf(src, d, k))

JobInv(s) ==
  /\ job[s].step = "ask" => job[s].cur = job[s].nxt
  /\ job[s].ph \in SafePhase =>
       /\ Skipped(s, job[s].ph, job[s].nxt) = {}
       /\ cursor[s][job[s].ph].at <= job[s].nxt.at
       /\ job[s].step = "apply" => PageInv(s)
  /\ job[s].ph = 1 =>
       \A k \in Rows(job[s].page) : job[s].page[k] <= stamp[Hub]["cards"][k]

\* The state of the tables, the stored cursors and the running transfers that
\* every step preserves when no hazard is present.
IInv ==
  /\ TypeOK
  /\ open = {}
  /\ BehindClock
  /\ LinkedIffStamped
  /\ \A s \in Spoke, p \in SafePhase : NothingSkipped(s, p)
  /\ \A s \in Spoke : JobInv(s)

-----------------------------------------------------------------------------
(***************************************************************************)
(* Liveness: after the last local write and the last failure               *)
(***************************************************************************)
\* Every torrent found anywhere ends up linked everywhere, for good.
TorrentsConverge ==
  <>[](\A i, j \in Inst, k \in Key : linked[i][k] = linked[j][k])

\* Every card ends up with the same stamp everywhere, for good.
CardsConverge ==
  <>[](\A i, j \in Inst, k \in Key : stamp[i]["cards"][k] = stamp[j]["cards"][k])

\* Every feed is eventually read to its end and stays so: ticks keep running and
\* find nothing to send.
FeedsDrain ==
  <>[](\A s \in Spoke, p \in Phase : After(Source(s, p), DatasetOf(p), cursor[s][p]) = {})

\* No tick pages on forever.
EveryTickEnds == \A s \in Spoke : job[s].ph # 0 ~> job[s].ph = 0

\* A play event the hub has is applied at a spoke once the card is there.
EventAppliesOnceCardArrives ==
  \A s \in Spoke, k \in Key :
    stamp[Hub]["events"][k] > 0 /\ stamp[s]["cards"][k] > 0 ~> stamp[s]["events"][k] > 0

=============================================================================
