---------------------------- MODULE ProfileCaches ----------------------------
(***************************************************************************)
(* The three per-profile caches of one device: the fully watched cards     *)
(* (hide_watched), the list of unwatched shows and the list to continue.   *)
(* Every entry is computed from the database on a miss, inside one         *)
(* singleflight call, and dropped by the hooks that the writers of the     *)
(* database call after they have committed.                                *)
(*                                                                         *)
(* Abstractions.  All cards are shows of the catalogue.  One viewing       *)
(* threshold and one sort order are in use: the entries of the others have *)
(* the same prefix and are dropped with them.  A progress is part of an    *)
(* episode or all of it.  A step of a handler is one SQL statement or      *)
(* transaction, or one section under a cache's lock; handlers of any       *)
(* number of requests interleave.                                          *)
(***************************************************************************)
EXTENDS Integers, FiniteSets, SequencesExt

CONSTANTS
  Profile, Card, Episode,
  CardOf,        \* CardOf[e]: the show of episode e
  Worker,        \* handlers and background tasks that may run at once
  Paths,         \* the write paths in use
  Reads,         \* the caches that are read
  Events,        \* what may happen to the process: see EventKinds
  TicksPerDay,   \* resolution of the clock
  Lag,           \* aired_cutoff_days and aired_cutoff_hour, in ticks
  MaxTicks       \* bound: ticks of the clock after the start

Kind     == {"watched", "unwatched", "continues"}
Indexed  == {"watched", "unwatched"}
Progress == {"none", "part", "done"}
Status   == {"none", "watching", "stopped"}
Day      == 0 .. ((Lag + MaxTicks) \div TicksPerDay + 1)
NotListed == -1      \* the episodes table has no dated row for the episode

PathKinds == {"save", "save_and_trim", "set", "delete", "status", "delete_card",
              "announce", "release", "tvmaze", "backfill"}

\* "restart": graceful stops, with the snapshots; "crash": the process is killed;
\* "read_fails": a query of a cache miss fails.
EventKinds == {"restart", "crash", "read_fails"}

ASSUME ConstantsAssumption ==
  /\ IsFiniteSet(Episode) /\ CardOf \in [Episode -> Card]
  /\ Paths \subseteq PathKinds
  /\ Reads \subseteq Kind
  /\ Events \subseteq EventKinds
  /\ TicksPerDay \in Nat \ {0} /\ Lag \in Nat /\ MaxTicks \in Nat

VARIABLES
  timecodes,  \* timecodes[p][e]: how much of episode e profile p has seen
  status,     \* status[p][c]: the subjective status of show c
  airs,       \* airs[e]: the air_date in the episodes table, or NotListed
  clock,      \* wall clock, in ticks
  cache,      \* cache[k][p]: the cached answer, or NotCached
  index,      \* index[k][c]: the profiles whose answer listed c (reverse index)
  fill,       \* fill[k][p]: what the running singleflight call has read, or NoFill
  jobs,       \* jobs[w]: the steps that handler w has left
  last,       \* the cutoff date that the poller saw last
  poll,       \* the steps that the poller has left
  disk,       \* the snapshot file
  up,         \* the process runs
  overtaken   \* history: a drop meant for fill[k][p] ran between its read and its store

store == <<timecodes, status, airs>>
vars  == <<timecodes, status, airs, clock, cache, index, fill, jobs, last, poll,
           disk, up, overtaken>>

NotCached == [cached |-> FALSE]
Cached(v) == [cached |-> TRUE, rows |-> v]
NoFill    == NotCached

-----------------------------------------------------------------------------
(***************************************************************************)
(* What the three queries answer                                           *)
(***************************************************************************)
EpisodesOf(c) == {e \in Episode : CardOf[e] = c}

\* The aired cutoff lags the calendar by the configured days and hours.
Date(t)    == t \div TicksPerDay
CutoffDate == Date(clock - Lag)

AiredBy(day, c) == {e \in EpisodesOf(c) : airs[e] # NotListed /\ airs[e] <= day}
Seen(p, c)      == {e \in EpisodesOf(c) : timecodes[p][e] = "done"}

\* A show is watched when as many episodes are seen as have aired, one at least.
WatchedCardIDs(p) ==
  {[card |-> c] : c \in {c \in Card :
     LET aired == Cardinality(AiredBy(CutoffDate, c)) IN
       Cardinality(Seen(p, c)) >= (IF aired = 0 THEN 1 ELSE aired)}}

UnwatchedTVShows(p) ==
  {r \in {[card |-> c, aired |-> AiredBy(CutoffDate, c),
           watched |-> AiredBy(CutoffDate, c) \cap Seen(p, c)] :
          c \in {c \in Card : status[p][c] = "watching"}} :
     r.watched # r.aired}

ContinuesAggregate(p) ==
  {[card |-> c] : c \in {c \in Card :
     /\ \E e \in EpisodesOf(c) : timecodes[p][e] # "none"
     /\ Seen(p, c) = {}
     /\ status[p][c] # "stopped"}}

Fresh(k, p) == CASE k = "watched"   -> WatchedCardIDs(p)
                 [] k = "unwatched" -> UnwatchedTVShows(p)
                 [] k = "continues" -> ContinuesAggregate(p)

Lists(rows, c) == \E r \in rows : r.card = c
CardIDsAiringOn(day) == {CardOf[e] : e \in {e \in Episode : airs[e] = day}}

-----------------------------------------------------------------------------
(***************************************************************************)
(* Handlers, as the sequence of their steps                                *)
(***************************************************************************)
Put(p, e, v)       == [do |-> "put", who |-> {p}, ep |-> e, progress |-> v]
Imply(p, c)        == [do |-> "imply", who |-> {p}, card |-> c]
SetStatus(p, c, s) == [do |-> "status", who |-> {p}, card |-> c, to |-> s]
Erase(c)           == [do |-> "erase", who |-> Profile, card |-> c]
Trim(p)            == [do |-> "trim", who |-> {p}]
Learn(c, path)     == [do |-> "learn", card |-> c, path |-> path]
ImplyAll           == [do |-> "backfill"]
Drop(k, who)       == [do |-> "drop", kind |-> k, who |-> who]
DropCard(k, c)     == [do |-> "drop_card", kind |-> k, card |-> c]
DropAll            == [do |-> "drop_all", kind |-> "unwatched"]
Cross(day)         == [do |-> "cross", day |-> day]

\* OnWatchedChanged as cmd/main.go wires it: three caches, one lock each.
OnWatchedChanged(who) ==
  <<Drop("watched", who), Drop("unwatched", who), Drop("continues", who)>>

InvalidateWatchedForCard(c) == <<DropCard("watched", c), DropCard("unwatched", c)>>
InvalidateAllUnwatched      == <<DropAll>>

\* Card by card, the two halves of InvalidateWatchedForCard.
InvalidateCards(cards) ==
  [n \in 1 .. 2 * Len(cards) |-> InvalidateWatchedForCard(cards[(n + 1) \div 2])[2 - (n % 2)]]

\* Mutant: the hook runs before the write.
UpsertTimecodesHookFirst(p, e, v) ==
  OnWatchedChanged({p}) \o <<Put(p, e, v), Imply(p, CardOf[e])>>

UpsertTimecodes(p, e, v) ==
  <<Put(p, e, v), Imply(p, CardOf[e])>> \o OnWatchedChanged({p})

handleSaveTimecode(p, e, v) == UpsertTimecodes(p, e, v) \o <<Trim(p)>>
SetCardTimecode(p, e, v) ==
  <<Put(p, e, v)>> \o OnWatchedChanged({p}) \o <<Imply(p, CardOf[e])>>
DeleteTimecode(p, e) == <<Put(p, e, "none")>> \o OnWatchedChanged({p})

\* Mutant: a status change does not call the hook.
SetSubjectiveStatusSilently(p, c, s) == <<SetStatus(p, c, s)>>

SetSubjectiveStatus(p, c, s) == <<SetStatus(p, c, s)>> \o OnWatchedChanged({p})

DeleteCardTimecodes(c) == <<Erase(c)>> \o OnWatchedChanged(Profile)
SyncEpisodes(c, path)  == <<Learn(c, path)>> \o InvalidateWatchedForCard(c)
bgRefreshEpisodes(c)   == <<Learn(c, "tvmaze")>> \o InvalidateAllUnwatched

ProgramsOf(path) ==
  CASE path = "save" ->
         {UpsertTimecodes(p, e, v) : p \in Profile, e \in Episode, v \in {"part", "done"}}
    [] path = "save_and_trim" ->
         {handleSaveTimecode(p, e, v) : p \in Profile, e \in Episode, v \in {"part", "done"}}
    [] path = "set" ->
         {SetCardTimecode(p, e, v) : p \in Profile, e \in Episode, v \in {"part", "done"}}
    [] path = "delete"      -> {DeleteTimecode(p, e) : p \in Profile, e \in Episode}
    [] path = "status"      -> {SetSubjectiveStatus(p, c, s) : p \in Profile, c \in Card, s \in Status}
    [] path = "delete_card" -> {DeleteCardTimecodes(c) : c \in Card}
    [] path \in {"announce", "release"} -> {SyncEpisodes(c, path) : c \in Card}
    [] path = "tvmaze"      -> {bgRefreshEpisodes(c) : c \in Card}
    [] path = "backfill"    -> {}    \* at startup only: see LoadCacheSnapshot

Programs == UNION {ProgramsOf(path) : path \in Paths}

-----------------------------------------------------------------------------
Init ==
  /\ timecodes = [p \in Profile |-> [e \in Episode |-> "none"]]
  /\ status = [p \in Profile |-> [c \in Card |-> "none"]]
  /\ airs = [e \in Episode |-> NotListed]
  /\ clock = Lag
  /\ cache = [k \in Kind |-> [p \in Profile |-> NotCached]]
  /\ index = [k \in Indexed |-> [c \in Card |-> {}]]
  /\ fill = [k \in Kind |-> [p \in Profile |-> NoFill]]
  /\ jobs = [w \in Worker |-> <<>>]
  /\ last = -1
  /\ poll = <<>>
  /\ disk = [saved |-> FALSE]
  /\ up = TRUE
  /\ overtaken = [k \in Kind |-> [p \in Profile |-> FALSE]]

-----------------------------------------------------------------------------
(***************************************************************************)
(* The steps that write the database                                       *)
(***************************************************************************)
Next1(w, what) == up /\ jobs[w] # <<>> /\ Head(jobs[w]).do = what
Advance(w)     == jobs' = [jobs EXCEPT ![w] = Tail(@)]
volatile == <<cache, index, fill, overtaken>>
rest     == <<clock, last, poll, disk, up>>

Start(w) ==
  /\ up /\ jobs[w] = <<>>
  /\ \E program \in Programs : jobs' = [jobs EXCEPT ![w] = program]
  /\ UNCHANGED <<store, volatile, rest>>

WriteTimecode(w) ==
  /\ Next1(w, "put")
  /\ LET s == Head(jobs[w]) IN
       timecodes' = [p \in Profile |->
         IF p \in s.who THEN [timecodes[p] EXCEPT ![s.ep] = s.progress] ELSE timecodes[p]]
  /\ Advance(w)
  /\ UNCHANGED <<status, airs, volatile, rest>>

\* With watching_threshold 0, its default, any progress on a show implies
\* "watching", over an explicit choice too.
EnsureImpliedStatus(w) ==
  /\ Next1(w, "imply")
  /\ LET s == Head(jobs[w]) IN
       status' = [p \in Profile |->
         IF p \in s.who THEN [status[p] EXCEPT ![s.card] = "watching"] ELSE status[p]]
  /\ Advance(w)
  /\ UNCHANGED <<timecodes, airs, volatile, rest>>

WriteStatus(w) ==
  /\ Next1(w, "status")
  /\ LET s == Head(jobs[w]) IN
       status' = [p \in Profile |->
         IF p \in s.who THEN [status[p] EXCEPT ![s.card] = s.to] ELSE status[p]]
  /\ Advance(w)
  /\ UNCHANGED <<timecodes, airs, volatile, rest>>

EraseCard(w) ==
  /\ Next1(w, "erase")
  /\ LET s == Head(jobs[w]) IN
       timecodes' = [p \in Profile |-> IF p \notin s.who THEN timecodes[p] ELSE
         [e \in Episode |-> IF CardOf[e] = s.card THEN "none" ELSE timecodes[p][e]]]
  /\ Advance(w)
  /\ UNCHANGED <<status, airs, volatile, rest>>

\* The role's limit is reached: the oldest timecode of the profile goes.
TrimToLimitCount(w) ==
  /\ Next1(w, "trim")
  /\ \E p \in Head(jobs[w]).who :
       \/ \E e \in Episode : timecodes[p][e] # "none"
                             /\ timecodes' = [timecodes EXCEPT ![p][e] = "none"]
       \/ UNCHANGED timecodes
  /\ Advance(w)
  /\ UNCHANGED <<status, airs, volatile, rest>>

\* MyShows dates episodes that have not aired ("announce"), or lists some that
\* already have ("release"); TVmaze only fills a show without any row.  An answer
\* that cannot be used ends the handler.
UpsertEpisodes(w) ==
  /\ Next1(w, "learn")
  /\ LET c == Head(jobs[w]).card
         path == Head(jobs[w]).path IN
       \/ \E batch \in SUBSET EpisodesOf(c), day \in Day :
            /\ \A e \in batch : airs[e] = NotListed \/ airs[e] > CutoffDate
            /\ path = "announce" => day > CutoffDate
            /\ path = "release" => day <= CutoffDate
            /\ path = "tvmaze" => \A f \in EpisodesOf(c) : airs[f] = NotListed
            /\ airs' = [e \in Episode |-> IF e \in batch THEN day ELSE airs[e]]
            /\ Advance(w)
       \/ UNCHANGED airs /\ jobs' = [jobs EXCEPT ![w] = <<>>]
  /\ UNCHANGED <<timecodes, status, volatile, rest>>

\* At startup: a status for every show with progress and without a status row.
BackfillImpliedStatuses(w) ==
  /\ Next1(w, "backfill")
  /\ status' = [p \in Profile |-> [c \in Card |->
       IF status[p][c] = "none" /\ \E e \in EpisodesOf(c) : timecodes[p][e] # "none"
         THEN "watching" ELSE status[p][c]]]
  /\ Advance(w)
  /\ UNCHANGED <<timecodes, airs, volatile, rest>>

-----------------------------------------------------------------------------
(***************************************************************************)
(* The caches: read through on a miss, dropped by the hooks                *)
(***************************************************************************)
Reading(k, p) == fill[k][p] # NoFill

\* cachedWatchedCardIDs and its two siblings: a miss, confirmed inside the
\* singleflight call, runs the query.
ReadStore(k, p) ==
  /\ up /\ k \in Reads
  /\ cache[k][p] = NotCached /\ ~Reading(k, p)
  /\ fill' = [fill EXCEPT ![k][p] = Cached(Fresh(k, p))]
  /\ overtaken' = [overtaken EXCEPT ![k][p] = FALSE]
  /\ UNCHANGED <<store, cache, index, jobs, rest>>

\* A query that times out, or whose caller has gone, answers nil.
ReadFails(k, p) ==
  /\ "read_fails" \in Events
  /\ up /\ k \in Reads
  /\ cache[k][p] = NotCached /\ ~Reading(k, p)
  /\ fill' = [fill EXCEPT ![k][p] = Cached({})]
  /\ overtaken' = [overtaken EXCEPT ![k][p] = FALSE]
  /\ UNCHANGED <<store, cache, index, jobs, rest>>

StoreEntry(k, p) ==
  /\ up /\ Reading(k, p)
  /\ cache' = [cache EXCEPT ![k][p] = fill[k][p]]
  /\ index' = [i \in Indexed |-> [c \in Card |->
       index[i][c] \cup (IF i = k /\ Lists(fill[k][p].rows, c) THEN {p} ELSE {})]]
  /\ fill' = [fill EXCEPT ![k][p] = NoFill]
  /\ UNCHANGED <<store, overtaken, jobs, rest>>

\* The entries of kind k that "gone" names are dropped; "missed" names the calls
\* that have already read what the drop is about.
Dropped(k, gone, missed) ==
  /\ cache' = [cache EXCEPT ![k] = [p \in Profile |->
                 IF p \in gone THEN NotCached ELSE cache[k][p]]]
  /\ overtaken' = [overtaken EXCEPT ![k] = [p \in Profile |->
                 overtaken[k][p] \/ (p \in missed /\ Reading(k, p))]]

DropProfiles(w) ==
  /\ Next1(w, "drop")
  /\ LET s == Head(jobs[w]) IN Dropped(s.kind, s.who, s.who)
  /\ Advance(w)
  /\ UNCHANGED <<store, index, fill, rest>>

\* One half of InvalidateWatchedForCard: the entries that the reverse index names.
ForgetCard(k, c) ==
  /\ Dropped(k, index[k][c],
             {p \in Profile : Reading(k, p) /\ Lists(fill[k][p].rows, c)})
  /\ index' = [index EXCEPT ![k][c] = {}]

ForgetAll ==
  /\ Dropped("unwatched", Profile, Profile)
  /\ index' = [index EXCEPT !["unwatched"] = [c \in Card |-> {}]]

DropForCard(w) ==
  /\ Next1(w, "drop_card")
  /\ ForgetCard(Head(jobs[w]).kind, Head(jobs[w]).card)
  /\ Advance(w)
  /\ UNCHANGED <<store, fill, rest>>

DropAllUnwatched(w) ==
  /\ Next1(w, "drop_all")
  /\ ForgetAll
  /\ Advance(w)
  /\ UNCHANGED <<store, fill, rest>>

-----------------------------------------------------------------------------
(***************************************************************************)
(* The aired cutoff: the clock, and the poller that follows it             *)
(***************************************************************************)
Tick ==
  /\ clock < Lag + MaxTicks
  /\ clock' = clock + 1
  /\ UNCHANGED <<store, volatile, jobs, last, poll, disk, up>>

\* Mutant: the poller believes it has done one day more.
PollADayAhead ==
  /\ up /\ poll = <<>> /\ CutoffDate > last
  /\ poll' = [n \in 1 .. CutoffDate - last |-> Cross(last + n)]
  /\ last' = CutoffDate + 1
  /\ UNCHANGED <<store, volatile, jobs, clock, disk, up>>

\* checkAndInvalidate looks at the cutoff and finds it ahead.
Poll ==
  /\ up /\ poll = <<>> /\ CutoffDate > last
  /\ poll' = [n \in 1 .. CutoffDate - last |-> Cross(last + n)]
  /\ last' = CutoffDate
  /\ UNCHANGED <<store, volatile, jobs, clock, disk, up>>

\* Mutant: only the entries that list a newly aired show are dropped.
CrossDayWithoutWipe ==
  /\ up /\ poll # <<>> /\ Head(poll).do = "cross"
  /\ poll' = InvalidateCards(SetToSeq(CardIDsAiringOn(Head(poll).day))) \o Tail(poll)
  /\ UNCHANGED <<store, volatile, jobs, last, clock, disk, up>>

\* A day crossed: the shows with an episode on it, to be dropped one by one; and
\* in the end the whole unwatched cache, once there was such a show.
CrossDay ==
  /\ up /\ poll # <<>> /\ Head(poll).do = "cross"
  /\ LET aired == SetToSeq(CardIDsAiringOn(Head(poll).day))
         wipe  == IF aired = <<>> \/ \E n \in DOMAIN poll : poll[n] = DropAll
                    THEN <<>> ELSE InvalidateAllUnwatched
     IN poll' = InvalidateCards(aired) \o Tail(poll) \o wipe
  /\ UNCHANGED <<store, volatile, jobs, last, clock, disk, up>>

CrossDrop ==
  /\ up /\ poll # <<>>
  /\ \/ /\ Head(poll).do = "drop_card"
        /\ ForgetCard(Head(poll).kind, Head(poll).card)
     \/ /\ Head(poll).do = "drop_all"
        /\ ForgetAll
  /\ poll' = Tail(poll)
  /\ UNCHANGED <<store, fill, jobs, last, clock, disk, up>>

-----------------------------------------------------------------------------
(***************************************************************************)
(* The snapshot: every ten minutes, at a graceful stop, and read at start  *)
(***************************************************************************)
Snapshot == [saved |-> TRUE, at |-> clock,
             entries |-> [k \in Indexed |-> cache[k]]]

SaveCacheSnapshot ==
  /\ "restart" \in Events /\ up
  /\ disk' = Snapshot
  /\ UNCHANGED <<store, volatile, jobs, last, poll, clock, up>>

Cold ==
  /\ up' = FALSE
  /\ cache' = [k \in Kind |-> [p \in Profile |-> NotCached]]
  /\ index' = [k \in Indexed |-> [c \in Card |-> {}]]
  /\ fill' = [k \in Kind |-> [p \in Profile |-> NoFill]]
  /\ jobs' = [w \in Worker |-> <<>>]
  /\ poll' = <<>>

\* srv.Shutdown waits for the handlers, then the caches are saved once more.
Shutdown ==
  /\ "restart" \in Events
  /\ up /\ \A w \in Worker : jobs[w] = <<>>
  /\ disk' = Snapshot
  /\ Cold
  /\ UNCHANGED <<store, clock, last, overtaken>>

Crash ==
  /\ "crash" \in Events /\ up
  /\ Cold
  /\ UNCHANGED <<store, clock, last, disk, overtaken>>

\* replayMissedCutoffs steps by whole days from the instant of the save.
ReplayedDates(since) ==
  {Date(since + n * TicksPerDay) : n \in {n \in 0 .. clock : since + n * TicksPerDay <= clock}}

\* What the snapshot holds, and the reverse index built from it.
Restored(k, p) == IF disk.saved /\ k \in Indexed THEN disk.entries[k][p] ELSE NotCached
\* Mutant: the snapshot is restored without its reverse index.
ListingForgotten(k, c) == {}

Listing(k, c) ==
  {p \in Profile : Restored(k, p) # NotCached /\ Lists(Restored(k, p).rows, c)}

Replayed ==
  IF disk.saved THEN UNION {CardIDsAiringOn(d) : d \in ReplayedDates(disk.at)} ELSE {}

\* LoadCacheSnapshot, before the server listens: the shows that aired meanwhile are
\* dropped, and with them all unwatched lists.  The poller starts a day behind.
LoadCacheSnapshot ==
  /\ ~up /\ up' = TRUE
  /\ cache' = [k \in Kind |-> [p \in Profile |->
       IF \/ k = "watched" /\ \A c \in Replayed : p \notin Listing(k, c)
          \/ k = "unwatched" /\ Replayed = {}
         THEN Restored(k, p) ELSE NotCached]]
  /\ index' = [k \in Indexed |-> [c \in Card |->
       IF c \in Replayed \/ (k = "unwatched" /\ Replayed # {}) THEN {} ELSE Listing(k, c)]]
  /\ last' = CutoffDate - 1
  /\ jobs' = IF "backfill" \in Paths
               THEN [jobs EXCEPT ![CHOOSE w \in Worker : TRUE] = <<ImplyAll>>] ELSE jobs
  /\ UNCHANGED <<store, fill, clock, poll, disk, overtaken>>

-----------------------------------------------------------------------------
Handle(w) ==
  \/ Start(w)
  \/ WriteTimecode(w) \/ EnsureImpliedStatus(w) \/ WriteStatus(w) \/ EraseCard(w)
  \/ TrimToLimitCount(w) \/ UpsertEpisodes(w) \/ BackfillImpliedStatuses(w)
  \/ DropProfiles(w) \/ DropForCard(w) \/ DropAllUnwatched(w)

Next ==
  \/ \E w \in Worker : Handle(w)
  \/ \E k \in Kind, p \in Profile : ReadStore(k, p) \/ ReadFails(k, p) \/ StoreEntry(k, p)
  \/ Tick \/ Poll \/ CrossDay \/ CrossDrop
  \/ SaveCacheSnapshot \/ Shutdown \/ Crash \/ LoadCacheSnapshot

Spec == Init /\ [][Next]_vars

-----------------------------------------------------------------------------
(***************************************************************************)
(* Properties                                                              *)
(***************************************************************************)
TypeOK ==
  /\ timecodes \in [Profile -> [Episode -> Progress]]
  /\ status \in [Profile -> [Card -> Status]]
  /\ airs \in [Episode -> Day \cup {NotListed}]
  /\ clock \in Lag .. Lag + MaxTicks
  /\ index \in [Indexed -> [Card -> SUBSET Profile]]
  /\ \A k \in Kind, p \in Profile : \A answer \in {cache[k][p], fill[k][p]} :
       answer # NotCached => \A r \in answer.rows : r.card \in Card
  /\ overtaken \in [Kind -> [Profile -> BOOLEAN]]
  /\ last \in Int /\ last <= CutoffDate
  /\ up \in BOOLEAN

\* The reverse index names every cached answer that lists a card, so that
\* InvalidateWatchedForCard misses none: through fills, drops, the whole-cache
\* wipe, which empties index and cache together, and a restart from the snapshot.
IndexCovers ==
  \A k \in Indexed, p \in Profile, c \in Card :
    cache[k][p] # NotCached /\ Lists(cache[k][p].rows, c) => p \in index[k][c]

\* A hook that is still to run will drop the entry, or the poller has a crossing
\* to work through.
Reaches(s, k, p) ==
  \/ s.do = "drop" /\ s.kind = k /\ p \in s.who
  \/ s.do = "drop_card" /\ s.kind = k /\ p \in index[k][s.card]
  \/ s.do = "drop_all" /\ s.kind = k
  \/ s.do = "cross" /\ k \in Indexed

Pending(k, p) ==
  \/ \E w \in Worker : \E n \in DOMAIN jobs[w] : Reaches(jobs[w][n], k, p)
  \/ k \in Indexed /\ last < CutoffDate
  \/ \E n \in DOMAIN poll : Reaches(poll[n], k, p)

Current(k, p) == up /\ cache[k][p] # NotCached /\ ~Pending(k, p)
                   => cache[k][p].rows = Fresh(k, p)

\* Once the hooks have run, an answer that is served is what the query would give
\* now, unless a drop ran between the entry's read and its store: no other
\* interleaving of writers, readers, cutoff crossings, saves and graceful
\* restarts leaves a stale entry behind.
Sound(k) == \A p \in Profile : overtaken[k][p] \/ Current(k, p)
WatchedSound   == Sound("watched")
UnwatchedSound == Sound("unwatched")
ContinuesSound == Sound("continues")

\* The promise of InvalidateWatched: after a profile's progress changes, "the next
\* category request reflects it".
WatchedCurrent == \A p \in Profile : Current("watched", p)
=============================================================================
