---------------------------- MODULE CategoryCache ----------------------------
(***************************************************************************)
(* The category response cache: whole responses by request URI, evicted by *)
(* last write, marked stale all at once by a generation counter when the   *)
(* catalogue or a catalogue setting has changed, served stale and          *)
(* recomputed behind the request.  With it the cached catalog_trackers     *)
(* setting that every computation reads, and the per-category totals.      *)
(*                                                                         *)
(* Abstractions.  The catalogue and the setting are version numbers, a     *)
(* response is the versions it was computed from.  The other settings that *)
(* InvalidateCategoryCache resets are handled as catalog_trackers is.      *)
(***************************************************************************)
EXTENDS Integers, FiniteSets, SequencesExt

CONSTANTS
  Key,         \* request URIs
  Call,        \* computations that may run at once: requests, refreshes, recounts
  Writer,      \* parser runs, sync ticks and administrators
  MaxEntries,  \* maxCatCacheEntries
  Events,      \* "restart", "response fails", "setting unread", "settings", "totals"
  MaxWrites    \* bound: writes to the database

EventKinds == {"restart", "response fails", "setting unread", "settings", "totals"}

VARIABLES
  catalog,     \* version of the catalogue tables
  setting,     \* version of catalog_trackers in app_settings
  generation,  \* catGeneration
  entries,     \* catCache: the response kept for a key, or Absent
  order,       \* catCacheOrder: the keys, most recently written first
  tracker,     \* trackerCached: the version of the setting in use, or Unset
  total,       \* catCount: the catalogue version that the totals were counted on
  call,        \* call[f]: what computation f is about
  hook,        \* hook[w]: how far writer w is with InvalidateCategoryCache
  disk,        \* the responses in the snapshot file
  floor        \* history: the versions at the last bump of the generation

vars == <<catalog, setting, generation, entries, order, tracker, total, call, hook,
          disk, floor>>

Absent  == [gen |-> -2]
Unset   == -1
Default == 0       \* the built-in tracker list
Totals  == "totals"
Idle    == [phase |-> "idle"]

Versions == 0 .. MaxWrites + 1
Cached(k) == entries[k] # Absent
Stale(k)  == Cached(k) /\ entries[k].gen # generation

Init ==
  /\ catalog = 1 /\ setting = 1
  /\ generation = 0
  /\ entries = [k \in Key |-> Absent]
  /\ order = <<>>
  /\ tracker = Unset
  /\ total = Unset
  /\ call = [f \in Call |-> Idle]
  /\ hook = [w \in Writer |-> "idle"]
  /\ disk = [k \in Key |-> Absent]
  /\ floor = [catalog |-> 1, setting |-> 1]

-----------------------------------------------------------------------------
(***************************************************************************)
(* Writers, and the hook they call once they have committed                *)
(***************************************************************************)
cached == <<entries, order, tracker, total>>

\* A parser run or a sync tick changes the catalogue.
WriteCatalog(w) ==
  /\ hook[w] = "idle" /\ catalog + setting < MaxWrites + 2
  /\ catalog' = catalog + 1
  /\ hook' = [hook EXCEPT ![w] = "bump"]
  /\ UNCHANGED <<setting, generation, cached, call, disk, floor>>

\* An administrator saves the setting.
WriteSetting(w) ==
  /\ "settings" \in Events
  /\ hook[w] = "idle" /\ catalog + setting < MaxWrites + 2
  /\ setting' = setting + 1
  /\ hook' = [hook EXCEPT ![w] = "bump"]
  /\ UNCHANGED <<catalog, generation, cached, call, disk, floor>>

\* Mutant: the responses are not marked stale.
BumpGenerationForgotten(w) ==
  /\ hook[w] = "bump"
  /\ floor' = [catalog |-> catalog, setting |-> setting]
  /\ hook' = [hook EXCEPT ![w] = "reset"]
  /\ UNCHANGED <<catalog, setting, generation, cached, call, disk>>

\* InvalidateCategoryCache, one lock after the other.
BumpGeneration(w) ==
  /\ hook[w] = "bump"
  /\ generation' = generation + 1
  /\ floor' = [catalog |-> catalog, setting |-> setting]
  /\ hook' = [hook EXCEPT ![w] = "reset"]
  /\ UNCHANGED <<catalog, setting, cached, call, disk>>

\* Mutant: the setting keeps its cached value.
ResetSettingsForgotten(w) ==
  /\ hook[w] = "reset"
  /\ hook' = [hook EXCEPT ![w] = "recount"]
  /\ UNCHANGED <<catalog, setting, generation, cached, call, disk, floor>>

ResetSettings(w) ==
  /\ hook[w] = "reset"
  /\ tracker' = Unset
  /\ hook' = [hook EXCEPT ![w] = "recount"]
  /\ UNCHANGED <<catalog, setting, generation, entries, order, total, call, disk, floor>>

Begin(f, what) ==
  /\ call[f] = Idle
  /\ call' = [call EXCEPT ![f] = [phase |-> "setting", for |-> what.for, refresh |-> what.refresh,
                                  began |-> generation, setting |-> Unset, catalog |-> Unset]]

\* "go RecomputeCategoryCounts()", and the writer is done.
StartRecount(w) ==
  /\ hook[w] = "recount"
  /\ hook' = [hook EXCEPT ![w] = "idle"]
  /\ IF "totals" \in Events
       THEN \E f \in Call : Begin(f, [for |-> Totals, refresh |-> FALSE])
       ELSE UNCHANGED call
  /\ UNCHANGED <<catalog, setting, generation, cached, disk, floor>>

-----------------------------------------------------------------------------
(***************************************************************************)
(* Requests and computations                                               *)
(***************************************************************************)
Refreshing(k) == \E f \in Call : call[f] # Idle /\ call[f].for = k /\ call[f].refresh

\* withCategoryCache on a miss: the handler runs, next to others for the same key.
Miss(f, k) ==
  /\ ~Cached(k)
  /\ Begin(f, [for |-> k, refresh |-> FALSE])
  /\ UNCHANGED <<catalog, setting, generation, cached, hook, disk, floor>>

\* cachedCategoryCount, and the recount at startup.
MissTotal(f) ==
  /\ "totals" \in Events /\ total = Unset
  /\ Begin(f, [for |-> Totals, refresh |-> FALSE])
  /\ UNCHANGED <<catalog, setting, generation, cached, hook, disk, floor>>

\* On a stale hit the old response is served and one refresh runs behind it.
StaleHit(f, k) ==
  /\ Stale(k) /\ ~Refreshing(k)
  /\ Begin(f, [for |-> k, refresh |-> TRUE])
  /\ UNCHANGED <<catalog, setting, generation, cached, hook, disk, floor>>

\* cachedTrackers: the cached value, or the database's, read under the lock.
ReadSetting(f) ==
  /\ call[f].phase = "setting"
  /\ tracker' = IF tracker # Unset THEN tracker ELSE setting
  /\ call' = [call EXCEPT ![f] = [call[f] EXCEPT !.phase = "query", !.setting = tracker']]
  /\ UNCHANGED <<catalog, setting, generation, entries, order, total, hook, disk, floor>>

\* The read fails: the built-in default takes the setting's place in the cache.
SettingUnread(f) ==
  /\ "setting unread" \in Events
  /\ call[f].phase = "setting" /\ tracker = Unset
  /\ tracker' = Default
  /\ call' = [call EXCEPT ![f] = [call[f] EXCEPT !.phase = "query", !.setting = Default]]
  /\ UNCHANGED <<catalog, setting, generation, entries, order, total, hook, disk, floor>>

Query(f) ==
  /\ call[f].phase = "query"
  /\ call' = [call EXCEPT ![f] = [call[f] EXCEPT !.phase = "store", !.catalog = catalog]]
  /\ UNCHANGED <<catalog, setting, generation, cached, hook, disk, floor>>

\* Mutant: the evicted key stays in the map.
EvictKeepingEntry(k, newOrder) == entries

\* What the map keeps once "newOrder" is the order.
Evict(k, newOrder) ==
  [j \in Key |-> IF Contains(newOrder, j) THEN entries[j] ELSE Absent]

KeepFirst(s) == IF Len(s) > MaxEntries THEN SubSeq(s, 1, MaxEntries) ELSE s

\* setCached: the response gets the generation of now, moves to the front, and the
\* least recently written ones go.
setCached(f) ==
  /\ call[f].phase = "store" /\ call[f].for # Totals
  /\ LET k == call[f].for
         response == [gen |-> generation, began |-> call[f].began,
                      setting |-> call[f].setting, catalog |-> call[f].catalog]
     IN /\ order' = KeepFirst(<<k>> \o SelectSeq(order, LAMBDA j : j # k))
        /\ entries' = [Evict(k, order') EXCEPT ![k] = response]
  /\ call' = [call EXCEPT ![f] = Idle]
  /\ UNCHANGED <<catalog, setting, generation, tracker, total, hook, disk, floor>>

StoreTotal(f) ==
  /\ call[f].phase = "store" /\ call[f].for = Totals
  /\ total' = call[f].catalog
  /\ call' = [call EXCEPT ![f] = Idle]
  /\ UNCHANGED <<catalog, setting, generation, entries, order, tracker, hook, disk, floor>>

\* The handler answers with an error: nothing is cached.
ResponseFails(f) ==
  /\ "response fails" \in Events
  /\ call[f].phase = "store" /\ call[f].for # Totals
  /\ call' = [call EXCEPT ![f] = Idle]
  /\ UNCHANGED <<catalog, setting, generation, cached, hook, disk, floor>>

-----------------------------------------------------------------------------
(***************************************************************************)
(* The snapshot                                                            *)
(***************************************************************************)
SaveCacheSnapshot ==
  /\ "restart" \in Events
  /\ disk' = entries
  /\ UNCHANGED <<catalog, setting, generation, cached, call, hook, floor>>

\* Mutant: restored responses keep the generation they were saved with.
RestoredAsSaved(k) == disk[k]

\* A restored response is stale under every generation.
Restored(k) == IF disk[k] = Absent THEN Absent ELSE [disk[k] EXCEPT !.gen = -1]

\* A stop, of any kind, and a start: only the snapshot survives.
Restart ==
  /\ "restart" \in Events
  /\ generation' = 0
  /\ entries' = [k \in Key |-> Restored(k)]
  /\ order' \in SetToSeqs({k \in Key : disk[k] # Absent})
  /\ tracker' = Unset
  /\ total' = Unset
  /\ call' = [f \in Call |-> Idle]
  /\ hook' = [w \in Writer |-> "idle"]
  /\ floor' = [catalog |-> catalog, setting |-> setting]
  /\ UNCHANGED <<catalog, setting, disk>>

-----------------------------------------------------------------------------
Compute(f) ==
  \/ ReadSetting(f) \/ SettingUnread(f) \/ Query(f)
  \/ setCached(f) \/ StoreTotal(f) \/ ResponseFails(f)

Next ==
  \/ \E w \in Writer : \/ WriteCatalog(w) \/ WriteSetting(w)
                       \/ BumpGeneration(w) \/ ResetSettings(w) \/ StartRecount(w)
  \/ \E f \in Call : Compute(f) \/ MissTotal(f) \/ \E k \in Key : Miss(f, k) \/ StaleHit(f, k)
  \/ SaveCacheSnapshot \/ Restart

Spec == Init /\ [][Next]_vars

-----------------------------------------------------------------------------
(***************************************************************************)
(* Properties                                                              *)
(***************************************************************************)
TypeOK ==
  /\ catalog \in Versions /\ setting \in Versions
  /\ generation \in 0 .. MaxWrites
  /\ \A k \in Key : Cached(k) => /\ entries[k].gen \in -1 .. generation
                                 /\ entries[k].catalog \in 1 .. catalog
                                 /\ entries[k].setting \in 0 .. setting
  /\ order \in Seq(Key)
  /\ tracker \in {Unset} \cup Versions /\ total \in {Unset} \cup Versions
  /\ hook \in [Writer -> {"idle", "bump", "reset", "recount"}]

\* The map, the list and its length agree after any writes, refreshes and restarts:
\* every kept response can be evicted, nothing is evicted twice, the cap holds.
OrderListsEntries ==
  /\ ToSet(order) = {k \in Key : Cached(k)}
  /\ IsInjective(order)
  /\ Len(order) <= MaxEntries

Fresh(k) == Cached(k) /\ ~Stale(k)

\* A response that is not taken for stale was computed from the catalogue as of the
\* last invalidation or later, when its computation began in the current generation.
FreshUnlessOvertaken ==
  \A k \in Key : Fresh(k) /\ entries[k].began = generation
                   => entries[k].catalog >= floor.catalog

\* The same for every response, which is what getCached says: stale means "computed
\* in a generation older than the current one".
FreshIsOfThisGeneration == \A k \in Key : Fresh(k) => entries[k].catalog >= floor.catalog

Invalidating == \E w \in Writer : hook[w] \in {"bump", "reset"}

\* Once a writer's invalidation is over no computation uses an older setting, the
\* default that stands in for a setting that could not be read left aside.
TrackerCurrent == ~Invalidating /\ tracker \notin {Unset, Default} => tracker = setting

\* InvalidateCategoryCache "marks every cached category response stale and refreshes
\* the tracker setting": no fresh response of the generation has the older setting.
FreshUsesSetting ==
  ~Invalidating => \A k \in Key : Fresh(k) /\ entries[k].began = generation
                                    => entries[k].setting >= floor.setting

\* The totals are "refreshed once per parser run": with no recount left to run they
\* are those of the catalogue as of the last invalidation.
TotalsCurrent ==
  (/\ \A w \in Writer : hook[w] = "idle"
   /\ \A f \in Call : call[f] # Idle => call[f].for # Totals)
  => total = Unset \/ total >= floor.catalog
=============================================================================
