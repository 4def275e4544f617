--------------------------- MODULE MC_ServerJobs ---------------------------
(***************************************************************************)
(* What the server does by itself, next to the requests it answers: the    *)
(* scans of a tracker, the cache of category responses that they (and      *)
(* administrators) invalidate, and the periodic check that announces       *)
(* episodes.  In the model they share no state; each run lets one of them  *)
(* move and the others rest.                                               *)
(***************************************************************************)
EXTENDS EpisodePush, TLC

CONSTANTS
  Category, Torrent, PageSize, OverlapDays, TicksPerDay, MaxTicks,
  ScanHazards,                            \* of Scan!HazardKinds
  Key, Call, Writer, MaxEntries,
  Events,                                 \* of Cache!EventKinds
  MaxWrites

VARIABLES
  clock, posted, listing, status, lastParsed, run, stop, scan, reading, processed,
  catalog, setting, generation, entries, order, tracker, total, call, hook, disk, floor,
  part                                    \* of SafeSpec: what moves

Scan == INSTANCE TrackerScan WITH Hazards <- ScanHazards

Cache == INSTANCE CategoryCache

ASSUME ScanAssumption ==
  /\ PageSize \in Nat \ {0} /\ OverlapDays \in Nat \ {0}
  /\ TicksPerDay \in Nat \ {0} /\ MaxTicks \in Nat
  /\ ScanHazards \subseteq Scan!HazardKinds

ASSUME CacheAssumption ==
  /\ IsFiniteSet(Key)
  /\ MaxEntries \in Nat \ {0} /\ MaxWrites \in Nat
  /\ Events \subseteq Cache!EventKinds

-----------------------------------------------------------------------------
(* The runs *)

scanVars == <<clock, posted, listing, status, lastParsed, run, stop, scan, reading, processed>>

cacheVars ==
  <<catalog, setting, generation, entries, order, tracker, total, call, hook, disk, floor>>

all == <<vars, scanVars, cacheVars, part>>

Rest == Init /\ Scan!Init /\ Cache!Init

PushNext == Next /\ UNCHANGED <<scanVars, cacheVars, part>>

PushInit == Rest /\ part = "push"

PushSpec ==
  /\ PushInit /\ [][PushNext]_all
  /\ WF_vars(RunPushNotifyCheck) /\ WF_vars(SeedNotifiedEpisodes)

ScanNext == Scan!Next /\ UNCHANGED <<vars, cacheVars, part>>

ScanInit == Rest /\ part = "scan"

ScanSpec == ScanInit /\ [][ScanNext]_all /\ WF_scanVars(Scan!Scanning)

\* The cache in two halves: writers that overlap, next to restarts; and recounts and
\* settings that cannot be read, around one write.
Within ==
  IF part = "writers" THEN /\ \A f \in Call : call'[f] # Cache!Idle => call'[f].for # Cache!Totals
                           /\ tracker' # Cache!Default
  ELSE catalog' + setting' <= 3

CacheNext == Cache!Next /\ Within /\ UNCHANGED <<vars, scanVars, part>>

SafeNext ==
  \/ part = "scan" /\ ScanNext
  \/ part # "scan" /\ CacheNext

SafeInit == Rest /\ part \in {"scan", "writers", "failures"}

SafeSpec == SafeInit /\ [][SafeNext]_all

-----------------------------------------------------------------------------
(* Properties of the parts *)

\* No row is left behind: what the next scan's cutoff excludes has been read.
NothingMissed == Scan!NothingMissed

\* Every row on the tracker gets read in the end.
EveryRowIsRead == Scan!EveryRowIsRead

\* A scan that ends never puts rows posted since it began out of reach, whatever part
\* of it failed or was stopped: that is what the overlap is for.
CommitKeepsNewRows == Scan!CommitKeepsNewRows

\* A response that is not taken for stale was computed from the catalogue as of the
\* last invalidation or later, when its computation began in the current generation.
FreshUnlessOvertaken == Cache!FreshUnlessOvertaken

\* Once a writer's invalidation is over no computation uses an older setting, the
\* default that stands in for a setting that could not be read left aside.
TrackerCurrent == Cache!TrackerCurrent

-----------------------------------------------------------------------------
(* The values of the small instances *)

CONSTANTS b1, b2, p1, p2, e1, e2, s1, k1, k2, c1, c2, w1, w2

ShowOfAll == [e \in Episode |-> s1]

\* k1 and k2 are the keys and the rows, c1 and c2 the computations and the categories.
Symmetry == Permutations({k1, k2}) \cup Permutations({c1, c2}) \cup Permutations({w1, w2})
=============================================================================
