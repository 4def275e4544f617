----------------------------- MODULE TrackerScan -----------------------------
(***************************************************************************)
(* One tracker's scan: categories read in parallel, page by page from the  *)
(* newest row, down to a cutoff that lies some days before the end of the  *)
(* previous scan.  With it the run slot and the stop switch that all the   *)
(* trackers share, and the tracker itself, which goes on posting rows      *)
(* while it is read.                                                       *)
(*                                                                         *)
(* Abstractions.  Time is in ticks, TicksPerDay to a day.  A row's date is *)
(* the day it was posted on, as the listings print it.  The other trackers *)
(* of a run are time that passes, a row's title and quality are left out,  *)
(* and a TMDB lookup has one of two outcomes.                              *)
(***************************************************************************)
EXTENDS Integers, Sequences, FiniteSets, SequencesExt

CONSTANTS
  Category,     \* the categories of the tracker
  Torrent,      \* rows that may get posted
  PageSize,     \* rows on a page of a listing
  OverlapDays,  \* parser_overlap_days
  TicksPerDay,
  MaxTicks,     \* bound: ticks of the clock
  Hazards       \* what may go wrong, of HazardKinds

\* "down": the tracker answers nothing for a whole scan; "fetch fails": one page, after
\* all its retries; "slow": a scan may outlast the overlap; "removed": rows disappear.
HazardKinds == {"down", "fetch fails", "slow", "removed", "stop", "crash", "reset"}

VARIABLES
  clock,
  posted,      \* the tick a row was posted at, or Never
  listing,     \* listing[c]: the rows of category c, the newest one last
  status,      \* what the table "torrents" has of a row
  lastParsed,  \* {tracker}_last_parsed_at, or Never
  run,         \* runActive and where the run is
  stop,        \* stopRequest
  scan,        \* the scan's cutoff, and when it began
  reading,     \* reading[c]: the next page, the rows being enriched, whether it is over
  processed    \* whether the scan's "processed" counter has moved

vars == <<clock, posted, listing, status, lastParsed, run, stop, scan, reading, processed>>

Never == -1
Overlap == OverlapDays * TicksPerDay
DayOf(tick) == tick - (tick % TicksPerDay)
Date(t) == DayOf(posted[t])
Posted(t) == posted[t] # Never

\* Mutant: the cutoff's own day counts as read.
BeforeOrOn(t, cutoff) == Date(t) <= cutoff

\* The days before a cutoff are not read again.
Before(t, cutoff) == Date(t) < cutoff

CutoffOf(parsed) == IF parsed = Never THEN -Overlap ELSE parsed - Overlap

Idle == [page |-> 0, jobs |-> {}, over |-> TRUE]

Init ==
  /\ clock = 0
  /\ posted = [t \in Torrent |-> Never]
  /\ listing = [c \in Category |-> <<>>]
  /\ status = [t \in Torrent |-> "unknown"]
  /\ lastParsed = Never
  /\ run = "idle"
  /\ stop = FALSE
  /\ scan = [cutoff |-> -Overlap, began |-> 0, down |-> FALSE]
  /\ reading = [c \in Category |-> Idle]
  /\ processed = FALSE

-----------------------------------------------------------------------------
(***************************************************************************)
(* The tracker and the clock                                               *)
(***************************************************************************)
scanState == <<lastParsed, run, stop, scan, reading, processed>>

Post(c, t) ==
  /\ ~Posted(t)
  /\ posted' = [posted EXCEPT ![t] = clock]
  /\ listing' = [listing EXCEPT ![c] = Append(@, t)]
  /\ UNCHANGED <<clock, status, scanState>>

Withdraw(c, t) ==
  /\ "removed" \in Hazards /\ Contains(listing[c], t)
  /\ listing' = [listing EXCEPT ![c] = SelectSeq(@, LAMBDA u : u # t)]
  /\ UNCHANGED <<clock, posted, status, scanState>>

\* Unless scans may be slow, one ends before the day it began on leaves the overlap.
Tick ==
  /\ clock < MaxTicks
  /\ run = "scanning" /\ "slow" \notin Hazards => clock + 1 - Overlap <= DayOf(scan.began)
  /\ clock' = clock + 1
  /\ UNCHANGED <<posted, listing, status, scanState>>

-----------------------------------------------------------------------------
(***************************************************************************)
(* The run                                                                 *)
(***************************************************************************)
table == <<clock, posted, listing, status>>

\* RunAll wins the slot; the stop switch is reset after that.
ClaimRun ==
  /\ run = "idle"
  /\ run' = "claimed"
  /\ UNCHANGED <<table, lastParsed, stop, scan, reading, processed>>

ResetStop ==
  /\ run = "claimed"
  /\ stop' = FALSE
  /\ run' = "started"
  /\ UNCHANGED <<table, lastParsed, scan, reading, processed>>

\* RunAll's loop stops before this tracker.
SkipTracker ==
  /\ run = "started" /\ stop
  /\ run' = "idle"
  /\ UNCHANGED <<table, lastParsed, stop, scan, reading, processed>>

\* Mutant: the overlap is forgotten.
StartScanNoOverlap ==
  /\ run = "started" /\ ~stop
  /\ run' = "scanning"
  /\ scan' = [cutoff |-> lastParsed, began |-> clock, down |-> FALSE]
  /\ reading' = [c \in Category |-> [page |-> 0, jobs |-> {}, over |-> FALSE]]
  /\ processed' = FALSE
  /\ UNCHANGED <<table, lastParsed, stop>>

\* Parse begins: scanCutoff, and every category at its first page.
StartScan ==
  /\ run = "started" /\ ~stop
  /\ run' = "scanning"
  /\ \E down \in BOOLEAN :
       /\ down => "down" \in Hazards
       /\ scan' = [cutoff |-> CutoffOf(lastParsed), began |-> clock, down |-> down]
  /\ reading' = [c \in Category |-> [page |-> 0, jobs |-> {}, over |-> FALSE]]
  /\ processed' = FALSE
  /\ UNCHANGED <<table, lastParsed, stop>>

\* How many rows of a listing, the oldest ones, no page before "page" shows, and the rows
\* on the page itself.
Unshown(c, page) == Len(listing[c]) - page * PageSize

Page(c, page) ==
  {listing[c][i] : i \in {j \in 1 .. Len(listing[c]) :
                            Unshown(c, page) - PageSize < j /\ j <= Unshown(c, page)}}

Reads(c) == run = "scanning" /\ ~reading[c].over /\ reading[c].jobs = {}

\* A page of the listing of now.  The rows from the first one before the cutoff on are
\* left out and end the category, as does a page with too few rows; of the others those
\* without a card go to Enrich.
FetchPage(c) ==
  /\ Reads(c) /\ ~stop /\ ~scan.down
  /\ LET rows == Page(c, reading[c].page)
         new  == {t \in rows : ~Before(t, scan.cutoff)}
     IN /\ reading' = [reading EXCEPT ![c] =
              [page |-> reading[c].page + 1,
               jobs |-> {t \in new : status[t] # "matched"},
               over |-> new # rows \/ Unshown(c, reading[c].page) < PageSize]]
        /\ processed' = (processed \/ new # {})
  /\ UNCHANGED <<table, lastParsed, run, stop, scan>>

\* The category ends early: a stop, or a page that all retries failed to get.
EndCategory(c) ==
  /\ Reads(c)
  /\ stop \/ scan.down \/ "fetch fails" \in Hazards
  /\ reading' = [reading EXCEPT ![c].over = TRUE]
  /\ UNCHANGED <<table, lastParsed, run, stop, scan, processed>>

\* Enrich finds a card for the row or does not; either way the row is stored.
Enrich(c, t) ==
  /\ run = "scanning" /\ t \in reading[c].jobs
  /\ \E outcome \in {"matched", "unmatched"} : status' = [status EXCEPT ![t] = outcome]
  /\ reading' = [reading EXCEPT ![c].jobs = reading[c].jobs \ {t}]
  /\ UNCHANGED <<clock, posted, listing, lastParsed, run, stop, scan, processed>>

AllRead == \A c \in Category : reading[c].over /\ reading[c].jobs = {}

\* commitScan, and the run is over.
commitScan ==
  /\ run = "scanning" /\ AllRead
  /\ lastParsed' = IF processed THEN clock ELSE lastParsed
  /\ run' = "idle"
  /\ UNCHANGED <<table, stop, scan, reading, processed>>

-----------------------------------------------------------------------------
(***************************************************************************)
(* The administrator, and the process                                      *)
(***************************************************************************)
RequestStop ==
  /\ "stop" \in Hazards /\ run # "idle" /\ ~stop
  /\ stop' = TRUE
  /\ UNCHANGED <<table, lastParsed, run, scan, reading, processed>>

\* The next scan is to be a full one.
ResetLastParsed ==
  /\ "reset" \in Hazards /\ lastParsed # Never
  /\ lastParsed' = Never
  /\ UNCHANGED <<table, run, stop, scan, reading, processed>>

Crash ==
  /\ "crash" \in Hazards
  /\ run' = "idle" /\ stop' = FALSE
  /\ reading' = [c \in Category |-> Idle]
  /\ processed' = FALSE
  /\ UNCHANGED <<table, lastParsed, scan>>

-----------------------------------------------------------------------------
Scanning ==
  \/ ClaimRun \/ ResetStop \/ SkipTracker \/ StartScan \/ commitScan
  \/ \E c \in Category : FetchPage(c) \/ EndCategory(c) \/ \E t \in Torrent : Enrich(c, t)

Next ==
  \/ Scanning \/ Tick \/ RequestStop \/ ResetLastParsed \/ Crash
  \/ \E c \in Category, t \in Torrent : Post(c, t) \/ Withdraw(c, t)

Spec == Init /\ [][Next]_vars

\* The scheduler starts a run after every run, and a run goes on.
FairSpec == Spec /\ WF_vars(Scanning)

-----------------------------------------------------------------------------
(***************************************************************************)
(* Properties                                                              *)
(***************************************************************************)
TypeOK ==
  /\ clock \in 0 .. MaxTicks
  /\ posted \in [Torrent -> Never .. clock]
  /\ listing \in [Category -> Seq(Torrent)]
  /\ status \in [Torrent -> {"unknown", "unmatched", "matched"}]
  /\ lastParsed \in Never .. clock
  /\ run \in {"idle", "claimed", "started", "scanning"}
  /\ stop \in BOOLEAN /\ processed \in BOOLEAN
  /\ scan \in [cutoff : -Overlap .. clock - Overlap, began : 0 .. clock, down : BOOLEAN]
  /\ reading \in [Category -> [page : Nat, jobs : SUBSET Torrent, over : BOOLEAN]]

Listed == UNION {ToSet(listing[c]) : c \in Category}

\* No row is left behind: what the next scan's cutoff excludes has been read.
NothingMissed ==
  lastParsed # Never =>
    \A t \in Listed : Before(t, CutoffOf(lastParsed)) => status[t] # "unknown"

\* Every row on the tracker gets read in the end.
EveryRowIsRead == \A t \in Torrent : Posted(t) ~> status[t] # "unknown"

\* "RequestStop asks a running RunAll to stop": a stop that a run accepted is in force
\* until that run ends.
StopIsKept == [][stop /\ run # "idle" /\ run' # "idle" => stop']_vars

\* A scan that ends never puts rows posted since it began out of reach, whatever part
\* of it failed or was stopped: that is what the overlap is for.
CommitKeepsNewRows ==
  [][lastParsed' \notin {lastParsed, Never} =>
       \A t \in Torrent : posted[t] >= scan.began => ~Before(t, CutoffOf(lastParsed'))]_vars
=============================================================================
