-------------------------- MODULE MC_ProfileCaches --------------------------
(* One show of two episodes, in three parts that TLC runs side by side:    *)
(* what depends on the calendar, with restarts; what depends on the writes *)
(* alone, while the process stays up; and the reverse index, under the     *)
(* write paths, the kills and the failures that break soundness.           *)
EXTENDS ProfileCaches
CONSTANTS p1, c1, e1, e2, w1

OneShow == [e \in {e1, e2} |-> c1]

VARIABLE part

Indexing == INSTANCE ProfileCaches WITH
  Paths <- {"save_and_trim", "set", "delete_card", "release", "tvmaze", "backfill"},
  Reads <- {"unwatched"}, Events <- {"restart", "crash", "read_fails"},
  TicksPerDay <- 1, Lag <- 2, MaxTicks <- 0

Answered == IF part = "calendar" THEN {"unwatched"} ELSE {"watched", "continues"}

Within ==
  /\ \A k \in Kind \ Answered, p \in Profile : fill'[k][p] = NoFill
  /\ part = "writes" => disk' = disk /\ clock' <= Lag + 1

PartsInit ==
  \/ part \in {"calendar", "writes"} /\ Init
  \/ part = "index" /\ Indexing!Init

PartsNext ==
  \/ part \in {"calendar", "writes"} /\ Next /\ Within /\ UNCHANGED part
  \/ part = "index" /\ Indexing!Next /\ UNCHANGED part

PartsSpec == PartsInit /\ [][PartsNext]_<<vars, part>>

\* The episodes of the one show are interchangeable.
Symmetry == Permutations({e1, e2})

\* The types of either set of parameters.
Types == IF part = "index" THEN Indexing!TypeOK ELSE TypeOK

\* The list of unwatched shows is sound as ProfileCaches!UnwatchedSound says, in
\* the part with the calendar: the write paths of the index part break it.
UnwatchedSoundInParts == part = "calendar" => UnwatchedSound
=============================================================================
