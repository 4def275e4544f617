SPECIFICATION PartsSpec
CONSTANTS
  p1 = p1
  c1 = c1
  e1 = e1
  e2 = e2
  w1 = w1
  Profile = {p1}
  Card = {c1}
  Episode = {e1, e2}
  CardOf <- OneShow
  Worker = {w1}
  Paths = {"save", "status", "announce", "delete_card"}
  Reads = {"unwatched", "watched", "continues"}
  Events = {"restart"}
  TicksPerDay = 2
  Lag = 1
  MaxTicks = 2
SYMMETRY Symmetry
INVARIANTS UnwatchedSoundInParts WatchedSound ContinuesSound IndexCovers
