SPECIFICATION SafeSpec
CONSTANTS
  b1 = b1
  b2 = b2
  p1 = p1
  p2 = p2
  e1 = e1
  e2 = e2
  s1 = s1
  k1 = k1
  k2 = k2
  c1 = c1
  c2 = c2
  w1 = w1
  w2 = w2
  Browser = {b1, b2}
  Profile = {p1, p2}
  Show = {s1}
  Episode = {e1}
  ShowOf <- ShowOfAll
  Delay = 1
  MaxAge = 1
  MaxDay = 1
  MaxFaults = 1
  MaxSeeds = 1
  None = None
  Hazards = {}
  OverlapDays = 1
  TicksPerDay = 2
  MaxTicks = 3
  Key = {k1, k2}
  Call = {c1, c2}
  Writer = {w1, w2}
  MaxEntries = 1
  MaxWrites = 2
  Events = {"settings", "restart", "response fails", "setting unread", "totals"}
  Category = {c1, c2}
  Torrent = {k1, k2}
  PageSize = 1
  ScanHazards = {"down", "fetch fails", "removed", "stop", "crash", "reset"}
SYMMETRY Symmetry
INVARIANTS FreshUnlessOvertaken TrackerCurrent
PROPERTIES CommitKeepsNewRows
