SPECIFICATION FairSpec
CONSTANTS
  Show = {s1, s2}
  Fetch = {f1, f2}
  AtATime = 1
  Movie = {m1}
  Serial = {s1}
  Nobody = Nobody
  Id = {1}
  Profile = {p1, p2}
  LastGroup = 3
  LastNumber = 3
  Last = 1
  Retries = 1
  Attempts = 2
  s1 = s1
  p1 = p1
  MaxFailures = 1
  MaxImports = 2
  MaxSwitches = 1
  MaxAsks = 2
  MaxOpens = 1
  MaxUpdates = 2
  MaxMoves = 1
  ListEvents = 2
  CalendarEvents = 1
  PageEvents = 1
INVARIANTS
  Types
  AccountsStayApart
  DrawnIsWhole
PROPERTIES
  OldCardsStayOut
  LoadsEnd
CHECK_DEADLOCK FALSE
