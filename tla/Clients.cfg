SPECIFICATION Spec
CONSTANTS
  Shows = {s1, s2}
  Profile = {p1, p2}
  Episode = {"e"}
  Nobody = Nobody
  Cards = {c1, c2}
  Hash = {"h"}
  RowShow = {s1}
  Most = 2
  Depth = 2
  Tries = 1
  Poster = {"c1", "c2", "c3"}
  Foreign = {"c3"}
  Url = {"u1", "u2"}
  NoUrl = "no"
  Limit = 1
  Places = 3
  LastId = 3
  Work <- SmallWorks
  Catalog <- SmallCatalog
  CachedLists <- SmallLists
  Latin = {"it", "healer", "one", "two"}
  Han = {"han"}
  LineJobs = 2
  ProfileLoads = 2
  RosterAsks = 2
  Chains = 2
  LineEvents = 3
  ProfileEvents = 3
  BadgeEvents = 3
  StatusEvents = 2
  BadgeMoves = 3
  StatusMoves = 3
  BackgroundMoves = 4
  InfoMoves = 3
  RosterMoves = 4
  MatchMoves = 4
INVARIANTS
  Types
  LineShowsItsOwn
  ProfilesStayApart
  PlayerComesTrue
  StartPageFollows
  MatchesAreOwn
CHECK_DEADLOCK FALSE
