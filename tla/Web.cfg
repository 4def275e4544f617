SPECIFICATION Spec
CONSTANTS
  p1 = p1
  c1 = c1
  Show = {s1, s2}
  Profile = {p1, p2}
  Card = {c1, c2}
  LastEpisode = 1
  Retries = 1
  LampaKeys <- SmallKeys
  WebIds <- SmallIds
  Members = {"genre_a", "genre_b"}
  Block = "collections_block"
  NewYear = "year_new"
  NewYearWeb = "movies_id_new"
  Old <- SmallRenames
  FirstOrder <- SmallOrders
  FirstHide <- SmallHides
  Key = {"a", "b", "c"}
  LastPage = 3
  Category = {"a", "b", "c"}
  Lists <- SmallRows
  NoRow = "no"
  Live = {"a"}
  AHEAD = 1
  View = {"a", "b"}
  AdminAsks = 2
  RowEvents = 2
  PageEvents = 2
  LibraryEvents = 2
  CarouselEvents = 1
  AdminEvents = 3
  RowMoves = 3
  PageMoves = 1
  LibraryMoves = 3
  CarouselMoves = 2
  MaxEdits = 3
  MaxChanges = 2
  Chosen = {"a", "b"}
  Code = {"c1", "c2"}
  MaxDevices = 2
  LinkAsks = 2
  SettingEvents = 2
  LinkEvents = 4
  MaxTime = 24
  Nobody = Nobody
INVARIANTS
  Types
  WebRowsComeTrue
  
  MenusKeepTheirOrder
  ListsFollowTheirKey
  SettingsComeTrue
CHECK_DEADLOCK FALSE
