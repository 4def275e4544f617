SPECIFICATION FairSpec
CONSTANTS
  s1 = s1
  s2 = s2
  Spoke = {s1}
  Hub = hub
  Key = {1, 2, 3}
  Limit = 2
  Datasets = {"cards", "torrents"}
  Writers <- Everyone
  Hazards = {}
  MaxClock = 2
  MaxFaults = 1
INVARIANTS PulledCardsNothingSkipped
PROPERTIES SyncMintsNoCardStamp TorrentsConverge
