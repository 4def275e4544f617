SPECIFICATION Spec
CONSTANTS
  s1 = s1
  s2 = s2
  Spoke = {s1}
  Hub = hub
  Key = {1, 2}
  Limit = 1
  Datasets = {"cards", "events"}
  Writers <- Everyone
  Hazards = {"tear", "delete", "late"}
  MaxClock = 2
  MaxFaults = 1
INVARIANTS EventsHaveCards
