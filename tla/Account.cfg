SPECIFICATION Spec
CONSTANTS
  u1 = u1
  u2 = u2
  User = {u1, u2}
  Reachable = {u1, u2}
  Day = 3
  Zone <- Zones
  NotifyStart = 1
  NotifyEnd = 2
  TaskHour = 0
  Grant = 6
  Extension = 3
  Warn = 6
  InactiveWarn = 3
  MaxHours = 15
  MaxFaults = 1
  None = None
  Hazards = {}
INVARIANTS PremiumEndsInTime
PROPERTIES WarnedBeforeDemoted NoticeIsTrue DeletionJustified
CHECK_DEADLOCK FALSE
