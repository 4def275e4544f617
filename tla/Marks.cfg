SPECIFICATION Spec
CONSTANTS
  Profile = {p1, p2}
  Episode = {e1, e2}
  First = e1
  Slot = {s1, s2, s3}
  None = None
  Free = Free
  MaxEvents = 2
SYMMETRY Symmetry
INVARIANTS MarksAreViewed ListHidesOnlyMarked SavedListsStayOwn
