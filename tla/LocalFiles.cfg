\* Three calls on one file of at most two rows or pages at first.
CONSTANTS
  c1 = c1
  c2 = c2
  c3 = c3
  Absent = Absent
  Torn = Torn
  Nothing = Nothing
  Calls = {c1, c2, c3}
  Ops <- MCOps
  MaxUnits = 2
SYMMETRY Symmetric
SPECIFICATION Spec
INVARIANTS
  SavedIsKept
  RangeIsHonest
  TornOnlyByMishap
CHECK_DEADLOCK FALSE
