\* Two callers that update, add and delete; up to two rows.
CONSTANTS
  None = None
  Callers = {c1, c2}
  Values = {"a", "b", "empty"}
  Empty = "empty"
  Patches <- SomePatches
  MaxAdds = 2
SYMMETRY CallerSymmetry
SPECIFICATION Spec
INVARIANTS
  TypeOK
  NothingLostAlone
  WritesWhatItRead
PROPERTY DeletedForGood
