\* Two runs of anything, two templates and a declared pipeline.
CONSTANTS
  None = None
  Values = {"a", "b"}
  Runs = {r1, r2}
  Templates = {t1, t2}
  Declared = {p1}
  Definitions <- TwoDefinitions
  StepLists <- TwoLists
  Inputs <- TwoInputs
SYMMETRY RunSymmetry
SPECIFICATION Spec
INVARIANTS
  TypeOK
  PrefixOfOnePipeline
  ReferencesResolved
  NoHandlerNoEffect
  AloneRunsOwn
