\* Two runs of one template with different parameters.
CONSTANTS
  None = None
  Values = {"a", "b"}
  Runs = {r1, r2}
  Templates = {t1}
  Declared = {}
  Definitions <- OneDefinition
  StepLists = {}
  Inputs <- TwoValues
SPECIFICATION Spec
INVARIANT EveryRunRunsItsOwn
