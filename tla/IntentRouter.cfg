\* Two requests while the six tools are discovered; an LLM may name a seventh.
CONSTANTS
  Requests = {r1, r2}
  Names <- MCNames
  Discovery <- MCDiscovery
  Texts <- MCTexts
  None = None
SPECIFICATION Spec
INVARIANTS
  ResolvedIsCallable
  LlmIsTheLastResort
CHECK_DEADLOCK FALSE
