\* Two calls in two processes, one of which may die once; two tokens can be minted
\* beside the one in the file, so that both calls may refresh at the same time.
CONSTANTS
  c1 = c1
  c2 = c2
  t1 = t1
  t2 = t2
  t3 = t3
  Consent = Consent
  Absent = Absent
  Torn = Torn
  None = None
  Calls = {c1, c2}
  Processes = {p1, p2}
  Tools <- MCTools
  Tokens = {t1, t2, t3}
  MayCrash = {p1}
SYMMETRY Symmetric
SPECIFICATION Spec
INVARIANTS
  TypeOK
  ReportedIsDone
PROPERTIES
  IsRewrittenInPlace
  LoadedOncePerRun
CHECK_DEADLOCK FALSE
