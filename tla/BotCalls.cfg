\* Two calls share the handler; two taps race on the first message, and the
\* handling of one of them may fail; nobody taps on the second.  The
\* pool has a thread for each of the calls, or one for both.
CONSTANTS
  c1 = c1
  c2 = c2
  NoTap = NoTap
  Calls = {c1, c2}
  Handlers = {"telegram"}
  Taps <- TwoTaps
  Unreliable <- FirstTap
  PoolSizes = {1, 2}
SPECIFICATION BotFairSpec
INVARIANTS
  BotTypeOK
  AnswerIsATapOnIt
  NothingLeftPending
PROPERTIES
  EveryCommandEnds
  TapsEndIt
CHECK_DEADLOCK FALSE
