\* One invocation (they share nothing but the bus and the channels, which change
\* at any time), every kind of tool and handler, two listeners, two channels.
CONSTANTS
  Calls = {c1}
  Handlers = {"auto", "default_safe", "cli", "telegram"}
  Listeners = {l1, l2}
  Channels = {console, telegram}
  Notify = Notify
SPECIFICATION BusSpec
INVARIANTS
  BusTypeOK
  GatedEffect
  AuditTellsTheTruth
  FailureReachesEveryChannel
  OnlyFailuresAreTold
CHECK_DEADLOCK FALSE
