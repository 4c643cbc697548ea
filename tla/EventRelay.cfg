SPECIFICATION RelayFairSpec
CONSTANTS
  Job = {1, 2}
  Worker = {w1, w2}
  None = None
  Org = {"orgA"}
  OrgOf <- MCOrgOf
  BindingOf <- MCBindingOf
  ProfileOf <- MCProfileOf
  ForeignWheel = {2}
  LeaseSeconds = 2
  MaxAttempts = 2
  RetryDelays <- MCDelays
  MaxCreateTime = 0
  MaxLateness = 1
  MaxExtension = 1
  MaxFaults = 1
INVARIANTS InboxIsPrefix RelayNeverBlocked
PROPERTIES EventsDelivered JobsSettle
CHECK_DEADLOCK FALSE
