SPECIFICATION Spec
CONSTANTS
  Job = {1}
  Worker = {w1, w2}
  None = None
  Org <- MCOrg
  OrgOf <- MCOrgOf
  BindingOf <- MCBindingOf
  ProfileOf <- MCProfileOf
  ForeignWheel = {}
  LeaseSeconds = 3
  MaxAttempts = 3
  RetryDelays <- MCDelays
  MaxCreateTime = 0
  MaxLateness = 1
  MaxExtension = 1
  MaxFaults = 3
INVARIANT AttemptLimit
CHECK_DEADLOCK FALSE
