SPECIFICATION Spec
CONSTANTS
  Job = {1, 2, 3}
  Worker = {w1, w2}
  None = None
  Org <- MCOrg
  OrgOf <- MCOrgOf
  BindingOf <- MCBindingOf
  ProfileOf <- MCProfileOf
  ForeignWheel = {}
  LeaseSeconds = 3
  MaxAttempts = 3
  RetryDelays <- MCDelays
  MaxCreateTime = 0
  MaxLateness = 0
  MaxExtension = 1
  MaxFaults = 1
INVARIANTS TypeOK JobOperationAgree LeaseExclusive AttemptsExplained OutboxSequential ResultsResolve
PROPERTIES FencedWrites ImplementsLifecycle
SYMMETRY Symmetry
CHECK_DEADLOCK FALSE
