SPECIFICATION Spec
CONSTANTS
    Operation = {o1, o2}
    Org = {"orgA", "orgB"}
    Key = {k1, k2}
    Demand = {d1}
    OrgOf <- MCOrgOf
    None = None
    MaxBatch = 2
    MaxDemandRevision = 2
    MaxAuditFailures = 1
SYMMETRY Symmetry
CHECK_DEADLOCK FALSE
INVARIANTS
    OutboxTellsRow
    ChainTellsAll
    TamperingShows
    JobsBound
