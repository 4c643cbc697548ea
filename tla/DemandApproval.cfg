SPECIFICATION Spec
CONSTANTS
    alice = alice
    bob = bob
    carol = carol
    Demand = {d1}
    Approval = {a1, a2}
    Actor = {alice, bob, carol}
    Policy <- MCPolicy
    Source <- MCSource
    None = None
    MaxTime = 2
    MaxRevision = 6
SYMMETRY Symmetry
CHECK_DEADLOCK FALSE
INVARIANTS
    ApprovedByQuorum
    PendingAgrees
    QuorumReachable
    FindingsExplain
    TrailMatches
PROPERTIES
    DatabaseGuards
