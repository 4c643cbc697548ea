SPECIFICATION PageSpec
CONSTANTS
    alice = alice
    bob = bob
    Profile = {p1, p2}
    Actor = {alice, bob}
    Policy <- MCPolicy
    Viewer = bob
    Event = {e1, e2}
    MaxSequence = 2
    PastWindow = 0
    FutureWindow = 0
    MaxTime = 1
    MaxOpenings = 2
    MaxClicks = 2
    None = None
SYMMETRY Symmetry
CHECK_DEADLOCK FALSE
INVARIANTS
    LockedByQuorum
    StoresAgree
    ReportsAreSequential
PROPERTIES
    NothingUndone
    ClicksAreInformed
