SPECIFICATION Spec
CONSTANTS
    gateway = gateway
    model = model
    runtime = runtime
    knowledge = knowledge
    Org = {o1, o2}
    Source = {s1, s2}
    Event = {e1, e2, e3}
    Harness = {gateway, model}
    Plane = {runtime, knowledge}
    PlaneOf <- MCPlaneOf
    Binding = {"b1", "b2"}
    Snapshot <- MCSnapshot
    MaxSequence = 2
    MaxTime = 2
    None = None
SYMMETRY Symmetry
CHECK_DEADLOCK FALSE
INVARIANTS
    ReplaysAreAnswered
