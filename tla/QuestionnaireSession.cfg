SPECIFICATION Spec
CONSTANTS
    q1 = q1
    q2 = q2
    Client = {c1, c2}
    Key = {k1, k2, k3, k4}
    Session = {s1}
    Question = {q1, q2}
    StageOf <- MCStageOf
    Required = {q1}
    LastStage = 2
    Value = {"empty", "x"}
    Empty = "empty"
    AnswerSet <- MCAnswerSet
    None = None
    MaxRevision = 4
    MaxSends = 4
    MaxAuditFailures = 1
SYMMETRY Symmetry
CHECK_DEADLOCK FALSE
INVARIANTS
    TrailComplete
    AppliedOnce
    AcksAreStable
    AnswersAreCurrent
    FindingsExplain
PROPERTIES
    NoBlindWrite
