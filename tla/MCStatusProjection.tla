------------------------ MODULE MCStatusProjection ------------------------
\* Instances of StatusProjection for TLC.
EXTENDS StatusProjection, TLC

CONSTANTS gateway, model, runtime, knowledge

\* Two harnesses, each in a plane of its own.
MCPlaneOf == (gateway :> runtime) @@ (model :> knowledge)

Row(selection, installation, required, other) ==
    [selection |-> selection, installation |-> installation,
     required |-> required, other |-> other]
Healthy  == Row("SELECTED", "READY", {"PASS"}, {"NOT_APPLICABLE"})
Warned   == Row("SELECTED", "READY", {"PASS", "WAIVED"}, {"MISSING"})
Failing  == Row("SELECTED", "READY", {"FAIL", "PASS"}, {"PASS"})
Revoked  == Row("SELECTED", "REVOKED", {"FAIL"}, {"PASS"})
Unwanted == Row("NOT_SELECTED", "REVOKED", {"MISSING"}, {"NOT_APPLICABLE"})

\* A snapshot whose parts are fresh for different times: the overview until u,
\* the harnesses until v, the planes from a to b; and the freshness it claims.
Shot(binding, g, m, u, v, a, b, claim) ==
    LET window(until) ==
          [from |-> 0, until |-> until, lost |-> claim = "SOURCE_UNAVAILABLE"]
    IN [binding |-> binding,
        facts |-> (gateway :> g) @@ (model :> m),
        window |-> [part \in Plane |-> [from |-> a, until |-> b, lost |-> FALSE]]
                     @@ [part \in Harness |-> window(v)] @@ (Overview :> window(u)),
        claimed |-> [part \in Harness \union {Overview} |-> claim]]

MCSnapshot ==
    {Shot("b1", Healthy, Healthy, 1, 2, 0, 2, "CURRENT"),
     Shot("b1", Healthy, Unwanted, 3, 3, 1, 2, "CURRENT"),
     Shot("b1", Warned, Healthy, 2, 1, 0, 3, "CURRENT"),
     Shot("b1", Failing, Healthy, 1, 1, 0, 1, "SOURCE_UNAVAILABLE"),
     Shot("b2", Healthy, Revoked, 1, 1, 0, 3, "STALE")}

Symmetry == Permutations(Org) \union Permutations(Source) \union Permutations(Event)
=============================================================================
