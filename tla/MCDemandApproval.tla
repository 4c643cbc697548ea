-------------------------- MODULE MCDemandApproval --------------------------
\* Instances of DemandApproval for TLC.
EXTENDS DemandApproval, TLC

CONSTANTS alice, bob, carol

Reviewed(disposition, required, reviewers, expiresAt) ==
    [disposition |-> disposition, required |-> required,
     reviewers |-> reviewers, expiresAt |-> expiresAt]

\* Two reviewers of whom both, or one, must approve; a quorum nobody can reach;
\* and an outage.
MCPolicy ==
    {Reviewed("ADMITTED", 2, {bob, carol}, 2),
     Reviewed("ADMITTED", 1, {bob, carol}, 1),
     Reviewed("ADMITTED", 2, {carol}, 2),
     Reviewed("UNAVAILABLE", 0, {}, 0)}

Good == [available |-> TRUE, matches |-> TRUE, ready |-> TRUE, pass |-> TRUE,
         attested |-> TRUE, readinessExpiresAt |-> 2, ownerApproved |-> TRUE,
         ownerApprovalExpiresAt |-> 1]

MCSource ==
    {Good, [Good EXCEPT !.available = FALSE], [Good EXCEPT !.ownerApprovalExpiresAt = 9],
     [Good EXCEPT !.pass = FALSE, !.attested = FALSE]}

Symmetry == Permutations(Approval)
=============================================================================
