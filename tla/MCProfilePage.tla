--------------------------- MODULE MCProfilePage ---------------------------
\* Instances of ProfilePage for TLC.
EXTENDS ProfilePage, TLC

CONSTANTS alice, bob

\* Each reviews what the other asks for: the viewer can be either.
MCPolicy ==
    {[required |-> 1, reviewers |-> {bob}, expiresAt |-> 1],
     [required |-> 1, reviewers |-> {alice}, expiresAt |-> 1]}

Symmetry == Permutations(Profile) \union Permutations(Event)
=============================================================================
