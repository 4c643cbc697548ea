--------------------------- MODULE MCAuthSession ---------------------------
\* Instances of AuthSession for TLC.
EXTENDS AuthSession, TLC

Symmetry == Permutations(Attempt) \union Permutations(Token) \union Permutations(Session)
=============================================================================
