-------------------------- MODULE MCOperationStore --------------------------
\* Instances of OperationStore for TLC.
EXTENDS OperationStore

\* The first organization has the demand; the other has operations to build
\* bundles only.
MCOrgOf == [d \in Demand |-> "orgA"]

Symmetry == Permutations(Operation) \union Permutations(Key)
=============================================================================
