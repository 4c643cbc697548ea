------------------------- MODULE MCCompilationStore -------------------------
(* Instances of CompilationStore for TLC.                                   *)
EXTENDS CompilationStore, TLC

\* Jobs 1 and 2 belong to one organization and share a binding, but were given
\* different inputs, which compile to different profiles; job 3, where present,
\* has the same binding in another organization and compiles to what job 2 does.
MCOrgOf     == [j \in Job |-> IF j = 3 THEN "orgB" ELSE "orgA"]
MCBindingOf == [j \in Job |-> "binding1"]
MCProfileOf == [j \in Job |-> IF j = 1 THEN "profile1" ELSE "profile2"]
MCOrg       == {MCOrgOf[j] : j \in Job}
MCDelays    == [a \in 1..(MaxAttempts - 1) |-> a]
Symmetry    == Permutations(Worker)
=============================================================================
