---------------------------- MODULE MCEventRelay ----------------------------
(* Instances of EventRelay for TLC.                                         *)
EXTENDS EventRelay

MCOrgOf     == [j \in Job |-> "orgA"]
MCBindingOf == [j \in Job |-> "binding1"]
MCProfileOf == [j \in Job |-> "profile1"]
MCDelays    == [a \in 1..(MaxAttempts - 1) |-> a]
=============================================================================
