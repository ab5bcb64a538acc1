------------------------ MODULE MCFloorControlSteps ------------------------
(* Instances of FloorControlSteps for TLC.                                 *)
EXTENDS FloorControlSteps

\* Floor sets of messages.
AllFloorSets == SUBSET Floor
BothFloors   == {Floor}
=============================================================================
