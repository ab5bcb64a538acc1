--------------------------- MODULE MCFloorControl ---------------------------
(* Instances of FloorControl for TLC.                                      *)
EXTENDS FloorControl, TLC

\* Connections are interchangeable; users are not (participant ids are ordered).
ConnSymmetry == Permutations(Conn)
\* Floor sets of messages. A request that names no floor is legal.
AllFloorSets == SUBSET Floor
BothFloors   == {Floor}

=============================================================================
