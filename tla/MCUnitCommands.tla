---------------------------- MODULE MCUnitCommands ----------------------------
(* An instance of UnitCommands: three keys, of which two can be grouped.   *)
EXTENDS UnitCommands, TLC

MCKey       == 1..3
MCGroupable == {1, 3}
Symmetry    == Permutations(Unit)
=============================================================================
