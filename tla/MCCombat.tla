------------------------------ MODULE MCCombat ------------------------------
(* A small instance of Combat.                                             *)
EXTENDS Combat

Locations == 1..2
Starts    == {2}
Squads    == 1..3
=============================================================================
