------------------------------- MODULE MCRooms -------------------------------
(* Rooms for TLC: nodes are interchangeable. *)
EXTENDS Rooms, TLC

Symmetry == Permutations(Node)
=============================================================================
