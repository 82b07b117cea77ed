-------------------------------- MODULE MCGroup --------------------------------
(* Group with two users and two attribute values, each symmetric in itself,*)
(* and two incarnations of the group.                                      *)
EXTENDS Group, TLC

Symmetry == Permutations(Users) \cup Permutations(Attrs)
===============================================================================
