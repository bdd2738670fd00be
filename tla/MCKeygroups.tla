---------------------------- MODULE MCKeygroups ----------------------------
(* Keygroups with model values and the symmetries that are sound: clients    *)
(* are interchangeable.                                                      *)
EXTENDS Keygroups, TLC

ClientSymmetry == Permutations(Client)

============================================================================
