----------------------------- MODULE MCVirtualSD -----------------------------
(* Small instances of the print job engine. *)
EXTENDS VirtualSD, TLC

ClientSymmetry == Permutations(Client)
==============================================================================
