------------------------------ MODULE MCHosts ------------------------------
(* A blocklist of two domains with a comment between them. *)
EXTENDS Hosts

CONSTANTS d1, d2, note

MCLists == {<<d1, note, d2>>}

MCSymmetry == Permutations(Procs) \cup Permutations(Own)
=============================================================================
