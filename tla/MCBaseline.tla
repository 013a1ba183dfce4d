----------------------------- MODULE MCBaseline -----------------------------
(***************************************************************************)
(* Two files alike; nothing but safety is checked, so they are symmetric.  *)
(***************************************************************************)
EXTENDS Baseline, TLC

\* The cache right, wrong or empty, and the other two to match.
Some == {[cache |-> c, source |-> s, packed |-> "other"] :
           c \in {"orig", "other", "absent"}, s \in {"orig", "absent"}}

Perms == Permutations(Files)
=============================================================================
