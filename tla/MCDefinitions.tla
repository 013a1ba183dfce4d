--------------------------- MODULE MCDefinitions ---------------------------
(***************************************************************************)
(* A scan and a shield thread, two versions of which the second is longer, *)
(* and a ring of two buffers.                                              *)
(***************************************************************************)
EXTENDS Definitions

Lengths == <<1, 2>>
=============================================================================
