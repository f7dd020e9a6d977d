--------------------------- MODULE MCGrimoireBag ---------------------------
(* The instances of MCGrimoire, with the token bag's deal. *)
EXTENDS MCGrimoire, GrimoireBag
=============================================================================
