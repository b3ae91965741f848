---------------------------- MODULE MCMenuFlow ----------------------------
(* MenuFlow with the three levels of the source.                           *)
EXTENDS MenuFlow
===========================================================================
