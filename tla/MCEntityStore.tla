--------------------------- MODULE MCEntityStore ---------------------------
(***************************************************************************)
(* EntityStore with few entities and versions that come round: cascades    *)
(* over handles of the living and of the dead.                             *)
(***************************************************************************)
EXTENDS EntityStore
=============================================================================
