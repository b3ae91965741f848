-------------------------- MODULE MCEventGenerator --------------------------
(* Two threads: either may push while the other registers, deregisters or  *)
(* pushes, or one may push from a callback of its own push.                *)
EXTENDS EventGenerator
=============================================================================
