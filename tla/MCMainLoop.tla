---------------------------- MODULE MCMainLoop ----------------------------
(* MainLoop with two kinds of messages besides closing the window.         *)
EXTENDS MainLoop

MCChatter == {"MOVE", "RESIZE"}
===========================================================================
