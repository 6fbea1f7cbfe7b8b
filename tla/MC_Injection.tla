---------------------------- MODULE MC_Injection ----------------------------
(***************************************************************************)
(* Four events: a stroke around or next to a gesture, two gestures in a    *)
(* row, and a stop or a loss anywhere among them.                          *)
(***************************************************************************)
EXTENDS Injection
=============================================================================
