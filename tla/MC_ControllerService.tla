----------------------- MODULE MC_ControllerService -----------------------
(***************************************************************************)
(* Two starts and two touches: a stop or a restart between them, with work *)
(* of the first left over while the second is on the screen.               *)
(***************************************************************************)
EXTENDS ControllerService
=============================================================================
