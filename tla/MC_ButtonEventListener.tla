---------------------- MODULE MC_ButtonEventListener ----------------------
(***************************************************************************)
(* Three touches of the button: one that is under way, one that overtakes  *)
(* it and one after both.  The two .cfg files set the delays and say how   *)
(* punctual the looper and the user are.                                   *)
(***************************************************************************)
EXTENDS ButtonEventListener
=============================================================================
