-------------------------- MODULE MC_MouseManager --------------------------
(***************************************************************************)
(* A screen of three by three places, batches of two samples, two starts,  *)
(* three locks pending at once.  The samples let the cursor step, jump     *)
(* over a border and stand still.                                          *)
(***************************************************************************)
EXTENDS MouseManager

MCSamples == {-2, 0, 1}
=============================================================================
