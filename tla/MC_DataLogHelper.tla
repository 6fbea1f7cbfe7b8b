------------------------- MODULE MC_DataLogHelper -------------------------
(***************************************************************************)
(* Two starts: the first sampling thread can close the log while the       *)
(* second one and the main thread write to it.                             *)
(***************************************************************************)
EXTENDS DataLogHelper
=============================================================================
