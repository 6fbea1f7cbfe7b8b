---------------------------- MODULE MC_OmxVideo -----------------------------
(***************************************************************************)
(* One buffer to a port, and a few commands.                               *)
(***************************************************************************)
EXTENDS OmxVideo
=============================================================================
