------------------------ MODULE MC_TimeBackCompute ------------------------
(***************************************************************************)
(* A ring of four cells, filled twice and then some: reads before the ring *)
(* is full, while it wraps and after it has wrapped, and a stop anywhere.  *)
(***************************************************************************)
EXTENDS TimeBackCompute
=============================================================================
