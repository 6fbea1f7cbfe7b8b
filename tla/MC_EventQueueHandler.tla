----------------------- MODULE MC_EventQueueHandler -----------------------
(***************************************************************************)
(* The event queue with a handful of pushes: enough for a push to meet the *)
(* handler in every position, with a backlog and after a stop.             *)
(***************************************************************************)
EXTENDS EventQueueHandler
=============================================================================
