----------------------------- MODULE MC_Volume -----------------------------
(***************************************************************************)
(* A volume whose disks have up to two partitions, one more than mountVol  *)
(* has room for: behind it the stack holds a device of another disk.       *)
(***************************************************************************)
EXTENDS Volume
=============================================================================
