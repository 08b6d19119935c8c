----------------------------- MODULE MCFairShare -----------------------------
(***************************************************************************)
(* The tenants of MCFairQueue, with a deeper queue: shares show only once  *)
(* two tenants stay backlogged over several rotations.                     *)
(***************************************************************************)
EXTENDS MCFairQueue, FairQueueShare
==============================================================================
