----------------------------- MODULE MCFairQueue -----------------------------
(***************************************************************************)
(* Three tenants.  A free tenant (half a dispatch per turn), a paid one,   *)
(* and a third whose pushes carry either of two weights as two configured  *)
(* tenants of one id do; one of the weights earns more than a dispatch per *)
(* turn, so that a turn spans several pops.                                *)
(***************************************************************************)
EXTENDS FairQueue, TLC

CONSTANTS free, paid, mixed

MCKeys == {free, paid, mixed}

MCOffered == [k \in MCKeys |-> CASE k = free  -> {1}
                                 [] k = paid  -> {2}
                                 [] k = mixed -> {1, 3}]

\* Nothing tells requests apart but their place in a queue.
ItemSymmetry == Permutations(Items)
==============================================================================
