---------------------------- MODULE MCTenantQuota ----------------------------
(***************************************************************************)
(* Handlers of one tenant: nothing tells them apart but where they are.    *)
(***************************************************************************)
EXTENDS TenantQuota, TLC

HandlerSymmetry == Permutations(Handlers)
==============================================================================
