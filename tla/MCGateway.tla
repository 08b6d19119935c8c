------------------------------ MODULE MCGateway ------------------------------
(***************************************************************************)
(* A tenant with three requests that may run two at a time, on a budget    *)
(* that two may share.  One of them streams and names its max_tokens.      *)
(***************************************************************************)
EXTENDS Gateway

CONSTANTS free, r1, r2, r3

MCRequests == {r1, r2, r3}
MCTenantOf == [r \in MCRequests |-> free]
MCTierWeight == [t \in {free} |-> 1]
MCConfigs == {[window |-> FALSE, maxInflight |-> 1, fair |-> TRUE]}
MCMaxConcurrent == [t \in {free} |-> 2]
MCBudget == [t \in {free} |-> 2]
MCMaxTokens == [r \in MCRequests |-> IF r = r1 THEN 1 ELSE unset]
==============================================================================
