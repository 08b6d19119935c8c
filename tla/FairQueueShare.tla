--------------------------- MODULE FairQueueShare ---------------------------
(***************************************************************************)
(* How fair FairQueue is.  Two history variables, read by nothing but the  *)
(* properties, follow each ordered pair of tenants:                        *)
(*   lead[t][u]      t's dispatches weighted by u's weight, minus u's      *)
(*                   dispatches weighted by t's, since both are backlogged *)
(*                   (in the rotation): 0 when each has had exactly the    *)
(*                   share its weight buys;                                *)
(*   overtaken[t][u] u's dispatches since t joined the rotation or was     *)
(*                   last served, whichever is later.                      *)
(***************************************************************************)
EXTENDS FairQueue

\* A tenant's weight is that of its tier, of which there are finitely many.
ASSUME ShareAssumption ==
    \A k \in Keys : \E w \in Offered[k] : \A x \in Offered[k] : x =< w

VARIABLES lead, overtaken

shareVars == <<vars, lead, overtaken>>

Backlogged(t) == t \in DOMAIN q.queues

StaysBacklogged(t) == Backlogged(t) /\ t \in DOMAIN q'.queues

WeightOf(t) == q.queues[t].weight

\* Who is dispatched by the step.
Served == IF pc = "popping" /\ q'.len < q.len THEN {Front(q)} ELSE {}

\* Dispatches of t by the step.
Gain(t) == IF t \in Served THEN 1 ELSE 0

Follow ==
    /\ lead' = [t \in Keys |-> [u \in Keys |->
          IF StaysBacklogged(t) /\ StaysBacklogged(u)
          THEN lead[t][u] + Gain(t) * WeightOf(u) - Gain(u) * WeightOf(t)
          ELSE 0]]
    /\ overtaken' = [t \in Keys |-> [u \in Keys |->
          IF StaysBacklogged(t) /\ t \notin Served THEN overtaken[t][u] + Gain(u) ELSE 0]]

ShareInit ==
    /\ Init
    /\ lead = [t \in Keys |-> [u \in Keys |-> 0]]
    /\ overtaken = [t \in Keys |-> [u \in Keys |-> 0]]

ShareNext == Next /\ Follow

ShareSpec == ShareInit /\ [][ShareNext]_shareVars /\ Fairness

------------------------------------------------------------------------------
(* Properties.                                                              *)

\* Backlogged tenants share dispatches in proportion to their weights: paid
\* gets 2 for each free one (fairqueue.rs:7-9).  Turns interleave, so over
\* any stretch two tenants' credits earned differ by at most one turn, and
\* each holds back less than one dispatch of credit.
ProportionalShare ==
    \A t, u \in Keys :
        t # u /\ Backlogged(t) /\ Backlogged(u) =>
            Unit * lead[t][u] =< WeightOf(t) * WeightOf(u)
                                 + (Unit - 1) * (WeightOf(t) + WeightOf(u))

CeilDiv(a, b) == (a + b - 1) \div b

HeaviestOffer(u) == CHOOSE w \in Offered[u] : \A x \in Offered[u] : x =< w

\* Between two services a tenant is passed at most once per turn it needs by
\* each other one, whatever their backlogs and however often they drain and
\* come back: with Unit credit per turn (paid), "at most one turn of each
\* other active tenant" (fairqueue.rs:11-13).
BoundedBypass ==
    \A t, u \in Keys :
        t # u /\ Backlogged(t) =>
            overtaken[t][u] =< CeilDiv(Unit, WeightOf(t))
                                 * ((Unit - 1 + HeaviestOffer(u)) \div Unit)
==============================================================================
