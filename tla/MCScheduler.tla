----------------------------- MODULE MCScheduler -----------------------------
(***************************************************************************)
(* A free and a paid tenant, three requests of which two share a tenant,   *)
(* a queue with room for two of them.                                      *)
(***************************************************************************)
EXTENDS Scheduler

CONSTANTS free, paid, f1, p1, p2

MCRequests == {f1, p1, p2}
MCTenantOf == [r \in MCRequests |-> IF r = f1 THEN free ELSE paid]
MCTierWeight == [t \in {free, paid} |-> IF t = free THEN 1 ELSE 2]

Config(window, maxInflight, fair) ==
    [window |-> window, maxInflight |-> maxInflight, fair |-> fair]

\* One slot, two slots, Experiment 3's control (one FIFO), and the shipped
\* default, which is also Experiment 2's control (no limiter).
NoWindow ==
    {Config(FALSE, 1, TRUE), Config(FALSE, 2, TRUE), Config(FALSE, 1, FALSE), Config(FALSE, 0, TRUE)}

\* Experiment 1's window.
WithWindow == {Config(TRUE, 1, TRUE)}

AllConfigs == NoWindow \cup WithWindow
=============================================================================
