------------------------------ MODULE Admission ------------------------------
(***************************************************************************)
(* What the limiter promises (ROADMAP D5): a request the gateway has is in *)
(* a queue of at most Depth requests or in a service of at most `slots` of *)
(* them, and goes from the one straight to the other.  Batching weakens    *)
(* this: a request may be taken from the queue before it has a slot.       *)
(***************************************************************************)
EXTENDS Naturals, FiniteSets

CONSTANTS Requests, Depth

VARIABLES slots,     \* the limit on service; 0 for none
          batched,   \* requests may be taken ahead of their slots
          queue,     \* requests in line
          taken,     \* out of the line, and without a slot
          service    \* requests that occupy a slot

vars == <<slots, batched, queue, taken, service>>

Init ==
    /\ slots \in Nat /\ batched \in BOOLEAN
    /\ queue = {} /\ taken = {} /\ service = {}

Enter(r) ==
    /\ r \notin queue \cup taken \cup service
    /\ Cardinality(queue) < Depth
    /\ queue' = queue \cup {r}
    /\ UNCHANGED <<slots, batched, taken, service>>

Free == slots > 0 => Cardinality(service) < slots

Grant(r) ==
    /\ r \in queue /\ Free
    /\ queue' = queue \ {r}
    /\ service' = service \cup {r}
    /\ UNCHANGED <<slots, batched, taken>>

Take(r) ==
    /\ batched /\ r \in queue
    /\ queue' = queue \ {r}
    /\ taken' = taken \cup {r}
    /\ UNCHANGED <<slots, batched, service>>

GrantTaken(r) ==
    /\ r \in taken /\ Free
    /\ taken' = taken \ {r}
    /\ service' = service \cup {r}
    /\ UNCHANGED <<slots, batched, queue>>

\* Its client is gone.
Drop(r) ==
    /\ r \in taken
    /\ taken' = taken \ {r}
    /\ UNCHANGED <<slots, batched, queue, service>>

Leave(r) ==
    /\ r \in service
    /\ service' = service \ {r}
    /\ UNCHANGED <<slots, batched, queue, taken>>

Next ==
    \E r \in Requests :
        Enter(r) \/ Grant(r) \/ Take(r) \/ GrantTaken(r) \/ Drop(r) \/ Leave(r)

Spec == Init /\ [][Next]_vars
==============================================================================
