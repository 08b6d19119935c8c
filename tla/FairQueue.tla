------------------------------ MODULE FairQueue ------------------------------
(***************************************************************************)
(* FairQueue<T> of src/src/fairqueue.rs as a state machine.  push() is one *)
(* step.  pop() is a loop, and its passes are steps of their own so that   *)
(* its termination is something to check; the mutex the scheduler wraps    *)
(* around the structure is what keeps a push from landing between them.    *)
(***************************************************************************)
EXTENDS FairQueueOps

CONSTANTS Keys,     \* tenants
          Items,    \* queued requests
          Offered   \* Offered[k]: the weights pushes for k may carry, in parts of Unit

ASSUME OfferedAssumption == Offered \in [Keys -> SUBSET (Nat \ {0})]

VARIABLES q,      \* the queue
          pc,     \* "idle", or "popping" while pop() loops with the mutex held
          reply   \* what the last call returned

vars == <<q, pc, reply>>

Replies == ({"pushed", "full", "popped"} \X Items) \cup {<<"empty">>}

TypeOK ==
    /\ IsQueue(q, Keys, Items)
    /\ pc \in {"idle", "popping"}
    /\ reply \in Replies

Init ==
    /\ q = EmptyQueue
    /\ pc = "idle"
    /\ reply = <<"empty">>

\* push(): Ok.  Each item is queued at most once at a time: it is moved in.
Push(k, w, i) ==
    /\ pc = "idle"
    /\ i \notin QueuedItems(q)
    /\ ~IsFull(q)
    /\ q' = PushInto(q, k, w, i)
    /\ reply' = <<"pushed", i>>
    /\ UNCHANGED pc

\* push(): Err(item), the item handed back.
PushFull(i) ==
    /\ pc = "idle"
    /\ i \notin QueuedItems(q)
    /\ IsFull(q)
    /\ reply' = <<"full", i>>
    /\ UNCHANGED <<q, pc>>

BeginPop ==
    /\ pc = "idle"
    /\ pc' = "popping"
    /\ UNCHANGED <<q, reply>>

\* active.front()? finds nobody.
PopEmpty ==
    /\ pc = "popping"
    /\ q.active = << >>
    /\ pc' = "idle"
    /\ reply' = <<"empty">>
    /\ UNCHANGED q

PopServe ==
    /\ pc = "popping"
    /\ q.active # << >>
    /\ CanServe(q)
    /\ q' = Serve(q)
    /\ pc' = "idle"
    /\ reply' = <<"popped", FrontItem(q)>>

PopPass ==
    /\ pc = "popping"
    /\ q.active # << >>
    /\ ~CanServe(q)
    /\ q' = PassOn(q)
    /\ UNCHANGED <<pc, reply>>

Next ==
    \/ \E k \in Keys, i \in Items : \E w \in Offered[k] : Push(k, w, i)
    \/ \E i \in Items : PushFull(i)
    \/ BeginPop
    \/ PopEmpty
    \/ PopServe
    \/ PopPass

\* pop() is straight-line code: its loop keeps running.  Nobody has to call.
Fairness == WF_vars(PopEmpty \/ PopServe \/ PopPass)

Spec == Init /\ [][Next]_vars /\ Fairness

------------------------------------------------------------------------------
(* Properties.                                                              *)

\* The rotation and the map of queues always name the same tenants, without
\* repetition and without empty queues, so the `?` on the map lookup in pop()
\* never returns None with items waiting; and only the tenant whose turn it
\* is holds a dispatch worth of credit (fairqueue.rs:84-122).
QueueWellFormed == WellFormed(q)

\* The running `len`, kept apart from the queues it counts, is the number of
\* items waiting and never passes the capacity (push and pop, lines 60-63, 101).
LenCountsItems == q.len = Cardinality(QueuedItems(q)) /\ q.len <= Capacity

\* pop() returns: "some tenant reaches 1 credit within ceil(1 / smallest
\* weight) full rotations" (fairqueue.rs:86-88).
PopTerminates == (pc = "popping") ~> (pc = "idle")

\* The queue is a bounded store of per-tenant FIFOs.
Store == INSTANCE MultiFifo
    WITH fifo <- [k \in Keys |-> ItemsOf(q, k)], asked <- (pc = "popping")

ImplementsMultiFifo == Store!Spec
==============================================================================
