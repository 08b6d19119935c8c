---------------------------- MODULE FairQueueOps ----------------------------
(***************************************************************************)
(* The data structure of src/src/fairqueue.rs: one FIFO per tenant with    *)
(* work waiting, served by deficit round robin.  This module holds the     *)
(* value of the structure and the effect of each of its steps; FairQueue   *)
(* makes them a state machine and Scheduler shares them behind its mutex.  *)
(*                                                                         *)
(* The code keeps weights and deficits in f64 and a dispatch costs 1.0.    *)
(* Every weight it uses is a multiple of 1/2, so credit is counted here in *)
(* integer parts of a dispatch: a dispatch costs Unit parts (Unit = 2 for  *)
(* the shipped tiers: free weighs 1 part, paid 2).                         *)
(***************************************************************************)
EXTENDS Integers, Sequences, FiniteSets, Functions

CONSTANTS Unit,      \* parts of credit that one dispatch costs (1.0 in the code)
          Capacity   \* most items the structure holds, over all tenants

ASSUME QueueAssumption == Unit \in Nat \ {0} /\ Capacity \in Nat

\* A queue as the code stores it: `queues` maps a tenant to its entry and is
\* defined only on tenants with work waiting, `active` is the rotation.
QueueEntry(Items) == [items : Seq(Items), weight : Nat \ {0}, deficit : Nat]

IsQueue(q, Keys, Items) ==
    /\ q = [queues |-> q.queues, active |-> q.active,
            turnStarted |-> q.turnStarted, len |-> q.len]
    /\ DOMAIN q.queues \subseteq Keys
    /\ q.queues \in [DOMAIN q.queues -> QueueEntry(Items)]
    /\ q.active \in Seq(Keys)
    /\ q.turnStarted \in BOOLEAN
    /\ q.len \in Nat

EmptyQueue ==
    [queues |-> [k \in {} |-> [items |-> << >>, weight |-> 1, deficit |-> 0]],
     active |-> << >>, turnStarted |-> FALSE, len |-> 0]

\* Mutation of IsFull: off by one.
IsFullLate(q) == q.len > Capacity

IsFull(q) == q.len >= Capacity

\* Mutation of JoinNoCredit: the newcomer is served next.
JoinAtFront(q, k, w, i) ==
    [queues |-> [j \in DOMAIN q.queues \cup {k} |->
                    IF j = k THEN [items |-> <<i>>, weight |-> w, deficit |-> 0]
                             ELSE q.queues[j]],
     active |-> <<k>> \o q.active,
     turnStarted |-> FALSE, len |-> q.len + 1]

\* push() past its capacity check.  A tenant already waiting keeps the weight
\* it came with; a new one joins the back of the rotation without credit.
JoinNoCredit(q, k, w, i) ==
    [queues |-> [j \in DOMAIN q.queues \cup {k} |->
                    IF j = k THEN [items |-> <<i>>, weight |-> w, deficit |-> 0]
                             ELSE q.queues[j]],
     active |-> Append(q.active, k),
     turnStarted |-> q.turnStarted, len |-> q.len + 1]

\* Mutation of Enqueue: last in, first out.
EnqueueFirst(q, k, i) ==
    [q EXCEPT !.queues[k].items = <<i>> \o @, !.len = @ + 1]

Enqueue(q, k, i) ==
    [queues |-> [q.queues EXCEPT ![k] =
                    [items |-> Append(@.items, i), weight |-> @.weight,
                     deficit |-> @.deficit]],
     active |-> q.active, turnStarted |-> q.turnStarted, len |-> q.len + 1]

PushInto(q, k, w, i) ==
    IF k \in DOMAIN q.queues THEN Enqueue(q, k, i) ELSE JoinNoCredit(q, k, w, i)

Front(q) == Head(q.active)

\* Mutation of Rotate: the turn never passes.
RotateNot(s) == s

Rotate(s) == Append(Tail(s), Head(s))

\* The front tenant's credit once it has been given this turn's weight.
Credit(q) ==
    q.queues[Front(q)].deficit
        + (IF q.turnStarted THEN 0 ELSE q.queues[Front(q)].weight)

CanServe(q) == Credit(q) >= Unit

FrontItem(q) == Head(q.queues[Front(q)].items)

\* One pass of pop()'s loop that returns an item: a tenant left with nothing
\* leaves the rotation and forfeits its credit, one out of credit goes to the
\* back, one that can still pay keeps the turn.
LeaveRotation(q) ==
    [queues |-> [j \in DOMAIN q.queues \ {Front(q)} |-> q.queues[j]],
     active |-> Tail(q.active), turnStarted |-> FALSE, len |-> q.len - 1]

SpendTurn(q) ==
    LET e    == q.queues[Front(q)]
        left == Credit(q) - Unit
    IN  [queues |-> [q.queues EXCEPT ![Front(q)] =
                        [items |-> Tail(e.items), weight |-> e.weight, deficit |-> left]],
         active |-> IF left < Unit THEN Rotate(q.active) ELSE q.active,
         turnStarted |-> left >= Unit,
         len |-> q.len - 1]

\* Mutation of Serve: a tenant with nothing left stays in the rotation.
ServeKeepsEmpty(q) == SpendTurn(q)

Serve(q) ==
    IF Len(q.queues[Front(q)].items) = 1 THEN LeaveRotation(q) ELSE SpendTurn(q)

\* Mutation of PassOn: the credit earned this turn is lost.
PassForfeits(q) == [q EXCEPT !.active = Rotate(@), !.turnStarted = FALSE]

\* One pass of the loop that returns nothing: the front tenant keeps what it
\* earned this turn and goes to the back.
PassOn(q) ==
    [queues |-> [q.queues EXCEPT ![Front(q)] =
                    [items |-> @.items, weight |-> @.weight, deficit |-> Credit(q)]],
     active |-> Rotate(q.active), turnStarted |-> FALSE, len |-> q.len]

------------------------------------------------------------------------------
(* What is waiting, and what makes a queue well formed.                     *)

ItemsOf(q, k) == IF k \in DOMAIN q.queues THEN q.queues[k].items ELSE << >>

QueuedItems(q) == UNION {Range(q.queues[k].items) : k \in DOMAIN q.queues}

\* The rotation lists exactly the tenants with work waiting, each once.
RotationOK(q) ==
    /\ Range(q.active) = DOMAIN q.queues
    /\ IsInjective(q.active)
    /\ \A k \in DOMAIN q.queues : q.queues[k].items # << >>

\* Credit worth a dispatch is only ever held by the tenant whose turn it is:
\* nobody saves up for a burst.
CreditOK(q) ==
    /\ q.turnStarted => q.active # << >> /\ q.queues[Front(q)].deficit >= Unit
    /\ \A k \in DOMAIN q.queues :
          q.queues[k].deficit >= Unit => q.turnStarted /\ k = Front(q)

WellFormed(q) == RotationOK(q) /\ CreditOK(q)
==============================================================================
