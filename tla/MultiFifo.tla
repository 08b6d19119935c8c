------------------------------ MODULE MultiFifo ------------------------------
(***************************************************************************)
(* What a caller of the fair queue may rely on, whatever the order tenants *)
(* are served in: a bounded store that keeps each tenant's items in        *)
(* arrival order, refuses a push exactly when it is full, and answers      *)
(* every pop, with nothing only when nothing is waiting.                   *)
(***************************************************************************)
EXTENDS Integers, Sequences, FiniteSets

CONSTANTS Keys, Items, Capacity

VARIABLES fifo,     \* each tenant's waiting items, oldest first
          asked,    \* a pop is under way
          reply     \* the answer of the last call

vars == <<fifo, asked, reply>>

Waiting == Cardinality({p \in Keys \X (1 .. Capacity) : p[2] <= Len(fifo[p[1]])})

Init ==
    /\ fifo = [k \in Keys |-> << >>]
    /\ asked = FALSE
    /\ reply = <<"empty">>

Accept(k, i) ==
    /\ ~asked /\ Waiting < Capacity
    /\ fifo' = [fifo EXCEPT ![k] = Append(@, i)]
    /\ reply' = <<"pushed", i>>
    /\ UNCHANGED asked

Refuse(i) ==
    /\ ~asked /\ Waiting = Capacity
    /\ reply' = <<"full", i>>
    /\ UNCHANGED <<fifo, asked>>

Ask ==
    /\ ~asked
    /\ asked' = TRUE
    /\ UNCHANGED <<fifo, reply>>

Answer ==
    /\ asked
    /\ asked' = FALSE
    /\ \/ \E k \in Keys :
            /\ fifo[k] # << >>
            /\ reply' = <<"popped", Head(fifo[k])>>
            /\ fifo' = [fifo EXCEPT ![k] = Tail(@)]
       \/ /\ Waiting = 0
          /\ reply' = <<"empty">>
          /\ UNCHANGED fifo

Next ==
    \/ \E k \in Keys, i \in Items : Accept(k, i)
    \/ \E i \in Items : Refuse(i)
    \/ Ask
    \/ Answer

Spec == Init /\ [][Next]_vars /\ WF_vars(Answer)
==============================================================================
